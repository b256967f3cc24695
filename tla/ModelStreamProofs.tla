-------------------------- MODULE ModelStreamProofs --------------------------
(***************************************************************************)
(* Proofs about ModelStream: the output of a call comes from one response  *)
(* body, response bodies are closed, a call that was cut off keeps what    *)
(* was streamed and is not retried by its caller, no tool call of an       *)
(* accepted turn holds a fragment of another, and an accepted turn is what *)
(* was on the wire.                                                        *)
(***************************************************************************)
EXTENDS ModelStream, FiniteSetTheorems, FunctionTheorems, SequenceTheorems, WellFoundedInduction, TLAPS

-----------------------------------------------------------------------------
(* The inductive invariant.                                                *)

EventKinds == {"", "text", "thinking", "delta", "call", "done", "error"}

StopReasons == {"", "natural", "length"}

Errors == Seq(Tags)

PiecesOf(B) == [body : B, at : Nat, id : Nat, index : Nat, final : BOOLEAN]

Events(B) ==
  [kind : EventKinds, id : Nat, index : Nat, pieces : Seq(PiecesOf(B)), stop : StopReasons, err : Errors]

\* Events of the bodies B: only text, reasoning and tool calls carry output.
EventsOf(B) == {e \in Events(B) : e.kind \in {"", "done", "error"} => e.pieces = <<>>}

\* Events without output.
SilentEvents ==
  [kind : {"", "done", "error"}, id : Nat, index : Nat, pieces : {<<>>}, stop : StopReasons, err : Errors]

ParsersOf(B) ==
  [pending : Seq(EventsOf(B)), finished : BOOLEAN, stop : StopReasons, buffer : Seq(PiecesOf(B)),
   inThink : BOOLEAN, items : [Items -> [id : Nat, deltas : BOOLEAN]]]

AllFrames == WireFrames \cup hostFrames \cup {[kind |-> "canceled"]}

BodiesOf(B) ==
  [driver : DOMAIN config.drivers, open : BOOLEAN, frames : Seq(AllFrames), parser : ParsersOf(B)]

Chains == [at : Nat \ {0}, errs : Errors, attempt : Nat]

Retries ==
  [retries : Nat, emitted : BOOLEAN, terminal : BOOLEAN, event : SilentEvents, wait : {"open", "recv"}]

\* bytes, err and assistant are not typed: nothing here depends on them.
Turns(b, old) ==
  [events : Seq(EventsOf({b})), sawTerminal : BOOLEAN, bytes : {old.bytes}, err : {old.err},
   assistant : {old.assistant}]

Types ==
  /\ config \in Configs /\ ctx \in BOOLEAN /\ pc \in PCs
  /\ current \in Nat
  /\ chain \in Chains
  /\ retry \in Retries
  /\ turn \in Turns(current, turn)

Bodied ==
  /\ bodies \in Seq(BodiesOf(Nat))
  /\ \A b \in DOMAIN bodies : bodies[b] \in BodiesOf({b})
  /\ current <= Len(bodies)

Opening == {"driver", "request", "backoff", "retryWait"}

\* While a stream is opened or replaced nothing was handed on.
Silent ==
  /\ pc \in Opening => /\ ~retry.emitted /\ ~retry.terminal
                       /\ turn.events \in Seq(SilentEvents)
                       /\ current # 0 => config.retry
  /\ current = 0 => pc \in Opening \cup {"returned"} /\ turn.events = <<>>
                    /\ turn.assistant = EmptyTurn
  /\ pc \in {"request", "backoff"} => chain.at <= Len(config.drivers)
  /\ pc = "retryWait" /\ retry.wait = "recv" => current # 0

\* retryingStream knows what it handed on.
Told ==
  pc # "returned" /\ config.retry =>
    /\ ~retry.emitted /\ ~retry.terminal => turn.events \in Seq(SilentEvents)
    /\ retry.terminal => \E i \in DOMAIN turn.events : isTerminal(turn.events[i])

\* Only the current body is open, and none while a response is requested or when the call has returned.
Closed ==
  /\ \A b \in DOMAIN bodies : bodies[b].open => b = current
  /\ \/ pc \in {"driver", "request", "backoff", "returned"}
     \/ pc = "retryWait" /\ retry.wait = "open"
     => \A b \in DOMAIN bodies : ~bodies[b].open

IInv ==
  /\ Types
  /\ Bodied
  /\ Silent
  /\ Told
  /\ Closed
  /\ PartialKept

-----------------------------------------------------------------------------
(* Errors, events and sequences.                                           *)

LEMMA SeqGrows ==
  ASSUME NEW S, NEW T, S \subseteq T, NEW s \in Seq(S)
  PROVE  s \in Seq(T)
OBVIOUS

LEMMA AppendFacts ==
  ASSUME NEW S, NEW s \in Seq(S), NEW e \in S
  PROVE  /\ Append(s, e) \in Seq(S)
         /\ Len(Append(s, e)) = Len(s) + 1
         /\ DOMAIN Append(s, e) = 1..(Len(s) + 1)
         /\ \A i \in 1..Len(s) : Append(s, e)[i] = s[i]
         /\ Append(s, e)[Len(s) + 1] = e
OBVIOUS

LEMMA SingleError ==
  ASSUME NEW tag \in Tags
  PROVE  <<tag>> \in Errors
BY DEF Errors

LEMMA NilError == <<>> \in Errors
BY DEF Errors

\* %w around an error.
LEMMA WrappedError ==
  ASSUME NEW tag \in Tags, NEW err \in Errors
  PROVE  /\ <<tag>> \o err \in Errors
         /\ <<tag>> \o err # <<>>
         /\ 1 \in DOMAIN (<<tag>> \o err)
         /\ (<<tag>> \o err)[1] = tag
BY DEF Errors

LEMMA JoinedErrors ==
  ASSUME NEW err \in Errors, NEW other \in Errors
  PROVE  err \o other \in Errors
BY DEF Errors

\* A failure after output is marked, and the mark says that it may not be retried.
LEMMA PartialNotRetryable ==
  ASSUME NEW err \in Errors
  PROVE  ~IsRetryableError(<<"partial">> \o err)
<1> DEFINE e == <<"partial">> \o err
<1>1. /\ e \in Seq(Tags) /\ 1 \in DOMAIN e /\ e[1] = "partial"
  BY WrappedError DEF Tags, Errors
<1> HIDE DEF e
<1>2. \A i \in DOMAIN e : i \in Nat /\ i >= 1
  BY <1>1
<1>3. 1 \in {i \in DOMAIN e : e[i] \in Marked}
  BY <1>1 DEF Marked
<1>4. ASSUME NEW i \in {j \in DOMAIN e : e[j] \in Marked}, e[i] = "server", \A j \in {k \in DOMAIN e : e[k] \in Marked} : i <= j
      PROVE  FALSE
  <2>1. i <= 1
    BY <1>3, <1>4
  <2>2. i = 1
    BY <2>1, <1>2
  <2> QED BY <2>2, <1>1, <1>4
<1>5. ~IsRetryableError(e)
  BY <1>3, <1>4 DEF IsRetryableError
<1> QED BY <1>5 DEF e

\* Errors of the call's own that are never retried.
LEMMA OwnErrorNotRetryable ==
  ASSUME NEW tag \in {"canceled", "veto", "limit", "callback", "panic", "missingTerminal", "duplicateID",
                      "manyTerminals", "afterTerminal"}
  PROVE  ~IsRetryableError(<<tag>>)
<1> DEFINE e == <<tag>>
<1>1. DOMAIN e = {1} /\ e[1] = tag
  OBVIOUS
<1> HIDE DEF e
<1>2. {i \in DOMAIN e : e[i] \in Marked} = {}
  BY <1>1 DEF Marked
<1>3. ~isRetryableSystemError(e)
  BY <1>1 DEF isRetryableSystemError, is
<1>4. ~IsRetryableError(e)
  BY <1>2, <1>3 DEF IsRetryableError
<1> QED BY <1>4 DEF e

LEMMA SilentFields ==
  ASSUME NEW e \in SilentEvents
  PROVE  e.kind \in {"", "done", "error"} /\ e.pieces = <<>> /\ e.err \in Errors
BY DEF SilentEvents

LEMMA SilentIsEvent ==
  ASSUME NEW e \in SilentEvents, NEW B
  PROVE  e \in EventsOf(B)
<1>1. <<>> \in Seq(PiecesOf(B))
  OBVIOUS
<1>2. e \in Events(B)
  BY <1>1 DEF SilentEvents, Events, EventKinds
<1> QED BY <1>2, SilentFields DEF EventsOf

LEMMA EventFields ==
  ASSUME NEW B, NEW e \in EventsOf(B)
  PROVE  /\ e.kind \in EventKinds /\ e.err \in Errors /\ e.pieces \in Seq(PiecesOf(B))
         /\ e.kind \in {"", "done", "error"} => e \in SilentEvents
BY DEF EventsOf, Events, SilentEvents

LEMMA SilentSequences ==
  ASSUME NEW s \in Seq(SilentEvents), NEW B
  PROVE  s \in Seq(EventsOf(B))
<1>1. SilentEvents \subseteq EventsOf(B)
  BY SilentIsEvent
<1> QED BY <1>1, SeqGrows

LEMMA NoEventSilent == NoEvent \in SilentEvents /\ NoEvent.kind = "" /\ NoEvent.err = <<>>
BY NilError DEF NoEvent, SilentEvents, StopReasons

LEMMA SilentHasNoContent ==
  ASSUME NEW s \in Seq(SilentEvents)
  PROVE  ~hasContent(s)
<1>1. ASSUME NEW i \in DOMAIN s PROVE s[i].pieces = <<>>
  <2>1. s[i] \in SilentEvents
    OBVIOUS
  <2> QED BY <2>1, SilentFields
<1> QED BY <1>1 DEF hasContent

-----------------------------------------------------------------------------
(* Frames and parsers.                                                     *)

LEMMA ItemsAreNumbers == \A i \in Items : i \in Nat
BY ItemsAssumption

LEMMA WireFrameFields ==
  ASSUME NEW f \in WireFrames
  PROVE  /\ f.kind \in {"call", "itemDone", "tool", "args"} => f.item \in Items
         /\ f.kind = "args" => f.final \in BOOLEAN
         /\ f.kind \in {"finish", "end"} => f.stop \in StopReasons
         /\ f.kind = "tag" => f.text \in BOOLEAN /\ f.thinking \in BOOLEAN /\ f.inside \in BOOLEAN
         /\ f.kind = "text" => f.held \in BOOLEAN
BY DEF WireFrames, StopReasons

LEMMA HostFrameFields ==
  ASSUME NEW f \in hostFrames
  PROVE  /\ f.kind \in {"itemDone", "tool"} => f.item \in Items
         /\ f.kind = "args" => f.id \in Nat /\ f.index \in Nat /\ f.final \in BOOLEAN
<1> DEFINE Sent == {g \in WireFrames : g.kind \in {"tool", "torn", "endTorn", "nilError", "failed", "rejected", "cut", "eof"}}
           Labels == [kind : {"args"}, id : {0} \cup Items, index : {0} \cup Items, final : BOOLEAN]
<1>1. f \in Sent \cup {[kind |-> "text", held |-> FALSE], [kind |-> "end", stop |-> "natural"]} \cup Labels
  BY DEF hostFrames
<1>2. CASE f \in Sent
  BY <1>2, WireFrameFields
<1>3. CASE f = [kind |-> "text", held |-> FALSE] \/ f = [kind |-> "end", stop |-> "natural"]
  <2>1. f.kind \in {"text", "end"}
    BY <1>3
  <2> QED BY <2>1
<1>4. CASE f \in Labels
  <2>1. f.kind = "args" /\ f.id \in {0} \cup Items /\ f.index \in {0} \cup Items /\ f.final \in BOOLEAN
    BY <1>4
  <2> QED BY <2>1, ItemsAreNumbers
<1> HIDE DEF Sent, Labels
<1> QED BY <1>1, <1>2, <1>3, <1>4

CanceledFrame == [kind |-> "canceled"]

LEMMA FramesOf ==
  ASSUME NEW body, NEW f \in Frames(body)
  PROVE  IF protocol(body) = "host" THEN f \in hostFrames \cup {CanceledFrame}
         ELSE f \in WireFrames \cup {CanceledFrame}
<1> DEFINE ready == IF protocol(body) = "host" THEN hostFrames
                    ELSE {g \in WireFrames : mayFollow(protocol(body), body.frames, g)}
<1>1. f \in ready \cup {CanceledFrame}
  BY DEF Frames, CanceledFrame
<1> QED BY <1>1

LEMMA FrameInAll ==
  ASSUME NEW body, NEW f \in Frames(body)
  PROVE  f \in AllFrames
BY FramesOf DEF AllFrames, CanceledFrame

LEMMA PieceTyped ==
  ASSUME NEW b \in DOMAIN bodies, bodies[b].frames \in Seq(AllFrames), NEW f \in Frames(bodies[b])
  PROVE  pieceOf(b, f) \in PiecesOf({b})
<1> DEFINE n == Len(bodies[b].frames) + 1
<1>1. n \in Nat
  OBVIOUS
<1>2. ASSUME NEW id \in Nat, NEW index \in Nat, NEW final \in BOOLEAN
      PROVE  Piece(b, n, id, index, final) \in PiecesOf({b})
  BY <1>1 DEF Piece, PiecesOf
<1>3. Items \subseteq Nat /\ 0 \in Nat
  BY ItemsAreNumbers
<1>4. CanceledFrame.kind = "canceled"
  BY DEF CanceledFrame
<1> HIDE DEF n
<1>5. pieceOf(b, f) =
        CASE f.kind = "args" /\ protocol(bodies[b]) = "host" -> Piece(b, n, f.id, f.index, f.final)
          [] f.kind = "args" /\ protocol(bodies[b]) # "host" -> Piece(b, n, f.item, f.item, f.final)
          [] f.kind \in {"itemDone", "tool"} -> Piece(b, n, f.item, 0, TRUE)
          [] OTHER -> Piece(b, n, 0, 0, FALSE)
  BY DEF pieceOf, n
<1>6. CASE protocol(bodies[b]) = "host"
  <2>1. f \in hostFrames \cup {CanceledFrame}
    BY <1>6, FramesOf
  <2>2. /\ f.kind \in {"itemDone", "tool"} => f.item \in Items
        /\ f.kind = "args" => f.id \in Nat /\ f.index \in Nat /\ f.final \in BOOLEAN
    BY <2>1, <1>4, HostFrameFields
  <2>3. CASE f.kind = "args"
    BY <1>2, <1>5, <1>6, <2>2, <2>3
  <2>4. CASE f.kind \in {"itemDone", "tool"}
    BY <1>2, <1>3, <1>5, <1>6, <2>2, <2>4
  <2>5. CASE f.kind \notin {"args", "itemDone", "tool"}
    BY <1>2, <1>3, <1>5, <2>5
  <2> QED BY <2>3, <2>4, <2>5
<1>7. CASE protocol(bodies[b]) # "host"
  <2>1. f \in WireFrames \cup {CanceledFrame}
    BY <1>7, FramesOf
  <2>2. /\ f.kind \in {"args", "itemDone", "tool"} => f.item \in Items
        /\ f.kind = "args" => f.final \in BOOLEAN
    BY <2>1, <1>4, WireFrameFields
  <2>3. CASE f.kind = "args"
    BY <1>2, <1>3, <1>5, <1>7, <2>2, <2>3
  <2>4. CASE f.kind \in {"itemDone", "tool"}
    BY <1>2, <1>3, <1>5, <1>7, <2>2, <2>4
  <2>5. CASE f.kind \notin {"args", "itemDone", "tool"}
    BY <1>2, <1>3, <1>5, <2>5
  <2> QED BY <2>3, <2>4, <2>5
<1> QED BY <1>6, <1>7

LEMMA EventsTyped ==
  ASSUME NEW B, NEW pieces \in Seq(PiecesOf(B)), NEW id \in Nat, NEW index \in Nat,
         NEW stop \in StopReasons, NEW err \in Errors
  PROVE  /\ Text(pieces) \in EventsOf(B) /\ Thinking(pieces) \in EventsOf(B)
         /\ ToolCallDelta(id, index, pieces) \in EventsOf(B) /\ ToolCall(id, pieces) \in EventsOf(B)
         /\ EventDone(stop) \in EventsOf(B) /\ EventError(err) \in EventsOf(B)
<1>3. ASSUME NEW e \in Events(B), e.kind \notin {"", "done", "error"} \/ e.pieces = <<>>
      PROVE  e \in EventsOf(B)
  BY <1>3 DEF EventsOf
<1>4. NoEvent \in Events(B)
  BY NoEventSilent, SilentIsEvent DEF EventsOf
<1>6. Text(pieces) \in EventsOf(B) /\ Thinking(pieces) \in EventsOf(B)
  BY <1>3, <1>4 DEF Text, Thinking, Events, EventKinds
<1>7. ToolCall(id, pieces) \in EventsOf(B)
  BY <1>3, <1>4 DEF ToolCall, Events, EventKinds
<1>8. ToolCallDelta(id, index, pieces) \in EventsOf(B)
  BY <1>3, <1>4 DEF ToolCallDelta, Events, EventKinds
<1>9. NoEvent.pieces = <<>>
  BY NoEventSilent, SilentFields
<1>10. EventDone(stop) \in EventsOf(B)
  BY <1>3, <1>4, <1>9 DEF EventDone, Events, EventKinds
<1>11. EventError(err) \in EventsOf(B)
  BY <1>3, <1>4, <1>9 DEF EventError, Events, EventKinds
<1> QED BY <1>6, <1>7, <1>8, <1>10, <1>11

LEMMA ParserFields ==
  ASSUME NEW B, NEW p \in ParsersOf(B)
  PROVE  /\ p.pending \in Seq(EventsOf(B)) /\ p.buffer \in Seq(PiecesOf(B)) /\ p.stop \in StopReasons
         /\ p.finished \in BOOLEAN /\ p.inThink \in BOOLEAN
         /\ \A i \in Items : p.items[i].id \in Nat
BY DEF ParsersOf

LEMMA NewParserTyped ==
  ASSUME NEW B
  PROVE  NewParser \in ParsersOf(B)
BY DEF NewParser, ParsersOf, StopReasons

LEMMA EmitTyped ==
  ASSUME NEW B, NEW p \in ParsersOf(B), NEW e \in EventsOf(B)
  PROVE  emit(p, e) \in ParsersOf(B)
<1>1. Append(p.pending, e) \in Seq(EventsOf(B))
  BY ParserFields, AppendFacts
<1> QED BY <1>1 DEF emit, ParsersOf

LEMMA ParserUpdates ==
  ASSUME NEW B, NEW p \in ParsersOf(B)
  PROVE  /\ [p EXCEPT !.finished = TRUE] \in ParsersOf(B)
         /\ \A s \in StopReasons : [p EXCEPT !.stop = s] \in ParsersOf(B)
         /\ \A q \in Seq(EventsOf(B)) : [p EXCEPT !.pending = q] \in ParsersOf(B)
BY DEF ParsersOf

LEMMA ItemUpdates ==
  ASSUME NEW B, NEW p \in ParsersOf(B), NEW i \in Items
  PROVE  /\ recordOutputItem(p, i) \in ParsersOf(B)
         /\ [p EXCEPT !.items[i].deltas = TRUE] \in ParsersOf(B)
         /\ recordOutputItem(p, i).items[i].id \in Nat
<1>1. p.items \in [Items -> [id : Nat, deltas : BOOLEAN]]
  BY DEF ParsersOf
<1>2. i \in Nat
  BY ItemsAssumption
<1> DEFINE a == [p.items EXCEPT ![i].id = i]
           d == [p.items EXCEPT ![i].deltas = TRUE]
<1>3. a \in [Items -> [id : Nat, deltas : BOOLEAN]] /\ d \in [Items -> [id : Nat, deltas : BOOLEAN]]
  BY <1>1, <1>2
<1>4. recordOutputItem(p, i) = [p EXCEPT !.items = a] /\ [p EXCEPT !.items[i].deltas = TRUE] = [p EXCEPT !.items = d]
  BY DEF recordOutputItem, ParsersOf
<1> HIDE DEF a, d
<1>5. recordOutputItem(p, i) \in ParsersOf(B) /\ [p EXCEPT !.items = d] \in ParsersOf(B)
  BY <1>3, <1>4 DEF ParsersOf
<1> QED BY <1>4, <1>5, ParserFields

\* What a parser makes of a frame: a parser of the same bodies, and an error or none.
Parsed(B) == [parser : ParsersOf(B), err : Errors]

LEMMA OutcomeTyped ==
  ASSUME NEW B, NEW p \in ParsersOf(B), NEW err \in Errors
  PROVE  Outcome(p, err) \in Parsed(B)
BY DEF Outcome, Parsed

LEMMA ErrorsNamed ==
  /\ \A f : apiError(f) \in Errors
  /\ <<>> \in Errors /\ <<"plain">> \in Errors /\ <<"cut">> \in Errors /\ <<"eof">> \in Errors
  /\ <<"canceled">> \in Errors
BY SingleError, NilError DEF apiError, Tags

LEMMA QueueTyped ==
  ASSUME NEW B, NEW p \in ParsersOf(B), NEW k, NEW pieces \in Seq(PiecesOf(B))
  PROVE  queue(p, k, pieces) \in ParsersOf(B)
<1>1. Thinking(pieces) \in EventsOf(B) /\ Text(pieces) \in EventsOf(B)
  BY EventsTyped, NilError DEF StopReasons
<1>2. emit(p, Thinking(pieces)) \in ParsersOf(B) /\ emit(p, Text(pieces)) \in ParsersOf(B)
  BY <1>1, EmitTyped
<1> QED BY <1>2 DEF queue

\* What the splitter hands on of a kind, and the parser it leaves behind.
LEMMA SplitterTyped ==
  ASSUME NEW B, NEW p \in ParsersOf(B), NEW piece \in PiecesOf(B), NEW f, f.kind \in {"text", "tag"},
         f.kind = "tag" => f.inside \in BOOLEAN
  PROVE  /\ \A k : splitter_process(p, f, piece, k) \in Seq(PiecesOf(B))
         /\ splitter_after(p, f, piece) \in ParsersOf(B)
<1>1. ASSUME NEW k
      PROVE  splitter_process(p, f, piece, k) \in Seq(PiecesOf(B))
  <2> DEFINE heldBack == IF k = mode(p) THEN p.buffer ELSE <<>>
             own == IF carries(p, f, k) THEN <<piece>> ELSE <<>>
  <2>1. heldBack \in Seq(PiecesOf(B))
    BY ParserFields
  <2>2. own \in Seq(PiecesOf(B))
    OBVIOUS
  <2>3. splitter_process(p, f, piece, k) = heldBack \o own
    BY DEF splitter_process
  <2> HIDE DEF heldBack, own
  <2> QED BY <2>1, <2>2, <2>3
<1>2. splitter_after(p, f, piece) \in ParsersOf(B)
  <2> DEFINE rest == IF f.kind = "text" /\ f.held THEN <<piece>> ELSE <<>>
             inside == IF f.kind = "tag" THEN f.inside ELSE p.inThink
  <2>1. rest \in Seq(PiecesOf(B))
    OBVIOUS
  <2>2. inside \in BOOLEAN
    BY ParserFields
  <2>3. splitter_after(p, f, piece) = [p EXCEPT !.buffer = rest, !.inThink = inside]
    BY DEF splitter_after
  <2> HIDE DEF rest, inside
  <2> QED BY <2>1, <2>2, <2>3 DEF ParsersOf
<1> QED BY <1>1, <1>2

LEMMA ProcessTyped ==
  ASSUME NEW B, NEW p \in ParsersOf(B), NEW piece \in PiecesOf(B), NEW f, f.kind \in {"text", "tag"},
         f.kind = "tag" => f.inside \in BOOLEAN
  PROVE  processChoiceDelta(p, f, piece) \in ParsersOf(B)
<1> DEFINE after == splitter_after(p, f, piece)
           thought == splitter_process(p, f, piece, "thinking")
           said == splitter_process(p, f, piece, "text")
           first == queue(after, "thinking", thought)
<1>1. after \in ParsersOf(B) /\ thought \in Seq(PiecesOf(B)) /\ said \in Seq(PiecesOf(B))
  BY SplitterTyped
<1>2. processChoiceDelta(p, f, piece) = queue(first, "text", said)
  BY DEF processChoiceDelta
<1> HIDE DEF after, thought, said
<1>3. first \in ParsersOf(B)
  BY <1>1, QueueTyped
<1> HIDE DEF first
<1> QED BY <1>1, <1>2, <1>3, QueueTyped

LEMMA DoneMarkerTyped ==
  ASSUME NEW B, NEW p \in ParsersOf(B)
  PROVE  handleDoneMarker(p) \in ParsersOf(B)
<1> DEFINE flushed == queue(p, mode(p), p.buffer)
           done == emit(flushed, EventDone(p.stop))
<1>1. p.buffer \in Seq(PiecesOf(B)) /\ p.stop \in StopReasons /\ <<>> \in Seq(PiecesOf(B))
  BY ParserFields
<1>2. EventDone(p.stop) \in EventsOf(B)
  BY <1>1, EventsTyped, NilError
<1>3. handleDoneMarker(p) = [done EXCEPT !.finished = TRUE, !.buffer = <<>>]
  BY DEF handleDoneMarker
<1>4. flushed \in ParsersOf(B)
  BY <1>1, QueueTyped
<1> HIDE DEF flushed
<1>5. done \in ParsersOf(B)
  BY <1>2, <1>4, EmitTyped
<1> HIDE DEF done
<1> QED BY <1>1, <1>3, <1>5 DEF ParsersOf

LEMMA ChatTyped ==
  ASSUME NEW B, NEW p \in ParsersOf(B), NEW piece \in PiecesOf(B), NEW f \in WireFrames
  PROVE  chat(p, f, piece) \in Parsed(B)
<1>1. <<piece>> \in Seq(PiecesOf(B)) /\ <<>> \in Seq(PiecesOf(B))
  OBVIOUS
<1>2. CASE f.kind \in {"text", "tag"}
  <2>1. Outcome(processChoiceDelta(p, f, piece), <<>>) \in Parsed(B)
    BY <1>2, WireFrameFields, ProcessTyped, OutcomeTyped, NilError
  <2> QED BY <2>1, <1>2 DEF chat
<1>4. CASE f.kind \in {"call", "args"}
  <2>1. f.item \in Nat /\ 0 \in Nat
    BY <1>4, WireFrameFields, ItemsAreNumbers
  <2>2. ToolCallDelta(f.item, f.item, <<>>) \in EventsOf(B) /\ ToolCallDelta(0, f.item, <<piece>>) \in EventsOf(B)
    BY <1>1, <2>1, EventsTyped, NilError DEF StopReasons
  <2>3. /\ Outcome(emit(p, ToolCallDelta(f.item, f.item, <<>>)), <<>>) \in Parsed(B)
        /\ Outcome(emit(p, ToolCallDelta(0, f.item, <<piece>>)), <<>>) \in Parsed(B)
    BY <2>2, EmitTyped, OutcomeTyped, NilError
  <2> QED BY <2>3, <1>4 DEF chat
<1>5. CASE f.kind = "finish"
  <2>1. f.stop \in StopReasons
    BY <1>5, WireFrameFields
  <2>2. Outcome([p EXCEPT !.stop = f.stop], <<>>) \in Parsed(B)
    BY <2>1, ParserUpdates, OutcomeTyped, NilError
  <2> QED BY <2>2, <1>5 DEF chat
<1>6. CASE f.kind = "end"
  <2>1. Outcome(handleDoneMarker(p), <<>>) \in Parsed(B)
    BY DoneMarkerTyped, OutcomeTyped, NilError
  <2> QED BY <2>1, <1>6 DEF chat
<1>7. CASE f.kind \in {"failed", "rejected"}
  <2>1. Outcome(p, apiError(f)) \in Parsed(B)
    BY OutcomeTyped, ErrorsNamed
  <2> QED BY <2>1, <1>7 DEF chat
<1>8. CASE f.kind \notin {"text", "tag", "call", "args", "finish", "end", "failed", "rejected"}
  <2>1. Outcome(p, <<>>) \in Parsed(B)
    BY OutcomeTyped, NilError
  <2> QED BY <2>1, <1>8 DEF chat
<1> QED BY <1>2, <1>4, <1>5, <1>6, <1>7, <1>8

LEMMA ResponsesTyped ==
  ASSUME NEW B, NEW p \in ParsersOf(B), NEW piece \in PiecesOf(B), NEW f \in WireFrames
  PROVE  responses(p, f, piece) \in Parsed(B)
<1>1. <<piece>> \in Seq(PiecesOf(B))
  OBVIOUS
<1>2. CASE f.kind = "text"
  <2>1. Text(<<piece>>) \in EventsOf(B)
    BY <1>1, EventsTyped, NilError DEF StopReasons
  <2>2. Outcome(emit(p, Text(<<piece>>)), <<>>) \in Parsed(B)
    BY <2>1, EmitTyped, OutcomeTyped, NilError
  <2> QED BY <2>2, <1>2 DEF responses
<1>3. CASE f.kind = "call"
  <2>1. Outcome(recordOutputItem(p, f.item), <<>>) \in Parsed(B)
    BY <1>3, WireFrameFields, ItemUpdates, OutcomeTyped, NilError
  <2> QED BY <2>1, <1>3 DEF responses
<1>4. CASE f.kind = "args"
  <2> DEFINE q == [p EXCEPT !.items[f.item].deltas = TRUE]
  <2>1. f.item \in Items /\ f.item \in Nat /\ p.items[f.item].id \in Nat
    BY <1>4, WireFrameFields, ItemsAreNumbers, ParserFields
  <2>2. q \in ParsersOf(B)
    BY <2>1, ItemUpdates
  <2> HIDE DEF q
  <2>3. ToolCallDelta(p.items[f.item].id, f.item, <<piece>>) \in EventsOf(B)
    BY <1>1, <2>1, EventsTyped, NilError DEF StopReasons
  <2>4. Outcome(emit(q, ToolCallDelta(p.items[f.item].id, f.item, <<piece>>)), <<>>) \in Parsed(B)
    BY <2>2, <2>3, EmitTyped, OutcomeTyped, NilError
  <2>5. responses(p, f, piece) = Outcome(emit(q, ToolCallDelta(p.items[f.item].id, f.item, <<piece>>)), <<>>)
    BY <1>4 DEF responses, q
  <2> QED BY <2>4, <2>5
<1>5. CASE f.kind = "itemDone"
  <2> DEFINE q == recordOutputItem(p, f.item)
             e == ToolCallDelta(q.items[f.item].id, f.item, <<piece>>)
  <2>1. f.item \in Items /\ f.item \in Nat
    BY <1>5, WireFrameFields, ItemsAreNumbers
  <2>2. q \in ParsersOf(B) /\ q.items[f.item].id \in Nat
    BY <2>1, ItemUpdates
  <2>3. e \in EventsOf(B)
    BY <1>1, <2>1, <2>2, EventsTyped, NilError DEF StopReasons
  <2>4. outputItemDone(p, f.item, piece) = IF p.items[f.item].deltas THEN q ELSE emit(q, e)
    BY DEF outputItemDone
  <2> HIDE DEF q, e
  <2>5. outputItemDone(p, f.item, piece) \in ParsersOf(B)
    BY <2>2, <2>3, <2>4, EmitTyped
  <2>6. Outcome(outputItemDone(p, f.item, piece), <<>>) \in Parsed(B)
    BY <2>5, OutcomeTyped, NilError
  <2> QED BY <2>6, <1>5 DEF responses
<1>6. CASE f.kind = "end"
  <2> DEFINE q == emit(p, EventDone(f.stop))
  <2>1. EventDone(f.stop) \in EventsOf(B)
    BY <1>1, <1>6, WireFrameFields, EventsTyped, NilError
  <2>2. q \in ParsersOf(B)
    BY <2>1, EmitTyped
  <2> HIDE DEF q
  <2>3. Outcome([q EXCEPT !.finished = TRUE], <<>>) \in Parsed(B)
    BY <2>2, ParserUpdates, OutcomeTyped, NilError
  <2> QED BY <2>3, <1>6 DEF responses, q
<1>7. CASE f.kind \in {"failed", "rejected"}
  <2> DEFINE q == emit(p, EventError(apiError(f)))
  <2>1. EventError(apiError(f)) \in EventsOf(B)
    BY <1>1, ErrorsNamed, EventsTyped DEF StopReasons
  <2>2. q \in ParsersOf(B)
    BY <2>1, EmitTyped
  <2> HIDE DEF q
  <2>3. Outcome([q EXCEPT !.finished = TRUE], <<>>) \in Parsed(B)
    BY <2>2, ParserUpdates, OutcomeTyped, NilError
  <2> QED BY <2>3, <1>7 DEF responses, q
<1>8. CASE f.kind = "eof"
  <2>1. Outcome(p, <<"cut">>) \in Parsed(B)
    BY OutcomeTyped, ErrorsNamed
  <2> QED BY <2>1, <1>8 DEF responses
<1>9. CASE f.kind \notin {"text", "call", "args", "itemDone", "end", "failed", "rejected", "eof"}
  <2>1. Outcome(p, <<>>) \in Parsed(B)
    BY OutcomeTyped, NilError
  <2> QED BY <2>1, <1>9 DEF responses
<1> QED BY <1>2, <1>3, <1>4, <1>5, <1>6, <1>7, <1>8, <1>9

LEMMA MessagesTyped ==
  ASSUME NEW B, NEW p \in ParsersOf(B), NEW piece \in PiecesOf(B), NEW f \in WireFrames
  PROVE  messages(p, f, piece) \in Parsed(B)
<1>1. <<piece>> \in Seq(PiecesOf(B)) /\ <<>> \in Seq(PiecesOf(B))
  OBVIOUS
<1>2. CASE f.kind = "text"
  <2>1. Text(<<piece>>) \in EventsOf(B)
    BY <1>1, EventsTyped, NilError DEF StopReasons
  <2>2. Outcome(emit(p, Text(<<piece>>)), <<>>) \in Parsed(B)
    BY <2>1, EmitTyped, OutcomeTyped, NilError
  <2> QED BY <2>2, <1>2 DEF messages
<1>3. CASE f.kind = "call"
  <2>1. f.item \in Items /\ f.item \in Nat /\ 0 \in Nat
    BY <1>3, WireFrameFields, ItemsAreNumbers
  <2>2. ToolCallDelta(f.item, 0, <<>>) \in EventsOf(B)
    BY <1>1, <2>1, EventsTyped, NilError DEF StopReasons
  <2>3. Outcome(emit(recordOutputItem(p, f.item), ToolCallDelta(f.item, 0, <<>>)), <<>>) \in Parsed(B)
    BY <2>1, <2>2, ItemUpdates, EmitTyped, OutcomeTyped, NilError
  <2> QED BY <2>3, <1>3 DEF messages
<1>4. CASE f.kind = "args"
  <2>1. f.item \in Items /\ p.items[f.item].id \in Nat /\ 0 \in Nat
    BY <1>4, WireFrameFields, ParserFields
  <2>2. ToolCallDelta(p.items[f.item].id, 0, <<piece>>) \in EventsOf(B)
    BY <1>1, <2>1, EventsTyped, NilError DEF StopReasons
  <2>3. Outcome(emit(p, ToolCallDelta(p.items[f.item].id, 0, <<piece>>)), <<>>) \in Parsed(B)
    BY <2>2, EmitTyped, OutcomeTyped, NilError
  <2> QED BY <2>3, <1>4 DEF messages
<1>5. CASE f.kind = "finish"
  <2>1. f.stop \in StopReasons
    BY <1>5, WireFrameFields
  <2>2. Outcome([p EXCEPT !.stop = f.stop], <<>>) \in Parsed(B)
    BY <2>1, ParserUpdates, OutcomeTyped, NilError
  <2> QED BY <2>2, <1>5 DEF messages
<1>6. CASE f.kind = "end"
  <2> DEFINE q == emit(p, EventDone(p.stop))
  <2>1. EventDone(p.stop) \in EventsOf(B)
    BY <1>1, ParserFields, EventsTyped, NilError
  <2>2. q \in ParsersOf(B)
    BY <2>1, EmitTyped
  <2> HIDE DEF q
  <2>3. Outcome([q EXCEPT !.finished = TRUE], <<>>) \in Parsed(B)
    BY <2>2, ParserUpdates, OutcomeTyped, NilError
  <2> QED BY <2>3, <1>6 DEF messages, q
<1>7. CASE f.kind \in {"failed", "rejected"}
  <2>1. Outcome(p, apiError(f)) \in Parsed(B)
    BY OutcomeTyped, ErrorsNamed
  <2> QED BY <2>1, <1>7 DEF messages
<1>8. CASE f.kind \notin {"text", "call", "args", "finish", "end", "failed", "rejected"}
  <2>1. Outcome(p, <<>>) \in Parsed(B)
    BY OutcomeTyped, NilError
  <2> QED BY <2>1, <1>8 DEF messages
<1> QED BY <1>2, <1>3, <1>4, <1>5, <1>6, <1>7, <1>8

LEMMA HostTyped ==
  ASSUME NEW B, NEW p \in ParsersOf(B), NEW piece \in PiecesOf(B), NEW f \in hostFrames
  PROVE  host(p, f, piece) \in Parsed(B)
<1>1. <<piece>> \in Seq(PiecesOf(B))
  OBVIOUS
<1>2. "natural" \in StopReasons
  BY DEF StopReasons
<1>3. /\ Text(<<piece>>) \in EventsOf(B)
      /\ EventDone("natural") \in EventsOf(B)
      /\ EventError(<<>>) \in EventsOf(B)
      /\ EventError(apiError(f)) \in EventsOf(B)
  BY <1>1, <1>2, EventsTyped, ErrorsNamed
<1>4. ASSUME NEW e \in EventsOf(B), NEW err \in Errors
      PROVE  Outcome(emit(p, e), err) \in Parsed(B)
  BY EmitTyped, OutcomeTyped
<1>5. CASE f.kind = "text"
  BY <1>3, <1>4, <1>5, NilError DEF host
<1>6. CASE f.kind = "args"
  <2>1. ToolCallDelta(f.id, f.index, <<piece>>) \in EventsOf(B)
    BY <1>1, <1>2, <1>6, HostFrameFields, EventsTyped, NilError
  <2>2. Outcome(emit(p, ToolCallDelta(f.id, f.index, <<piece>>)), <<>>) \in Parsed(B)
    BY <1>4, <2>1, NilError
  <2> QED BY <1>6, <2>2 DEF host
<1>7. CASE f.kind = "tool"
  <2>1. ToolCall(f.item, <<piece>>) \in EventsOf(B)
    BY <1>1, <1>2, <1>7, HostFrameFields, ItemsAreNumbers, EventsTyped, NilError
  <2>2. Outcome(emit(p, ToolCall(f.item, <<piece>>)), <<>>) \in Parsed(B)
    BY <1>4, <2>1, NilError
  <2> QED BY <1>7, <2>2 DEF host
<1>8. CASE f.kind = "end"
  BY <1>3, <1>4, <1>8, NilError DEF host
<1>9. CASE f.kind = "torn"
  BY <1>3, <1>4, <1>9, ErrorsNamed DEF host
<1>10. CASE f.kind = "endTorn"
  BY <1>3, <1>4, <1>10, ErrorsNamed DEF host
<1>11. CASE f.kind = "nilError"
  BY <1>3, <1>4, <1>11, NilError DEF host
<1>12. CASE f.kind \in {"failed", "rejected"}
  BY <1>3, <1>4, <1>12, NilError DEF host
<1>13. CASE f.kind \notin {"text", "args", "tool", "end", "torn", "endTorn", "nilError", "failed", "rejected"}
  <2>1. Outcome(p, <<>>) \in Parsed(B)
    BY OutcomeTyped, NilError
  <2> QED BY <2>1, <1>13 DEF host
<1> QED BY <1>5, <1>6, <1>7, <1>8, <1>9, <1>10, <1>11, <1>12, <1>13

LEMMA ConsumeTyped ==
  ASSUME NEW body, protocol(body) \in Protocols, NEW B, NEW p \in ParsersOf(B),
         NEW piece \in PiecesOf(B), NEW f \in Frames(body)
  PROVE  consume(protocol(body), p, f, piece) \in Parsed(B)
<1>1. CASE f.kind \in {"bad", "cut", "canceled"}
  <2>1. /\ Outcome(p, <<"plain">>) \in Parsed(B)
        /\ Outcome(p, <<"cut">>) \in Parsed(B)
        /\ Outcome(p, <<"canceled">>) \in Parsed(B)
    BY OutcomeTyped, ErrorsNamed
  <2> QED BY <1>1, <2>1 DEF consume
<1>2. CASE f.kind = "eof" /\ protocol(body) # "responses"
  <2>1. Outcome(p, <<"eof">>) \in Parsed(B)
    BY OutcomeTyped, ErrorsNamed
  <2> QED BY <1>2, <2>1 DEF consume
<1>3. CASE f.kind \notin {"bad", "cut", "canceled"} /\ ~(f.kind = "eof" /\ protocol(body) # "responses")
  <2>1. f # CanceledFrame
    BY <1>3 DEF CanceledFrame
  <2>2. IF protocol(body) = "host" THEN f \in hostFrames ELSE f \in WireFrames
    BY <2>1, FramesOf
  <2>3. CASE protocol(body) = "host"
    BY <1>3, <2>2, <2>3, HostTyped DEF consume
  <2>4. CASE protocol(body) = "chat"
    BY <1>3, <2>2, <2>4, ChatTyped DEF consume
  <2>5. CASE protocol(body) = "responses"
    BY <1>3, <2>2, <2>5, ResponsesTyped DEF consume
  <2>6. CASE protocol(body) = "messages"
    BY <1>3, <2>2, <2>6, MessagesTyped DEF consume
  <2> QED BY <2>3, <2>4, <2>5, <2>6 DEF Protocols
<1> QED BY <1>1, <1>2, <1>3

LEMMA Least ==
  ASSUME NEW T \in SUBSET Nat, T # {}
  PROVE  \E x \in T : \A y \in T : x <= y
<1> DEFINE R == OpToRel(<, Nat)
<1>0. IsWellFoundedOn(R, Nat)
  BY NatLessThanWellFounded
<1>1. \A x, y \in Nat : x < y => <<x, y>> \in R
  BY DEF OpToRel
<1> HIDE DEF R
<1>2. PICK x \in T : \A y \in T : ~(<<y, x>> \in R)
  BY <1>0, WFMin
<1>3. \A y \in T : ~(y < x) /\ y \in Nat /\ x \in Nat
  BY <1>1, <1>2
<1>4. \A y \in T : x <= y
  BY <1>3
<1> QED BY <1>4

\* Induction up to a number.
LEMMA UpTo ==
  ASSUME NEW n \in Nat, NEW G, 0 \in G,
         \A k \in 0..n : k < n /\ k \in G => k + 1 \in G
  PROVE  \A k \in 0..n : k \in G
<1> DEFINE T == {k \in 0..n : k \notin G}
<1>1. SUFFICES ASSUME T # {} PROVE FALSE
  OBVIOUS
<1>2. PICK x \in T : \A y \in T : x <= y
  <2>1. T \in SUBSET Nat
    OBVIOUS
  <2> HIDE DEF T
  <2> QED BY <1>1, <2>1, Least
<1>3. x # 0 /\ x - 1 \in 0..n /\ x - 1 < n /\ ~(x <= x - 1)
  BY <1>2
<1>4. x - 1 \in G
  BY <1>2, <1>3
<1>5. (x - 1) + 1 \in G
  BY <1>3, <1>4
<1>6. (x - 1) + 1 = x
  BY <1>2
<1> QED BY <1>2, <1>5, <1>6

\* toolCallBuilders is the last of the builders after each event.
BuildersAfter(events, m, f) ==
  /\ DOMAIN f = 0..m
  /\ f[0] = NoBuilders
  /\ \A n \in 1..m : f[n] = applyToolEvent(f[n - 1], events[n])

LEMMA BuildersExist ==
  ASSUME NEW S, NEW events \in Seq(S)
  PROVE  \E f : BuildersAfter(events, Len(events), f) /\ toolCallBuilders(events) = f[Len(events)]
<1> DEFINE N == Len(events)
<1>1. N \in Nat
  OBVIOUS
<1> DEFINE G == {m \in 0..N : \E f : BuildersAfter(events, m, f)}
<1>2. 0 \in G
  <2> DEFINE f == [n \in 0..0 |-> NoBuilders]
  <2>1. DOMAIN f = 0..0 /\ f[0] = NoBuilders /\ 1..0 = {}
    OBVIOUS
  <2>2. BuildersAfter(events, 0, f)
    BY <2>1 DEF BuildersAfter
  <2> QED BY <1>1, <2>2
<1>3. ASSUME NEW m \in 0..N, m < N, m \in G PROVE m + 1 \in G
  <2>1. PICK f : BuildersAfter(events, m, f)
    BY <1>3
  <2> DEFINE g == [n \in 0..(m + 1) |-> IF n = m + 1 THEN applyToolEvent(f[m], events[m + 1]) ELSE f[n]]
  <2>2. m \in Nat /\ m + 1 \in 0..N /\ m + 1 # 0
    BY <1>1, <1>3
  <2>3. DOMAIN g = 0..(m + 1) /\ g[0] = NoBuilders
    BY <2>1, <2>2 DEF BuildersAfter
  <2>4. ASSUME NEW n \in 1..(m + 1) PROVE g[n] = applyToolEvent(g[n - 1], events[n])
    <3>1. CASE n = m + 1
      <4>1. g[n] = applyToolEvent(f[m], events[n])
        BY <2>2, <3>1
      <4>2. n - 1 = m /\ m \in 0..(m + 1) /\ m # m + 1
        BY <2>2, <3>1
      <4>3. g[m] = f[m]
        BY <4>2
      <4> QED BY <4>1, <4>2, <4>3
    <3>2. CASE n # m + 1
      <4>1. n \in 1..m /\ n \in 0..(m + 1) /\ n - 1 \in 0..(m + 1) /\ n - 1 # m + 1
        BY <2>2, <3>2
      <4>2. f[n] = applyToolEvent(f[n - 1], events[n])
        BY <2>1, <4>1 DEF BuildersAfter
      <4>3. g[n] = f[n] /\ g[n - 1] = f[n - 1]
        BY <3>2, <4>1
      <4> QED BY <4>2, <4>3
    <3> QED BY <3>1, <3>2
  <2> HIDE DEF g
  <2>5. BuildersAfter(events, m + 1, g)
    BY <2>3, <2>4 DEF BuildersAfter
  <2> QED BY <2>2, <2>5
<1> HIDE DEF G
<1>4. N \in G
  <2>1. \A k \in 0..N : k \in G
    BY <1>1, <1>2, <1>3, UpTo
  <2> QED BY <1>1, <2>1
<1>5. PICK f : BuildersAfter(events, N, f)
  BY <1>4 DEF G
<1> DEFINE step(g) == [n \in 0..Len(events) |-> IF n = 0 THEN NoBuilders ELSE applyToolEvent(g[n - 1], events[n])]
           after == CHOOSE g : g = step(g)
<1>6. toolCallBuilders(events) = after[Len(events)]
  BY Zenon DEF toolCallBuilders
<1>7. f = step(f)
  <2>1. ASSUME NEW n \in 0..N PROVE f[n] = IF n = 0 THEN NoBuilders ELSE applyToolEvent(f[n - 1], events[n])
    BY <1>1, <1>5, <2>1 DEF BuildersAfter
  <2>2. f = [n \in 0..N |-> f[n]]
    BY <1>5 DEF BuildersAfter
  <2> QED BY <2>1, <2>2, Zenon
<1>8. after = step(after)
  BY <1>7, Zenon
<1> HIDE DEF after
<1>9. DOMAIN after = 0..N
  BY <1>8, Zenon
<1>10. ASSUME NEW n \in 0..N PROVE after[n] = IF n = 0 THEN NoBuilders ELSE applyToolEvent(after[n - 1], events[n])
  BY <1>8, Zenon
<1>11. after[0] = NoBuilders
  BY <1>1, <1>10
<1>12. ASSUME NEW n \in 1..N PROVE after[n] = applyToolEvent(after[n - 1], events[n])
  <2>1. n \in 0..N /\ n # 0
    BY <1>1
  <2> QED BY <1>10, <2>1
<1>13. BuildersAfter(events, N, after)
  BY <1>9, <1>11, <1>12, Zenon DEF BuildersAfter
<1> QED BY <1>6, <1>13

LEMMA NoCallsNoBuilders ==
  ASSUME NEW S, NEW events \in Seq(S), \A i \in DOMAIN events : events[i].kind \notin {"delta", "call"}
  PROVE  toolCallBuilders(events) = NoBuilders
<1>1. PICK f : BuildersAfter(events, Len(events), f) /\ toolCallBuilders(events) = f[Len(events)]
  BY BuildersExist
<1>2. Len(events) \in Nat /\ DOMAIN events = 1..Len(events)
  OBVIOUS
<1> DEFINE G == {k \in 0..Len(events) : f[k] = NoBuilders}
<1>3. 0 \in G
  BY <1>1, <1>2 DEF BuildersAfter
<1>4. ASSUME NEW k \in 0..Len(events), k < Len(events), k \in G PROVE k + 1 \in G
  <2>1. k + 1 \in 1..Len(events) /\ (k + 1) - 1 = k /\ k + 1 \in 0..Len(events)
    BY <1>2, <1>4
  <2>2. f[k + 1] = applyToolEvent(f[k], events[k + 1])
    BY <1>1, <2>1 DEF BuildersAfter
  <2>3. events[k + 1].kind \notin {"delta", "call"}
    BY <1>2, <2>1
  <2>4. applyToolEvent(f[k], events[k + 1]) = f[k]
    BY <2>3 DEF applyToolEvent
  <2> QED BY <1>4, <2>1, <2>2, <2>4
<1> HIDE DEF G
<1>5. \A k \in 0..Len(events) : k \in G
  BY <1>2, <1>3, <1>4, UpTo
<1>6. Len(events) \in G
  BY <1>2, <1>5
<1> QED BY <1>1, <1>6 DEF G

LEMMA EmptyContent ==
  ASSUME NEW kind
  PROVE  contentPieces(<<>>, kind) = <<>>
<1> DEFINE step(g) == [n \in 0..Len(<<>>) |-> IF n = 0 THEN <<>> ELSE appendContent(g[n - 1], <<>>[n], kind)]
           after == CHOOSE g : g = step(g)
           f == [n \in 0..0 |-> <<>>]
<1>1. contentPieces(<<>>, kind) = after[Len(<<>>)]
  BY Zenon DEF contentPieces
<1>2. Len(<<>>) = 0 /\ \A n \in 0..0 : n = 0
  OBVIOUS
<1>3. f = step(f)
  <2>1. ASSUME NEW n \in 0..0 PROVE <<>> = IF n = 0 THEN <<>> ELSE appendContent(f[n - 1], <<>>[n], kind)
    BY <1>2
  <2> QED BY <1>2, <2>1, Zenon
<1>4. after = step(after)
  BY <1>3, Zenon
<1> HIDE DEF after
<1>5. 0 \in 0..Len(<<>>)
  OBVIOUS
<1>6. after[0] = <<>>
  BY <1>4, <1>5, Zenon
<1> QED BY <1>1, <1>2, <1>6

LEMMA EmptyContents == contentOf(<<>>) = EmptyTurn.content
<1>1. \A kind : contentPieces(<<>>, kind) = <<>>
  BY EmptyContent
<1>2. contentOf(<<>>) = [kind \in ContentKinds |-> <<>>]
  BY <1>1, Zenon DEF contentOf
<1> QED BY <1>2 DEF EmptyTurn

\* A sequence without terminal event is in order.
LEMMA NoTerminals ==
  ASSUME NEW events, \A i \in DOMAIN events : ~isTerminal(events[i])
  PROVE  /\ validateTerminalSequence(events, FALSE) = <<>>
         /\ validateTerminalSequence(events, TRUE) = <<"missingTerminal">>
<1>1. {i \in DOMAIN events : isTerminal(events[i])} = {}
  OBVIOUS
<1>2. {j \in DOMAIN events : \E i \in {k \in DOMAIN events : isTerminal(events[k])} : i < j} = {}
  BY <1>1
<1>3. ASSUME NEW require \in BOOLEAN
      PROVE  validateTerminalSequence(events, require) = IF require THEN <<"missingTerminal">> ELSE <<>>
  BY <1>1, <1>2 DEF validateTerminalSequence
<1> QED BY <1>3

\* normalizeEvents keeps text that came in order, when no tool call and no error did.
LEMMA TextIsKept ==
  ASSUME NEW S, NEW events \in Seq(S), NEW require \in BOOLEAN,
         \A i \in DOMAIN events : events[i].kind \notin {"delta", "call", "error"},
         validateTerminalSequence(events, FALSE) = <<>>,
         validateTerminalSequence(events, require) = <<>>
  PROVE  /\ normalizeEvents(events, require).err = <<>>
         /\ normalizeEvents(events, require).turn.content = contentOf(events)
<1>1. toolCallBuilders(events) = NoBuilders
  BY NoCallsNoBuilders
<1>2. NoBuilders.builders = <<>> /\ NoBuilders.duplicate = FALSE
  BY DEF NoBuilders
<1>3. finalizeToolCalls(<<>>) = <<>>
  <2>1. DOMAIN <<>> = {} /\ Len(<<>>) = 0 /\ ~(0 > MaxToolCalls)
    BY ItemsAssumption
  <2> QED BY <2>1 DEF finalizeToolCalls
<1>4. ~occurs(events, "error")
  BY DEF occurs
<1>5. normalizeError(events, require, NoBuilders) = <<>>
  BY <1>2, <1>3, <1>4 DEF normalizeError
<1>6. normalizeEvents(events, require) = normalized(events, NoBuilders, <<>>)
  BY <1>1, <1>5 DEF normalizeEvents, normalizeWith
<1>7. /\ normalizeEvents(events, require).err = <<>>
      /\ normalizeEvents(events, require).turn = normalizedTurn(events, NoBuilders.builders)
  BY <1>6 DEF normalized
<1>8. normalizedTurn(events, NoBuilders.builders).content = contentOf(events)
  BY Zenon DEF normalizedTurn
<1> QED BY <1>7, <1>8

\* What is not terminated is never a turn, and the error is the call's own.
LEMMA Unterminated ==
  ASSUME NEW events, \A i \in DOMAIN events : ~isTerminal(events[i])
  PROVE  normalizeEvents(events, TRUE).err \in {<<"duplicateID">>, <<"missingTerminal">>}
<1> DEFINE acc == toolCallBuilders(events)
<1>1. ~occurs(events, "error")
  BY DEF occurs, isTerminal
<1>2. /\ validateTerminalSequence(events, FALSE) = <<>>
      /\ validateTerminalSequence(events, TRUE) = <<"missingTerminal">>
  BY NoTerminals
<1> HIDE DEF acc
<1>3. CASE acc.duplicate
  <2>1. normalizeError(events, TRUE, acc) = <<"duplicateID">>
    BY <1>2, <1>3 DEF normalizeError
  <2> QED BY <2>1 DEF normalizeEvents, normalizeWith, normalized, acc
<1>4. CASE ~acc.duplicate
  <2>1. <<"missingTerminal">> # <<>>
    OBVIOUS
  <2>2. normalizeError(events, TRUE, acc) = <<"missingTerminal">>
    BY <1>1, <1>2, <1>4, <2>1 DEF normalizeError
  <2> QED BY <2>2 DEF normalizeEvents, normalizeWith, normalized, acc
<1> QED BY <1>3, <1>4

-----------------------------------------------------------------------------
(* Engine.collect: leaving, and handing an event on.                       *)

terminated(events) == \E i \in DOMAIN events : isTerminal(events[i])

\* PartialKept of a turn that is returned.
Kept(t) ==
  t.err # <<>> =>
    /\ (t.err # <<"missingTerminal">> /\ validateTerminalSequence(t.events, FALSE) = <<>>
          /\ ~(\E i \in DOMAIN t.events : t.events[i].kind \in {"delta", "call", "error"})) =>
         t.assistant.content = contentOf(t.events)
    /\ (config.retry /\ hasContent(t.events) /\ ~terminated(t.events)) => ~IsRetryableError(t.err)

GoodBodies(bs) ==
  /\ bs \in Seq(BodiesOf(Nat))
  /\ \A b \in DOMAIN bs : bs[b] \in BodiesOf({b})
  /\ current <= Len(bs)
  /\ \A b \in DOMAIN bs : bs[b].open => b = current

LEMMA BodyWidens ==
  ASSUME NEW b \in Nat, NEW body \in BodiesOf({b})
  PROVE  body \in BodiesOf(Nat)
<1>1. PiecesOf({b}) \subseteq PiecesOf(Nat)
  BY DEF PiecesOf
<1>2. ASSUME NEW s \in Seq(PiecesOf({b})) PROVE s \in Seq(PiecesOf(Nat))
  BY <1>1, SeqGrows
<1>3. ASSUME NEW e \in EventsOf({b}) PROVE e \in EventsOf(Nat)
  <2>1. e \in Events({b}) /\ (e.kind \in {"", "done", "error"} => e.pieces = <<>>)
    BY DEF EventsOf
  <2>2. e.pieces \in Seq(PiecesOf(Nat))
    BY <1>2, <2>1 DEF Events
  <2>3. e \in Events(Nat)
    BY <2>1, <2>2 DEF Events
  <2> QED BY <2>1, <2>3 DEF EventsOf
<1>4. EventsOf({b}) \subseteq EventsOf(Nat)
  BY <1>3
<1>5. ASSUME NEW s \in Seq(EventsOf({b})) PROVE s \in Seq(EventsOf(Nat))
  BY <1>4, SeqGrows
<1>6. ASSUME NEW p \in ParsersOf({b}) PROVE p \in ParsersOf(Nat)
  <2>1. p.pending \in Seq(EventsOf(Nat)) /\ p.buffer \in Seq(PiecesOf(Nat))
    BY <1>2, <1>5, ParserFields
  <2> QED BY <2>1 DEF ParsersOf
<1>7. body.parser \in ParsersOf(Nat)
  BY <1>6 DEF BodiesOf
<1> QED BY <1>7 DEF BodiesOf

LEMMA CloseBody ==
  ASSUME NEW bs, GoodBodies(bs), current \in Nat
  PROVE  /\ GoodBodies(closeBody(bs, current))
         /\ \A b \in DOMAIN closeBody(bs, current) : ~closeBody(bs, current)[b].open
<1>1. CASE current = 0
  <2>1. closeBody(bs, current) = bs
    BY <1>1 DEF closeBody
  <2>2. \A b \in DOMAIN bs : b # 0
    BY DEF GoodBodies
  <2> QED BY <1>1, <2>1, <2>2 DEF GoodBodies
<1>2. CASE current # 0
  <2> DEFINE cs == closeBody(bs, current)
             body == [bs[current] EXCEPT !.open = FALSE]
  <2>1. current \in DOMAIN bs
    BY <1>2 DEF GoodBodies
  <2>2. body \in BodiesOf({current}) /\ ~body.open
    BY <2>1 DEF GoodBodies, BodiesOf
  <2>3. body \in BodiesOf(Nat)
    BY <2>2, BodyWidens
  <2>4. cs = [bs EXCEPT ![current] = body]
    BY <1>2 DEF closeBody
  <2> HIDE DEF cs, body
  <2>5. /\ cs \in Seq(BodiesOf(Nat)) /\ Len(cs) = Len(bs) /\ DOMAIN cs = DOMAIN bs
        /\ \A b \in DOMAIN bs : cs[b] = IF b = current THEN body ELSE bs[b]
    BY <2>1, <2>3, <2>4 DEF GoodBodies
  <2>6. GoodBodies(cs) /\ \A b \in DOMAIN cs : ~cs[b].open
    BY <2>2, <2>5 DEF GoodBodies
  <2> QED BY <2>6 DEF cs
<1> QED BY <1>1, <1>2

LEMMA OwnBodiesGood == IInv => GoodBodies(bodies)
BY DEF IInv, Bodied, Closed, GoodBodies

LEMMA LeaveStep ==
  ASSUME IInv, NEW bs, NEW r \in Retries, NEW t, GoodBodies(bs), t \in Turns(current, t),
         current = 0 => t.events = <<>> /\ t.assistant = EmptyTurn,
         Kept(t), leave(bs, r, t)
  PROVE  IInv'
<1> DEFINE cs == closeBody(bs, current)
<1>1. /\ pc' = "returned" /\ turn' = t /\ bodies' = cs /\ retry' = r
      /\ config' = config /\ ctx' = ctx /\ current' = current /\ chain' = chain
  BY DEF leave
<1>2. GoodBodies(cs) /\ \A b \in DOMAIN cs : ~cs[b].open
  BY CloseBody DEF IInv, Types
<1> HIDE DEF cs
<1>3. Types'
  BY <1>1 DEF IInv, Types, Turns, PCs
<1>4. Bodied'
  BY <1>1, <1>2 DEF GoodBodies, Bodied, BodiesOf
<1>5. Silent'
  BY <1>1 DEF Silent, Opening
<1>6. Told'
  BY <1>1 DEF Told
<1>7. Closed'
  BY <1>1, <1>2 DEF Closed, GoodBodies
<1>8. PartialKept'
  BY <1>1 DEF PartialKept, Kept, returned, terminated
<1> QED BY <1>3, <1>4, <1>5, <1>6, <1>7, <1>8 DEF IInv

LEMMA TurnFields ==
  ASSUME IInv
  PROVE  /\ turn \in Turns(current, turn) /\ turn.events \in Seq(EventsOf({current}))
         /\ turn.sawTerminal \in BOOLEAN
         /\ retry \in Retries /\ retry.emitted \in BOOLEAN /\ retry.terminal \in BOOLEAN
         /\ retry.event \in SilentEvents /\ current \in Nat
BY DEF IInv, Types, Turns, Retries

\* A call that fails keeps its text; its error must not be one that a caller retries.
LEMMA FailedKept ==
  ASSUME IInv, NEW err, current # 0,
         config.retry /\ hasContent(turn.events) /\ ~terminated(turn.events) => ~IsRetryableError(err)
  PROVE  /\ failed(err) \in Turns(current, failed(err))
         /\ Kept(failed(err))
<1> DEFINE response == normalizeEvents(turn.events, FALSE)
           t == failed(err)
<1>1. turn \in Turns(current, turn) /\ turn.events \in Seq(EventsOf({current}))
  BY TurnFields
<1> HIDE DEF response
<1>2. t = [turn EXCEPT !.assistant = response.turn, !.err = err]
  BY DEF failed, response
<1>3. t \in Turns(current, t) /\ t.events = turn.events /\ t.err = err /\ t.assistant = response.turn
  BY <1>1, <1>2 DEF Turns
<1>4. ASSUME validateTerminalSequence(turn.events, FALSE) = <<>>,
             ~(\E i \in DOMAIN turn.events : turn.events[i].kind \in {"delta", "call", "error"})
      PROVE  response.turn.content = contentOf(turn.events)
  BY <1>1, <1>4, TextIsKept DEF response
<1> HIDE DEF t
<1>5. Kept(t)
  BY <1>3, <1>4 DEF Kept
<1> QED BY <1>3, <1>5 DEF t

\* A stream that ended is a whole turn, or a failure of the call's own.
LEMMA CompletedKept ==
  ASSUME IInv, current # 0
  PROVE  /\ completed \in Turns(current, completed)
         /\ Kept(completed)
<1> DEFINE response == normalizeEvents(turn.events, TRUE)
           t == completed
<1>1. turn \in Turns(current, turn) /\ turn.events \in Seq(EventsOf({current}))
  BY TurnFields
<1> HIDE DEF response
<1>2. t = [turn EXCEPT !.assistant = response.turn, !.err = response.err]
  BY DEF completed, applyNormalized, response
<1>3. t \in Turns(current, t) /\ t.events = turn.events /\ t.err = response.err /\ t.assistant = response.turn
  BY <1>1, <1>2 DEF Turns
<1>4. ASSUME response.err # <<>>, response.err # <<"missingTerminal">>,
             validateTerminalSequence(turn.events, FALSE) = <<>>,
             ~(\E i \in DOMAIN turn.events : turn.events[i].kind \in {"delta", "call", "error"})
      PROVE  FALSE
  <2>1. CASE terminated(turn.events)
    <3>1. validateTerminalSequence(turn.events, TRUE) = <<>>
      <4>1. {i \in DOMAIN turn.events : isTerminal(turn.events[i])} # {}
        BY <2>1 DEF terminated
      <4>2. validateTerminalSequence(turn.events, TRUE) = validateTerminalSequence(turn.events, FALSE)
        BY <4>1 DEF validateTerminalSequence
      <4> QED BY <1>4, <4>2
    <3> QED BY <1>1, <1>4, <3>1, TextIsKept DEF response
  <2>2. CASE ~terminated(turn.events)
    <3>1. response.err \in {<<"duplicateID">>, <<"missingTerminal">>}
      BY <2>2, Unterminated DEF terminated, response
    <3>2. toolCallBuilders(turn.events) = NoBuilders /\ NoBuilders.duplicate = FALSE
      BY <1>1, <1>4, NoCallsNoBuilders DEF NoBuilders
    <3>3. normalizeError(turn.events, TRUE, NoBuilders) = <<"missingTerminal">>
      <4>1. ~occurs(turn.events, "error")
        BY <1>4 DEF occurs
      <4>2. validateTerminalSequence(turn.events, TRUE) = <<"missingTerminal">> /\ <<"missingTerminal">> # <<>>
        BY <2>2, NoTerminals DEF terminated
      <4> QED BY <1>4, <3>2, <4>1, <4>2 DEF normalizeError
    <3>4. response.err = <<"missingTerminal">>
      BY <3>2, <3>3 DEF response, normalizeEvents, normalizeWith, normalized
    <3> QED BY <1>4, <3>4
  <2> QED BY <2>1, <2>2
<1>5. ASSUME ~terminated(turn.events) PROVE ~IsRetryableError(response.err)
  <2>1. response.err \in {<<"duplicateID">>, <<"missingTerminal">>}
    BY <1>5, Unterminated DEF terminated, response
  <2> QED BY <2>1, OwnErrorNotRetryable
<1> HIDE DEF t
<1>6. Kept(t)
  BY <1>3, <1>4, <1>5 DEF Kept
<1> QED BY <1>3, <1>6 DEF t

\* What Recv may answer to collect.
Answer(bs, r, event, err) ==
  /\ GoodBodies(bs) /\ r \in Retries /\ event \in EventsOf({current}) /\ err \in Errors
  /\ config.retry =>
       /\ ~r.emitted /\ ~r.terminal => turn.events \in Seq(SilentEvents) /\ event \in SilentEvents
       /\ r.terminal /\ err = <<>> => isTerminal(event) \/ terminated(turn.events)
       /\ err # <<>> /\ hasContent(turn.events) /\ ~terminated(turn.events) => ~IsRetryableError(err)

LEMMA HandOnStep ==
  ASSUME IInv, current # 0, NEW bs, NEW r, NEW event, Answer(bs, r, event, <<>>), handOn(bs, r, event)
  PROVE  IInv'
<1> DEFINE t == record(event)
<1>1. /\ pc' = "deliver" /\ turn' = t /\ bodies' = bs /\ retry' = r
      /\ config' = config /\ ctx' = ctx /\ current' = current /\ chain' = chain
  BY DEF handOn
<1>2. /\ turn \in Turns(current, turn) /\ turn.events \in Seq(EventsOf({current}))
      /\ turn.sawTerminal \in BOOLEAN
  BY TurnFields
<1>3. Append(turn.events, event) \in Seq(EventsOf({current}))
  BY <1>2, AppendFacts DEF Answer
<1>4. t \in Turns(current, t) /\ t.events = Append(turn.events, event)
  BY <1>2, <1>3 DEF record, Turns
<1> HIDE DEF t
<1>5. Types'
  BY <1>1, <1>4 DEF IInv, Types, Turns, PCs, Answer
<1>6. Bodied'
  BY <1>1 DEF Answer, GoodBodies, Bodied, BodiesOf
<1>7. Silent'
  BY <1>1 DEF Silent, Opening
<1>8. Told'
  <2>1. ASSUME config.retry, ~r.emitted, ~r.terminal PROVE t.events \in Seq(SilentEvents)
    BY <1>4, <2>1, AppendFacts DEF Answer
  <2>2. ASSUME config.retry, r.terminal PROVE \E i \in DOMAIN t.events : isTerminal(t.events[i])
    <3>1. isTerminal(event) \/ terminated(turn.events)
      BY <2>2 DEF Answer
    <3>2. CASE isTerminal(event)
      <4>1. Len(turn.events) + 1 \in DOMAIN t.events /\ t.events[Len(turn.events) + 1] = event
        BY <1>2, <1>4
      <4> QED BY <3>2, <4>1
    <3>3. CASE terminated(turn.events)
      <4>1. PICK i \in DOMAIN turn.events : isTerminal(turn.events[i])
        BY <3>3 DEF terminated
      <4>2. i \in DOMAIN t.events /\ t.events[i] = turn.events[i]
        BY <1>2, <1>4
      <4> QED BY <4>1, <4>2
    <3> QED BY <3>1, <3>2, <3>3
  <2> QED BY <1>1, <2>1, <2>2 DEF Told
<1>9. Closed'
  BY <1>1 DEF Closed, GoodBodies, Answer
<1>10. PartialKept'
  BY <1>1 DEF PartialKept, returned
<1> QED BY <1>5, <1>6, <1>7, <1>8, <1>9, <1>10 DEF IInv

LEMMA ReceivedStep ==
  ASSUME IInv, current # 0, NEW bs, NEW r, NEW event, NEW err, Answer(bs, r, event, err),
         received(bs, r, event, err)
  PROVE  IInv'
<1>1. CASE err = <<>> /\ ~exceeds(event)
  BY <1>1, HandOnStep DEF received
<1>2. CASE ~(err = <<>> /\ ~exceeds(event)) /\ streamEnded(err)
  <2>1. leave(bs, r, completed)
    BY <1>2 DEF received
  <2>2. /\ completed \in Turns(current, completed)
        /\ Kept(completed)
    BY CompletedKept
  <2> QED BY <2>1, <2>2, LeaveStep DEF Answer
<1>3. CASE ~(err = <<>> /\ ~exceeds(event)) /\ ~streamEnded(err)
  <2> DEFINE e == IF err = <<>> THEN <<"limit">> ELSE err
  <2>1. leave(bs, r, failed(e))
    BY <1>3 DEF received
  <2>2. config.retry /\ hasContent(turn.events) /\ ~terminated(turn.events) => ~IsRetryableError(e)
    BY OwnErrorNotRetryable DEF Answer
  <2> HIDE DEF e
  <2>3. /\ failed(e) \in Turns(current, failed(e))
        /\ Kept(failed(e))
    BY <2>2, FailedKept
  <2> QED BY <2>1, <2>3, LeaveStep DEF Answer
<1> QED BY <1>1, <1>2, <1>3

-----------------------------------------------------------------------------
(* retryingStream.Recv.                                                    *)

\* Before any output every answer without output will do.
LEMMA QuietAnswer ==
  ASSUME IInv, NEW bs, GoodBodies(bs), turn.events \in Seq(SilentEvents), NEW r \in Retries,
         NEW event \in SilentEvents, NEW err \in Errors, r.terminal => retry.terminal \/ isTerminal(event),
         ~retry.terminal
  PROVE  Answer(bs, r, event, err)
<1>1. event \in EventsOf({current})
  BY SilentIsEvent
<1>2. ~hasContent(turn.events)
  BY SilentHasNoContent
<1> QED BY <1>1, <1>2 DEF Answer

LEMMA RetryEnds ==
  ASSUME NEW r \in Retries
  PROVE  /\ [r EXCEPT !.terminal = TRUE] \in Retries /\ [r EXCEPT !.terminal = TRUE].terminal
         /\ [r EXCEPT !.terminal = TRUE].emitted = r.emitted
         /\ [r EXCEPT !.emitted = TRUE] \in Retries /\ [r EXCEPT !.emitted = TRUE].emitted
         /\ [r EXCEPT !.emitted = TRUE].terminal = r.terminal
BY DEF Retries

\* classifyReceived lets a failure be retried before any output only.
LEMMA ClassifiedAnswer ==
  ASSUME IInv, pc = "recv", config.retry, ~retry.terminal, NEW bs, GoodBodies(bs),
         NEW event \in EventsOf({current}), NEW recvErr \in Errors
  PROVE  LET c == classifyReceived(event, recvErr)
         IN  \/ c.again = TRUE /\ ~retry.emitted /\ event \in SilentEvents /\ c.err \in Errors
             \/ c.again = FALSE /\ Answer(bs, c.r, c.event, c.err)
<1> DEFINE c == classifyReceived(event, recvErr)
           cause == IF event.kind = "error" /\ event.err # <<>> THEN event.err ELSE recvErr
           ended == [retry EXCEPT !.terminal = TRUE]
           emitted == [retry EXCEPT !.emitted = TRUE]
           both == [ended EXCEPT !.emitted = TRUE]
<1>1. /\ retry \in Retries /\ retry.emitted \in BOOLEAN /\ turn.events \in Seq(EventsOf({current}))
  BY TurnFields
<1>2. /\ ended \in Retries /\ ended.terminal /\ ended.emitted = retry.emitted
      /\ emitted \in Retries /\ emitted.emitted /\ emitted.terminal = retry.terminal
  BY <1>1, RetryEnds
<1>3. both \in Retries /\ both.emitted /\ both.terminal
  <2> HIDE DEF ended
  <2> QED BY <1>2, RetryEnds
<1>4. event.kind \in EventKinds /\ event.err \in Errors
      /\ (event.kind \in {"", "done", "error"} => event \in SilentEvents)
  BY EventFields
<1>5. cause \in Errors
  BY <1>4
<1>6. ~retry.emitted => turn.events \in Seq(SilentEvents)
  BY DEF IInv, Told
<1>7. /\ <<"partial">> \o recvErr \in Errors /\ <<"partial">> \o cause \in Errors
      /\ <<"partial">> \o recvErr # <<>> /\ <<"partial">> \o cause # <<>>
      /\ ~IsRetryableError(<<"partial">> \o recvErr) /\ ~IsRetryableError(<<"partial">> \o cause)
  <2>1. ASSUME NEW e \in Errors
        PROVE  <<"partial">> \o e \in Errors /\ <<"partial">> \o e # <<>> /\ ~IsRetryableError(<<"partial">> \o e)
    <3>1. "partial" \in Tags
      BY DEF Tags
    <3> QED BY <3>1, WrappedError, PartialNotRetryable
  <2> HIDE DEF cause
  <2> QED BY <1>5, <2>1
<1>8. NoEvent \in EventsOf({current}) /\ NoEvent \in SilentEvents
  BY NoEventSilent, SilentIsEvent
<1> HIDE DEF c, cause, ended, emitted, both
<1>9. CASE event.kind = "done"
  <2>1. isTerminal(event)
    BY <1>9 DEF isTerminal
  <2>2. CASE recvErr = <<>>
    <3>0. c = Classified(ended, event, FALSE, <<>>)
      BY <1>9, <2>2 DEF classifyReceived, c, cause, ended, emitted, both
    <3>1. c.again = FALSE /\ c.r = ended /\ c.event = event /\ c.err = <<>>
      BY <3>0 DEF Classified
    <3> QED BY <1>2, <2>1, <3>1, NilError DEF Answer, c
  <2>3. CASE recvErr # <<>>
    <3>0. c = Classified(ended, NoEvent, FALSE, <<"partial">> \o recvErr)
      BY <1>9, <2>3 DEF classifyReceived, c, cause, ended, emitted, both
    <3>1. c.again = FALSE /\ c.r = ended /\ c.event = NoEvent /\ c.err = <<"partial">> \o recvErr
      BY <3>0 DEF Classified
    <3> QED BY <1>2, <1>7, <1>8, <3>1 DEF Answer, c
  <2> QED BY <2>2, <2>3
<1>11. CASE event.kind \notin {"", "error", "done"}
  <2>2. CASE recvErr = <<>>
    <3>0. c = Classified(emitted, event, FALSE, <<>>)
      BY <1>11, <2>2 DEF classifyReceived, c, cause, ended, emitted, both
    <3>1. c.again = FALSE /\ c.r = emitted /\ c.event = event /\ c.err = <<>>
      BY <3>0 DEF Classified
    <3> QED BY <1>2, <3>1, NilError DEF Answer, c
  <2>3. CASE recvErr # <<>>
    <3>0. c = Classified(both, event, FALSE, <<"partial">> \o recvErr)
      BY <1>11, <2>3 DEF classifyReceived, c, cause, ended, emitted, both
    <3>1. c.again = FALSE /\ c.r = both /\ c.event = event /\ c.err = <<"partial">> \o recvErr
      BY <3>0 DEF Classified
    <3> QED BY <1>3, <1>7, <3>1 DEF Answer, c
  <2> QED BY <2>2, <2>3
<1>12. CASE event.kind \in {"", "error"} /\ retry.emitted
  <2>1. c = classifyPartialFailure(event, recvErr, cause)
    BY <1>12 DEF classifyReceived, c, cause
  <2>2. CASE cause = <<>> /\ event.kind # "error"
    <3>1. c.again = FALSE /\ c.r = retry /\ c.event = event /\ c.err = recvErr
      BY <2>1, <2>2 DEF classifyPartialFailure, Classified
    <3>2. recvErr = <<>>
      BY <2>2 DEF cause
    <3> QED BY <1>1, <1>12, <3>1, <3>2 DEF Answer, c
  <2>3. CASE ~(cause = <<>> /\ event.kind # "error")
    <3>1. c.again = FALSE /\ c.r = ended /\ c.event = NoEvent /\ c.err = <<"partial">> \o cause
      BY <2>1, <2>3 DEF classifyPartialFailure, Classified, ended
    <3> QED BY <1>2, <1>7, <1>8, <3>1 DEF Answer, c
  <2> QED BY <2>2, <2>3
<1>13. CASE event.kind \in {"", "error"} /\ ~retry.emitted /\ cause = <<>>
  <2>0. c = Classified(IF event.kind = "error" THEN ended ELSE retry, event, FALSE, recvErr)
    BY <1>13 DEF classifyReceived, c, cause, ended
  <2>1. /\ c.again = FALSE /\ c.r = (IF event.kind = "error" THEN ended ELSE retry)
        /\ c.event = event /\ c.err = recvErr
    BY <2>0 DEF Classified
  <2>2. c.r \in Retries /\ (c.r.terminal => isTerminal(event))
    BY <1>1, <1>2, <2>1 DEF isTerminal
  <2>3. Answer(bs, c.r, c.event, c.err)
    BY <1>4, <1>6, <1>13, <2>1, <2>2, QuietAnswer
  <2> QED BY <2>1, <2>3 DEF c
<1>14. CASE event.kind \in {"", "error"} /\ ~retry.emitted /\ cause # <<>>
  <2>0. c = Classified(retry, event, TRUE, cause)
    BY <1>14 DEF classifyReceived, c, cause
  <2>1. c.again = TRUE /\ c.err = cause
    BY <2>0 DEF Classified
  <2> QED BY <1>4, <1>5, <1>14, <2>1 DEF c
<1> QED BY <1>4, <1>9, <1>11, <1>12, <1>13, <1>14 DEF EventKinds

LEMMA FailureSilent ==
  ASSUME NEW event \in SilentEvents, NEW err \in Errors
  PROVE  /\ streamRetryFailure(event, err).event \in SilentEvents
         /\ streamRetryFailure(event, err).err \in Errors
<1>1. [event EXCEPT !.err = err] \in SilentEvents
  BY DEF SilentEvents
<1> QED BY <1>1, NilError DEF streamRetryFailure

LEMMA OutcomeAnswer ==
  ASSUME IInv, pc = "recv", NEW bs, GoodBodies(bs), NEW event \in EventsOf({current}), NEW recvErr \in Errors,
         NEW o \in Outcomes(event, recvErr, classifyReceived(event, recvErr))
  PROVE  \/ o.again = TRUE /\ config.retry /\ ~retry.emitted /\ ~retry.terminal /\ event \in SilentEvents
         \/ o.again = FALSE /\ Answer(bs, o.r, o.event, o.err)
<1> DEFINE c == classifyReceived(event, recvErr)
           ended == [retry EXCEPT !.terminal = TRUE]
           failure == streamRetryFailure(event, <<"exhausted">> \o c.err)
<1>1. retry \in Retries /\ retry.emitted \in BOOLEAN /\ turn.events \in Seq(EventsOf({current}))
  BY TurnFields
<1>2. CASE ~config.retry \/ retry.terminal
  <2>1. o = Classified(retry, event, FALSE, recvErr)
    BY <1>2 DEF Outcomes
  <2>2. o.again = FALSE /\ o.r = retry /\ o.event = event /\ o.err = recvErr
    BY <2>1 DEF Classified
  <2>3. config.retry => terminated(turn.events)
    BY <1>2 DEF IInv, Told, terminated
  <2> QED BY <1>1, <1>2, <2>2, <2>3 DEF Answer
<1>3. CASE config.retry /\ ~retry.terminal
  <2> HIDE DEF c
  <2>1. \/ c.again = TRUE /\ ~retry.emitted /\ event \in SilentEvents /\ c.err \in Errors
        \/ c.again = FALSE /\ Answer(bs, c.r, c.event, c.err)
    BY <1>3, ClassifiedAnswer DEF c
  <2>2. o \in Outcomes(event, recvErr, c)
    BY DEF c
  <2>3. CASE c.again = FALSE
    <3>1. o = c
      BY <1>3, <2>2, <2>3 DEF Outcomes
    <3> QED BY <2>1, <2>3, <3>1
  <2>4. CASE c.again = TRUE
    <3>1. ~retry.emitted /\ event \in SilentEvents /\ c.err \in Errors /\ turn.events \in Seq(SilentEvents)
      BY <1>3, <2>1, <2>4 DEF IInv, Told
    <3>2. ended \in Retries
      BY <1>1, RetryEnds
    <3>3. "exhausted" \in Tags /\ "canceled" \in Tags /\ "veto" \in Tags
      BY DEF Tags
    <3>4. <<"exhausted">> \o c.err \in Errors /\ <<"canceled">> \in Errors /\ <<"veto">> \in Errors
      BY <3>1, <3>3, WrappedError, SingleError
    <3>5. failure.event \in SilentEvents /\ failure.err \in Errors
      BY <3>1, <3>4, FailureSilent
    <3>6. ASSUME NEW e \in SilentEvents, NEW err \in Errors PROVE Answer(bs, retry, e, err)
      BY <1>1, <1>3, <3>1, QuietAnswer
    <3>7. CASE contextRetryStop(c.err)
      <4>1. o = Classified(retry, NoEvent, FALSE, c.err)
        BY <1>3, <2>2, <2>4, <3>7 DEF Outcomes
      <4>2. o.again = FALSE /\ o.r = retry /\ o.event = NoEvent /\ o.err = c.err
        BY <4>1 DEF Classified
      <4> QED BY <3>1, <3>6, <4>2, NoEventSilent
    <3>8. CASE ~contextRetryStop(c.err) /\ retry.retries >= MaxRetries
      <4>1. o = Classified(retry, failure.event, FALSE, failure.err)
        BY <1>3, <2>2, <2>4, <3>8 DEF Outcomes
      <4> HIDE DEF failure
      <4>2. o.again = FALSE /\ o.r = retry /\ o.event = failure.event /\ o.err = failure.err
        BY <4>1 DEF Classified
      <4> QED BY <3>5, <3>6, <4>2
    <3>9. CASE ~contextRetryStop(c.err) /\ ~(retry.retries >= MaxRetries)
      <4>1. PICK a \in Approvals(c.err) :
              o = CASE a \in {"canceled", "veto"} -> Classified(retry, NoEvent, FALSE, <<a>>)
                    [] a = "wait" -> c
                    [] OTHER -> IF event.kind = "error" THEN Classified(ended, event, FALSE, recvErr)
                                ELSE Classified(retry, event, FALSE, c.err)
        BY <1>3, <2>2, <2>4, <3>9 DEF Outcomes
      <4> HIDE DEF ended
      <4>2. CASE a \in {"canceled", "veto"}
        <5>1. o = Classified(retry, NoEvent, FALSE, <<a>>)
          BY <4>1, <4>2
        <5>2. o.again = FALSE /\ o.r = retry /\ o.event = NoEvent /\ o.err = <<a>>
          BY <5>1 DEF Classified
        <5> QED BY <3>4, <3>6, <4>2, <5>2, NoEventSilent
      <4>3. CASE a = "wait"
        <5>1. o = c
          BY <4>1, <4>3
        <5> QED BY <1>3, <2>4, <3>1, <5>1
      <4>4. CASE a \notin {"canceled", "veto", "wait"} /\ event.kind = "error"
        <5>1. o = Classified(ended, event, FALSE, recvErr)
          BY <4>1, <4>4
        <5>2. o.again = FALSE /\ o.r = ended /\ o.event = event /\ o.err = recvErr
          BY <5>1 DEF Classified
        <5>3. isTerminal(event)
          BY <4>4 DEF isTerminal
        <5>4. Answer(bs, ended, event, recvErr)
          BY <1>3, <3>1, <3>2, <5>3, QuietAnswer
        <5> QED BY <5>2, <5>4
      <4>5. CASE a \notin {"canceled", "veto", "wait"} /\ event.kind # "error"
        <5>1. o = Classified(retry, event, FALSE, c.err)
          BY <4>1, <4>5
        <5>2. o.again = FALSE /\ o.r = retry /\ o.event = event /\ o.err = c.err
          BY <5>1 DEF Classified
        <5> QED BY <3>1, <3>6, <5>2
      <4> QED BY <4>2, <4>3, <4>4, <4>5
    <3> QED BY <3>7, <3>8, <3>9
  <2> QED BY <2>1, <2>3, <2>4
<1> QED BY <1>2, <1>3

LEMMA AwaitStep ==
  ASSUME IInv, NEW bs, GoodBodies(bs), NEW wait \in {"open", "recv"}, NEW event \in SilentEvents,
         ~retry.emitted, ~retry.terminal, turn.events \in Seq(SilentEvents), current # 0 => config.retry,
         wait = "recv" => current # 0,
         wait = "open" => \A b \in DOMAIN bs : ~bs[b].open,
         await(bs, retry, wait, event)
  PROVE  IInv'
<1> DEFINE r == [retry EXCEPT !.wait = wait, !.event = event]
<1>1. /\ pc' = "retryWait" /\ turn' = turn /\ bodies' = bs /\ retry' = r /\ chain' = NewChain
      /\ config' = config /\ ctx' = ctx /\ current' = current
  BY DEF await
<1>2. r \in Retries /\ r.emitted = retry.emitted /\ r.terminal = retry.terminal /\ r.wait = wait
  BY TurnFields DEF Retries
<1> HIDE DEF r
<1>3. Types'
  <2>1. NewChain \in Chains
    BY NilError DEF NewChain, Chains
  <2> QED BY <1>1, <1>2, <2>1 DEF IInv, Types, Turns, PCs
<1>4. Bodied'
  BY <1>1 DEF GoodBodies, Bodied, BodiesOf
<1>5. Silent'
  BY <1>1, <1>2 DEF IInv, Silent, Opening
<1>6. Told'
  BY <1>1, <1>2 DEF Told
<1>7. Closed'
  BY <1>1, <1>2 DEF Closed, GoodBodies
<1>8. PartialKept'
  BY <1>1 DEF PartialKept, returned
<1> QED BY <1>3, <1>4, <1>5, <1>6, <1>7, <1>8 DEF IInv

LEMMA RetriedStep ==
  ASSUME IInv, pc = "recv", NEW bs, GoodBodies(bs), NEW event \in EventsOf({current}), NEW recvErr \in Errors,
         retried(bs, event, recvErr)
  PROVE  IInv'
<1>1. PICK o \in Outcomes(event, recvErr, classifyReceived(event, recvErr)) :
        IF o.again THEN await(bs, retry, "recv", event) ELSE received(bs, o.r, o.event, o.err)
  BY DEF retried
<1>2. current # 0
  BY DEF IInv, Silent, Opening
<1>3. CASE o.again = TRUE
  <2>1. config.retry /\ ~retry.emitted /\ ~retry.terminal /\ event \in SilentEvents
    BY <1>3, OutcomeAnswer
  <2>2. turn.events \in Seq(SilentEvents)
    BY <2>1 DEF IInv, Told
  <2> QED BY <1>1, <1>2, <1>3, <2>1, <2>2, AwaitStep
<1>4. CASE o.again = FALSE
  <2>1. Answer(bs, o.r, o.event, o.err)
    BY <1>4, OutcomeAnswer
  <2> QED BY <1>1, <1>2, <1>4, <2>1, ReceivedStep
<1>5. o.again = TRUE \/ o.again = FALSE
  BY OutcomeAnswer
<1> QED BY <1>3, <1>4, <1>5

LEMMA CurrentBody ==
  ASSUME IInv, current # 0
  PROVE  /\ current \in DOMAIN bodies /\ bodies[current] \in BodiesOf({current})
         /\ bodies[current].parser \in ParsersOf({current}) /\ bodies[current].frames \in Seq(AllFrames)
         /\ protocol(bodies[current]) \in Protocols
<1>1. current \in DOMAIN bodies /\ bodies[current] \in BodiesOf({current})
  BY DEF IInv, Types, Bodied
<1>2. /\ bodies[current].parser \in ParsersOf({current}) /\ bodies[current].frames \in Seq(AllFrames)
      /\ bodies[current].driver \in DOMAIN config.drivers
  BY <1>1 DEF BodiesOf
<1>3. config.drivers \in Seq(Protocols)
  BY ConfigAssumption DEF IInv, Types
<1> QED BY <1>1, <1>2, <1>3 DEF protocol

LEMMA PutBody ==
  ASSUME IInv, current # 0, NEW body \in BodiesOf({current})
  PROVE  GoodBodies([bodies EXCEPT ![current] = body])
<1> DEFINE bs == [bodies EXCEPT ![current] = body]
<1>1. current \in DOMAIN bodies /\ current \in Nat /\ GoodBodies(bodies)
  BY CurrentBody, OwnBodiesGood, TurnFields
<1>2. body \in BodiesOf(Nat)
  BY <1>1, BodyWidens
<1>3. /\ bs \in Seq(BodiesOf(Nat)) /\ Len(bs) = Len(bodies) /\ DOMAIN bs = DOMAIN bodies
      /\ \A b \in DOMAIN bodies : bs[b] = IF b = current THEN body ELSE bodies[b]
  BY <1>1, <1>2 DEF GoodBodies
<1> HIDE DEF bs
<1>4. GoodBodies(bs)
  BY <1>1, <1>3 DEF GoodBodies
<1> QED BY <1>4 DEF bs

LEMMA ReadingHasBody ==
  ASSUME IInv, pc \in {"recv", "collect", "deliver"}
  PROVE  current # 0
BY DEF IInv, Silent, Opening

LEMMA RecvPendingStep ==
  ASSUME IInv, RecvPending
  PROVE  IInv'
<1>1. pc = "recv" /\ current # 0
  BY ReadingHasBody DEF RecvPending
<1> DEFINE old == bodies[current]
           parser == [old.parser EXCEPT !.pending = Tail(@)]
           body == [old EXCEPT !.parser = parser]
           bs == [bodies EXCEPT ![current] = body]
           event == Head(old.parser.pending)
<1>2. /\ old \in BodiesOf({current}) /\ old.parser \in ParsersOf({current}) /\ current \in DOMAIN bodies
  BY <1>1, CurrentBody
<1>3. old.parser.pending \in Seq(EventsOf({current})) /\ old.parser.pending # <<>>
  BY <1>2, ParserFields DEF RecvPending
<1>4. event \in EventsOf({current}) /\ Tail(old.parser.pending) \in Seq(EventsOf({current}))
  BY <1>3
<1>5. parser \in ParsersOf({current})
  BY <1>2, <1>4, ParserUpdates
<1>6. [bodies EXCEPT ![current].parser.pending = Tail(@)] = bs
  BY <1>2 DEF BodiesOf, ParsersOf
<1>7. body \in BodiesOf({current})
  <2> HIDE DEF parser, old
  <2> QED BY <1>2, <1>5 DEF BodiesOf
<1>8. GoodBodies(bs)
  <2> HIDE DEF body
  <2> QED BY <1>1, <1>7, PutBody
<1>9. retried(bs, event, <<>>)
  BY <1>6 DEF RecvPending
<1> HIDE DEF bs, event
<1> QED BY <1>1, <1>4, <1>8, <1>9, RetriedStep, NilError

LEMMA RecvEndStep ==
  ASSUME IInv, RecvEnd
  PROVE  IInv'
<1> DEFINE err == IF bodies[current].parser.finished THEN <<"eof">> ELSE <<"plain">>
<1>1. pc = "recv" /\ retried(bodies, NoEvent, err)
  BY DEF RecvEnd
<1>2. err \in Errors
  BY ErrorsNamed
<1>3. NoEvent \in EventsOf({current})
  BY NoEventSilent, SilentIsEvent
<1> HIDE DEF err
<1> QED BY <1>1, <1>2, <1>3, OwnBodiesGood, RetriedStep

LEMMA ReadFrameGood ==
  ASSUME IInv, current # 0, NEW f \in AllFrames, NEW p \in ParsersOf({current})
  PROVE  GoodBodies(readFrame(f, p))
<1> DEFINE old == bodies[current]
           body == [old EXCEPT !.frames = Append(@, f), !.parser = p]
<1>1. /\ old \in BodiesOf({current}) /\ old.frames \in Seq(AllFrames) /\ current \in DOMAIN bodies
  BY CurrentBody
<1>2. Append(old.frames, f) \in Seq(AllFrames)
  BY <1>1, AppendFacts
<1>3. body \in BodiesOf({current})
  BY <1>1, <1>2 DEF BodiesOf
<1>4. [bodies EXCEPT ![current].frames = Append(@, f), ![current].parser = p] = [bodies EXCEPT ![current] = body]
  BY <1>1 DEF BodiesOf
<1> HIDE DEF body
<1>5. GoodBodies([bodies EXCEPT ![current] = body])
  BY <1>3, PutBody
<1> QED BY <1>4, <1>5, OwnBodiesGood DEF readFrame

\* The parser reads on.
LEMMA ReadOnStep ==
  ASSUME IInv, pc = "recv", NEW bs, GoodBodies(bs), bodies' = bs,
         UNCHANGED <<config, ctx, pc, current, chain, retry, turn>>
  PROVE  IInv'
<1>1. Types' /\ Silent' /\ Told' /\ PartialKept'
  BY DEF IInv, Types, Silent, Told, PartialKept, returned, Turns
<1>2. Bodied'
  BY DEF GoodBodies, Bodied, BodiesOf
<1>3. Closed'
  BY DEF GoodBodies, Closed
<1> QED BY <1>1, <1>2, <1>3 DEF IInv

LEMMA RecvFrameStep ==
  ASSUME IInv, RecvFrame
  PROVE  IInv'
<1>1. pc = "recv" /\ current # 0
  BY ReadingHasBody DEF RecvFrame
<1>2. PICK f \in Frames(bodies[current]) :
        consumed(f, consume(protocol(bodies[current]), bodies[current].parser, f, pieceOf(current, f)))
  BY DEF RecvFrame
<1> DEFINE out == consume(protocol(bodies[current]), bodies[current].parser, f, pieceOf(current, f))
           pending == out.parser.pending
           parser == [out.parser EXCEPT !.pending = IF pending = <<>> THEN <<>> ELSE Tail(pending)]
           event == IF pending = <<>> THEN NoEvent ELSE Head(pending)
<1>3. f \in AllFrames
  BY FrameInAll
<1>4. out \in Parsed({current})
  <2>1. pieceOf(current, f) \in PiecesOf({current})
    BY <1>1, CurrentBody, PieceTyped
  <2> QED BY <1>1, <2>1, CurrentBody, ConsumeTyped
<1> HIDE DEF out
<1>5. out.parser \in ParsersOf({current}) /\ out.err \in Errors
  BY <1>4 DEF Parsed
<1>6. pending \in Seq(EventsOf({current}))
  BY <1>5, ParserFields
<1>7. CASE out.err = <<>> /\ pending = <<>>
  <2>1. bodies' = readFrame(f, out.parser) /\ UNCHANGED <<config, ctx, pc, current, chain, retry, turn>>
    BY <1>2, <1>7 DEF consumed, out
  <2>2. GoodBodies(readFrame(f, out.parser))
    BY <1>1, <1>3, <1>5, ReadFrameGood
  <2> QED BY <1>1, <2>1, <2>2, ReadOnStep
<1>8. CASE ~(out.err = <<>> /\ pending = <<>>)
  <2>1. retried(readFrame(f, parser), event, out.err)
    BY <1>2, <1>8 DEF consumed, out
  <2>2. event \in EventsOf({current})
    <3>1. NoEvent \in EventsOf({current})
      BY NoEventSilent, SilentIsEvent
    <3>2. pending # <<>> => Head(pending) \in EventsOf({current})
      BY <1>6
    <3> QED BY <3>1, <3>2
  <2> DEFINE rest == IF pending = <<>> THEN <<>> ELSE Tail(pending)
  <2>3. rest \in Seq(EventsOf({current}))
    BY <1>6
  <2> HIDE DEF rest
  <2>4. parser \in ParsersOf({current})
    <3>1. [out.parser EXCEPT !.pending = rest] \in ParsersOf({current})
      BY <1>5, <2>3, ParserUpdates
    <3> QED BY <3>1 DEF rest
  <2> HIDE DEF parser, event
  <2>5. GoodBodies(readFrame(f, parser))
    BY <1>1, <1>3, <2>4, ReadFrameGood
  <2> QED BY <1>1, <1>5, <2>1, <2>2, <2>5, RetriedStep
<1> QED BY <1>7, <1>8

LEMMA CollectStep ==
  ASSUME IInv, Collect
  PROVE  IInv'
<1>1. pc = "collect" /\ current # 0
  BY ReadingHasBody DEF Collect
<1>2. CASE ctx /\ ~turn.sawTerminal
  <2>1. leave(bodies, retry, failed(<<"canceled">>))
    BY <1>2 DEF Collect
  <2>2. ~IsRetryableError(<<"canceled">>)
    BY OwnErrorNotRetryable
  <2>3. /\ failed(<<"canceled">>) \in Turns(current, failed(<<"canceled">>))
        /\ Kept(failed(<<"canceled">>))
    BY <1>1, <2>2, FailedKept
  <2> QED BY <1>1, <2>1, <2>3, LeaveStep, OwnBodiesGood, TurnFields
<1>3. CASE ~(ctx /\ ~turn.sawTerminal)
  <2>1. pc' = "recv" /\ UNCHANGED <<config, ctx, bodies, current, chain, retry, turn>>
    BY <1>3 DEF Collect
  <2>2. Types' /\ Told' /\ PartialKept'
    BY <1>1, <2>1 DEF IInv, Types, Told, PartialKept, returned, Turns, PCs
  <2>3. Bodied' /\ Closed' /\ Silent'
    BY <1>1, <2>1 DEF IInv, Bodied, BodiesOf, Closed, Silent, Opening
  <2> QED BY <2>2, <2>3 DEF IInv
<1> QED BY <1>2, <1>3

LEMMA DeliverStep ==
  ASSUME IInv, Deliver
  PROVE  IInv'
<1>1. pc = "deliver" /\ current # 0
  BY ReadingHasBody DEF Deliver
<1>2. ASSUME NEW fault \in {"callback", "panic"}, leave(bodies, retry, failed(<<fault>>)) PROVE IInv'
  <2>1. ~IsRetryableError(<<fault>>)
    BY OwnErrorNotRetryable
  <2>2. /\ failed(<<fault>>) \in Turns(current, failed(<<fault>>))
        /\ Kept(failed(<<fault>>))
    BY <1>1, <2>1, FailedKept
  <2> QED BY <1>1, <1>2, <2>2, LeaveStep, OwnBodiesGood, TurnFields
<1>3. CASE pc' = "collect" /\ UNCHANGED <<config, ctx, bodies, current, chain, retry, turn>>
  <2>2. Types' /\ Told' /\ PartialKept'
    BY <1>1, <1>3 DEF IInv, Types, Told, PartialKept, returned, Turns, PCs
  <2>3. Bodied' /\ Closed' /\ Silent'
    BY <1>1, <1>3 DEF IInv, Bodied, BodiesOf, Closed, Silent, Opening
  <2> QED BY <2>2, <2>3 DEF IInv
<1> QED BY <1>2, <1>3 DEF Deliver

-----------------------------------------------------------------------------
(* Opening a stream.                                                       *)

LEMMA QuietOpening ==
  ASSUME IInv, pc \in Opening
  PROVE  /\ ~retry.emitted /\ ~retry.terminal /\ turn.events \in Seq(SilentEvents)
         /\ current # 0 => config.retry
         /\ current = 0 => turn.events = <<>> /\ turn.assistant = EmptyTurn
BY DEF IInv, Silent

LEMMA GaveUpStep ==
  ASSUME IInv, pc \in Opening, NEW bs, GoodBodies(bs), NEW err \in Errors, gaveUp(bs, err)
  PROVE  IInv'
<1>1. /\ ~retry.emitted /\ ~retry.terminal /\ turn.events \in Seq(SilentEvents)
      /\ current = 0 => turn.events = <<>> /\ turn.assistant = EmptyTurn
  BY QuietOpening
<1>2. CASE current = 0
  <2> DEFINE t == [turn EXCEPT !.err = err]
  <2>1. leave(bs, retry, t)
    BY <1>2 DEF gaveUp
  <2>2. t \in Turns(current, t) /\ t.events = turn.events /\ t.assistant = turn.assistant
    BY TurnFields DEF Turns
  <2> HIDE DEF t
  <2>3. ~hasContent(<<>>)
    BY DEF hasContent
  <2>4. Kept(t)
    BY <1>1, <1>2, <2>2, <2>3, EmptyContents DEF Kept
  <2> QED BY <1>1, <1>2, <2>1, <2>2, <2>4, LeaveStep, TurnFields
<1>3. CASE current # 0
  <2> DEFINE failure == streamRetryFailure(retry.event, err)
  <2>1. received(bs, retry, failure.event, failure.err)
    BY <1>3 DEF gaveUp
  <2>2. failure.event \in SilentEvents /\ failure.err \in Errors
    BY TurnFields, FailureSilent
  <2> HIDE DEF failure
  <2>3. Answer(bs, retry, failure.event, failure.err)
    BY <1>1, <2>2, QuietAnswer, TurnFields
  <2> QED BY <1>3, <2>1, <2>3, ReceivedStep
<1> QED BY <1>2, <1>3

LEMMA OpenFailedStep ==
  ASSUME IInv, pc \in Opening, NEW bs, GoodBodies(bs), \A b \in DOMAIN bs : ~bs[b].open,
         NEW err \in Errors, openFailed(bs, err)
  PROVE  IInv'
<1>1. PICK o \in Reopenings(err) :
        IF o.again THEN await(bs, retry, "open", retry.event) ELSE gaveUp(bs, o.err)
  BY DEF openFailed
<1>2. "exhausted" \in Tags /\ "canceled" \in Tags /\ "veto" \in Tags
  BY DEF Tags
<1>3. <<"exhausted">> \o err \in Errors /\ <<"canceled">> \in Errors /\ <<"veto">> \in Errors
  BY <1>2, WrappedError, SingleError
<1>4. o.again \in BOOLEAN /\ o.err \in Errors
  <2>1. CASE ~config.retry \/ contextRetryStop(err)
    <3>1. o = [again |-> FALSE, err |-> err]
      BY <2>1 DEF Reopenings
    <3> QED BY <3>1
  <2>2. CASE ~(~config.retry \/ contextRetryStop(err)) /\ retry.retries >= MaxRetries
    <3>1. o = [again |-> FALSE, err |-> <<"exhausted">> \o err]
      BY <2>2 DEF Reopenings
    <3> QED BY <1>3, <3>1
  <2>3. CASE ~(~config.retry \/ contextRetryStop(err)) /\ ~(retry.retries >= MaxRetries)
    <3>1. PICK a \in Approvals(err) :
            o = CASE a \in {"canceled", "veto"} -> [again |-> FALSE, err |-> <<a>>]
                  [] a = "no" -> [again |-> FALSE, err |-> err]
                  [] OTHER -> [again |-> TRUE, err |-> err]
      BY <2>3 DEF Reopenings
    <3>2. CASE a \in {"canceled", "veto"}
      <4>1. o = [again |-> FALSE, err |-> <<a>>]
        BY <3>1, <3>2
      <4> QED BY <1>3, <3>2, <4>1
    <3>3. CASE a = "no"
      BY <3>1, <3>3
    <3>4. CASE a \notin {"canceled", "veto", "no"}
      BY <3>1, <3>4
    <3> QED BY <3>2, <3>3, <3>4
  <2> QED BY <2>1, <2>2, <2>3
<1>5. CASE o.again
  <2>1. await(bs, retry, "open", retry.event)
    BY <1>1, <1>5
  <2> QED BY <2>1, QuietOpening, TurnFields, AwaitStep
<1>6. CASE ~o.again
  <2>1. gaveUp(bs, o.err)
    BY <1>1, <1>6
  <2> QED BY <1>4, <2>1, GaveUpStep
<1> QED BY <1>4, <1>5, <1>6

LEMMA DriverFailedStep ==
  ASSUME IInv, pc \in Opening, NEW bs, GoodBodies(bs), \A b \in DOMAIN bs : ~bs[b].open,
         NEW err \in Errors, driverFailed(bs, err)
  PROVE  IInv'
<1>1. CASE config.chain = "single"
  BY <1>1, OpenFailedStep DEF driverFailed
<1>2. CASE config.chain # "single"
  <2> DEFINE ch == [NewChain EXCEPT !.at = chain.at + 1, !.errs = chain.errs \o err]
  <2>1. /\ pc' = "driver" /\ bodies' = bs /\ chain' = ch
        /\ UNCHANGED <<config, ctx, current, retry, turn>>
    BY <1>2 DEF driverFailed
  <2>2. ch \in Chains
    <3>1. chain.at + 1 \in Nat \ {0} /\ chain.errs \in Errors
      BY DEF IInv, Types, Chains
    <3>2. chain.errs \o err \in Errors
      BY <3>1, JoinedErrors
    <3> QED BY <3>1, <3>2 DEF NewChain, Chains
  <2> HIDE DEF ch
  <2>3. Types' /\ Told' /\ PartialKept'
    BY <2>1, <2>2 DEF IInv, Types, Told, PartialKept, returned, Turns, PCs, Opening
  <2>4. Bodied' /\ Closed'
    BY <2>1 DEF GoodBodies, Bodied, BodiesOf, Closed
  <2>5. Silent'
    BY <2>1, QuietOpening DEF Silent, Opening
  <2> QED BY <2>3, <2>4, <2>5 DEF IInv
<1> QED BY <1>1, <1>2

LEMMA AllClosed ==
  ASSUME IInv, pc \in {"driver", "request", "backoff"}
  PROVE  GoodBodies(bodies) /\ \A b \in DOMAIN bodies : ~bodies[b].open
BY OwnBodiesGood DEF IInv, Closed

LEMMA DriverStep ==
  ASSUME IInv, Driver
  PROVE  IInv'
<1>1. pc = "driver" /\ pc \in Opening
  BY DEF Driver, Opening
<1>2. GoodBodies(bodies) /\ \A b \in DOMAIN bodies : ~bodies[b].open
  BY <1>1, AllClosed
<1> DEFINE tail == IF chain.at > Len(config.drivers) THEN <<>> ELSE <<"canceled">>
           joined == <<"joined">> \o chain.errs \o tail
<1>3. joined \in Errors
  <2>1. chain.errs \in Errors
    BY DEF IInv, Types, Chains
  <2>2. tail \in Errors
    BY ErrorsNamed
  <2>3. "joined" \in Tags
    BY DEF Tags
  <2> HIDE DEF tail
  <2>4. <<"joined">> \o chain.errs \in Errors
    BY <2>1, <2>3, WrappedError
  <2> QED BY <2>2, <2>4, JoinedErrors
<1>4. CASE openFailed(bodies, joined)
  <2> HIDE DEF joined
  <2> QED BY <1>1, <1>2, <1>3, <1>4, OpenFailedStep
<1>5. CASE ~chainStops /\ pc' = "request" /\ UNCHANGED <<config, ctx, bodies, current, chain, retry, turn>>
  <2>1. Types' /\ Told' /\ PartialKept'
    BY <1>1, <1>5 DEF IInv, Types, Told, PartialKept, returned, Turns, PCs, Opening
  <2>2. Bodied' /\ Closed'
    BY <1>2, <1>5 DEF GoodBodies, IInv, Bodied, BodiesOf, Closed
  <2>3. chain.at <= Len(config.drivers)
    <3>1. ~(chain.at > Len(config.drivers))
      BY <1>5 DEF chainStops
    <3>2. chain.at \in Nat /\ Len(config.drivers) \in Nat
      BY ConfigAssumption DEF IInv, Types, Chains
    <3> QED BY <3>1, <3>2
  <2>4. Silent'
    BY <1>1, <1>5, <2>3, QuietOpening DEF Silent, Opening
  <2> QED BY <2>1, <2>2, <2>4 DEF IInv
<1>6. CASE driverFailed(bodies, <<"plain">>)
  BY <1>1, <1>2, <1>6, DriverFailedStep, ErrorsNamed
<1> QED BY <1>4, <1>5, <1>6 DEF Driver

-----------------------------------------------------------------------------
(* HTTP requests, timers and the context.                                  *)

LEMMA RetryTimerStep ==
  ASSUME IInv, RetryTimer
  PROVE  IInv'
<1> DEFINE r == [retry EXCEPT !.retries = @ + 1]
           bs == IF retry.wait = "recv" THEN closeBody(bodies, current) ELSE bodies
<1>1. /\ pc = "retryWait" /\ pc' = "driver" /\ retry' = r /\ bodies' = bs
      /\ UNCHANGED <<config, ctx, current, chain, turn>>
  BY DEF RetryTimer
<1>2. pc \in Opening
  BY <1>1 DEF Opening
<1>3. GoodBodies(bs) /\ \A b \in DOMAIN bs : ~bs[b].open
  <2>1. GoodBodies(bodies) /\ current \in Nat /\ retry.wait \in {"open", "recv"}
    BY OwnBodiesGood, TurnFields DEF Retries
  <2>2. CASE retry.wait = "recv"
    BY <2>1, <2>2, CloseBody
  <2>3. CASE retry.wait = "open"
    BY <1>1, <2>1, <2>3 DEF IInv, Closed
  <2> QED BY <2>1, <2>2, <2>3
<1>4. r \in Retries /\ r.emitted = retry.emitted /\ r.terminal = retry.terminal
  BY TurnFields DEF Retries
<1> HIDE DEF r, bs
<1>5. Types' /\ Told' /\ PartialKept'
  BY <1>1, <1>4 DEF IInv, Types, Told, PartialKept, returned, Turns, PCs
<1>6. Bodied' /\ Closed'
  BY <1>1, <1>3 DEF GoodBodies, Bodied, BodiesOf, Closed
<1>7. Silent'
  BY <1>1, <1>2, <1>4, QuietOpening DEF Silent, Opening
<1> QED BY <1>5, <1>6, <1>7 DEF IInv

LEMMA RetryCanceledStep ==
  ASSUME IInv, RetryCanceled
  PROVE  IInv'
<1>1. pc = "retryWait" /\ pc \in Opening
  BY DEF RetryCanceled, Opening
<1>2. CASE retry.wait = "recv"
  <2>1. received(bodies, retry, NoEvent, <<"canceled">>)
    BY <1>2 DEF RetryCanceled
  <2>2. Answer(bodies, retry, NoEvent, <<"canceled">>)
    BY <1>1, QuietOpening, QuietAnswer, OwnBodiesGood, TurnFields, NoEventSilent, ErrorsNamed
  <2>3. CASE current # 0
    BY <2>1, <2>2, <2>3, ReceivedStep
  <2>4. CASE current = 0
    BY <1>1, <1>2, <2>4 DEF IInv, Silent
  <2> QED BY <2>3, <2>4
<1>3. CASE retry.wait # "recv"
  <2>1. gaveUp(bodies, <<"canceled">>)
    BY <1>3 DEF RetryCanceled
  <2> QED BY <1>1, <2>1, GaveUpStep, OwnBodiesGood, ErrorsNamed
<1> QED BY <1>2, <1>3

LEMMA NewBodyTyped ==
  ASSUME IInv, pc \in {"request", "backoff"}, NEW open \in BOOLEAN, NEW B
  PROVE  NewBody(chain.at, open) \in BodiesOf(B)
<1>1. chain.at \in DOMAIN config.drivers
  <2>1. chain.at \in Nat \ {0} /\ config.drivers \in Seq(Protocols) /\ chain.at <= Len(config.drivers)
    BY ConfigAssumption DEF IInv, Types, Chains, Silent
  <2> QED BY <2>1
<1>2. NewParser \in ParsersOf(B) /\ <<>> \in Seq(AllFrames)
  BY NewParserTyped
<1> QED BY <1>1, <1>2 DEF NewBody, BodiesOf

\* A response is a new body; only a stream stays open.
LEMMA AnsweredBodies ==
  ASSUME IInv, pc = "request", NEW answer
  PROVE  /\ answered(answer) \in Seq(BodiesOf(Nat))
         /\ \A b \in DOMAIN answered(answer) : answered(answer)[b] \in BodiesOf({b})
         /\ Len(bodies) <= Len(answered(answer))
         /\ answer = "stream" => Len(answered(answer)) = Len(bodies) + 1
         /\ \A b \in DOMAIN answered(answer) : answered(answer)[b].open => answer = "stream" /\ b = Len(bodies) + 1
<1> DEFINE open == answer = "stream"
           body == NewBody(chain.at, open)
           bs == answered(answer)
<1>1. GoodBodies(bodies) /\ \A b \in DOMAIN bodies : ~bodies[b].open
  BY AllClosed
<1>2. body \in BodiesOf(Nat) /\ body \in BodiesOf({Len(bodies) + 1})
  BY NewBodyTyped
<1>3. body.open = open
  BY DEF NewBody
<1>4. CASE isResponse(answer)
  <2>1. bs = Append(bodies, body)
    BY <1>4 DEF answered
  <2> HIDE DEF body, bs
  <2>2. /\ bs \in Seq(BodiesOf(Nat)) /\ Len(bs) = Len(bodies) + 1 /\ DOMAIN bs = 1..(Len(bodies) + 1)
        /\ \A i \in 1..Len(bodies) : bs[i] = bodies[i]
        /\ bs[Len(bodies) + 1] = body
    BY <1>1, <1>2, <2>1, AppendFacts DEF GoodBodies
  <2>3. DOMAIN bodies = 1..Len(bodies) /\ Len(bodies) \in Nat
    BY <1>1 DEF GoodBodies
  <2>4. ASSUME NEW b \in DOMAIN bs
        PROVE  bs[b] \in BodiesOf({b}) /\ (bs[b].open => answer = "stream" /\ b = Len(bodies) + 1)
    <3>1. CASE b = Len(bodies) + 1
      BY <1>2, <1>3, <2>2, <3>1
    <3>2. CASE b # Len(bodies) + 1
      <4>1. b \in DOMAIN bodies /\ bs[b] = bodies[b]
        BY <2>2, <2>3, <3>2
      <4> QED BY <1>1, <4>1 DEF GoodBodies
    <3> QED BY <3>1, <3>2
  <2>5. Len(bodies) <= Len(bs)
    BY <2>2, <2>3
  <2> QED BY <2>2, <2>4, <2>5 DEF bs
<1>5. CASE ~isResponse(answer)
  <2>1. bs = bodies /\ answer # "stream"
    BY <1>5 DEF answered, isResponse
  <2>2. Len(bodies) \in Nat
    BY <1>1 DEF GoodBodies
  <2> QED BY <1>1, <2>1, <2>2 DEF GoodBodies
<1> QED BY <1>4, <1>5

LEMMA RequestStep ==
  ASSUME IInv, Request
  PROVE  IInv'
<1>1. pc = "request" /\ pc \in Opening /\ current \in Nat
  BY TurnFields DEF Request, Opening
<1>2. PICK answer \in Answers :
        CASE answer = "stream" ->
               /\ bodies' = answered(answer)
               /\ current' = Len(bodies) + 1
               /\ pc' = IF current = 0 THEN "collect" ELSE "recv"
               /\ chain' = NewChain
               /\ UNCHANGED <<config, ctx, retry, turn>>
          [] requestRetryable(answer) /\ chain.attempt < Attempts ->
               /\ bodies' = answered(answer)
               /\ pc' = "backoff"
               /\ UNCHANGED <<config, ctx, current, chain, retry, turn>>
          [] OTHER -> driverFailed(answered(answer), responseError(answer))
  BY DEF Request
<1> DEFINE bs == answered(answer)
<1>3. /\ bs \in Seq(BodiesOf(Nat)) /\ \A b \in DOMAIN bs : bs[b] \in BodiesOf({b})
      /\ Len(bodies) <= Len(bs)
      /\ answer = "stream" => Len(bs) = Len(bodies) + 1
      /\ \A b \in DOMAIN bs : bs[b].open => answer = "stream" /\ b = Len(bodies) + 1
  BY <1>1, AnsweredBodies
<1>4. current <= Len(bodies) /\ Len(bodies) \in Nat
  BY DEF IInv, Bodied
<1>5. /\ ~retry.emitted /\ ~retry.terminal /\ turn.events \in Seq(SilentEvents)
      /\ current # 0 => config.retry
      /\ current = 0 => turn.events = <<>> /\ turn.assistant = EmptyTurn
  BY <1>1, QuietOpening
<1> HIDE DEF bs
<1>6. CASE answer = "stream"
  <2>1. /\ bodies' = bs /\ current' = Len(bodies) + 1 /\ pc' \in {"collect", "recv"}
        /\ chain' = NewChain /\ UNCHANGED <<config, ctx, retry, turn>>
    <3>1. ~(requestRetryable(answer) /\ chain.attempt < Attempts)
      BY <1>6 DEF requestRetryable, isResponse
    <3> QED BY <1>2, <1>6, <3>1 DEF bs
  <2>2. turn.events \in Seq(EventsOf({Len(bodies) + 1}))
    BY <1>5, SilentSequences
  <2>3. NewChain \in Chains
    BY NilError DEF NewChain, Chains
  <2>4. Types'
    <3>1. config \in Configs /\ ctx \in BOOLEAN /\ retry \in Retries
          /\ turn \in Turns(Len(bodies) + 1, turn)
      BY <2>2 DEF IInv, Types, Turns
    <3>2. current' \in Nat /\ pc' \in PCs
      BY <1>4, <2>1 DEF PCs
    <3>3. turn' \in Turns(current', turn')
      BY <2>1, <3>1
    <3> QED BY <2>1, <2>3, <3>1, <3>2, <3>3 DEF Types, Chains, Retries, Turns
  <2>5. Bodied'
    <3>1. bodies' = bs /\ current' = Len(bs) /\ BodiesOf(Nat)' = BodiesOf(Nat)
      BY <1>3, <1>6, <2>1 DEF BodiesOf
    <3>2. bodies' \in Seq(BodiesOf(Nat)') /\ current' <= Len(bodies')
      BY <1>3, <3>1
    <3>3. \A b \in DOMAIN bodies' : bodies'[b] \in BodiesOf({b})'
      BY <1>3, <2>1 DEF BodiesOf
    <3> QED BY <3>1, <3>2, <3>3 DEF Bodied
  <2>6. Silent'
    BY <1>4, <2>1 DEF Silent, Opening
  <2>7. Told'
    BY <1>5, <2>1 DEF Told
  <2>8. Closed'
    BY <1>3, <2>1 DEF Closed
  <2>9. PartialKept'
    BY <2>1 DEF PartialKept, returned
  <2> QED BY <2>4, <2>5, <2>6, <2>7, <2>8, <2>9 DEF IInv
<1>7. CASE answer # "stream"
  <2>1. GoodBodies(bs) /\ \A b \in DOMAIN bs : ~bs[b].open
    <3>1. Len(bs) \in Nat
      BY <1>3
    <3>2. current <= Len(bs)
      BY <1>1, <1>3, <1>4, <3>1
    <3> QED BY <1>3, <1>7, <3>2 DEF GoodBodies
  <2>2. CASE requestRetryable(answer) /\ chain.attempt < Attempts
    <3>1. /\ bodies' = bs /\ pc' = "backoff" /\ UNCHANGED <<config, ctx, current, chain, retry, turn>>
      BY <1>2, <1>7, <2>2 DEF bs
    <3>2. Types' /\ Told' /\ PartialKept'
      BY <1>1, <3>1 DEF IInv, Types, Told, PartialKept, returned, Turns, PCs
    <3>3. Bodied' /\ Closed'
      BY <2>1, <3>1 DEF GoodBodies, Bodied, BodiesOf, Closed
    <3>4. Silent'
      BY <1>1, <3>1 DEF IInv, Silent, Opening
    <3> QED BY <3>2, <3>3, <3>4 DEF IInv
  <2>3. CASE ~(requestRetryable(answer) /\ chain.attempt < Attempts)
    <3>1. driverFailed(bs, responseError(answer))
      BY <1>2, <1>7, <2>3 DEF bs
    <3>2. responseError(answer) \in Errors
      <4>1. answer \in HTTPAnswers \cup {"canceled"}
        BY ConfigAssumption DEF Answers, IInv, Types
      <4>2. responseError(answer) = <<"plain">> \/ (answer \in Tags /\ responseError(answer) = <<answer>>)
        BY <1>7, <4>1 DEF responseError, HTTPAnswers, Tags
      <4> QED BY <4>2, SingleError, ErrorsNamed
    <3> QED BY <1>1, <2>1, <3>1, <3>2, DriverFailedStep
  <2> QED BY <2>2, <2>3
<1> QED BY <1>6, <1>7

LEMMA BackoffStep ==
  ASSUME IInv, Backoff
  PROVE  IInv'
<1>1. pc = "backoff" /\ pc \in Opening
  BY DEF Backoff, Opening
<1>2. GoodBodies(bodies) /\ \A b \in DOMAIN bodies : ~bodies[b].open
  BY <1>1, AllClosed
<1>3. CASE driverFailed(bodies, <<"canceled">>)
  BY <1>1, <1>2, <1>3, DriverFailedStep, ErrorsNamed
<1> DEFINE ch == [chain EXCEPT !.attempt = @ + 1]
<1>4. CASE pc' = "request" /\ chain' = ch /\ UNCHANGED <<config, ctx, bodies, current, retry, turn>>
  <2>1. ch \in Chains /\ ch.at = chain.at
    BY DEF IInv, Types, Chains
  <2> HIDE DEF ch
  <2>2. Types' /\ Told' /\ PartialKept'
    BY <1>1, <1>4, <2>1 DEF IInv, Types, Told, PartialKept, returned, Turns, PCs
  <2>3. Bodied' /\ Closed'
    BY <1>2, <1>4 DEF GoodBodies, IInv, Bodied, BodiesOf, Closed
  <2>4. Silent'
    BY <1>1, <1>4, <2>1 DEF IInv, Silent, Opening
  <2> QED BY <2>2, <2>3, <2>4 DEF IInv
<1> QED BY <1>3, <1>4 DEF Backoff


-----------------------------------------------------------------------------
(* The theorems.                                                           *)

LEMMA UnmovedStep ==
  ASSUME IInv, UNCHANGED <<config, pc, bodies, current, chain, retry, turn>>, ctx' \in BOOLEAN
  PROVE  IInv'
<1>1. Types' /\ Bodied'
  BY DEF IInv, Types, Bodied, Turns, BodiesOf
<1>2. Silent' /\ Told' /\ Closed'
  BY DEF IInv, Silent, Told, Closed
<1>3. PartialKept'
  BY DEF IInv, PartialKept, returned
<1> QED BY <1>1, <1>2, <1>3 DEF IInv

LEMMA NextStep ==
  ASSUME IInv, [Next]_vars
  PROVE  IInv'
<1>1. CASE Step
  BY <1>1, DriverStep, RequestStep, BackoffStep, RetryTimerStep, RetryCanceledStep, CollectStep,
     RecvPendingStep, RecvEndStep, RecvFrameStep, DeliverStep DEF Step
<1>2. CASE Cancel
  BY <1>2, UnmovedStep DEF Cancel
<1>3. CASE Returned \/ UNCHANGED vars
  BY <1>3, UnmovedStep DEF Returned, vars, IInv, Types
<1> QED BY <1>1, <1>2, <1>3 DEF Next

LEMMA InitInv == Init => IInv
<1> SUFFICES ASSUME Init PROVE IInv
  OBVIOUS
<1>1. /\ config \in Configs /\ ctx = FALSE /\ pc = "driver" /\ bodies = <<>> /\ current = 0
      /\ chain = NewChain /\ retry = NewRetry /\ turn = NewTurn
  BY DEF Init
<1>2. NewChain \in Chains
  BY NilError DEF NewChain, Chains
<1>3. NewRetry \in Retries /\ ~NewRetry.emitted /\ ~NewRetry.terminal /\ NewRetry.wait = "open"
  BY NoEventSilent DEF NewRetry, Retries
<1>4. NewTurn \in Turns(0, NewTurn) /\ NewTurn.events = <<>> /\ NewTurn.assistant = EmptyTurn
  BY DEF NewTurn, Turns
<1>5. Types
  BY <1>1, <1>2, <1>3, <1>4 DEF Types, PCs
<1>6. Bodied
  BY <1>1 DEF Bodied
<1>7. Silent
  BY <1>1, <1>3, <1>4 DEF Silent, Opening
<1>8. Told
  BY <1>1, <1>3, <1>4 DEF Told
<1>9. Closed /\ PartialKept
  BY <1>1 DEF Closed, PartialKept, returned
<1> QED BY <1>5, <1>6, <1>7, <1>8, <1>9 DEF IInv

\* The inductive invariant holds in every state of a call: every body and every recorded event is
\* well-formed, nothing was handed on while a stream is opened or replaced, retryingStream's flags
\* agree with what was recorded, and only the current body is open.
THEOREM StreamInvariant == Spec => []IInv
<1>1. IInv /\ [Next]_vars => IInv'
  BY NextStep
<1> QED BY <1>1, InitInv, PTL DEF Spec

\* retryingStream never splices two responses: every recorded piece of output came from the current body.
THEOREM OneBodyHolds == Spec => []OneBody
<1>1. ASSUME IInv PROVE OneBody
  <2>1. turn.events \in Seq(EventsOf({current}))
    BY <1>1, TurnFields
  <2>2. ASSUME NEW i \in DOMAIN turn.events, NEW j \in DOMAIN turn.events[i].pieces
        PROVE  turn.events[i].pieces[j].body = current
    <3>1. turn.events[i] \in EventsOf({current})
      BY <2>1
    <3>2. turn.events[i].pieces \in Seq(PiecesOf({current}))
      BY <3>1 DEF EventsOf, Events
    <3>3. turn.events[i].pieces[j] \in PiecesOf({current})
      BY <3>2
    <3> QED BY <3>3 DEF PiecesOf
  <2> QED BY <2>2 DEF OneBody
<1> QED BY <1>1, StreamInvariant, PTL

\* No response body is leaked, however the call was retried, cut off or cancelled: at most one is
\* open, and none when collect has returned.
THEOREM BodiesAreClosed == Spec => []BodiesClosed
<1>1. ASSUME IInv PROVE BodiesClosed
  <2> DEFINE open == {b \in DOMAIN bodies : bodies[b].open}
  <2>1. open = {} \/ open = {current}
    BY <1>1 DEF IInv, Closed
  <2>2. Cardinality(open) = 0 \/ Cardinality(open) = 1
    BY <2>1, FS_EmptySet, FS_Singleton
  <2>3. Cardinality(open) <= 1
    BY <2>2
  <2>4. returned => \A b \in DOMAIN bodies : ~bodies[b].open
    BY <1>1 DEF IInv, Closed, returned
  <2> QED BY <2>3, <2>4 DEF BodiesClosed
<1> QED BY <1>1, StreamInvariant, PTL

\* A call that was cut off keeps the text that was recorded, and after output its failure is never one
\* that its caller may retry.
THEOREM PartialIsKept == Spec => []PartialKept
<1>1. IInv => PartialKept
  BY DEF IInv
<1> QED BY <1>1, StreamInvariant, PTL

-----------------------------------------------------------------------------
(* Labels: what the fragments of tool calls say of the call they belong to *)

\* An event that a vendor's parser made of frames of one tool call: what it says is true, and its
\* pieces belong to that call.
ofItem(e, x) ==
  /\ e.id \in {0, x} /\ e.index \in {0, x}
  /\ \A j \in DOMAIN e.pieces : e.pieces[j].id = x /\ e.pieces[j].index \in {0, x}

\* An event of a host's stream carries the labels of its pieces, whatever they are.
ofHost(e) ==
  /\ e.id \in {0} \cup Items /\ e.index \in {0} \cup Items /\ (e.kind = "call" => e.index = 0)
  /\ \A j \in DOMAIN e.pieces : e.pieces[j].id = e.id /\ e.pieces[j].index = e.index

Labelled(p, e) ==
  e.kind \in {"delta", "call"} =>
    IF p = "host" THEN ofHost(e) ELSE e.kind = "delta" /\ \E x \in Items : ofItem(e, x)

\* The items of the parser are known by their own ids.
Tidy(p, parser) ==
  /\ \A i \in DOMAIN parser.pending : Labelled(p, parser.pending[i])
  /\ \A x \in Items : parser.items[x].id \in {0, x}

TidyBodies(bs) == \A b \in DOMAIN bs : Tidy(protocol(bs[b]), bs[b].parser)

LabelledTurn(p) == \A i \in DOMAIN turn.events : Labelled(p, turn.events[i])

\* What collect makes of a stream that ended.
EndedTurn(events) == normalizeEvents(events, TRUE)

\* A turn without error is what normalizeEvents accepted.
Accepted(t) ==
  t.err = <<>> => EndedTurn(t.events).err = <<>> /\ t.assistant = EndedTurn(t.events).turn

Labels ==
  /\ TidyBodies(bodies)
  /\ current # 0 => LabelledTurn(protocol(bodies[current]))
  /\ returned => current # 0 \/ turn.err # <<>>
  /\ returned => Accepted(turn)

-----------------------------------------------------------------------------
(* toolCallBuilders keeps the fragments of different calls apart.          *)

Labelings == {0} \cup Items

Builders ==
  [id : Labelings, index : Labelings, args : Seq(PiecesOf(Nat)), full : BOOLEAN, conflict : BOOLEAN]

Accs == [builders : Seq(Builders), ids : [Items -> Nat], indexes : [Items -> Nat], duplicate : BOOLEAN]

\* The builder of one tool call.
ofBuilder(b, x) ==
  /\ b.id \in {0, x} /\ b.index \in {0, x}
  /\ \A j \in DOMAIN b.args : b.args[j].id = x /\ b.args[j].index \in {0, x}

\* A builder of a vendor's stream holds one tool call; one of a host's stream holds fragments that do
\* not contradict its labels, or knows that they do.
Own(p, b) ==
  IF p = "host"
  THEN b.conflict \/ \A j \in DOMAIN b.args : b.args[j].id \in {0, b.id} /\ b.args[j].index \in {0, b.index}
  ELSE \E x \in Items : ofBuilder(b, x)

named(p, b, id) == b.id = id \/ (p = "host" /\ b.conflict)

placed(p, b, index) == b.index = index \/ (p = "host" /\ b.conflict)

\* Ids and indexes are bound to builders that have them.
Apart(p, acc) ==
  /\ acc \in Accs
  /\ \A k \in DOMAIN acc.builders : Own(p, acc.builders[k])
  /\ \A x \in Items :
       /\ acc.ids[x] # 0 => acc.ids[x] \in DOMAIN acc.builders /\ named(p, acc.builders[acc.ids[x]], x)
       /\ acc.indexes[x] # 0 => acc.indexes[x] \in DOMAIN acc.builders /\ placed(p, acc.builders[acc.indexes[x]], x)

LEMMA AccFields ==
  ASSUME NEW acc \in Accs
  PROVE  /\ acc.builders \in Seq(Builders) /\ acc.ids \in [Items -> Nat] /\ acc.indexes \in [Items -> Nat]
         /\ acc.duplicate \in BOOLEAN
         /\ Len(acc.builders) \in Nat /\ DOMAIN acc.builders = 1..Len(acc.builders)
BY DEF Accs

LEMMA BuilderFields ==
  ASSUME NEW b \in Builders
  PROVE  /\ b.id \in Labelings /\ b.index \in Labelings /\ b.args \in Seq(PiecesOf(Nat))
         /\ b.full \in BOOLEAN /\ b.conflict \in BOOLEAN
BY DEF Builders

\* One builder is replaced.
putBuilder(acc, k, b) == [acc EXCEPT !.builders = [@ EXCEPT ![k] = b]]

LEMMA PutBuilder ==
  ASSUME NEW acc \in Accs, NEW k \in DOMAIN acc.builders, NEW b \in Builders
  PROVE  LET a == putBuilder(acc, k, b)
         IN  /\ a \in Accs /\ a.ids = acc.ids /\ a.indexes = acc.indexes /\ a.duplicate = acc.duplicate
             /\ DOMAIN a.builders = DOMAIN acc.builders
             /\ a.builders[k] = b
             /\ \A j \in DOMAIN acc.builders : j # k => a.builders[j] = acc.builders[j]
<1> DEFINE bs == [acc.builders EXCEPT ![k] = b]
<1>1. acc.builders \in Seq(Builders)
  BY AccFields
<1>2. /\ bs \in Seq(Builders) /\ DOMAIN bs = DOMAIN acc.builders /\ bs[k] = b
      /\ \A j \in DOMAIN acc.builders : j # k => bs[j] = acc.builders[j]
  BY <1>1
<1>3. putBuilder(acc, k, b) = [acc EXCEPT !.builders = bs]
  BY DEF putBuilder
<1> HIDE DEF bs
<1>4. LET a == [acc EXCEPT !.builders = bs]
      IN  /\ a \in Accs /\ a.ids = acc.ids /\ a.indexes = acc.indexes /\ a.duplicate = acc.duplicate
          /\ a.builders = bs
  BY <1>2 DEF Accs
<1> QED BY <1>2, <1>3, <1>4

\* The event of a fragment, as much of it as its builder depends on.
fragment(b, id, index, pieces) ==
  [b EXCEPT !.id = IF id = 0 THEN @ ELSE id, !.index = IF index = 0 THEN @ ELSE index, !.args = @ \o pieces]

LEMMA FragmentFields ==
  ASSUME NEW b \in Builders, NEW id \in Labelings, NEW index \in Labelings, NEW pieces \in Seq(PiecesOf(Nat))
  PROVE  LET n == fragment(b, id, index, pieces)
         IN  /\ n \in Builders /\ (id = 0 => n.id = b.id) /\ (id # 0 => n.id = id)
             /\ (index = 0 => n.index = b.index) /\ (index # 0 => n.index = index)
             /\ n.args = b.args \o pieces /\ n.full = b.full /\ n.conflict = b.conflict
<1>1. b.args \o pieces \in Seq(PiecesOf(Nat))
  BY BuilderFields
<1> QED BY <1>1 DEF fragment, Builders

LEMMA ConcatFields ==
  ASSUME NEW S, NEW s \in Seq(S), NEW t \in Seq(S), NEW j \in DOMAIN (s \o t)
  PROVE  \/ j \in DOMAIN s /\ (s \o t)[j] = s[j]
         \/ \E i \in DOMAIN t : (s \o t)[j] = t[i]
<1>1. /\ Len(s) \in Nat /\ Len(t) \in Nat /\ DOMAIN s = 1..Len(s) /\ DOMAIN t = 1..Len(t)
      /\ DOMAIN (s \o t) = 1..(Len(s) + Len(t))
  OBVIOUS
<1>2. CASE j <= Len(s)
  BY <1>1, <1>2
<1>3. CASE ~(j <= Len(s))
  <2>1. j - Len(s) \in DOMAIN t /\ (s \o t)[j] = t[j - Len(s)]
    BY <1>1, <1>3
  <2> QED BY <2>1
<1> QED BY <1>2, <1>3

LEMMA PutKeepsApart ==
  ASSUME NEW p, NEW acc, Apart(p, acc), NEW k \in DOMAIN acc.builders, NEW b \in Builders, Own(p, b),
         \A x \in Items : acc.ids[x] = k => named(p, b, x),
         \A x \in Items : acc.indexes[x] = k => placed(p, b, x)
  PROVE  Apart(p, putBuilder(acc, k, b))
<1> DEFINE a == putBuilder(acc, k, b)
<1>1. acc \in Accs
  BY DEF Apart
<1>2. /\ a \in Accs /\ a.ids = acc.ids /\ a.indexes = acc.indexes
      /\ DOMAIN a.builders = DOMAIN acc.builders /\ a.builders[k] = b
      /\ \A j \in DOMAIN acc.builders : j # k => a.builders[j] = acc.builders[j]
  BY <1>1, PutBuilder
<1> HIDE DEF a
<1>3. \A j \in DOMAIN a.builders : Own(p, a.builders[j])
  BY <1>2 DEF Apart
<1>4. ASSUME NEW x \in Items, a.ids[x] # 0
      PROVE  a.ids[x] \in DOMAIN a.builders /\ named(p, a.builders[a.ids[x]], x)
  BY <1>2, <1>4 DEF Apart
<1>5. ASSUME NEW x \in Items, a.indexes[x] # 0
      PROVE  a.indexes[x] \in DOMAIN a.builders /\ placed(p, a.builders[a.indexes[x]], x)
  BY <1>2, <1>5 DEF Apart
<1>6. Apart(p, a)
  BY <1>2, <1>3, <1>4, <1>5 DEF Apart
<1> QED BY <1>6 DEF a

\* An id or an index is bound to a builder.
putID(acc, id, k) == [acc EXCEPT !.ids = IF id = 0 THEN @ ELSE [@ EXCEPT ![id] = k]]

putIndex(acc, index, k) == [acc EXCEPT !.indexes = IF index = 0 THEN @ ELSE [@ EXCEPT ![index] = k]]

LEMMA PutID ==
  ASSUME NEW acc \in Accs, NEW id \in Labelings, NEW k \in Nat
  PROVE  LET a == putID(acc, id, k)
         IN  /\ a \in Accs /\ a.builders = acc.builders /\ a.indexes = acc.indexes /\ a.duplicate = acc.duplicate
             /\ \A x \in Items : a.ids[x] = IF x = id THEN k ELSE acc.ids[x]
<1> DEFINE m == IF id = 0 THEN acc.ids ELSE [acc.ids EXCEPT ![id] = k]
<1>1. acc.ids \in [Items -> Nat] /\ 0 \notin Items
  BY AccFields, ItemsAssumption
<1>2. m \in [Items -> Nat] /\ \A x \in Items : m[x] = IF x = id THEN k ELSE acc.ids[x]
  BY <1>1 DEF Labelings
<1>3. putID(acc, id, k) = [acc EXCEPT !.ids = m]
  BY DEF putID
<1> HIDE DEF m
<1>4. LET a == [acc EXCEPT !.ids = m]
      IN  /\ a \in Accs /\ a.builders = acc.builders /\ a.indexes = acc.indexes /\ a.duplicate = acc.duplicate
          /\ a.ids = m
  BY <1>2 DEF Accs
<1> QED BY <1>2, <1>3, <1>4

LEMMA PutIndex ==
  ASSUME NEW acc \in Accs, NEW index \in Labelings, NEW k \in Nat
  PROVE  LET a == putIndex(acc, index, k)
         IN  /\ a \in Accs /\ a.builders = acc.builders /\ a.ids = acc.ids /\ a.duplicate = acc.duplicate
             /\ \A x \in Items : a.indexes[x] = IF x = index THEN k ELSE acc.indexes[x]
<1> DEFINE m == IF index = 0 THEN acc.indexes ELSE [acc.indexes EXCEPT ![index] = k]
<1>1. acc.indexes \in [Items -> Nat] /\ 0 \notin Items
  BY AccFields, ItemsAssumption
<1>2. m \in [Items -> Nat] /\ \A x \in Items : m[x] = IF x = index THEN k ELSE acc.indexes[x]
  BY <1>1 DEF Labelings
<1>3. putIndex(acc, index, k) = [acc EXCEPT !.indexes = m]
  BY DEF putIndex
<1> HIDE DEF m
<1>4. LET a == [acc EXCEPT !.indexes = m]
      IN  /\ a \in Accs /\ a.builders = acc.builders /\ a.ids = acc.ids /\ a.duplicate = acc.duplicate
          /\ a.indexes = m
  BY <1>2 DEF Accs
<1> QED BY <1>2, <1>3, <1>4

LEMMA PutIDKeepsApart ==
  ASSUME NEW p, NEW acc, Apart(p, acc), NEW id \in Labelings, NEW k \in DOMAIN acc.builders,
         named(p, acc.builders[k], id)
  PROVE  Apart(p, putID(acc, id, k))
<1> DEFINE a == putID(acc, id, k)
<1>1. acc \in Accs /\ k \in Nat
  BY AccFields DEF Apart
<1>2. /\ a \in Accs /\ a.builders = acc.builders /\ a.indexes = acc.indexes
      /\ \A x \in Items : a.ids[x] = IF x = id THEN k ELSE acc.ids[x]
  BY <1>1, PutID
<1> HIDE DEF a
<1>3. Apart(p, a)
  BY <1>2 DEF Apart
<1> QED BY <1>3 DEF a

LEMMA PutIndexKeepsApart ==
  ASSUME NEW p, NEW acc, Apart(p, acc), NEW index \in Labelings, NEW k \in DOMAIN acc.builders,
         placed(p, acc.builders[k], index)
  PROVE  Apart(p, putIndex(acc, index, k))
<1> DEFINE a == putIndex(acc, index, k)
<1>1. acc \in Accs /\ k \in Nat
  BY AccFields DEF Apart
<1>2. /\ a \in Accs /\ a.builders = acc.builders /\ a.ids = acc.ids
      /\ \A x \in Items : a.indexes[x] = IF x = index THEN k ELSE acc.indexes[x]
  BY <1>1, PutIndex
<1> HIDE DEF a
<1>3. Apart(p, a)
  BY <1>2 DEF Apart
<1> QED BY <1>3 DEF a

pushBuilder(acc, b) == [acc EXCEPT !.builders = Append(@, b)]

LEMMA PushKeepsApart ==
  ASSUME NEW p, NEW acc, Apart(p, acc), NEW b \in Builders, Own(p, b)
  PROVE  LET a == pushBuilder(acc, b)
             key == Len(acc.builders) + 1
         IN  Apart(p, a) /\ key \in DOMAIN a.builders /\ a.builders[key] = b
<1> DEFINE a == pushBuilder(acc, b)
           bs == Append(acc.builders, b)
<1>1. acc \in Accs
  BY DEF Apart
<1>2. acc.builders \in Seq(Builders) /\ Len(acc.builders) \in Nat /\ DOMAIN acc.builders = 1..Len(acc.builders)
  BY <1>1, AccFields
<1>3. /\ bs \in Seq(Builders) /\ DOMAIN bs = 1..(Len(acc.builders) + 1)
      /\ \A i \in 1..Len(acc.builders) : bs[i] = acc.builders[i]
      /\ bs[Len(acc.builders) + 1] = b
  BY <1>2, AppendFacts
<1>4. a = [acc EXCEPT !.builders = bs]
  BY DEF pushBuilder
<1> HIDE DEF bs, a
<1>5. a \in Accs /\ a.ids = acc.ids /\ a.indexes = acc.indexes /\ a.builders = bs
  BY <1>1, <1>3, <1>4 DEF Accs
<1>6. \A j \in DOMAIN a.builders : j \in DOMAIN acc.builders \/ j = Len(acc.builders) + 1
  BY <1>2, <1>3, <1>5
<1>7. DOMAIN acc.builders \subseteq DOMAIN a.builders /\ Len(acc.builders) + 1 \in DOMAIN a.builders
  BY <1>2, <1>3, <1>5
<1>8. \A j \in DOMAIN a.builders : Own(p, a.builders[j])
  BY <1>2, <1>3, <1>5, <1>6 DEF Apart
<1>9. Apart(p, a)
  BY <1>2, <1>3, <1>5, <1>7, <1>8 DEF Apart
<1> QED BY <1>3, <1>5, <1>7, <1>9 DEF a

\* The labels of an event with fragments: all of one item in a vendor's stream.
Item(p, id, index, x) == p # "host" => x \in Items /\ id \in {0, x} /\ index \in {0, x}

\* The builder that an event with these labels belongs to.
Fits(p, b, id, index, x) ==
  IF p = "host" THEN b.conflict \/ ((id # 0 => b.id = id) /\ (index # 0 => b.index = index))
  ELSE ofBuilder(b, x)

Ensured(p, at, id, index, x) ==
  Apart(p, at.acc) /\ at.key \in DOMAIN at.acc.builders /\ Fits(p, at.acc.builders[at.key], id, index, x)

LEMMA NewBuilderApart ==
  ASSUME NEW p, NEW acc, Apart(p, acc), NEW id \in Labelings, NEW index \in Labelings, NEW x, Item(p, id, index, x)
  PROVE  Ensured(p, newBuilder(acc, id, index), id, index, x)
<1> DEFINE key == Len(acc.builders) + 1
           b == [id |-> id, index |-> index, args |-> <<>>, full |-> FALSE, conflict |-> FALSE]
           pushed == pushBuilder(acc, b)
           bound == putID(pushed, id, key)
           a == putIndex(bound, index, key)
<1>1. b \in Builders
  BY DEF Builders
<1>2. b.id = id /\ b.index = index /\ DOMAIN b.args = {} /\ b.conflict = FALSE
  OBVIOUS
<1>3. newBuilder(acc, id, index).key = key
  BY DEF newBuilder
<1>4. newBuilder(acc, id, index).acc = a
  <2>1. acc \in Accs
    BY DEF Apart
  <2>2. newBuilder(acc, id, index).acc =
          [acc EXCEPT !.builders = Append(@, b), !.ids = IF id = 0 THEN @ ELSE [@ EXCEPT ![id] = key],
                      !.indexes = IF index = 0 THEN @ ELSE [@ EXCEPT ![index] = key]]
    BY DEF newBuilder
  <2> HIDE DEF b, key
  <2> QED BY <2>1, <2>2 DEF pushBuilder, putID, putIndex, Accs
<1> HIDE DEF b
<1>5. Own(p, b) /\ Fits(p, b, id, index, x)
  <2>1. CASE p = "host"
    BY <1>2, <2>1 DEF Own, Fits
  <2>2. CASE p # "host"
    <3>1. ofBuilder(b, x) /\ x \in Items
      BY <1>2, <2>2 DEF Item, ofBuilder
    <3> QED BY <2>2, <3>1 DEF Own, Fits
  <2> QED BY <2>1, <2>2
<1>6. Apart(p, pushed) /\ key \in DOMAIN pushed.builders /\ pushed.builders[key] = b
  BY <1>1, <1>5, PushKeepsApart
<1> HIDE DEF pushed
<1>7. key \in Nat /\ pushed \in Accs
  BY <1>6, AccFields DEF Apart
<1> HIDE DEF key
<1>8. named(p, b, id) /\ placed(p, b, index)
  BY <1>2 DEF named, placed
<1>9. Apart(p, bound) /\ bound.builders = pushed.builders
  BY <1>6, <1>7, <1>8, PutID, PutIDKeepsApart
<1> HIDE DEF bound
<1>10. bound \in Accs
  BY <1>9 DEF Apart
<1>11. Apart(p, a) /\ a.builders = bound.builders
  BY <1>6, <1>7, <1>8, <1>9, <1>10, PutIndex, PutIndexKeepsApart
<1> HIDE DEF a
<1> QED BY <1>3, <1>4, <1>5, <1>6, <1>9, <1>11 DEF Ensured

\* The builder is told of labels that contradict it.
LEMMA ConflictApart ==
  ASSUME NEW p, NEW acc, Apart(p, acc), NEW k \in DOMAIN acc.builders, NEW id, NEW index, NEW x,
         p # "host" => ofBuilder(acc.builders[k], x)
  PROVE  LET a == [acc EXCEPT !.builders[k].conflict = TRUE]
         IN  Apart(p, a) /\ k \in DOMAIN a.builders /\ Fits(p, a.builders[k], id, index, x)
<1> DEFINE old == acc.builders[k]
           b == [old EXCEPT !.conflict = TRUE]
           a == putBuilder(acc, k, b)
<1>1. acc \in Accs /\ old \in Builders
  BY AccFields DEF Apart
<1>2. [acc EXCEPT !.builders[k].conflict = TRUE] = a
  BY <1>1 DEF putBuilder, Accs, Builders
<1>3. b \in Builders /\ b.id = old.id /\ b.index = old.index /\ b.args = old.args /\ b.conflict = TRUE
  BY <1>1 DEF Builders
<1> HIDE DEF b
<1>4. Own(p, old) /\ \A y \in Items : (acc.ids[y] = k => named(p, old, y)) /\ (acc.indexes[y] = k => placed(p, old, y))
  <2>1. k # 0
    BY <1>1, AccFields
  <2> QED BY <2>1 DEF Apart
<1> HIDE DEF old
<1>5. Own(p, b)
  <2>1. CASE p = "host"
    BY <1>3, <2>1 DEF Own
  <2>2. CASE p # "host"
    <3>1. PICK y \in Items : ofBuilder(old, y)
      BY <1>4, <2>2 DEF Own
    <3>2. ofBuilder(b, y)
      BY <1>3, <3>1 DEF ofBuilder
    <3> QED BY <2>2, <3>2 DEF Own
  <2> QED BY <2>1, <2>2
<1>6. \A y \in Items : (acc.ids[y] = k => named(p, b, y)) /\ (acc.indexes[y] = k => placed(p, b, y))
  BY <1>3, <1>4 DEF named, placed
<1>7. Apart(p, a)
  BY <1>3, <1>5, <1>6, PutKeepsApart
<1>8. k \in DOMAIN a.builders /\ a.builders[k] = b
  BY <1>1, <1>3, PutBuilder
<1>9. Fits(p, b, id, index, x)
  BY <1>3 DEF Fits, ofBuilder, old
<1> HIDE DEF a
<1> QED BY <1>2, <1>7, <1>8, <1>9

\* An index is bound to the builder that an id names.
LEMMA BindIndexApart ==
  ASSUME NEW p, NEW acc, Apart(p, acc), NEW id \in Items, NEW index \in Items, NEW x, Item(p, id, index, x),
         acc.ids[id] # 0
  PROVE  LET k == acc.ids[id]
         IN  Ensured(p, [key |-> k, acc |-> bindIndex(acc, k, index)], id, index, x)
<1> DEFINE k == acc.ids[id]
           old == acc.builders[k]
           b == [old EXCEPT !.index = index]
           a == putBuilder(acc, k, b)
           c == putIndex(a, index, k)
<1>1. acc \in Accs /\ k \in DOMAIN acc.builders /\ named(p, old, id) /\ k \in Nat /\ k # 0
  BY AccFields DEF Apart
<1>2. old \in Builders /\ Own(p, old)
  BY <1>1, AccFields DEF Apart
<1>3. index \in Labelings /\ index # 0 /\ id # 0 /\ 0 \notin Items
  BY ItemsAssumption DEF Labelings
<1>4. p # "host" => ofBuilder(old, x) /\ x = id /\ x = index
  BY <1>1, <1>2, <1>3 DEF Item, named, Own, ofBuilder
<1> HIDE DEF k
<1>5. CASE acc.indexes[index] \notin {0, k} \/ old.index \notin {0, index}
  <2>1. bindIndex(acc, k, index) = [acc EXCEPT !.builders[k].conflict = TRUE]
    BY <1>5 DEF bindIndex
  <2> DEFINE d == [acc EXCEPT !.builders[k].conflict = TRUE]
  <2>2. Apart(p, d) /\ k \in DOMAIN d.builders /\ Fits(p, d.builders[k], id, index, x)
    BY <1>1, <1>4, ConflictApart
  <2> HIDE DEF d
  <2>3. bindIndex(acc, k, index) = d
    BY <2>1 DEF d
  <2> QED BY <2>2, <2>3 DEF Ensured, k
<1>6. CASE ~(acc.indexes[index] \notin {0, k} \/ old.index \notin {0, index})
  <2>1. bindIndex(acc, k, index) = [acc EXCEPT !.builders[k].index = index, !.indexes[index] = k]
    BY <1>6 DEF bindIndex
  <2>2. bindIndex(acc, k, index) = c
    BY <1>1, <1>2, <1>3, <2>1 DEF putBuilder, putIndex, Accs, Builders
  <2>3. b \in Builders /\ b.id = old.id /\ b.index = index /\ b.args = old.args /\ b.conflict = old.conflict
    BY <1>2, <1>3 DEF Builders
  <2> HIDE DEF b
  <2>4. Own(p, b)
    <3>1. CASE p = "host"
      BY <1>2, <1>6, <2>3, <3>1 DEF Own
    <3>2. CASE p # "host"
      <4>1. ofBuilder(b, x) /\ x \in Items
        BY <1>4, <2>3, <3>2 DEF ofBuilder
      <4> QED BY <3>2, <4>1 DEF Own
    <3> QED BY <3>1, <3>2
  <2>5. ASSUME NEW y \in Items, acc.ids[y] = k PROVE named(p, b, y)
    <3>1. named(p, old, y)
      BY <1>1, <2>5 DEF Apart
    <3> QED BY <2>3, <3>1 DEF named
  <2>6. ASSUME NEW y \in Items, acc.indexes[y] = k PROVE placed(p, b, y)
    <3>1. placed(p, old, y)
      BY <1>1, <2>6 DEF Apart
    <3>2. old.index \in {0, index} /\ y # 0
      BY <1>3, <1>6
    <3> QED BY <2>3, <3>1, <3>2 DEF placed
  <2>7. Apart(p, a)
    BY <1>1, <2>3, <2>4, <2>5, <2>6, PutKeepsApart
  <2>8. k \in DOMAIN a.builders /\ a.builders[k] = b /\ a \in Accs
    BY <1>1, <2>3, PutBuilder
  <2> HIDE DEF a
  <2>9. placed(p, a.builders[k], index)
    BY <2>3, <2>8 DEF placed
  <2>10. Apart(p, c) /\ c.builders = a.builders
    BY <1>1, <1>3, <2>7, <2>8, <2>9, PutIndex, PutIndexKeepsApart
  <2> HIDE DEF c
  <2>11. Fits(p, b, id, index, x)
    <3>1. CASE p = "host"
      BY <1>1, <2>3, <3>1 DEF Fits, named
    <3>2. CASE p # "host"
      BY <1>4, <2>3, <3>2 DEF Fits, ofBuilder
    <3> QED BY <3>1, <3>2
  <2> QED BY <2>2, <2>8, <2>10, <2>11 DEF Ensured, k
<1> QED BY <1>5, <1>6

\* An id is bound to the builder that an index names.
LEMMA BindIDApart ==
  ASSUME NEW p, NEW acc, Apart(p, acc), NEW id \in Items, NEW index \in Items, NEW x, Item(p, id, index, x),
         acc.indexes[index] # 0
  PROVE  LET k == acc.indexes[index]
         IN  Ensured(p, [key |-> k, acc |-> bindID(acc, k, id)], id, index, x)
<1> DEFINE k == acc.indexes[index]
           old == acc.builders[k]
           b == [old EXCEPT !.id = id]
           a == putBuilder(acc, k, b)
           c == putID(a, id, k)
<1>1. acc \in Accs /\ k \in DOMAIN acc.builders /\ placed(p, old, index) /\ k \in Nat /\ k # 0
  BY AccFields DEF Apart
<1>2. old \in Builders /\ Own(p, old)
  BY <1>1, AccFields DEF Apart
<1>3. id \in Labelings /\ index # 0 /\ id # 0 /\ 0 \notin Items
  BY ItemsAssumption DEF Labelings
<1>4. p # "host" => ofBuilder(old, x) /\ x = id /\ x = index
  BY <1>1, <1>2, <1>3 DEF Item, placed, Own, ofBuilder
<1> HIDE DEF k
<1>5. CASE old.id \notin {0, id}
  <2>1. bindID(acc, k, id) = [acc EXCEPT !.builders[k].conflict = TRUE]
    BY <1>5 DEF bindID
  <2> DEFINE d == [acc EXCEPT !.builders[k].conflict = TRUE]
  <2>2. Apart(p, d) /\ k \in DOMAIN d.builders /\ Fits(p, d.builders[k], id, index, x)
    BY <1>1, <1>4, ConflictApart
  <2> HIDE DEF d
  <2>3. bindID(acc, k, id) = d
    BY <2>1 DEF d
  <2> QED BY <2>2, <2>3 DEF Ensured, k
<1>6. CASE ~(old.id \notin {0, id})
  <2>1. bindID(acc, k, id) = [acc EXCEPT !.builders[k].id = id, !.ids[id] = k]
    BY <1>6 DEF bindID
  <2>2. bindID(acc, k, id) = c
    BY <1>1, <1>2, <1>3, <2>1 DEF putBuilder, putID, Accs, Builders
  <2>3. b \in Builders /\ b.id = id /\ b.index = old.index /\ b.args = old.args /\ b.conflict = old.conflict
    BY <1>2, <1>3 DEF Builders
  <2> HIDE DEF b
  <2>4. Own(p, b)
    <3>1. CASE p = "host"
      BY <1>2, <1>6, <2>3, <3>1 DEF Own
    <3>2. CASE p # "host"
      <4>1. ofBuilder(b, x) /\ x \in Items
        BY <1>4, <2>3, <3>2 DEF ofBuilder
      <4> QED BY <3>2, <4>1 DEF Own
    <3> QED BY <3>1, <3>2
  <2>5. ASSUME NEW y \in Items, acc.indexes[y] = k PROVE placed(p, b, y)
    <3>1. placed(p, old, y)
      BY <1>1, <2>5 DEF Apart
    <3> QED BY <2>3, <3>1 DEF placed
  <2>6. ASSUME NEW y \in Items, acc.ids[y] = k PROVE named(p, b, y)
    <3>1. named(p, old, y)
      BY <1>1, <2>6 DEF Apart
    <3>2. old.id \in {0, id} /\ y # 0
      BY <1>3, <1>6
    <3> QED BY <2>3, <3>1, <3>2 DEF named
  <2>7. Apart(p, a)
    BY <1>1, <2>3, <2>4, <2>5, <2>6, PutKeepsApart
  <2>8. k \in DOMAIN a.builders /\ a.builders[k] = b /\ a \in Accs
    BY <1>1, <2>3, PutBuilder
  <2> HIDE DEF a
  <2>9. named(p, a.builders[k], id)
    BY <2>3, <2>8 DEF named
  <2>10. Apart(p, c) /\ c.builders = a.builders
    BY <1>1, <1>3, <2>7, <2>8, <2>9, PutID, PutIDKeepsApart
  <2> HIDE DEF c
  <2>11. Fits(p, b, id, index, x)
    <3>1. CASE p = "host"
      BY <1>1, <2>3, <3>1 DEF Fits, placed
    <3>2. CASE p # "host"
      BY <1>4, <2>3, <3>2 DEF Fits, ofBuilder
    <3> QED BY <3>1, <3>2
  <2> QED BY <2>2, <2>8, <2>10, <2>11 DEF Ensured, k
<1> QED BY <1>5, <1>6

LEMMA EnsureApart ==
  ASSUME NEW p, NEW acc, Apart(p, acc), NEW id \in Labelings, NEW index \in Labelings, NEW x, Item(p, id, index, x)
  PROVE  Ensured(p, ensureToolCallBuilder(acc, id, index), id, index, x)
<1>1. acc \in Accs /\ 0 \notin Items
  BY ItemsAssumption DEF Apart
<1>2. CASE id # 0 /\ acc.ids[id] # 0
  <2> DEFINE k == acc.ids[id]
  <2>1. ensureToolCallBuilder(acc, id, index) = [key |-> k, acc |-> IF index = 0 THEN acc ELSE bindIndex(acc, k, index)]
    BY <1>2 DEF ensureToolCallBuilder
  <2>2. id \in Items
    BY <1>2 DEF Labelings
  <2>3. CASE index = 0
    <3>1. k \in DOMAIN acc.builders /\ named(p, acc.builders[k], id) /\ Own(p, acc.builders[k])
      BY <1>2, <2>2 DEF Apart
    <3> HIDE DEF k
    <3>2. Fits(p, acc.builders[k], id, index, x)
      <4>1. CASE p = "host"
        BY <2>3, <3>1, <4>1 DEF Fits, named
      <4>2. CASE p # "host"
        BY <1>2, <3>1, <4>2 DEF Fits, named, Own, ofBuilder, Item
      <4> QED BY <4>1, <4>2
    <3> QED BY <2>1, <2>3, <3>1, <3>2 DEF Ensured
  <2>4. CASE index # 0
    <3>1. index \in Items
      BY <2>4 DEF Labelings
    <3> QED BY <1>2, <2>1, <2>2, <2>4, <3>1, BindIndexApart
  <2> QED BY <2>3, <2>4
<1>3. CASE ~(id # 0 /\ acc.ids[id] # 0) /\ index # 0 /\ acc.indexes[index] # 0
  <2> DEFINE k == acc.indexes[index]
  <2>1. ensureToolCallBuilder(acc, id, index) = [key |-> k, acc |-> IF id = 0 THEN acc ELSE bindID(acc, k, id)]
    BY <1>3 DEF ensureToolCallBuilder
  <2>2. index \in Items
    BY <1>3 DEF Labelings
  <2>3. CASE id = 0
    <3>1. k \in DOMAIN acc.builders /\ placed(p, acc.builders[k], index) /\ Own(p, acc.builders[k])
      BY <1>3, <2>2 DEF Apart
    <3> HIDE DEF k
    <3>2. Fits(p, acc.builders[k], id, index, x)
      <4>1. CASE p = "host"
        BY <2>3, <3>1, <4>1 DEF Fits, placed
      <4>2. CASE p # "host"
        BY <1>3, <3>1, <4>2 DEF Fits, placed, Own, ofBuilder, Item
      <4> QED BY <4>1, <4>2
    <3> QED BY <2>1, <2>3, <3>1, <3>2 DEF Ensured
  <2>4. CASE id # 0
    <3>1. id \in Items
      BY <2>4 DEF Labelings
    <3> QED BY <1>3, <2>1, <2>2, <2>4, <3>1, BindIDApart
  <2> QED BY <2>3, <2>4
<1>4. CASE ~(id # 0 /\ acc.ids[id] # 0) /\ ~(index # 0 /\ acc.indexes[index] # 0)
  <2>1. ensureToolCallBuilder(acc, id, index) = newBuilder(acc, id, index)
    BY <1>4 DEF ensureToolCallBuilder
  <2> QED BY <2>1, NewBuilderApart
<1> QED BY <1>2, <1>3, <1>4

\* The fields of a builder that a fragment is appended to.
LEMMA FragmentApart ==
  ASSUME NEW p, NEW at, NEW e, NEW x, e.id \in Labelings, e.index \in Labelings, e.pieces \in Seq(PiecesOf(Nat)),
         Ensured(p, at, e.id, e.index, x),
         p # "host" => x \in Items /\ ofItem(e, x), p = "host" => ofHost(e)
  PROVE  Apart(p, appendFragment(at, e))
<1> DEFINE acc == at.acc
           k == at.key
           old == acc.builders[k]
           id == e.id
           index == e.index
           pieces == e.pieces
           b == fragment(old, id, index, pieces)
           a == putBuilder(acc, k, b)
<1>1. /\ Apart(p, acc) /\ acc \in Accs /\ k \in DOMAIN acc.builders /\ Fits(p, old, id, index, x)
      /\ id \in Labelings /\ index \in Labelings /\ pieces \in Seq(PiecesOf(Nat))
  BY DEF Ensured, Apart
<1>2. old \in Builders /\ Own(p, old) /\ k # 0
  BY <1>1, AccFields DEF Apart
<1>3. appendFragment(at, e) = a
  <2> DEFINE i == IF id = 0 THEN old.id ELSE id
             n == IF index = 0 THEN old.index ELSE index
             b1 == [old EXCEPT !.id = i]
             b2 == [b1 EXCEPT !.index = n]
             b3 == [b2 EXCEPT !.args = @ \o pieces]
             a1 == putBuilder(acc, k, b1)
             a2 == putBuilder(a1, k, b2)
             a3 == putBuilder(a2, k, b3)
  <2>1. i \in Labelings /\ n \in Labelings /\ old.args \o pieces \in Seq(PiecesOf(Nat))
    BY <1>1, <1>2, BuilderFields
  <2>2. b1 \in Builders /\ b2 \in Builders /\ b3 \in Builders
    BY <1>2, <2>1 DEF Builders
  <2>3. b3 = b
    BY <1>2 DEF fragment, Builders
  <2> HIDE DEF acc, k, id, index, pieces
  <2>4. [acc EXCEPT !.builders[k].id = i] = a1
    BY <1>1, <1>2 DEF putBuilder, Accs
  <2>5. a1 \in Accs /\ k \in DOMAIN a1.builders /\ a1.builders[k] = b1
    BY <1>1, <2>2, PutBuilder
  <2>6. [a1 EXCEPT !.builders[k].index = n] = a2
    <3> HIDE DEF a1, b1, n
    <3> QED BY <2>5 DEF putBuilder, Accs
  <2>7. a2 \in Accs /\ k \in DOMAIN a2.builders /\ a2.builders[k] = b2
    <3> HIDE DEF a1, b1, b2
    <3> QED BY <2>2, <2>5, PutBuilder
  <2>8. [a2 EXCEPT !.builders[k].args = old.args \o pieces] = a3
    <3>1. b2.args = old.args
      BY <1>2 DEF Builders
    <3> HIDE DEF a2, b2, old
    <3> QED BY <2>7, <3>1 DEF putBuilder, Accs
  <2>9. appendFragment(at, e) =
          [[[acc EXCEPT !.builders[k].id = i] EXCEPT !.builders[k].index = n]
                 EXCEPT !.builders[k].args = old.args \o pieces]
    BY DEF appendFragment, acc, k, id, index, pieces
  <2>10. a3 = putBuilder(acc, k, b3)
    <3> HIDE DEF b1, b2, b3
    <3> QED BY <1>1 DEF putBuilder, Accs
  <2> HIDE DEF a1, a2, a3, b3, i, n, old
  <2> QED BY <2>3, <2>4, <2>6, <2>8, <2>9, <2>10
<1> HIDE DEF id, index, pieces, old, acc, k
<1>4. /\ b \in Builders /\ (id = 0 => b.id = old.id) /\ (id # 0 => b.id = id)
      /\ (index = 0 => b.index = old.index) /\ (index # 0 => b.index = index)
      /\ b.args = old.args \o pieces /\ b.conflict = old.conflict
  <2>1. old \in Builders /\ id \in Labelings /\ index \in Labelings /\ pieces \in Seq(PiecesOf(Nat))
    BY <1>1, <1>2
  <2> QED BY ONLY <2>1, FragmentFields
<1> HIDE DEF b
<1>5. ASSUME NEW j \in DOMAIN b.args
      PROVE  (j \in DOMAIN old.args /\ b.args[j] = old.args[j]) \/ \E i \in DOMAIN pieces : b.args[j] = pieces[i]
  BY <1>1, <1>2, <1>4, ConcatFields, BuilderFields
<1> HIDE DEF a
<1>6. CASE p = "host"
  <2>1. old.conflict \/ (b.id = old.id /\ b.index = old.index)
    BY <1>1, <1>4, <1>6 DEF Fits
  <2>2. Own(p, b)
    <3>1. CASE old.conflict
      BY <1>4, <1>6, <3>1 DEF Own
    <3>2. CASE ~old.conflict
      <4>1. ASSUME NEW j \in DOMAIN b.args PROVE b.args[j].id \in {0, b.id} /\ b.args[j].index \in {0, b.index}
        <5>1. CASE j \in DOMAIN old.args /\ b.args[j] = old.args[j]
          BY <1>2, <1>6, <2>1, <3>2, <5>1 DEF Own
        <5>2. CASE \E i \in DOMAIN pieces : b.args[j] = pieces[i]
          <6>1. b.args[j].id = id /\ b.args[j].index = index
            BY <1>6, <5>2 DEF ofHost, id, index, pieces
          <6> QED BY <1>4, <6>1
        <5> QED BY <1>5, <5>1, <5>2
      <4> QED BY <1>6, <4>1 DEF Own
    <3> QED BY <3>1, <3>2
  <2>3. ASSUME NEW y \in Items
        PROVE  (acc.ids[y] = k => named(p, b, y)) /\ (acc.indexes[y] = k => placed(p, b, y))
    <3>1. (acc.ids[y] = k => named(p, old, y)) /\ (acc.indexes[y] = k => placed(p, old, y))
      BY <1>1, <1>2 DEF Apart, old
    <3> QED BY <1>4, <1>6, <2>1, <3>1 DEF named, placed
  <2>4. Apart(p, a)
    BY <1>1, <1>4, <2>2, <2>3, PutKeepsApart DEF a
  <2> QED BY <1>3, <2>4
<1>7. CASE p # "host"
  <2>1. ofBuilder(old, x) /\ ofItem(e, x) /\ x \in Items
    BY <1>1, <1>7 DEF Fits
  <2>2. ofBuilder(b, x)
    <3>1. ASSUME NEW j \in DOMAIN b.args PROVE b.args[j].id = x /\ b.args[j].index \in {0, x}
      BY <1>5, <2>1 DEF ofBuilder, ofItem, id, index, pieces
    <3> QED BY <1>4, <2>1, <3>1 DEF ofBuilder, ofItem, id, index, pieces
  <2>3. Own(p, b)
    BY <1>7, <2>1, <2>2 DEF Own
  <2>4. ASSUME NEW y \in Items
        PROVE  (acc.ids[y] = k => named(p, b, y)) /\ (acc.indexes[y] = k => placed(p, b, y))
    <3>1. (acc.ids[y] = k => named(p, old, y)) /\ (acc.indexes[y] = k => placed(p, old, y))
      BY <1>1, <1>2 DEF Apart, old
    <3>2. y # 0
      BY ItemsAssumption
    <3> QED BY <1>4, <1>7, <2>1, <3>1, <3>2 DEF named, placed, ofBuilder, ofItem, id, index, pieces
  <2>5. Apart(p, a)
    BY <1>1, <1>4, <2>3, <2>4, PutKeepsApart DEF a
  <2> QED BY <1>3, <2>5
<1> QED BY <1>6, <1>7

LEMMA SetCallApart ==
  ASSUME NEW at, NEW e, NEW x, e.pieces \in Seq(PiecesOf(Nat)), Ensured("host", at, e.id, 0, x), ofHost(e),
         e.kind = "call"
  PROVE  Apart("host", setCall(at, e))
<1> DEFINE acc == at.acc
           k == at.key
           old == acc.builders[k]
           pieces == e.pieces
           b1 == [old EXCEPT !.full = TRUE]
           b == [b1 EXCEPT !.args = pieces]
           d == [acc EXCEPT !.duplicate = @ \/ old.full]
           a1 == putBuilder(d, k, b1)
           a == putBuilder(d, k, b)
<1>1. /\ Apart("host", acc) /\ acc \in Accs /\ k \in DOMAIN acc.builders /\ Fits("host", old, e.id, 0, x)
      /\ pieces \in Seq(PiecesOf(Nat))
  BY DEF Ensured, Apart
<1>2. old \in Builders /\ k # 0 /\ old.full \in BOOLEAN
  <2>1. old \in Builders /\ k # 0
    BY <1>1, AccFields
  <2> QED BY <2>1, BuilderFields
<1>3. \A j \in DOMAIN pieces : pieces[j].id = e.id /\ pieces[j].index = 0
  BY DEF ofHost
<1>4. setCall(at, e) = [[d EXCEPT !.builders[k].full = TRUE] EXCEPT !.builders[k].args = pieces]
  BY DEF setCall
<1> HIDE DEF pieces, acc, k
<1>5. d \in Accs /\ d.builders = acc.builders /\ d.ids = acc.ids /\ d.indexes = acc.indexes
  BY <1>1, <1>2 DEF Accs
<1> HIDE DEF d, old
<1>6. b1 \in Builders /\ b \in Builders /\ b.args = pieces /\ b.id = old.id /\ b.conflict = old.conflict
      /\ b.index = old.index
  BY <1>1, <1>2 DEF Builders
<1>7. [d EXCEPT !.builders[k].full = TRUE] = a1
  BY <1>1, <1>5 DEF putBuilder, Accs, old
<1>8. a1 \in Accs /\ k \in DOMAIN a1.builders /\ a1.builders[k] = b1
  BY <1>1, <1>5, <1>6, PutBuilder
<1>9. [a1 EXCEPT !.builders[k].args = pieces] = putBuilder(a1, k, b)
  <2> HIDE DEF a1, b1
  <2> QED BY <1>8 DEF putBuilder, Accs
<1>10. putBuilder(a1, k, b) = a
  <2> HIDE DEF b, b1
  <2> QED BY <1>5 DEF putBuilder, Accs
<1>11. setCall(at, e) = a
  <2> HIDE DEF a, a1, b
  <2> QED BY <1>4, <1>7, <1>9, <1>10
<1> HIDE DEF b, b1, a1
<1>12. Apart("host", d)
  BY <1>1, <1>5 DEF Apart
<1>13. Own("host", b)
  <2>1. CASE old.conflict
    BY <1>6, <2>1 DEF Own
  <2>2. CASE ~old.conflict
    <3>1. e.id # 0 => old.id = e.id
      BY <1>1, <2>2 DEF Fits
    <3> QED BY <1>3, <1>6, <3>1 DEF Own
  <2> QED BY <2>1, <2>2
<1>14. ASSUME NEW y \in Items
       PROVE  (d.ids[y] = k => named("host", b, y)) /\ (d.indexes[y] = k => placed("host", b, y))
  <2>1. (d.ids[y] = k => named("host", old, y)) /\ (d.indexes[y] = k => placed("host", old, y))
    BY <1>2, <1>5, <1>12 DEF Apart, old
  <2> QED BY <1>6, <2>1 DEF named, placed
<1>15. Apart("host", a)
  BY <1>1, <1>5, <1>6, <1>12, <1>13, <1>14, PutKeepsApart
<1> QED BY <1>11, <1>15

\* One event.
LEMMA ApplyApart ==
  ASSUME NEW p \in Protocols, NEW acc, Apart(p, acc), NEW e \in EventsOf(Nat), Labelled(p, e)
  PROVE  Apart(p, applyToolEvent(acc, e))
<1>1. e.pieces \in Seq(PiecesOf(Nat))
  BY EventFields
<1>2. CASE e.kind = "delta"
  <2>1. applyToolEvent(acc, e) = appendFragment(ensureToolCallBuilder(acc, e.id, e.index), e)
    BY <1>2 DEF applyToolEvent, applyToolCallDeltaEvent
  <2>2. CASE p = "host"
    <3>1. ofHost(e) /\ e.id \in Labelings /\ e.index \in Labelings /\ Item(p, e.id, e.index, 0)
      BY <1>2, <2>2 DEF Labelled, ofHost, Labelings, Item
    <3> DEFINE at == ensureToolCallBuilder(acc, e.id, e.index)
    <3>2. Ensured(p, at, e.id, e.index, 0)
      BY <3>1, EnsureApart
    <3> HIDE DEF at
    <3>3. Apart(p, appendFragment(at, e))
      BY <1>1, <2>2, <3>1, <3>2, FragmentApart
    <3> QED BY <2>1, <3>3 DEF at
  <2>3. CASE p # "host"
    <3>1. PICK x \in Items : ofItem(e, x)
      BY <1>2, <2>3 DEF Labelled
    <3>2. e.id \in Labelings /\ e.index \in Labelings /\ Item(p, e.id, e.index, x)
      BY <3>1 DEF ofItem, Labelings, Item
    <3> DEFINE at == ensureToolCallBuilder(acc, e.id, e.index)
    <3>3. Ensured(p, at, e.id, e.index, x)
      BY <3>2, EnsureApart
    <3> HIDE DEF at
    <3>4. Apart(p, appendFragment(at, e))
      BY <1>1, <2>3, <3>1, <3>2, <3>3, FragmentApart
    <3> QED BY <2>1, <3>4 DEF at
  <2> QED BY <2>2, <2>3
<1>3. CASE e.kind = "call"
  <2>1. applyToolEvent(acc, e) = setCall(ensureToolCallBuilder(acc, e.id, 0), e)
    BY <1>3 DEF applyToolEvent, applyToolCallEvent
  <2>2. p = "host" /\ ofHost(e) /\ e.id \in Labelings /\ 0 \in Labelings /\ Item(p, e.id, 0, 0)
    BY <1>3 DEF Labelled, ofHost, Labelings, Item
  <2> DEFINE at == ensureToolCallBuilder(acc, e.id, 0)
  <2>3. Ensured(p, at, e.id, 0, 0)
    BY <2>2, EnsureApart
  <2> HIDE DEF at
  <2>4. Apart(p, setCall(at, e))
    BY <1>1, <1>3, <2>2, <2>3, SetCallApart
  <2> QED BY <2>1, <2>4 DEF at
<1>4. CASE e.kind \notin {"delta", "call"}
  BY <1>4 DEF applyToolEvent
<1> QED BY <1>2, <1>3, <1>4

LEMMA BuildersApart ==
  ASSUME NEW p \in Protocols, NEW events \in Seq(EventsOf(Nat)), \A i \in DOMAIN events : Labelled(p, events[i])
  PROVE  Apart(p, toolCallBuilders(events))
<1>1. PICK f : BuildersAfter(events, Len(events), f) /\ toolCallBuilders(events) = f[Len(events)]
  BY BuildersExist
<1>2. Len(events) \in Nat /\ DOMAIN events = 1..Len(events)
  OBVIOUS
<1> DEFINE G == {k \in 0..Len(events) : Apart(p, f[k])}
<1>3. 0 \in G
  <2>1. /\ NoBuilders \in Accs /\ DOMAIN NoBuilders.builders = {}
        /\ \A x \in Items : NoBuilders.ids[x] = 0 /\ NoBuilders.indexes[x] = 0
    BY DEF NoBuilders, Accs
  <2>2. Apart(p, NoBuilders)
    BY <2>1 DEF Apart
  <2> QED BY <1>1, <1>2, <2>2 DEF BuildersAfter
<1>4. ASSUME NEW k \in 0..Len(events), k < Len(events), k \in G PROVE k + 1 \in G
  <2>1. k + 1 \in 1..Len(events) /\ (k + 1) - 1 = k /\ k + 1 \in 0..Len(events)
    BY <1>2, <1>4
  <2>2. f[k + 1] = applyToolEvent(f[k], events[k + 1])
    BY <1>1, <2>1 DEF BuildersAfter
  <2>3. events[k + 1] \in EventsOf(Nat) /\ Labelled(p, events[k + 1])
    BY <1>2, <2>1
  <2>4. Apart(p, f[k + 1])
    BY <1>4, <2>2, <2>3, ApplyApart
  <2> QED BY <2>1, <2>4
<1> HIDE DEF G
<1>5. \A k \in 0..Len(events) : k \in G
  BY <1>2, <1>3, <1>4, UpTo
<1>6. Len(events) \in G
  BY <1>2, <1>5
<1> QED BY <1>1, <1>6 DEF G

\* finalizeToolCalls accepts no builder that has an error.
LEMMA FinalizeAccepts ==
  ASSUME NEW builders \in Seq(Builders), finalizeToolCalls(builders) = <<>>, NEW k \in DOMAIN builders
  PROVE  builders[k].id # 0 /\ ~builders[k].conflict
<1> DEFINE errs == {i \in DOMAIN builders : builderError(builders[i]) # <<>>}
           first == CHOOSE i \in errs : \A j \in errs : i <= j
<1>1. Len(builders) \in Nat /\ DOMAIN builders = 1..Len(builders) /\ MaxToolCalls \in Nat
  BY ItemsAssumption
<1>2. finalizeToolCalls(builders) =
        IF errs # {} /\ first <= MaxToolCalls + 1 THEN builderError(builders[first])
        ELSE IF Len(builders) > MaxToolCalls THEN <<"tooManyCalls">> ELSE <<>>
  BY DEF finalizeToolCalls
<1>3. errs = {}
  <2>1. SUFFICES ASSUME errs # {} PROVE FALSE
    OBVIOUS
  <2>2. errs \in SUBSET Nat
    BY <1>1
  <2>3. \E i \in errs : \A j \in errs : i <= j
    <3> HIDE DEF errs
    <3> QED BY <2>1, <2>2, Least
  <2>4. first \in errs
    <3> HIDE DEF errs
    <3> QED BY <2>3
  <2>5. first \in 1..Len(builders) /\ builderError(builders[first]) # <<>>
    BY <1>1, <2>4
  <2> HIDE DEF first, errs
  <2>6. ~(first <= MaxToolCalls + 1)
    BY <1>2, <2>1, <2>5
  <2>7. Len(builders) > MaxToolCalls
    BY <1>1, <2>5, <2>6
  <2>8. <<"tooManyCalls">> # <<>>
    OBVIOUS
  <2> QED BY <1>2, <2>6, <2>7, <2>8
<1>4. builderError(builders[k]) = <<>>
  BY <1>3
<1>5. <<"conflict">> # <<>> /\ <<"missingID">> # <<>>
  OBVIOUS
<1> QED BY <1>4, <1>5 DEF builderError

\* A sequence of events that is accepted ends with its only terminal event.
LEMMA TerminalLast ==
  ASSUME NEW S, NEW events \in Seq(S), validateTerminalSequence(events, TRUE) = <<>>
  PROVE  {i \in DOMAIN events : isTerminal(events[i])} = {Len(events)}
<1> DEFINE terminals == {i \in DOMAIN events : isTerminal(events[i])}
           broken == {j \in DOMAIN events : \E i \in terminals : i < j}
<1>1. Len(events) \in Nat /\ DOMAIN events = 1..Len(events)
  OBVIOUS
<1>2. <<"manyTerminals">> # <<>> /\ <<"afterTerminal">> # <<>> /\ <<"missingTerminal">> # <<>>
  OBVIOUS
<1>3. broken = {} /\ terminals # {}
  BY <1>2 DEF validateTerminalSequence
<1>4. ASSUME NEW i \in terminals PROVE i = Len(events)
  <2>1. i \in 1..Len(events) /\ Len(events) \in DOMAIN events
    BY <1>1
  <2>2. ~(i < Len(events))
    BY <1>3, <2>1
  <2> QED BY <1>1, <2>1, <2>2
<1> QED BY <1>3, <1>4

\* What normalizeEvents accepts.
LEMMA NormalizeAccepts ==
  ASSUME NEW events, normalizeEvents(events, TRUE).err = <<>>
  PROVE  /\ validateTerminalSequence(events, TRUE) = <<>>
         /\ finalizeToolCalls(toolCallBuilders(events).builders) = <<>>
         /\ normalizeEvents(events, TRUE).turn = normalizedTurn(events, toolCallBuilders(events).builders)
         /\ ~occurs(events, "error")
<1> DEFINE acc == toolCallBuilders(events)
           err == normalizeError(events, TRUE, acc)
           response == normalizeEvents(events, TRUE)
<1>1. response = [err |-> err, turn |-> IF err = <<>> THEN normalizedTurn(events, acc.builders) ELSE EmptyTurn]
  BY DEF normalizeEvents, normalizeWith, normalized
<1>2. response.err = <<>>
  OBVIOUS
<1> HIDE DEF acc, response
<1>3. err = <<>> /\ response.turn = normalizedTurn(events, acc.builders)
  <2> HIDE DEF err
  <2> QED BY <1>1, <1>2
<1> DEFINE sequence == validateTerminalSequence(events, FALSE)
           ending == validateTerminalSequence(events, TRUE)
           failure == firstOf(events, "error").err
<1>4. err =
        CASE sequence # <<>> -> sequence
          [] sequence = <<>> /\ acc.duplicate -> <<"duplicateID">>
          [] sequence = <<>> /\ ~acc.duplicate /\ occurs(events, "error") -> IF failure = <<>> THEN <<"plain">> ELSE failure
          [] OTHER -> IF ending # <<>> THEN ending ELSE finalizeToolCalls(acc.builders)
  BY DEF normalizeError
<1> HIDE DEF sequence, ending, failure, err
<1>5. <<"duplicateID">> # <<>> /\ <<"plain">> # <<>>
  OBVIOUS
<1>6. sequence = <<>> /\ ~acc.duplicate /\ ~occurs(events, "error")
  BY <1>3, <1>4, <1>5
<1>7. ending = <<>> /\ finalizeToolCalls(acc.builders) = <<>>
  BY <1>3, <1>4, <1>6
<1> QED BY <1>3, <1>6, <1>7 DEF ending, acc, response

\* NeverMixed of the turn that normalizeEvents makes of labelled events.
LEMMA AcceptedApart ==
  ASSUME NEW p \in Protocols, NEW events \in Seq(EventsOf(Nat)), \A i \in DOMAIN events : Labelled(p, events[i]),
         normalizeEvents(events, TRUE).err = <<>>
  PROVE  /\ {i \in DOMAIN events : isTerminal(events[i])} = {Len(events)}
         /\ \A k \in DOMAIN normalizeEvents(events, TRUE).turn.calls :
              LET call == normalizeEvents(events, TRUE).turn.calls[k]
              IN  \E c : \A j \in DOMAIN call.args : call.args[j].id \in {0, call.id} /\ call.args[j].index \in {0, c}
<1> DEFINE builders == toolCallBuilders(events).builders
           calls == normalizeEvents(events, TRUE).turn.calls
<1>1. /\ validateTerminalSequence(events, TRUE) = <<>>
      /\ finalizeToolCalls(builders) = <<>>
      /\ normalizeEvents(events, TRUE).turn = normalizedTurn(events, builders)
  BY NormalizeAccepts
<1>2. builders \in Seq(Builders) /\ \A k \in DOMAIN builders : Own(p, builders[k])
  BY BuildersApart, AccFields DEF Apart
<1> HIDE DEF builders
<1>3. calls = [i \in DOMAIN builders |-> [id |-> builders[i].id, args |-> builders[i].args]]
  <2>1. normalizedTurn(events, builders).calls = [i \in DOMAIN builders |-> [id |-> builders[i].id, args |-> builders[i].args]]
    BY Zenon DEF normalizedTurn
  <2> QED BY <1>1, <2>1, Zenon
<1> HIDE DEF calls
<1>4. ASSUME NEW k \in DOMAIN calls
      PROVE  \E c : \A j \in DOMAIN calls[k].args :
                      calls[k].args[j].id \in {0, calls[k].id} /\ calls[k].args[j].index \in {0, c}
  <2> DEFINE b == builders[k]
  <2>1. k \in DOMAIN builders /\ calls[k].id = b.id /\ calls[k].args = b.args
    BY <1>3
  <2>2. b.id # 0 /\ ~b.conflict /\ Own(p, b)
    BY <1>1, <1>2, <2>1, FinalizeAccepts
  <2> HIDE DEF b
  <2>3. CASE p = "host"
    <3>1. \A j \in DOMAIN b.args : b.args[j].id \in {0, b.id} /\ b.args[j].index \in {0, b.index}
      BY <2>2, <2>3 DEF Own
    <3> QED BY <2>1, <3>1
  <2>4. CASE p # "host"
    <3>1. PICK x \in Items : ofBuilder(b, x)
      BY <2>2, <2>4 DEF Own
    <3>2. \A j \in DOMAIN b.args : b.args[j].id \in {0, b.id} /\ b.args[j].index \in {0, x}
      BY <2>2, <3>1 DEF ofBuilder
    <3> QED BY <2>1, <3>2
  <2> QED BY <2>3, <2>4
<1>5. {i \in DOMAIN events : isTerminal(events[i])} = {Len(events)}
  BY <1>1, TerminalLast
<1> QED BY <1>4, <1>5 DEF calls

-----------------------------------------------------------------------------
(* The parsers label events with what the frames say.                      *)

\* The labels of a piece are those of its frame, and a tag opens or closes a block.
Carried(p, f, piece) ==
  /\ f.kind = "args" /\ p = "host" =>
       f.id \in Labelings /\ f.index \in Labelings /\ piece.id = f.id /\ piece.index = f.index
  /\ f.kind = "args" /\ p # "host" => f.item \in Items /\ piece.id = f.item /\ piece.index = f.item
  /\ f.kind \in {"itemDone", "tool"} => f.item \in Items /\ piece.id = f.item /\ piece.index = 0
  /\ f.kind = "call" /\ p # "host" => f.item \in Items
  /\ f.kind = "tag" /\ p # "host" => f.inside \in BOOLEAN

LEMMA HostArguments ==
  ASSUME NEW f \in hostFrames, f.kind = "args"
  PROVE  f.id \in Labelings /\ f.index \in Labelings
<1> DEFINE Sent == {g \in WireFrames : g.kind \in {"tool", "torn", "endTorn", "nilError", "failed", "rejected", "cut", "eof"}}
           Args == [kind : {"args"}, id : {0} \cup Items, index : {0} \cup Items, final : BOOLEAN]
<1>1. f \in Sent \cup {[kind |-> "text", held |-> FALSE], [kind |-> "end", stop |-> "natural"]} \cup Args
  BY DEF hostFrames
<1>2. f \notin Sent /\ f # [kind |-> "text", held |-> FALSE] /\ f # [kind |-> "end", stop |-> "natural"]
  OBVIOUS
<1>3. f \in Args
  <2> HIDE DEF Sent, Args
  <2> QED BY <1>1, <1>2
<1> QED BY <1>3 DEF Labelings

LEMMA PieceCarried ==
  ASSUME NEW b \in DOMAIN bodies, NEW f \in Frames(bodies[b])
  PROVE  Carried(protocol(bodies[b]), f, pieceOf(b, f))
<1> DEFINE n == Len(bodies[b].frames) + 1
           p == protocol(bodies[b])
<1>1. CanceledFrame.kind = "canceled"
  BY DEF CanceledFrame
<1>2. p = "host" => f \in hostFrames \cup {CanceledFrame}
  BY FramesOf
<1>3. p # "host" => f \in WireFrames \cup {CanceledFrame}
  BY FramesOf
<1> HIDE DEF n
<1>4. pieceOf(b, f) =
        CASE f.kind = "args" /\ p = "host" -> Piece(b, n, f.id, f.index, f.final)
          [] f.kind = "args" /\ p # "host" -> Piece(b, n, f.item, f.item, f.final)
          [] f.kind \in {"itemDone", "tool"} -> Piece(b, n, f.item, 0, TRUE)
          [] OTHER -> Piece(b, n, 0, 0, FALSE)
  BY DEF pieceOf, n
<1> HIDE DEF p
<1>5. ASSUME f.kind = "args", p = "host"
      PROVE  f.id \in Labelings /\ f.index \in Labelings /\ pieceOf(b, f).id = f.id /\ pieceOf(b, f).index = f.index
  <2>1. pieceOf(b, f) = Piece(b, n, f.id, f.index, f.final)
    BY <1>4, <1>5
  <2> QED BY <1>1, <1>2, <1>5, <2>1, HostArguments DEF Piece
<1>6. ASSUME f.kind = "args", p # "host"
      PROVE  f.item \in Items /\ pieceOf(b, f).id = f.item /\ pieceOf(b, f).index = f.item
  <2>1. pieceOf(b, f) = Piece(b, n, f.item, f.item, f.final)
    BY <1>4, <1>6
  <2> QED BY <1>1, <1>3, <1>6, <2>1, WireFrameFields DEF Piece
<1>7. ASSUME f.kind \in {"itemDone", "tool"}
      PROVE  f.item \in Items /\ pieceOf(b, f).id = f.item /\ pieceOf(b, f).index = 0
  <2>1. pieceOf(b, f) = Piece(b, n, f.item, 0, TRUE)
    BY <1>4, <1>7
  <2>2. f.item \in Items
    BY <1>1, <1>2, <1>3, <1>7, HostFrameFields, WireFrameFields
  <2> QED BY <2>1, <2>2 DEF Piece
<1>8. ASSUME f.kind = "call", p # "host" PROVE f.item \in Items
  BY <1>1, <1>3, <1>8, WireFrameFields
<1>9. ASSUME f.kind = "tag", p # "host" PROVE f.inside \in BOOLEAN
  BY <1>1, <1>3, <1>9, WireFrameFields
<1>10. Carried(p, f, pieceOf(b, f))
  BY <1>5, <1>6, <1>7, <1>8, <1>9 DEF Carried
<1> QED BY <1>10 DEF p

LEMMA QuietLabelled ==
  ASSUME NEW p, NEW e, e.kind \notin {"delta", "call"}
  PROVE  Labelled(p, e)
BY DEF Labelled

LEMMA TextLabelled ==
  ASSUME NEW p, NEW pieces, NEW stop, NEW err
  PROVE  /\ Labelled(p, Text(pieces)) /\ Labelled(p, Thinking(pieces)) /\ Labelled(p, EventDone(stop))
         /\ Labelled(p, EventError(err)) /\ Labelled(p, NoEvent)
<1>1. /\ Text(pieces).kind = "text" /\ Thinking(pieces).kind = "thinking" /\ EventDone(stop).kind = "done"
      /\ EventError(err).kind = "error" /\ NoEvent.kind = ""
  BY DEF Text, Thinking, EventDone, EventError, NoEvent
<1> QED BY <1>1, QuietLabelled

LEMMA DeltaFields ==
  ASSUME NEW id, NEW index, NEW pieces
  PROVE  LET e == ToolCallDelta(id, index, pieces)
         IN  e.kind = "delta" /\ e.id = id /\ e.index = index /\ e.pieces = pieces
BY DEF ToolCallDelta, NoEvent

LEMMA VendorLabelled ==
  ASSUME NEW p, p # "host", NEW x \in Items, NEW id \in {0, x}, NEW index \in {0, x}, NEW pieces,
         \A j \in DOMAIN pieces : pieces[j].id = x /\ pieces[j].index \in {0, x}
  PROVE  Labelled(p, ToolCallDelta(id, index, pieces))
<1> DEFINE e == ToolCallDelta(id, index, pieces)
<1>1. e.kind = "delta" /\ e.id = id /\ e.index = index /\ e.pieces = pieces
  BY DeltaFields
<1> HIDE DEF e
<1>2. ofItem(e, x)
  BY <1>1 DEF ofItem
<1>3. Labelled(p, e)
  BY <1>1, <1>2 DEF Labelled
<1> QED BY <1>3 DEF e

LEMMA OnePiece ==
  ASSUME NEW piece
  PROVE  DOMAIN <<piece>> = {1} /\ <<piece>>[1] = piece /\ DOMAIN <<>> = {}
OBVIOUS

LEMMA EmitTidy ==
  ASSUME NEW B, NEW p, NEW parser \in ParsersOf(B), Tidy(p, parser), NEW e, Labelled(p, e)
  PROVE  Tidy(p, emit(parser, e))
<1> DEFINE q == Append(parser.pending, e)
<1>1. parser.pending \in Seq(EventsOf(B))
  BY ParserFields
<1>2. \A i \in DOMAIN q : (i \in DOMAIN parser.pending /\ q[i] = parser.pending[i]) \/ q[i] = e
  BY <1>1
<1> HIDE DEF q
<1>3. emit(parser, e) = [parser EXCEPT !.pending = q]
  BY DEF emit, q
<1>4. emit(parser, e).pending = q /\ emit(parser, e).items = parser.items
  BY <1>3 DEF ParsersOf
<1> QED BY <1>2, <1>4 DEF Tidy

LEMMA SameTidy ==
  ASSUME NEW p, NEW a, NEW b, Tidy(p, a), b.pending = a.pending, b.items = a.items
  PROVE  Tidy(p, b)
BY DEF Tidy

LEMMA UpdatesTidy ==
  ASSUME NEW B, NEW p, NEW parser \in ParsersOf(B), Tidy(p, parser)
  PROVE  /\ Tidy(p, [parser EXCEPT !.finished = TRUE])
         /\ \A s : Tidy(p, [parser EXCEPT !.stop = s])
         /\ \A s : Tidy(p, [parser EXCEPT !.finished = TRUE, !.buffer = s])
<1>1. LET q == [parser EXCEPT !.finished = TRUE] IN q.pending = parser.pending /\ q.items = parser.items
  BY DEF ParsersOf
<1>2. ASSUME NEW s
      PROVE  LET q == [parser EXCEPT !.stop = s] IN q.pending = parser.pending /\ q.items = parser.items
  BY DEF ParsersOf
<1>3. ASSUME NEW s
      PROVE  LET q == [parser EXCEPT !.finished = TRUE, !.buffer = s]
             IN  q.pending = parser.pending /\ q.items = parser.items
  BY DEF ParsersOf
<1> QED BY <1>1, <1>2, <1>3 DEF Tidy

LEMMA ItemsTidy ==
  ASSUME NEW B, NEW p, NEW parser \in ParsersOf(B), Tidy(p, parser), NEW i \in Items
  PROVE  /\ Tidy(p, recordOutputItem(parser, i))
         /\ Tidy(p, [parser EXCEPT !.items[i].deltas = TRUE])
         /\ recordOutputItem(parser, i).items[i].id = i
<1>1. parser.items \in [Items -> [id : Nat, deltas : BOOLEAN]]
  BY DEF ParsersOf
<1> DEFINE a == [parser.items EXCEPT ![i].id = i]
           d == [parser.items EXCEPT ![i].deltas = TRUE]
<1>2. /\ a[i].id = i /\ \A x \in Items : x # i => a[x] = parser.items[x]
      /\ \A x \in Items : d[x].id = parser.items[x].id
  BY <1>1
<1>3. recordOutputItem(parser, i) = [parser EXCEPT !.items = a]
      /\ [parser EXCEPT !.items[i].deltas = TRUE] = [parser EXCEPT !.items = d]
  BY DEF recordOutputItem, ParsersOf
<1> HIDE DEF a, d
<1>4. /\ [parser EXCEPT !.items = a].items = a /\ [parser EXCEPT !.items = a].pending = parser.pending
      /\ [parser EXCEPT !.items = d].items = d /\ [parser EXCEPT !.items = d].pending = parser.pending
  BY DEF ParsersOf
<1> DEFINE ra == [parser EXCEPT !.items = a]
           rd == [parser EXCEPT !.items = d]
<1> HIDE DEF ra, rd
<1>5. ra.items = a /\ ra.pending = parser.pending /\ rd.items = d /\ rd.pending = parser.pending
  BY <1>4 DEF ra, rd
<1>6. Tidy(p, ra) /\ Tidy(p, rd) /\ ra.items[i].id = i
  BY <1>2, <1>5 DEF Tidy
<1> QED BY <1>3, <1>6 DEF ra, rd

LEMMA QueueTidy ==
  ASSUME NEW B, NEW p, NEW parser \in ParsersOf(B), Tidy(p, parser), NEW k, NEW pieces
  PROVE  Tidy(p, queue(parser, k, pieces))
<1>1. Labelled(p, Thinking(pieces)) /\ Labelled(p, Text(pieces))
  BY TextLabelled
<1>2. Tidy(p, emit(parser, Thinking(pieces))) /\ Tidy(p, emit(parser, Text(pieces)))
  BY <1>1, EmitTidy
<1> QED BY <1>2 DEF queue

LEMMA ProcessTidy ==
  ASSUME NEW B, NEW p, NEW parser \in ParsersOf(B), Tidy(p, parser), NEW piece \in PiecesOf(B),
         NEW f, f.kind \in {"text", "tag"}, f.kind = "tag" => f.inside \in BOOLEAN
  PROVE  Tidy(p, processChoiceDelta(parser, f, piece))
<1> DEFINE after == splitter_after(parser, f, piece)
           thought == splitter_process(parser, f, piece, "thinking")
           said == splitter_process(parser, f, piece, "text")
           first == queue(after, "thinking", thought)
<1>1. after \in ParsersOf(B) /\ thought \in Seq(PiecesOf(B)) /\ said \in Seq(PiecesOf(B))
  BY SplitterTyped
<1>2. after.pending = parser.pending /\ after.items = parser.items
  BY DEF splitter_after, ParsersOf
<1>3. processChoiceDelta(parser, f, piece) = queue(first, "text", said)
  BY DEF processChoiceDelta
<1> HIDE DEF after, thought, said
<1>4. Tidy(p, after)
  BY <1>2, SameTidy
<1>5. first \in ParsersOf(B) /\ Tidy(p, first)
  BY <1>1, <1>4, QueueTyped, QueueTidy
<1> HIDE DEF first
<1> QED BY <1>3, <1>5, QueueTidy

LEMMA DoneMarkerTidy ==
  ASSUME NEW B, NEW p, NEW parser \in ParsersOf(B), Tidy(p, parser)
  PROVE  Tidy(p, handleDoneMarker(parser))
<1> DEFINE flushed == queue(parser, mode(parser), parser.buffer)
           done == emit(flushed, EventDone(parser.stop))
<1>1. parser.buffer \in Seq(PiecesOf(B)) /\ EventDone(parser.stop) \in EventsOf(B)
  BY ParserFields, EventsTyped, NilError
<1>2. Labelled(p, EventDone(parser.stop))
  BY TextLabelled
<1>3. handleDoneMarker(parser) = [done EXCEPT !.finished = TRUE, !.buffer = <<>>]
  BY DEF handleDoneMarker
<1>4. flushed \in ParsersOf(B) /\ Tidy(p, flushed)
  BY <1>1, QueueTyped, QueueTidy
<1> HIDE DEF flushed
<1>5. done \in ParsersOf(B) /\ Tidy(p, done)
  BY <1>1, <1>2, <1>4, EmitTyped, EmitTidy
<1> HIDE DEF done
<1>6. Tidy(p, [done EXCEPT !.finished = TRUE, !.buffer = <<>>])
  BY <1>5, UpdatesTidy
<1> QED BY <1>3, <1>6

LEMMA FinishTidy ==
  ASSUME NEW B, NEW p, NEW parser \in ParsersOf(B), Tidy(p, parser), NEW e, Labelled(p, e)
  PROVE  Tidy(p, [emit(parser, e) EXCEPT !.finished = TRUE])
<1> DEFINE q == emit(parser, e)
           r == [q EXCEPT !.finished = TRUE]
<1>1. r.pending = q.pending /\ r.items = q.items
  BY DEF emit, ParsersOf
<1>2. Tidy(p, q)
  BY EmitTidy
<1> HIDE DEF q, r
<1>3. Tidy(p, r)
  BY <1>1, <1>2, SameTidy
<1> QED BY <1>3 DEF q, r

LEMMA OutcomeParser ==
  ASSUME NEW parser, NEW err
  PROVE  Outcome(parser, err).parser = parser
BY DEF Outcome

LEMMA ChatTidy ==
  ASSUME NEW B, NEW parser \in ParsersOf(B), Tidy("chat", parser), NEW piece \in PiecesOf(B), NEW f,
         Carried("chat", f, piece)
  PROVE  Tidy("chat", chat(parser, f, piece).parser)
<1>1. CASE f.kind \in {"text", "tag"}
  <2>1. chat(parser, f, piece) = Outcome(processChoiceDelta(parser, f, piece), <<>>)
    BY <1>1 DEF chat
  <2>2. f.kind = "tag" => f.inside \in BOOLEAN
    BY DEF Carried
  <2>3. Tidy("chat", processChoiceDelta(parser, f, piece))
    BY <1>1, <2>2, ProcessTidy
  <2> QED BY <2>1, <2>3, OutcomeParser
<1>3. CASE f.kind = "call"
  <2> DEFINE e == ToolCallDelta(f.item, f.item, <<>>)
  <2>1. chat(parser, f, piece) = Outcome(emit(parser, e), <<>>)
    BY <1>3 DEF chat
  <2>2. f.item \in Items
    BY <1>3 DEF Carried
  <2>3. Labelled("chat", e)
    BY <2>2, VendorLabelled, OnePiece
  <2> HIDE DEF e
  <2> QED BY <2>1, <2>3, EmitTidy, OutcomeParser
<1>4. CASE f.kind = "args"
  <2> DEFINE e == ToolCallDelta(0, f.item, <<piece>>)
  <2>1. chat(parser, f, piece) = Outcome(emit(parser, e), <<>>)
    BY <1>4 DEF chat
  <2>2. f.item \in Items /\ piece.id = f.item /\ piece.index = f.item
    BY <1>4 DEF Carried
  <2>3. Labelled("chat", e)
    BY <2>2, VendorLabelled, OnePiece
  <2> HIDE DEF e
  <2> QED BY <2>1, <2>3, EmitTidy, OutcomeParser
<1>5. CASE f.kind = "finish"
  <2> DEFINE q == [parser EXCEPT !.stop = f.stop]
  <2>1. chat(parser, f, piece) = Outcome(q, <<>>)
    BY <1>5 DEF chat
  <2>3. Tidy("chat", q)
    BY UpdatesTidy
  <2> HIDE DEF q
  <2> QED BY <2>1, <2>3, OutcomeParser
<1>6. CASE f.kind = "end"
  <2>1. chat(parser, f, piece) = Outcome(handleDoneMarker(parser), <<>>)
    BY <1>6 DEF chat
  <2> QED BY <2>1, DoneMarkerTidy, OutcomeParser
<1>7. CASE f.kind \notin {"text", "tag", "call", "args", "finish", "end"}
  <2>1. chat(parser, f, piece) = Outcome(parser, IF f.kind \in {"failed", "rejected"} THEN apiError(f) ELSE <<>>)
    BY <1>7 DEF chat
  <2> QED BY <2>1, OutcomeParser
<1> QED BY <1>1, <1>3, <1>4, <1>5, <1>6, <1>7

LEMMA ResponsesTidy ==
  ASSUME NEW B, NEW parser \in ParsersOf(B), Tidy("responses", parser), NEW piece \in PiecesOf(B), NEW f,
         Carried("responses", f, piece)
  PROVE  Tidy("responses", responses(parser, f, piece).parser)
<1>1. CASE f.kind = "text"
  <2>1. responses(parser, f, piece) = Outcome(emit(parser, Text(<<piece>>)), <<>>)
    BY <1>1 DEF responses
  <2> QED BY <2>1, EmitTidy, TextLabelled, OutcomeParser
<1>2. CASE f.kind = "call"
  <2> DEFINE q == recordOutputItem(parser, f.item)
  <2>1. responses(parser, f, piece) = Outcome(q, <<>>)
    BY <1>2 DEF responses
  <2>2. f.item \in Items
    BY <1>2 DEF Carried
  <2>3. Tidy("responses", q)
    BY <2>2, ItemsTidy
  <2> HIDE DEF q
  <2> QED BY <2>1, <2>3, OutcomeParser
<1>3. CASE f.kind = "args"
  <2> DEFINE q == [parser EXCEPT !.items[f.item].deltas = TRUE]
             e == ToolCallDelta(parser.items[f.item].id, f.item, <<piece>>)
  <2>1. responses(parser, f, piece) = Outcome(emit(q, e), <<>>)
    BY <1>3 DEF responses
  <2>2. f.item \in Items /\ piece.id = f.item /\ piece.index = f.item
    BY <1>3 DEF Carried
  <2>3. parser.items[f.item].id \in {0, f.item}
    BY <2>2 DEF Tidy
  <2>4. Labelled("responses", e)
    BY <2>2, <2>3, VendorLabelled, OnePiece
  <2>5. q \in ParsersOf(B) /\ Tidy("responses", q)
    BY <2>2, ItemUpdates, ItemsTidy
  <2> HIDE DEF e, q
  <2> QED BY <2>1, <2>4, <2>5, EmitTidy, OutcomeParser
<1>4. CASE f.kind = "itemDone"
  <2> DEFINE q == recordOutputItem(parser, f.item)
             e == ToolCallDelta(q.items[f.item].id, f.item, <<piece>>)
  <2>1. responses(parser, f, piece) =
          Outcome(IF parser.items[f.item].deltas THEN q ELSE emit(q, e), <<>>)
    BY <1>4 DEF responses, outputItemDone
  <2>2. f.item \in Items /\ piece.id = f.item /\ piece.index = 0
    BY <1>4 DEF Carried
  <2>3. q \in ParsersOf(B) /\ Tidy("responses", q) /\ q.items[f.item].id = f.item
    BY <2>2, ItemUpdates, ItemsTidy
  <2> HIDE DEF q
  <2>4. Labelled("responses", e)
    <3> DEFINE x == f.item
               id == q.items[x].id
    <3>1. x \in Items /\ piece.id = x /\ piece.index = 0 /\ id = x
      BY <2>2, <2>3
    <3> HIDE DEF x, id
    <3>2. \A j \in DOMAIN <<piece>> : <<piece>>[j].id = x /\ <<piece>>[j].index \in {0, x}
      BY <3>1, OnePiece
    <3>3. Labelled("responses", ToolCallDelta(id, x, <<piece>>))
      BY <3>1, <3>2, VendorLabelled
    <3> QED BY <3>3 DEF x, id
  <2> HIDE DEF e
  <2> QED BY <2>1, <2>3, <2>4, EmitTidy, OutcomeParser
<1>5. CASE f.kind = "end"
  <2> DEFINE q == [emit(parser, EventDone(f.stop)) EXCEPT !.finished = TRUE]
  <2>1. responses(parser, f, piece) = Outcome(q, <<>>)
    BY <1>5 DEF responses
  <2>2. Tidy("responses", q)
    BY FinishTidy, TextLabelled
  <2> HIDE DEF q
  <2> QED BY <2>1, <2>2, OutcomeParser
<1>6. CASE f.kind \in {"failed", "rejected"}
  <2> DEFINE q == [emit(parser, EventError(apiError(f))) EXCEPT !.finished = TRUE]
  <2>1. responses(parser, f, piece) = Outcome(q, <<>>)
    BY <1>6 DEF responses
  <2>2. Tidy("responses", q)
    BY FinishTidy, TextLabelled
  <2> HIDE DEF q
  <2> QED BY <2>1, <2>2, OutcomeParser
<1>7. CASE f.kind \notin {"text", "call", "args", "itemDone", "end", "failed", "rejected"}
  <2>1. responses(parser, f, piece) = Outcome(parser, IF f.kind = "eof" THEN <<"cut">> ELSE <<>>)
    BY <1>7 DEF responses
  <2> QED BY <2>1, OutcomeParser
<1> QED BY <1>1, <1>2, <1>3, <1>4, <1>5, <1>6, <1>7

LEMMA MessagesTidy ==
  ASSUME NEW B, NEW parser \in ParsersOf(B), Tidy("messages", parser), NEW piece \in PiecesOf(B), NEW f,
         Carried("messages", f, piece)
  PROVE  Tidy("messages", messages(parser, f, piece).parser)
<1>1. CASE f.kind = "text"
  <2>1. messages(parser, f, piece) = Outcome(emit(parser, Text(<<piece>>)), <<>>)
    BY <1>1 DEF messages
  <2> QED BY <2>1, EmitTidy, TextLabelled, OutcomeParser
<1>2. CASE f.kind = "call"
  <2> DEFINE q == recordOutputItem(parser, f.item)
             e == ToolCallDelta(f.item, 0, <<>>)
  <2>1. messages(parser, f, piece) = Outcome(emit(q, e), <<>>)
    BY <1>2 DEF messages
  <2>2. f.item \in Items
    BY <1>2 DEF Carried
  <2>3. q \in ParsersOf(B) /\ Tidy("messages", q)
    BY <2>2, ItemUpdates, ItemsTidy
  <2>4. Labelled("messages", e)
    BY <2>2, VendorLabelled, OnePiece
  <2> HIDE DEF e, q
  <2> QED BY <2>1, <2>3, <2>4, EmitTidy, OutcomeParser
<1>3. CASE f.kind = "args"
  <2> DEFINE e == ToolCallDelta(parser.items[f.item].id, 0, <<piece>>)
  <2>1. messages(parser, f, piece) = Outcome(emit(parser, e), <<>>)
    BY <1>3 DEF messages
  <2>2. f.item \in Items /\ piece.id = f.item /\ piece.index = f.item
    BY <1>3 DEF Carried
  <2>3. parser.items[f.item].id \in {0, f.item}
    BY <2>2 DEF Tidy
  <2>4. Labelled("messages", e)
    BY <2>2, <2>3, VendorLabelled, OnePiece
  <2> HIDE DEF e
  <2> QED BY <2>1, <2>4, EmitTidy, OutcomeParser
<1>4. CASE f.kind = "finish"
  <2> DEFINE q == [parser EXCEPT !.stop = f.stop]
  <2>1. messages(parser, f, piece) = Outcome(q, <<>>)
    BY <1>4 DEF messages
  <2>3. Tidy("messages", q)
    BY UpdatesTidy
  <2> HIDE DEF q
  <2> QED BY <2>1, <2>3, OutcomeParser
<1>5. CASE f.kind = "end"
  <2> DEFINE q == [emit(parser, EventDone(parser.stop)) EXCEPT !.finished = TRUE]
  <2>1. messages(parser, f, piece) = Outcome(q, <<>>)
    BY <1>5 DEF messages
  <2>2. Tidy("messages", q)
    BY FinishTidy, TextLabelled
  <2> HIDE DEF q
  <2> QED BY <2>1, <2>2, OutcomeParser
<1>6. CASE f.kind \notin {"text", "call", "args", "finish", "end"}
  <2>1. messages(parser, f, piece) = Outcome(parser, IF f.kind \in {"failed", "rejected"} THEN apiError(f) ELSE <<>>)
    BY <1>6 DEF messages
  <2> QED BY <2>1, OutcomeParser
<1> QED BY <1>1, <1>2, <1>3, <1>4, <1>5, <1>6

LEMMA HostDeltaLabelled ==
  ASSUME NEW id \in Labelings, NEW index \in Labelings, NEW piece, piece.id = id, piece.index = index
  PROVE  Labelled("host", ToolCallDelta(id, index, <<piece>>))
<1> DEFINE e == ToolCallDelta(id, index, <<piece>>)
           pieces == <<piece>>
<1>1. e.kind = "delta" /\ e.id = id /\ e.index = index /\ e.pieces = pieces
  BY DeltaFields
<1>2. \A j \in DOMAIN pieces : pieces[j] = piece
  BY OnePiece
<1> HIDE DEF e, pieces
<1>3. ofHost(e)
  BY <1>1, <1>2 DEF ofHost, Labelings
<1>4. Labelled("host", e)
  BY <1>3 DEF Labelled
<1> QED BY <1>4 DEF e

LEMMA HostCallLabelled ==
  ASSUME NEW item \in Items, NEW piece, piece.id = item, piece.index = 0
  PROVE  Labelled("host", ToolCall(item, <<piece>>))
<1> DEFINE e == ToolCall(item, <<piece>>)
           pieces == <<piece>>
<1>1. e.kind = "call" /\ e.id = item /\ e.index = 0 /\ e.pieces = pieces
  BY DEF ToolCall, NoEvent
<1>2. \A j \in DOMAIN pieces : pieces[j] = piece
  BY OnePiece
<1> HIDE DEF e, pieces
<1>3. ofHost(e)
  BY <1>1, <1>2 DEF ofHost
<1>4. Labelled("host", e)
  BY <1>3 DEF Labelled
<1> QED BY <1>4 DEF e

LEMMA HostTidy ==
  ASSUME NEW B, NEW parser \in ParsersOf(B), Tidy("host", parser), NEW piece \in PiecesOf(B), NEW f,
         Carried("host", f, piece)
  PROVE  Tidy("host", host(parser, f, piece).parser)
<1>1. ASSUME NEW e, Labelled("host", e), NEW err PROVE Tidy("host", Outcome(emit(parser, e), err).parser)
  BY <1>1, EmitTidy, OutcomeParser
<1>2. CASE f.kind = "text"
  BY <1>1, <1>2, TextLabelled DEF host
<1>3. CASE f.kind = "args"
  <2> DEFINE e == ToolCallDelta(f.id, f.index, <<piece>>)
  <2>1. f.id \in Labelings /\ f.index \in Labelings /\ piece.id = f.id /\ piece.index = f.index
    BY <1>3 DEF Carried
  <2>2. Labelled("host", e)
    <3> DEFINE id == f.id
               index == f.index
    <3> HIDE DEF id, index
    <3>1. Labelled("host", ToolCallDelta(id, index, <<piece>>))
      BY <2>1, HostDeltaLabelled DEF id, index
    <3> QED BY <3>1 DEF id, index
  <2>3. host(parser, f, piece) = Outcome(emit(parser, e), <<>>)
    BY <1>3 DEF host
  <2> HIDE DEF e
  <2> QED BY <1>1, <2>2, <2>3
<1>4. CASE f.kind = "tool"
  <2> DEFINE e == ToolCall(f.item, <<piece>>)
  <2>1. f.item \in Items /\ piece.id = f.item /\ piece.index = 0
    BY <1>4 DEF Carried
  <2>2. Labelled("host", e)
    <3> DEFINE item == f.item
    <3> HIDE DEF item
    <3>1. Labelled("host", ToolCall(item, <<piece>>))
      BY <2>1, HostCallLabelled DEF item
    <3> QED BY <3>1 DEF item
  <2>3. host(parser, f, piece) = Outcome(emit(parser, e), <<>>)
    BY <1>4 DEF host
  <2> HIDE DEF e
  <2> QED BY <1>1, <2>2, <2>3
<1>5. CASE f.kind \in {"end", "torn", "endTorn", "nilError", "failed", "rejected"}
  BY <1>1, <1>5, TextLabelled DEF host
<1>6. CASE f.kind \notin {"text", "args", "tool", "end", "torn", "endTorn", "nilError", "failed", "rejected"}
  <2>1. host(parser, f, piece) = Outcome(parser, <<>>)
    BY <1>6 DEF host
  <2> QED BY <2>1, OutcomeParser
<1> QED BY <1>2, <1>3, <1>4, <1>5, <1>6

LEMMA ConsumeTidy ==
  ASSUME NEW p \in Protocols, NEW B, NEW parser \in ParsersOf(B), Tidy(p, parser), NEW piece \in PiecesOf(B), NEW f,
         Carried(p, f, piece)
  PROVE  Tidy(p, consume(p, parser, f, piece).parser)
<1>1. CASE f.kind \in {"bad", "cut", "canceled"} \/ (f.kind = "eof" /\ p # "responses")
  <2>1. \E err : consume(p, parser, f, piece) = Outcome(parser, err)
    BY <1>1 DEF consume
  <2> QED BY <2>1, OutcomeParser
<1>2. CASE f.kind \notin {"bad", "cut", "canceled"} /\ ~(f.kind = "eof" /\ p # "responses")
  <2>3. CASE p = "host"
    BY <1>2, <2>3, HostTidy DEF consume
  <2>4. CASE p = "chat"
    BY <1>2, <2>4, ChatTidy DEF consume
  <2>5. CASE p = "responses"
    BY <1>2, <2>5, ResponsesTidy DEF consume
  <2>6. CASE p = "messages"
    BY <1>2, <2>6, MessagesTidy DEF consume
  <2> QED BY <2>3, <2>4, <2>5, <2>6 DEF Protocols
<1> QED BY <1>1, <1>2

-----------------------------------------------------------------------------
(* Every step keeps the labels.                                            *)

LEMMA SilentLabelled ==
  ASSUME NEW p, NEW e \in SilentEvents
  PROVE  Labelled(p, e)
BY QuietLabelled DEF SilentEvents

LEMMA NewParserTidy ==
  ASSUME NEW p
  PROVE  Tidy(p, NewParser)
BY DEF NewParser, Tidy

\* The bodies of a step: as tidy as before, and none changes its driver.
SameDrivers(bs) ==
  /\ TidyBodies(bs)
  /\ current # 0 => current \in DOMAIN bs /\ bs[current].driver = bodies[current].driver

LEMMA OwnDrivers ==
  ASSUME IInv, Labels
  PROVE  SameDrivers(bodies)
BY CurrentBody DEF Labels, SameDrivers

LEMMA ClosedDrivers ==
  ASSUME NEW bs, GoodBodies(bs), SameDrivers(bs), current \in Nat
  PROVE  SameDrivers(closeBody(bs, current))
<1>1. CASE current = 0
  BY <1>1 DEF closeBody
<1>2. CASE current # 0
  <2> DEFINE cs == closeBody(bs, current)
             body == [bs[current] EXCEPT !.open = FALSE]
  <2>1. current \in DOMAIN bs /\ bs[current] \in BodiesOf({current})
    BY <1>2 DEF GoodBodies
  <2>2. body.driver = bs[current].driver /\ body.parser = bs[current].parser
    BY <2>1 DEF BodiesOf
  <2>3. cs = [bs EXCEPT ![current] = body]
    BY <1>2 DEF closeBody
  <2> HIDE DEF cs, body
  <2>4. /\ DOMAIN cs = DOMAIN bs
        /\ \A b \in DOMAIN bs : cs[b] = IF b = current THEN body ELSE bs[b]
    BY <2>1, <2>3 DEF GoodBodies
  <2>5. \A b \in DOMAIN bs : cs[b].driver = bs[b].driver /\ cs[b].parser = bs[b].parser
    BY <2>2, <2>4
  <2>6. \A b \in DOMAIN bs : protocol(cs[b]) = protocol(bs[b])
    BY <2>5 DEF protocol
  <2>7. TidyBodies(cs)
    BY <2>4, <2>5, <2>6 DEF TidyBodies, SameDrivers
  <2>8. SameDrivers(cs)
    BY <1>2, <2>4, <2>5, <2>7 DEF SameDrivers
  <2> QED BY <2>8 DEF cs
<1> QED BY <1>1, <1>2

\* A step that leaves the current body and goes on.
LEMMA GoesOnLabels ==
  ASSUME IInv, Labels, NEW bs, SameDrivers(bs), bodies' = bs, config' = config, current' = current, pc' # "returned",
         current # 0 =>
           \A i \in DOMAIN turn'.events : Labelled(protocol(bodies[current]), turn'.events[i])
  PROVE  Labels'
<1>1. TidyBodies(bodies)'
  BY DEF SameDrivers, TidyBodies, protocol
<1>2. ASSUME current # 0 PROVE LabelledTurn(protocol(bodies[current]))'
  <2>1. protocol(bodies[current])' = protocol(bodies[current])
    BY <1>2 DEF SameDrivers, protocol
  <2> QED BY <1>2, <2>1 DEF LabelledTurn
<1>3. ~returned'
  BY DEF returned
<1> QED BY <1>1, <1>2, <1>3 DEF Labels

LEMMA LeaveLabels ==
  ASSUME IInv, Labels, NEW bs, GoodBodies(bs), SameDrivers(bs), NEW r, NEW t, leave(bs, r, t), t.events = turn.events,
         Accepted(t), current # 0 \/ t.err # <<>>
  PROVE  Labels'
<1> DEFINE cs == closeBody(bs, current)
<1>1. turn' = t /\ bodies' = cs /\ config' = config /\ current' = current
  BY DEF leave
<1>2. SameDrivers(cs)
  BY ClosedDrivers, TurnFields
<1> HIDE DEF cs
<1>3. TidyBodies(bodies)'
  BY <1>1, <1>2 DEF SameDrivers, TidyBodies, protocol
<1>4. ASSUME current # 0 PROVE LabelledTurn(protocol(bodies[current]))'
  <2>1. protocol(bodies[current])' = protocol(bodies[current])
    BY <1>1, <1>2, <1>4 DEF SameDrivers, protocol
  <2>2. \A i \in DOMAIN turn.events : Labelled(protocol(bodies[current]), turn.events[i])
    BY <1>4 DEF Labels, LabelledTurn
  <2> QED BY <1>1, <2>1, <2>2 DEF LabelledTurn
<1>5. Accepted(turn)'
  BY <1>1 DEF Accepted
<1> QED BY <1>1, <1>3, <1>4, <1>5 DEF Labels

LEMMA FailedAccepted ==
  ASSUME IInv, NEW err, err # <<>>
  PROVE  failed(err).events = turn.events /\ Accepted(failed(err))
<1>1. turn \in Turns(current, turn)
  BY TurnFields
<1>2. failed(err).events = turn.events /\ failed(err).err = err
  BY <1>1 DEF failed, Turns
<1> QED BY <1>2 DEF Accepted

LEMMA CompletedAccepted ==
  ASSUME IInv
  PROVE  completed.events = turn.events /\ Accepted(completed)
<1> DEFINE response == EndedTurn(turn.events)
           t == completed
<1>1. turn \in Turns(current, turn)
  BY TurnFields
<1>2. t = [turn EXCEPT !.assistant = response.turn, !.err = response.err]
  BY DEF completed, applyNormalized, EndedTurn
<1> HIDE DEF response
<1>3. t.events = turn.events /\ t.err = response.err /\ t.assistant = response.turn
  BY <1>1, <1>2 DEF Turns
<1> HIDE DEF t
<1>4. Accepted(t)
  BY <1>3 DEF Accepted, response
<1> QED BY <1>3, <1>4 DEF t

LEMMA ReceivedLabels ==
  ASSUME IInv, Labels, current # 0, NEW bs, GoodBodies(bs), SameDrivers(bs), NEW r, NEW event, NEW err,
         err = <<>> => Labelled(protocol(bodies[current]), event), received(bs, r, event, err)
  PROVE  Labels'
<1>1. CASE err = <<>> /\ ~exceeds(event)
  <2>1. handOn(bs, r, event)
    BY <1>1 DEF received
  <2>2. bodies' = bs /\ config' = config /\ current' = current /\ pc' # "returned" /\ turn' = record(event)
    BY <2>1 DEF handOn
  <2>3. turn \in Turns(current, turn) /\ turn.events \in Seq(EventsOf({current}))
    BY TurnFields
  <2> DEFINE t == record(event)
             p == protocol(bodies[current])
  <2>4. t.events = Append(turn.events, event)
    BY <2>3 DEF record, Turns
  <2> HIDE DEF t, p
  <2>5. \A i \in DOMAIN turn.events : Labelled(p, turn.events[i])
    BY DEF Labels, LabelledTurn, p
  <2>6. ASSUME NEW i \in DOMAIN t.events PROVE Labelled(p, t.events[i])
    <3>1. (i \in DOMAIN turn.events /\ t.events[i] = turn.events[i]) \/ t.events[i] = event
      BY <2>3, <2>4
    <3> QED BY <1>1, <2>5, <3>1 DEF p
  <2> QED BY <2>2, <2>6, GoesOnLabels DEF t, p
<1>2. CASE ~(err = <<>> /\ ~exceeds(event)) /\ streamEnded(err)
  <2>1. leave(bs, r, completed)
    BY <1>2 DEF received
  <2> QED BY <2>1, LeaveLabels, CompletedAccepted
<1>3. CASE ~(err = <<>> /\ ~exceeds(event)) /\ ~streamEnded(err)
  <2> DEFINE e == IF err = <<>> THEN <<"limit">> ELSE err
  <2>1. leave(bs, r, failed(e)) /\ e # <<>>
    BY <1>3 DEF received
  <2> HIDE DEF e
  <2> QED BY <2>1, LeaveLabels, FailedAccepted
<1> QED BY <1>1, <1>2, <1>3

LEMMA ClassifiedEvent ==
  ASSUME NEW event, NEW recvErr
  PROVE  classifyReceived(event, recvErr).event \in {event, NoEvent}
<1> DEFINE c == classifyReceived(event, recvErr)
           cause == IF event.kind = "error" /\ event.err # <<>> THEN event.err ELSE recvErr
<1>1. \E r, e, again, err : c = Classified(r, e, again, err) /\ e \in {event, NoEvent}
  <2> DEFINE ok(x) == \E r, e, again, err : x = Classified(r, e, again, err) /\ e \in {event, NoEvent}
  <2>1. ASSUME NEW r, NEW e \in {event, NoEvent}, NEW again, NEW err PROVE ok(Classified(r, e, again, err))
    OBVIOUS
  <2> HIDE DEF ok
  <2>2. ok(classifyPartialFailure(event, recvErr, cause))
    BY <2>1 DEF classifyPartialFailure
  <2>3. ok(c)
    BY <2>1, <2>2 DEF classifyReceived
  <2> QED BY <2>3 DEF ok
<1> QED BY <1>1 DEF Classified

LEMMA OutcomeLabelled ==
  ASSUME NEW p, NEW event, NEW recvErr, Labelled(p, event), event \in EventsOf({current}),
         NEW o \in Outcomes(event, recvErr, classifyReceived(event, recvErr))
  PROVE  Labelled(p, o.event)
<1> DEFINE c == classifyReceived(event, recvErr)
           ended == [retry EXCEPT !.terminal = TRUE]
           failure == streamRetryFailure(event, <<"exhausted">> \o c.err)
<1>1. c.event \in {event, NoEvent}
  BY ClassifiedEvent
<1>2. Labelled(p, NoEvent)
  BY TextLabelled
<1>3. Labelled(p, failure.event)
  <2>1. CASE event.kind = "error"
    <3> DEFINE e == [event EXCEPT !.err = <<"exhausted">> \o c.err]
    <3>1. e.kind = "error"
      BY <2>1 DEF EventsOf, Events
    <3>2. failure.event = e
      BY <2>1 DEF streamRetryFailure
    <3> HIDE DEF e, failure
    <3> QED BY <3>1, <3>2, QuietLabelled
  <2>2. CASE event.kind # "error"
    <3>1. failure.event = event
      BY <2>2 DEF streamRetryFailure
    <3> QED BY <3>1
  <2> QED BY <2>1, <2>2
<1> HIDE DEF c, ended, failure
<1>4. ASSUME NEW r, NEW e \in {event, NoEvent, failure.event}, NEW again, NEW err,
             o = Classified(r, e, again, err)
      PROVE  Labelled(p, o.event)
  <2>1. o.event = e
    BY <1>4 DEF Classified
  <2> QED BY <1>2, <1>3, <1>4, <2>1
<1>5. o \in Outcomes(event, recvErr, c)
  BY DEF c
<1>6. CASE ~config.retry \/ retry.terminal
  <2>1. o = Classified(retry, event, FALSE, recvErr)
    BY <1>5, <1>6 DEF Outcomes
  <2> QED BY <1>4, <2>1
<1>7. CASE ~(~config.retry \/ retry.terminal) /\ ~c.again
  <2>1. o = c
    BY <1>5, <1>7 DEF Outcomes
  <2> QED BY <1>1, <1>2, <2>1
<1>8. CASE ~(~config.retry \/ retry.terminal) /\ c.again /\ contextRetryStop(c.err)
  <2>1. o = Classified(retry, NoEvent, FALSE, c.err)
    BY <1>5, <1>8 DEF Outcomes
  <2> QED BY <1>4, <2>1
<1>9. CASE ~(~config.retry \/ retry.terminal) /\ c.again /\ ~contextRetryStop(c.err) /\ retry.retries >= MaxRetries
  <2>1. o = Classified(retry, failure.event, FALSE, failure.err)
    BY <1>5, <1>9 DEF Outcomes, failure
  <2> QED BY <1>4, <2>1
<1>10. CASE ~(~config.retry \/ retry.terminal) /\ c.again /\ ~contextRetryStop(c.err) /\ ~(retry.retries >= MaxRetries)
  <2>1. PICK a \in Approvals(c.err) :
          o = CASE a \in {"canceled", "veto"} -> Classified(retry, NoEvent, FALSE, <<a>>)
                [] a = "wait" -> c
                [] OTHER -> IF event.kind = "error" THEN Classified(ended, event, FALSE, recvErr)
                            ELSE Classified(retry, event, FALSE, c.err)
    BY <1>5, <1>10 DEF Outcomes, ended
  <2>2. CASE a \in {"canceled", "veto"}
    <3>1. o = Classified(retry, NoEvent, FALSE, <<a>>)
      BY <2>1, <2>2
    <3> QED BY <1>4, <3>1
  <2>3. CASE a = "wait"
    <3>1. o = c
      BY <2>1, <2>3
    <3> QED BY <1>1, <1>2, <3>1
  <2>4. CASE a \notin {"canceled", "veto", "wait"}
    <3>1. o = Classified(ended, event, FALSE, recvErr) \/ o = Classified(retry, event, FALSE, c.err)
      BY <2>1, <2>4
    <3> QED BY <1>4, <3>1
  <2> QED BY <2>2, <2>3, <2>4
<1> QED BY <1>6, <1>7, <1>8, <1>9, <1>10

LEMMA AwaitLabels ==
  ASSUME IInv, Labels, NEW bs, SameDrivers(bs), NEW wait, NEW event, await(bs, retry, wait, event)
  PROVE  Labels'
<1>1. /\ pc' # "returned" /\ turn' = turn /\ bodies' = bs /\ config' = config /\ current' = current
  BY DEF await
<1>2. current # 0 => \A i \in DOMAIN turn.events : Labelled(protocol(bodies[current]), turn.events[i])
  BY DEF Labels, LabelledTurn
<1> QED BY <1>1, <1>2, GoesOnLabels

LEMMA RetriedLabels ==
  ASSUME IInv, Labels, pc = "recv", NEW bs, GoodBodies(bs), SameDrivers(bs), NEW event \in EventsOf({current}),
         Labelled(protocol(bodies[current]), event), NEW recvErr \in Errors, retried(bs, event, recvErr)
  PROVE  Labels'
<1>1. PICK o \in Outcomes(event, recvErr, classifyReceived(event, recvErr)) :
        IF o.again THEN await(bs, retry, "recv", event) ELSE received(bs, o.r, o.event, o.err)
  BY DEF retried
<1>2. current # 0
  BY ReadingHasBody
<1>3. CASE o.again
  BY <1>1, <1>3, AwaitLabels
<1>4. CASE ~o.again
  <2>1. received(bs, o.r, o.event, o.err)
    BY <1>1, <1>4
  <2>2. Labelled(protocol(bodies[current]), o.event)
    BY OutcomeLabelled
  <2> QED BY <1>2, <2>1, <2>2, ReceivedLabels
<1> QED BY <1>3, <1>4

\* The current body with another parser.
LEMMA PutTidy ==
  ASSUME IInv, Labels, current # 0, NEW body, body.driver = bodies[current].driver,
         Tidy(protocol(bodies[current]), body.parser)
  PROVE  SameDrivers([bodies EXCEPT ![current] = body])
<1> DEFINE bs == [bodies EXCEPT ![current] = body]
<1>1. current \in DOMAIN bodies /\ bodies \in Seq(BodiesOf(Nat))
  BY CurrentBody DEF IInv, Bodied
<1>2. DOMAIN bs = DOMAIN bodies /\ \A b \in DOMAIN bodies : bs[b] = IF b = current THEN body ELSE bodies[b]
  BY <1>1
<1> HIDE DEF bs
<1>3. protocol(body) = protocol(bodies[current])
  BY DEF protocol
<1>4. TidyBodies(bs)
  BY <1>2, <1>3 DEF TidyBodies, Labels
<1>5. SameDrivers(bs)
  BY <1>1, <1>2, <1>4 DEF SameDrivers
<1> QED BY <1>5 DEF bs

LEMMA TailTidy ==
  ASSUME NEW B, NEW p, NEW parser \in ParsersOf(B), Tidy(p, parser), parser.pending # <<>>
  PROVE  /\ Labelled(p, Head(parser.pending))
         /\ Tidy(p, [parser EXCEPT !.pending = Tail(parser.pending)])
<1> DEFINE pending == parser.pending
           rest == Tail(pending)
           q == [parser EXCEPT !.pending = rest]
<1>1. pending \in Seq(EventsOf(B)) /\ pending # <<>>
  BY ParserFields
<1>2. /\ 1 \in DOMAIN pending /\ Head(pending) = pending[1]
      /\ \A i \in DOMAIN rest : i + 1 \in DOMAIN pending /\ rest[i] = pending[i + 1]
  <2> HIDE DEF pending
  <2> QED BY <1>1
<1>3. q.items = parser.items /\ q.pending = rest
  BY DEF ParsersOf
<1>4. \A i \in DOMAIN pending : Labelled(p, pending[i])
  BY DEF Tidy
<1>5. \A x \in Items : parser.items[x].id \in {0, x}
  BY DEF Tidy
<1> HIDE DEF rest, q, pending
<1>6. Tidy(p, q)
  BY <1>2, <1>3, <1>4, <1>5 DEF Tidy
<1> QED BY <1>2, <1>4, <1>6 DEF q, rest, pending

LEMMA RecvPendingLabels ==
  ASSUME IInv, Labels, RecvPending
  PROVE  Labels'
<1>1. pc = "recv" /\ current # 0
  BY ReadingHasBody DEF RecvPending
<1> DEFINE old == bodies[current]
           parser == [old.parser EXCEPT !.pending = Tail(old.parser.pending)]
           body == [old EXCEPT !.parser = parser]
           bs == [bodies EXCEPT ![current] = body]
           event == Head(old.parser.pending)
<1>2. /\ old \in BodiesOf({current}) /\ old.parser \in ParsersOf({current}) /\ current \in DOMAIN bodies
  BY <1>1, CurrentBody
<1>3. old.parser.pending \in Seq(EventsOf({current})) /\ old.parser.pending # <<>>
  BY <1>2, ParserFields DEF RecvPending
<1>4. event \in EventsOf({current}) /\ Tail(old.parser.pending) \in Seq(EventsOf({current}))
  BY <1>3
<1>5. parser \in ParsersOf({current})
  BY <1>2, <1>4, ParserUpdates
<1>6. [bodies EXCEPT ![current].parser.pending = Tail(@)] = bs
  BY <1>2 DEF BodiesOf, ParsersOf
<1>7. Tidy(protocol(old), old.parser)
  BY <1>2 DEF Labels, TidyBodies
<1>8. Labelled(protocol(old), event) /\ Tidy(protocol(old), parser)
  BY <1>2, <1>3, <1>7, TailTidy
<1>9. body \in BodiesOf({current}) /\ body.driver = old.driver /\ body.parser = parser
  <2> HIDE DEF parser, old
  <2> QED BY <1>2, <1>5 DEF BodiesOf
<1>10. retried(bs, event, <<>>)
  BY <1>6 DEF RecvPending
<1> HIDE DEF parser, event
<1>11. GoodBodies(bs) /\ SameDrivers(bs)
  <2> HIDE DEF body
  <2>1. body.driver = bodies[current].driver /\ Tidy(protocol(bodies[current]), body.parser)
    BY <1>8, <1>9
  <2> QED BY <1>1, <1>9, <2>1, PutBody, PutTidy
<1> HIDE DEF bs
<1> QED BY <1>1, <1>4, <1>8, <1>10, <1>11, RetriedLabels, NilError

LEMMA RecvEndLabels ==
  ASSUME IInv, Labels, RecvEnd
  PROVE  Labels'
<1> DEFINE err == IF bodies[current].parser.finished THEN <<"eof">> ELSE <<"plain">>
<1>1. pc = "recv" /\ retried(bodies, NoEvent, err)
  BY DEF RecvEnd
<1>2. err \in Errors
  BY ErrorsNamed
<1>3. NoEvent \in EventsOf({current}) /\ Labelled(protocol(bodies[current]), NoEvent)
  BY NoEventSilent, SilentIsEvent, TextLabelled
<1> HIDE DEF err
<1> QED BY <1>1, <1>2, <1>3, OwnBodiesGood, OwnDrivers, RetriedLabels

LEMMA ReadFrameTidy ==
  ASSUME IInv, Labels, current # 0, NEW f, NEW p, Tidy(protocol(bodies[current]), p)
  PROVE  SameDrivers(readFrame(f, p))
<1> DEFINE old == bodies[current]
           body == [old EXCEPT !.frames = Append(@, f), !.parser = p]
<1>1. /\ old \in BodiesOf({current}) /\ current \in DOMAIN bodies
  BY CurrentBody
<1>2. body.driver = old.driver /\ body.parser = p
  BY <1>1 DEF BodiesOf
<1>3. [bodies EXCEPT ![current].frames = Append(@, f), ![current].parser = p] = [bodies EXCEPT ![current] = body]
  BY <1>1 DEF BodiesOf
<1> HIDE DEF body
<1>4. SameDrivers([bodies EXCEPT ![current] = body])
  BY <1>2, PutTidy
<1> QED BY <1>3, <1>4, OwnDrivers DEF readFrame

LEMMA RecvFrameLabels ==
  ASSUME IInv, Labels, RecvFrame
  PROVE  Labels'
<1>1. pc = "recv" /\ current # 0
  BY ReadingHasBody DEF RecvFrame
<1>2. PICK f \in Frames(bodies[current]) :
        consumed(f, consume(protocol(bodies[current]), bodies[current].parser, f, pieceOf(current, f)))
  BY DEF RecvFrame
<1> DEFINE p == protocol(bodies[current])
           piece == pieceOf(current, f)
           out == consume(p, bodies[current].parser, f, piece)
           pending == out.parser.pending
           parser == [out.parser EXCEPT !.pending = IF pending = <<>> THEN <<>> ELSE Tail(pending)]
           event == IF pending = <<>> THEN NoEvent ELSE Head(pending)
<1>3. f \in AllFrames
  BY FrameInAll
<1>4. /\ current \in DOMAIN bodies /\ bodies[current].parser \in ParsersOf({current}) /\ p \in Protocols
      /\ piece \in PiecesOf({current})
  BY <1>1, CurrentBody, PieceTyped
<1>5. out \in Parsed({current})
  BY <1>4, ConsumeTyped
<1>6. Tidy(p, out.parser)
  <2>1. Carried(p, f, piece)
    BY <1>4, PieceCarried
  <2>2. Tidy(p, bodies[current].parser)
    BY <1>4 DEF Labels, TidyBodies
  <2> HIDE DEF p, piece
  <2> QED BY <1>4, <2>1, <2>2, ConsumeTidy
<1> HIDE DEF out
<1>7. out.parser \in ParsersOf({current}) /\ out.err \in Errors
  BY <1>5 DEF Parsed
<1>8. pending \in Seq(EventsOf({current}))
  BY <1>7, ParserFields
<1>9. CASE out.err = <<>> /\ pending = <<>>
  <2>1. bodies' = readFrame(f, out.parser) /\ UNCHANGED <<config, ctx, pc, current, chain, retry, turn>>
    BY <1>2, <1>9 DEF consumed, out
  <2>2. SameDrivers(readFrame(f, out.parser))
    BY <1>1, <1>6, ReadFrameTidy
  <2>3. \A i \in DOMAIN turn.events : Labelled(protocol(bodies[current]), turn.events[i])
    BY <1>1 DEF Labels, LabelledTurn
  <2> QED BY <1>1, <2>1, <2>2, <2>3, GoesOnLabels
<1>10. CASE ~(out.err = <<>> /\ pending = <<>>)
  <2>1. retried(readFrame(f, parser), event, out.err)
    BY <1>2, <1>10 DEF consumed, out
  <2>2. /\ parser \in ParsersOf({current}) /\ Tidy(p, parser)
        /\ event \in EventsOf({current}) /\ Labelled(p, event)
    <3>1. CASE pending = <<>>
      <4>1. parser = out.parser /\ event = NoEvent
        BY <1>7, <3>1 DEF ParsersOf
      <4> QED BY <1>6, <1>7, <4>1, NoEventSilent, SilentIsEvent, TextLabelled
    <3>2. CASE pending # <<>>
      <4> DEFINE q == out.parser
                 rest == Tail(q.pending)
                 cut == [q EXCEPT !.pending = rest]
      <4>1. parser = cut /\ event = Head(q.pending)
        BY <3>2
      <4>2. Head(q.pending) \in EventsOf({current}) /\ rest \in Seq(EventsOf({current}))
        BY <1>8, <3>2
      <4>3. cut \in ParsersOf({current})
        <5> HIDE DEF rest
        <5> QED BY <1>7, <4>2, ParserUpdates
      <4>4. Labelled(p, Head(q.pending)) /\ Tidy(p, cut)
        BY <1>6, <1>7, <3>2, TailTidy
      <4> HIDE DEF cut, q
      <4> QED BY <4>1, <4>2, <4>3, <4>4
    <3> QED BY <3>1, <3>2
  <2> HIDE DEF parser, event
  <2>3. GoodBodies(readFrame(f, parser)) /\ SameDrivers(readFrame(f, parser))
    BY <1>1, <1>3, <2>2, ReadFrameGood, ReadFrameTidy
  <2> QED BY <1>1, <1>7, <2>1, <2>2, <2>3, RetriedLabels
<1> QED BY <1>9, <1>10

\* A step that only moves the goroutine, or the context.
LEMMA SameLabels ==
  ASSUME IInv, Labels, UNCHANGED <<config, bodies, current, turn>>, pc' # "returned" \/ pc' = pc
  PROVE  Labels'
<1>1. TidyBodies(bodies)'
  BY DEF Labels, TidyBodies, protocol
<1>2. ASSUME current # 0 PROVE LabelledTurn(protocol(bodies[current]))'
  BY <1>2 DEF Labels, LabelledTurn, protocol
<1>3. returned' => returned
  BY DEF returned
<1>4. Accepted(turn) => Accepted(turn)'
  BY DEF Accepted
<1> QED BY <1>1, <1>2, <1>3, <1>4 DEF Labels

LEMMA CollectLabels ==
  ASSUME IInv, Labels, Collect
  PROVE  Labels'
<1>1. current # 0
  BY ReadingHasBody DEF Collect
<1>2. CASE ctx /\ ~turn.sawTerminal
  <2>1. leave(bodies, retry, failed(<<"canceled">>)) /\ <<"canceled">> # <<>>
    BY <1>2 DEF Collect
  <2> QED BY <1>1, <2>1, FailedAccepted, LeaveLabels, OwnBodiesGood, OwnDrivers
<1>3. CASE ~(ctx /\ ~turn.sawTerminal)
  BY <1>3, SameLabels DEF Collect
<1> QED BY <1>2, <1>3

LEMMA DeliverLabels ==
  ASSUME IInv, Labels, Deliver
  PROVE  Labels'
<1>1. current # 0
  BY ReadingHasBody DEF Deliver
<1>2. ASSUME NEW fault, leave(bodies, retry, failed(<<fault>>)) PROVE Labels'
  <2>1. <<fault>> # <<>>
    OBVIOUS
  <2> QED BY <1>1, <1>2, <2>1, FailedAccepted, LeaveLabels, OwnBodiesGood, OwnDrivers
<1>3. CASE pc' = "collect" /\ UNCHANGED <<config, ctx, bodies, current, chain, retry, turn>>
  BY <1>3, SameLabels
<1> QED BY <1>2, <1>3 DEF Deliver

LEMMA GaveUpLabels ==
  ASSUME IInv, Labels, NEW bs, GoodBodies(bs), SameDrivers(bs), NEW err \in Errors, err # <<>>, gaveUp(bs, err)
  PROVE  Labels'
<1>1. CASE current = 0
  <2> DEFINE t == [turn EXCEPT !.err = err]
  <2>1. leave(bs, retry, t)
    BY <1>1 DEF gaveUp
  <2>2. t.events = turn.events /\ t.err = err
    BY TurnFields DEF Turns
  <2> HIDE DEF t
  <2>3. Accepted(t)
    BY <2>2 DEF Accepted
  <2> QED BY <2>1, <2>2, <2>3, LeaveLabels
<1>2. CASE current # 0
  <2> DEFINE failure == streamRetryFailure(retry.event, err)
  <2>1. received(bs, retry, failure.event, failure.err)
    BY <1>2 DEF gaveUp
  <2>2. failure.event \in SilentEvents
    BY TurnFields, FailureSilent
  <2> HIDE DEF failure
  <2>3. Labelled(protocol(bodies[current]), failure.event)
    BY <2>2, SilentLabelled
  <2> QED BY <1>2, <2>1, <2>3, ReceivedLabels
<1> QED BY <1>1, <1>2

\* What openStreamWithRetry makes of a failure is a failure.
LEMMA ReopeningFails ==
  ASSUME NEW err \in Errors, err # <<>>, NEW o \in Reopenings(err)
  PROVE  o.err \in Errors /\ o.err # <<>>
<1>1. "exhausted" \in Tags /\ "canceled" \in Tags /\ "veto" \in Tags
  BY DEF Tags
<1>2. /\ <<"exhausted">> \o err \in Errors /\ <<"canceled">> \in Errors /\ <<"veto">> \in Errors
      /\ <<"exhausted">> \o err # <<>> /\ <<"canceled">> # <<>> /\ <<"veto">> # <<>>
  BY <1>1, WrappedError, SingleError
<1>3. CASE ~config.retry \/ contextRetryStop(err)
  <2>1. o = [again |-> FALSE, err |-> err]
    BY <1>3 DEF Reopenings
  <2> QED BY <2>1
<1>4. CASE ~(~config.retry \/ contextRetryStop(err)) /\ retry.retries >= MaxRetries
  <2>1. o = [again |-> FALSE, err |-> <<"exhausted">> \o err]
    BY <1>4 DEF Reopenings
  <2> QED BY <1>2, <2>1
<1>5. CASE ~(~config.retry \/ contextRetryStop(err)) /\ ~(retry.retries >= MaxRetries)
  <2>1. PICK a \in Approvals(err) :
          o = CASE a \in {"canceled", "veto"} -> [again |-> FALSE, err |-> <<a>>]
                [] a = "no" -> [again |-> FALSE, err |-> err]
                [] OTHER -> [again |-> TRUE, err |-> err]
    BY <1>5 DEF Reopenings
  <2>2. CASE a \in {"canceled", "veto"}
    <3>1. o = [again |-> FALSE, err |-> <<a>>]
      BY <2>1, <2>2
    <3> QED BY <1>2, <2>2, <3>1
  <2>3. CASE a = "no"
    BY <2>1, <2>3
  <2>4. CASE a \notin {"canceled", "veto", "no"}
    BY <2>1, <2>4
  <2> QED BY <2>2, <2>3, <2>4
<1> QED BY <1>3, <1>4, <1>5

\* A chain that stops fails, with what its drivers said.
LEMMA JoinedFails ==
  ASSUME IInv
  PROVE  LET joined == <<"joined">> \o chain.errs \o IF chain.at > Len(config.drivers) THEN <<>> ELSE <<"canceled">>
         IN  joined \in Errors /\ joined # <<>>
<1> DEFINE tail == IF chain.at > Len(config.drivers) THEN <<>> ELSE <<"canceled">>
           front == <<"joined">> \o chain.errs
<1>1. chain.errs \in Errors
  BY DEF IInv, Types, Chains
<1>2. tail \in Errors
  BY ErrorsNamed
<1>3. "joined" \in Tags
  BY DEF Tags
<1> HIDE DEF tail
<1>4. front \in Errors /\ front # <<>>
  BY <1>1, <1>3, WrappedError
<1> HIDE DEF front
<1>5. front \o tail \in Errors /\ front \o tail # <<>>
  BY <1>2, <1>4, JoinedErrors DEF Errors
<1> QED BY <1>5 DEF front, tail

LEMMA ResponseFails ==
  ASSUME IInv, NEW answer \in Answers, answer # "stream"
  PROVE  responseError(answer) \in Errors /\ responseError(answer) # <<>>
<1>1. answer \in HTTPAnswers \cup {"canceled"}
  BY ConfigAssumption DEF Answers, IInv, Types
<1>2. responseError(answer) = <<"plain">> \/ (answer \in Tags /\ responseError(answer) = <<answer>>)
  BY <1>1 DEF responseError, HTTPAnswers, Tags
<1> QED BY <1>2, SingleError, ErrorsNamed

LEMMA AnsweredGood ==
  ASSUME IInv, pc = "request", NEW answer, answer # "stream"
  PROVE  GoodBodies(answered(answer))
<1> DEFINE bs == answered(answer)
<1>1. /\ bs \in Seq(BodiesOf(Nat)) /\ \A b \in DOMAIN bs : bs[b] \in BodiesOf({b})
      /\ Len(bodies) <= Len(bs)
      /\ \A b \in DOMAIN bs : bs[b].open => answer = "stream" /\ b = Len(bodies) + 1
  BY AnsweredBodies
<1> HIDE DEF bs
<1>2. current <= Len(bodies) /\ Len(bodies) \in Nat /\ current \in Nat
  BY TurnFields DEF IInv, Bodied
<1>3. Len(bs) \in Nat
  BY <1>1
<1>4. current <= Len(bs)
  BY <1>1, <1>2, <1>3
<1>5. GoodBodies(bs)
  BY <1>1, <1>4 DEF GoodBodies
<1> QED BY <1>5 DEF bs

LEMMA OpenFailedLabels ==
  ASSUME IInv, Labels, NEW bs, GoodBodies(bs), SameDrivers(bs), NEW err \in Errors, err # <<>>, openFailed(bs, err)
  PROVE  Labels'
<1>1. PICK o \in Reopenings(err) :
        IF o.again THEN await(bs, retry, "open", retry.event) ELSE gaveUp(bs, o.err)
  BY DEF openFailed
<1>2. o.err \in Errors /\ o.err # <<>>
  BY ReopeningFails
<1>3. CASE o.again
  BY <1>1, <1>3, AwaitLabels
<1>4. CASE ~o.again
  BY <1>1, <1>2, <1>4, GaveUpLabels
<1> QED BY <1>3, <1>4

LEMMA DriverFailedLabels ==
  ASSUME IInv, Labels, NEW bs, GoodBodies(bs), SameDrivers(bs), NEW err \in Errors, err # <<>>, driverFailed(bs, err)
  PROVE  Labels'
<1>1. CASE config.chain = "single"
  BY <1>1, OpenFailedLabels DEF driverFailed
<1>2. CASE config.chain # "single"
  <2>1. pc' # "returned" /\ bodies' = bs /\ turn' = turn /\ config' = config /\ current' = current
    BY <1>2 DEF driverFailed
  <2>2. current # 0 => \A i \in DOMAIN turn.events : Labelled(protocol(bodies[current]), turn.events[i])
    BY DEF Labels, LabelledTurn
  <2> QED BY <2>1, <2>2, GoesOnLabels
<1> QED BY <1>1, <1>2

LEMMA DriverLabels ==
  ASSUME IInv, Labels, Driver
  PROVE  Labels'
<1> DEFINE joined == <<"joined">> \o chain.errs \o IF chain.at > Len(config.drivers) THEN <<>> ELSE <<"canceled">>
<1>1. joined \in Errors /\ joined # <<>>
  BY JoinedFails
<1>2. CASE openFailed(bodies, joined)
  <2> HIDE DEF joined
  <2> QED BY <1>1, <1>2, OpenFailedLabels, OwnBodiesGood, OwnDrivers
<1>3. CASE pc' = "request" /\ UNCHANGED <<config, ctx, bodies, current, chain, retry, turn>>
  BY <1>3, SameLabels
<1>4. CASE driverFailed(bodies, <<"plain">>)
  <2>1. <<"plain">> # <<>>
    OBVIOUS
  <2> QED BY <1>4, <2>1, DriverFailedLabels, OwnBodiesGood, OwnDrivers, ErrorsNamed
<1> QED BY <1>2, <1>3, <1>4 DEF Driver

LEMMA RetryTimerLabels ==
  ASSUME IInv, Labels, RetryTimer
  PROVE  Labels'
<1> DEFINE bs == IF retry.wait = "recv" THEN closeBody(bodies, current) ELSE bodies
<1>1. pc' # "returned" /\ bodies' = bs /\ config' = config /\ current' = current /\ turn' = turn
  BY DEF RetryTimer
<1>2. SameDrivers(bs)
  BY OwnBodiesGood, OwnDrivers, ClosedDrivers, TurnFields
<1> HIDE DEF bs
<1>3. current # 0 => \A i \in DOMAIN turn.events : Labelled(protocol(bodies[current]), turn.events[i])
  BY DEF Labels, LabelledTurn
<1> QED BY <1>1, <1>2, <1>3, GoesOnLabels

LEMMA RetryCanceledLabels ==
  ASSUME IInv, Labels, RetryCanceled
  PROVE  Labels'
<1>1. <<"canceled">> # <<>>
  OBVIOUS
<1>2. CASE retry.wait = "recv"
  <2>1. received(bodies, retry, NoEvent, <<"canceled">>)
    BY <1>2 DEF RetryCanceled
  <2>2. current # 0
    BY <1>2 DEF IInv, Silent, RetryCanceled
  <2> QED BY <1>1, <2>1, <2>2, ReceivedLabels, OwnBodiesGood, OwnDrivers
<1>3. CASE retry.wait # "recv"
  <2>1. gaveUp(bodies, <<"canceled">>)
    BY <1>3 DEF RetryCanceled
  <2> QED BY <1>1, <2>1, GaveUpLabels, OwnBodiesGood, OwnDrivers, ErrorsNamed
<1> QED BY <1>2, <1>3

LEMMA AnsweredTidy ==
  ASSUME IInv, Labels, NEW answer
  PROVE  SameDrivers(answered(answer))
<1> DEFINE body == NewBody(chain.at, answer = "stream")
           bs == answered(answer)
<1>1. SameDrivers(bodies) /\ bodies \in Seq(BodiesOf(Nat))
  BY OwnDrivers DEF IInv, Bodied
<1>2. body.parser = NewParser
  BY DEF NewBody
<1>3. CASE isResponse(answer)
  <2>1. bs = Append(bodies, body)
    BY <1>3 DEF answered
  <2>2. Tidy(protocol(body), body.parser)
    BY <1>2, NewParserTidy
  <2> HIDE DEF body, bs
  <2>3. /\ \A b \in DOMAIN bs : (b \in DOMAIN bodies /\ bs[b] = bodies[b]) \/ bs[b] = body
        /\ \A b \in DOMAIN bodies : b \in DOMAIN bs /\ bs[b] = bodies[b]
    BY <1>1, <2>1
  <2>4. TidyBodies(bs)
    BY <1>1, <2>2, <2>3 DEF TidyBodies, SameDrivers
  <2>5. SameDrivers(bs)
    BY <1>1, <2>3, <2>4 DEF SameDrivers
  <2> QED BY <2>5 DEF bs
<1>4. CASE ~isResponse(answer)
  BY <1>1, <1>4 DEF answered
<1> QED BY <1>3, <1>4

LEMMA RequestLabels ==
  ASSUME IInv, Labels, Request
  PROVE  Labels'
<1>1. pc = "request" /\ pc \in Opening
  BY DEF Request, Opening
<1>2. PICK answer \in Answers :
        CASE answer = "stream" ->
               /\ bodies' = answered(answer)
               /\ current' = Len(bodies) + 1
               /\ pc' = IF current = 0 THEN "collect" ELSE "recv"
               /\ chain' = NewChain
               /\ UNCHANGED <<config, ctx, retry, turn>>
          [] requestRetryable(answer) /\ chain.attempt < Attempts ->
               /\ bodies' = answered(answer)
               /\ pc' = "backoff"
               /\ UNCHANGED <<config, ctx, current, chain, retry, turn>>
          [] OTHER -> driverFailed(answered(answer), responseError(answer))
  BY DEF Request
<1> DEFINE bs == answered(answer)
<1>3. SameDrivers(bs)
  BY AnsweredTidy
<1>4. turn.events \in Seq(SilentEvents)
  BY <1>1, QuietOpening
<1>5. ASSUME NEW p, NEW i \in DOMAIN turn.events PROVE Labelled(p, turn.events[i])
  <2>1. turn.events[i] \in SilentEvents
    BY <1>4
  <2> QED BY <2>1, SilentLabelled
<1>6. /\ bs \in Seq(BodiesOf(Nat)) /\ \A b \in DOMAIN bs : bs[b] \in BodiesOf({b})
      /\ Len(bodies) <= Len(bs)
      /\ \A b \in DOMAIN bs : bs[b].open => answer = "stream" /\ b = Len(bodies) + 1
  BY <1>1, AnsweredBodies
<1> HIDE DEF bs
<1>7. CASE answer = "stream"
  <2>1. bodies' = bs /\ config' = config /\ turn' = turn /\ pc' # "returned"
    <3>1. ~(requestRetryable(answer) /\ chain.attempt < Attempts)
      BY <1>7 DEF requestRetryable, isResponse
    <3> QED BY <1>2, <1>7, <3>1 DEF bs
  <2>2. TidyBodies(bodies)'
    BY <1>3, <2>1 DEF SameDrivers, TidyBodies, protocol
  <2>3. LabelledTurn(protocol(bodies[current]))'
    BY <1>5, <2>1 DEF LabelledTurn
  <2>4. ~returned'
    BY <2>1 DEF returned
  <2> QED BY <2>2, <2>3, <2>4 DEF Labels
<1>8. CASE answer # "stream" /\ requestRetryable(answer) /\ chain.attempt < Attempts
  <2>1. bodies' = bs /\ pc' # "returned" /\ UNCHANGED <<config, ctx, current, chain, retry, turn>>
    BY <1>2, <1>8 DEF bs
  <2> QED BY <1>3, <1>5, <2>1, GoesOnLabels
<1>9. CASE answer # "stream" /\ ~(requestRetryable(answer) /\ chain.attempt < Attempts)
  <2>1. driverFailed(bs, responseError(answer))
    BY <1>2, <1>9 DEF bs
  <2>2. responseError(answer) \in Errors /\ responseError(answer) # <<>>
    BY <1>9, ResponseFails
  <2>3. GoodBodies(bs)
    BY <1>1, <1>9, AnsweredGood DEF bs
  <2> QED BY <1>3, <2>1, <2>2, <2>3, DriverFailedLabels
<1> QED BY <1>7, <1>8, <1>9

LEMMA BackoffLabels ==
  ASSUME IInv, Labels, Backoff
  PROVE  Labels'
<1>1. CASE driverFailed(bodies, <<"canceled">>)
  <2>1. <<"canceled">> # <<>>
    OBVIOUS
  <2> QED BY <1>1, <2>1, DriverFailedLabels, OwnBodiesGood, OwnDrivers, ErrorsNamed
<1>2. CASE pc' = "request" /\ UNCHANGED <<config, ctx, bodies, current, retry, turn>>
  BY <1>2, SameLabels
<1> QED BY <1>1, <1>2 DEF Backoff

LEMMA NextLabels ==
  ASSUME IInv, Labels, [Next]_vars
  PROVE  Labels'
<1>1. CASE Step
  BY <1>1, DriverLabels, RequestLabels, BackoffLabels, RetryTimerLabels, RetryCanceledLabels, CollectLabels,
     RecvPendingLabels, RecvEndLabels, RecvFrameLabels, DeliverLabels DEF Step
<1>2. CASE Cancel
  BY <1>2, SameLabels DEF Cancel
<1>3. CASE Returned \/ UNCHANGED vars
  BY <1>3, SameLabels DEF Returned, vars
<1> QED BY <1>1, <1>2, <1>3 DEF Next

LEMMA InitLabels == Init => Labels
BY DEF Init, Labels, TidyBodies, returned

LEMMA EventsGrow ==
  ASSUME NEW b \in Nat
  PROVE  EventsOf({b}) \subseteq EventsOf(Nat)
<1>1. PiecesOf({b}) \subseteq PiecesOf(Nat)
  BY DEF PiecesOf
<1>2. ASSUME NEW e \in EventsOf({b}) PROVE e \in EventsOf(Nat)
  <2>1. e \in Events({b}) /\ (e.kind \in {"", "done", "error"} => e.pieces = <<>>)
    BY DEF EventsOf
  <2>2. e.pieces \in Seq(PiecesOf(Nat))
    BY <1>1, <2>1, SeqGrows DEF Events
  <2>3. e \in Events(Nat)
    BY <2>1, <2>2 DEF Events
  <2> QED BY <2>1, <2>3 DEF EventsOf
<1> QED BY <1>2

LEMMA FewLabels ==
  ASSUME NEW S, NEW c, S \subseteq {0, c}
  PROVE  Cardinality(S \ {0}) <= 1
<1>1. S \ {0} = {} \/ S \ {0} = {c}
  OBVIOUS
<1>2. Cardinality(S \ {0}) = 0 \/ Cardinality(S \ {0}) = 1
  BY <1>1, FS_EmptySet, FS_Singleton
<1> QED BY <1>2

\* Even from a stream that breaks the protocol, a turn that collect accepts ends with its only terminal
\* event, and no tool call of it holds a fragment labelled with the id of another, or with two indexes:
\* whatever applyToolEvent could not tell apart, finalizeToolCalls rejects.
THEOREM NeverMixedHolds == Spec => []NeverMixed
<1>1. ASSUME IInv, Labels PROVE NeverMixed
  <2> SUFFICES ASSUME returned, turn.err = <<>>
      PROVE  /\ {i \in DOMAIN turn.events : isTerminal(turn.events[i])} = {Len(turn.events)}
             /\ \A k \in DOMAIN turn.assistant.calls :
                  LET call == turn.assistant.calls[k]
                      labels == {call.args[j] : j \in DOMAIN call.args}
                  IN /\ \A p \in labels : p.id \in {0, call.id}
                     /\ Cardinality({p.index : p \in labels} \ {0}) <= 1
    BY DEF NeverMixed
  <2> DEFINE p == protocol(bodies[current])
             events == turn.events
             calls == turn.assistant.calls
  <2>1. current # 0 /\ EndedTurn(events).err = <<>> /\ turn.assistant = EndedTurn(events).turn
    BY <1>1 DEF Labels, Accepted
  <2>2. p \in Protocols /\ \A i \in DOMAIN events : Labelled(p, events[i])
    BY <1>1, <2>1, CurrentBody DEF Labels, LabelledTurn
  <2>3. events \in Seq(EventsOf(Nat))
    <3>1. current \in Nat /\ events \in Seq(EventsOf({current}))
      BY <1>1, TurnFields
    <3>2. EventsOf({current}) \subseteq EventsOf(Nat)
      BY <3>1, EventsGrow
    <3> QED BY <3>1, <3>2, SeqGrows
  <2> HIDE DEF p, events
  <2>4. /\ {i \in DOMAIN events : isTerminal(events[i])} = {Len(events)}
        /\ \A k \in DOMAIN EndedTurn(events).turn.calls :
             \E c : \A j \in DOMAIN EndedTurn(events).turn.calls[k].args :
               /\ EndedTurn(events).turn.calls[k].args[j].id \in {0, EndedTurn(events).turn.calls[k].id}
               /\ EndedTurn(events).turn.calls[k].args[j].index \in {0, c}
    BY <2>1, <2>2, <2>3, AcceptedApart, Zenon DEF EndedTurn
  <2>5. ASSUME NEW k \in DOMAIN calls
        PROVE  LET call == calls[k]
                   labels == {call.args[j] : j \in DOMAIN call.args}
               IN /\ \A q \in labels : q.id \in {0, call.id}
                  /\ Cardinality({q.index : q \in labels} \ {0}) <= 1
    <3> DEFINE call == calls[k]
               labels == {call.args[j] : j \in DOMAIN call.args}
               indexes == {q.index : q \in labels}
    <3>1. PICK c : \A j \in DOMAIN call.args : call.args[j].id \in {0, call.id} /\ call.args[j].index \in {0, c}
      BY <2>1, <2>4, <2>5
    <3> HIDE DEF call
    <3>2. (\A q \in labels : q.id \in {0, call.id}) /\ indexes \subseteq {0, c}
      BY <3>1
    <3>3. Cardinality(indexes \ {0}) <= 1
      <4> HIDE DEF indexes
      <4> QED BY <3>2, FewLabels
    <3> QED BY <3>2, <3>3 DEF call
  <2> QED BY <2>4, <2>5 DEF events
<1>2. IInv /\ Labels /\ [Next]_vars => Labels'
  BY NextLabels
<1>3. IInv /\ [Next]_vars => IInv'
  BY NextStep
<1> QED BY <1>1, <1>2, <1>3, InitInv, InitLabels, PTL DEF Spec

-----------------------------------------------------------------------------
(* The wire: what was recorded and is pending is what the frames said.     *)

\* The builders of a vendor's stream: one for each tool call that was sent, found by its id and, but for
\* the messages protocol, by its index, with the arguments that were sent so far.
Filed(p, sent, acc) ==
  /\ acc \in Accs
  /\ \A k \in DOMAIN acc.builders : acc.builders[k].id \in Items /\ acc.ids[acc.builders[k].id] = k
  /\ \A x \in Items :
       LET k == acc.ids[x]
       IN /\ acc.indexes[x] = IF p = "messages" THEN 0 ELSE k
          /\ IF x \in callsSent(p, sent)
             THEN /\ k \in DOMAIN acc.builders
                  /\ acc.builders[k].id = x
                  /\ acc.builders[k].index = IF p = "messages" THEN 0 ELSE x
                  /\ inOrder(acc.builders[k].args, argumentsSent(sent, x))
             ELSE k = 0

\* What the servers sent so far, and what the parser remembers of it.
Remembered(p, sent, parser) ==
  /\ \A i \in DOMAIN sent : sent[i].kind \in {"args", "itemDone"} => sends(sent, "call", sent[i].item)
  /\ p # "responses" =>
       \A i \in DOMAIN sent : sent[i].kind # "itemDone" /\ (sent[i].kind = "finish" => sent[i].stop = parser.stop)
  /\ p # "chat" => parser.buffer = <<>>
  /\ p # "chat" => \A x \in Items : sends(sent, "call", x) => parser.items[x].id = x
  /\ p = "responses" => \A x \in Items : parser.items[x].deltas <=> sends(sent, "args", x)

\* The terminal event is the last, and says what the server did.
EndSaid(sent, parser, events) ==
  \A i \in DOMAIN events :
    events[i].kind = "done" =>
      /\ i = Len(events) /\ parser.finished /\ parser.buffer = <<>>
      /\ Last(sent).kind = "end" /\ Last(sent).stop = events[i].stop

\* The kind of what the server sends as frame i, unless that has tags in it.
modeAt(sent, i) == IF insideAt(sent, i) THEN "thinking" ELSE "text"

\* What a parser holds back of a kind.
heldBack(parser, kind) == IF kind = mode(parser) THEN parser.buffer ELSE <<>>

\* Text in order and reasoning in order, with what is held back of each; the parser knows which of them
\* comes next.
Said(p, sent, parser, events) ==
  /\ mode(parser) = modeAt(sent, Len(sent) + 1)
  /\ p # "chat" => \A i \in DOMAIN sent : sent[i].kind # "tag"
  /\ \A kind \in ContentKinds : inOrder(contentPieces(events, kind) \o heldBack(parser, kind), sentOf(sent, kind))

\* events: what was recorded and what is pending.
Wired(p, sent, parser, events) ==
  /\ Remembered(p, sent, parser)
  /\ EndSaid(sent, parser, events)
  /\ Said(p, sent, parser, events)
  /\ Filed(p, sent, toolCallBuilders(events))

\* A stream is being read, or was read to the end.
Reading == pc \in {"collect", "recv", "deliver"} \/ (returned /\ turn.err = <<>>)

WireOf(body, events) ==
  protocol(body) # "host" /\ ~occurs(events, "error") =>
    Wired(protocol(body), body.frames, body.parser, events \o body.parser.pending)

Wire ==
  /\ Reading => current # 0 /\ WireOf(bodies[current], turn.events)
  /\ config.retry /\ pc # "returned" /\ occurs(turn.events, "done") => retry.terminal

\* contentPieces is the last of the contents after each event.
ContentAfter(events, kind, m, f) ==
  /\ DOMAIN f = 0..m
  /\ f[0] = <<>>
  /\ \A n \in 1..m : f[n] = appendContent(f[n - 1], events[n], kind)

LEMMA ContentExists ==
  ASSUME NEW S, NEW events \in Seq(S), NEW kind
  PROVE  \E f : ContentAfter(events, kind, Len(events), f) /\ contentPieces(events, kind) = f[Len(events)]
<1> DEFINE N == Len(events)
<1>1. N \in Nat
  OBVIOUS
<1> DEFINE G == {m \in 0..N : \E f : ContentAfter(events, kind, m, f)}
<1>2. 0 \in G
  <2> DEFINE f == [n \in 0..0 |-> <<>>]
  <2>1. DOMAIN f = 0..0 /\ f[0] = <<>> /\ 1..0 = {}
    OBVIOUS
  <2>2. ContentAfter(events, kind, 0, f)
    BY <2>1 DEF ContentAfter
  <2> QED BY <1>1, <2>2
<1>3. ASSUME NEW m \in 0..N, m < N, m \in G PROVE m + 1 \in G
  <2>1. PICK f : ContentAfter(events, kind, m, f)
    BY <1>3
  <2> DEFINE g == [n \in 0..(m + 1) |-> IF n = m + 1 THEN appendContent(f[m], events[m + 1], kind) ELSE f[n]]
  <2>2. m \in Nat /\ m + 1 \in 0..N /\ m + 1 # 0
    BY <1>1, <1>3
  <2>3. DOMAIN g = 0..(m + 1) /\ g[0] = <<>>
    BY <2>1, <2>2 DEF ContentAfter
  <2>4. ASSUME NEW n \in 1..(m + 1) PROVE g[n] = appendContent(g[n - 1], events[n], kind)
    <3>1. CASE n = m + 1
      <4>1. g[n] = appendContent(f[m], events[n], kind)
        BY <2>2, <3>1
      <4>2. n - 1 = m /\ m \in 0..(m + 1) /\ m # m + 1
        BY <2>2, <3>1
      <4>3. g[m] = f[m]
        BY <4>2
      <4> QED BY <4>1, <4>2, <4>3
    <3>2. CASE n # m + 1
      <4>1. n \in 1..m /\ n \in 0..(m + 1) /\ n - 1 \in 0..(m + 1) /\ n - 1 # m + 1
        BY <2>2, <3>2
      <4>2. f[n] = appendContent(f[n - 1], events[n], kind)
        BY <2>1, <4>1 DEF ContentAfter
      <4>3. g[n] = f[n] /\ g[n - 1] = f[n - 1]
        BY <3>2, <4>1
      <4> QED BY <4>2, <4>3
    <3> QED BY <3>1, <3>2
  <2> HIDE DEF g
  <2>5. ContentAfter(events, kind, m + 1, g)
    BY <2>3, <2>4 DEF ContentAfter
  <2> QED BY <2>2, <2>5
<1> HIDE DEF G
<1>4. N \in G
  <2>1. \A k \in 0..N : k \in G
    BY <1>1, <1>2, <1>3, UpTo
  <2> QED BY <1>1, <2>1
<1>5. PICK f : ContentAfter(events, kind, N, f)
  BY <1>4 DEF G
<1> DEFINE step(g) == [n \in 0..Len(events) |-> IF n = 0 THEN <<>> ELSE appendContent(g[n - 1], events[n], kind)]
           after == CHOOSE g : g = step(g)
<1>6. contentPieces(events, kind) = after[Len(events)]
  BY Zenon DEF contentPieces
<1>7. f = step(f)
  <2>1. ASSUME NEW n \in 0..N PROVE f[n] = IF n = 0 THEN <<>> ELSE appendContent(f[n - 1], events[n], kind)
    BY <1>1, <1>5, <2>1 DEF ContentAfter
  <2>2. f = [n \in 0..N |-> f[n]]
    BY <1>5 DEF ContentAfter
  <2> QED BY <2>1, <2>2, Zenon
<1>8. after = step(after)
  BY <1>7, Zenon
<1> HIDE DEF after
<1>9. DOMAIN after = 0..N
  BY <1>8, Zenon
<1>10. ASSUME NEW n \in 0..N PROVE after[n] = IF n = 0 THEN <<>> ELSE appendContent(after[n - 1], events[n], kind)
  BY <1>8, Zenon
<1>11. after[0] = <<>>
  BY <1>1, <1>10
<1>12. ASSUME NEW n \in 1..N PROVE after[n] = appendContent(after[n - 1], events[n], kind)
  <2>1. n \in 0..N /\ n # 0
    BY <1>1
  <2> QED BY <1>10, <2>1
<1>13. ContentAfter(events, kind, N, after)
  BY <1>9, <1>11, <1>12, Zenon DEF ContentAfter
<1> QED BY <1>6, <1>13


LEMMA ContentAppend ==
  ASSUME NEW S, NEW events \in Seq(S), NEW e \in S, NEW kind
  PROVE  contentPieces(Append(events, e), kind) = appendContent(contentPieces(events, kind), e, kind)
<1> DEFINE n == Len(events)
           more == Append(events, e)
<1>1. /\ n \in Nat /\ more \in Seq(S) /\ Len(more) = n + 1 /\ more[n + 1] = e
      /\ \A i \in 1..n : more[i] = events[i]
  BY AppendFacts
<1>2. PICK f : ContentAfter(more, kind, Len(more), f) /\ contentPieces(more, kind) = f[Len(more)]
  BY <1>1, ContentExists
<1>3. PICK g : ContentAfter(events, kind, n, g) /\ contentPieces(events, kind) = g[n]
  BY ContentExists
<1> HIDE DEF more, n
<1>4. f[0] = <<>> /\ \A i \in 1..(n + 1) : f[i] = appendContent(f[i - 1], more[i], kind)
  BY <1>1, <1>2 DEF ContentAfter
<1>5. g[0] = <<>> /\ \A i \in 1..n : g[i] = appendContent(g[i - 1], events[i], kind)
  BY <1>3 DEF ContentAfter
<1> DEFINE G == {k \in 0..n : f[k] = g[k]}
<1>6. 0 \in G
  BY <1>1, <1>4, <1>5
<1>7. ASSUME NEW k \in 0..n, k < n, k \in G PROVE k + 1 \in G
  <2>1. k + 1 \in 1..n /\ k + 1 \in 1..(n + 1) /\ (k + 1) - 1 = k /\ k + 1 \in 0..n
    BY <1>1, <1>7
  <2>2. f[k + 1] = appendContent(f[k], events[k + 1], kind) /\ g[k + 1] = appendContent(g[k], events[k + 1], kind)
    BY <1>1, <1>4, <1>5, <2>1
  <2> QED BY <1>7, <2>1, <2>2
<1> HIDE DEF G
<1>8. n \in G
  <2>1. \A k \in 0..n : k \in G
    BY <1>1, <1>6, <1>7, UpTo
  <2> QED BY <1>1, <2>1
<1>9. f[n] = g[n]
  BY <1>8 DEF G
<1>10. n + 1 \in 1..(n + 1) /\ (n + 1) - 1 = n
  BY <1>1
<1>11. contentPieces(more, kind) = appendContent(contentPieces(events, kind), e, kind)
  BY <1>1, <1>2, <1>3, <1>4, <1>9, <1>10
<1> QED BY <1>11 DEF more

LEMMA BuildersAppend ==
  ASSUME NEW S, NEW events \in Seq(S), NEW e \in S
  PROVE  toolCallBuilders(Append(events, e)) = applyToolEvent(toolCallBuilders(events), e)
<1> DEFINE n == Len(events)
           more == Append(events, e)
<1>1. /\ n \in Nat /\ more \in Seq(S) /\ Len(more) = n + 1 /\ more[n + 1] = e
      /\ \A i \in 1..n : more[i] = events[i]
  BY AppendFacts
<1>2. PICK f : BuildersAfter(more, Len(more), f) /\ toolCallBuilders(more) = f[Len(more)]
  BY <1>1, BuildersExist
<1>3. PICK g : BuildersAfter(events, n, g) /\ toolCallBuilders(events) = g[n]
  BY BuildersExist
<1> HIDE DEF more, n
<1>4. f[0] = NoBuilders /\ \A i \in 1..(n + 1) : f[i] = applyToolEvent(f[i - 1], more[i])
  BY <1>1, <1>2 DEF BuildersAfter
<1>5. g[0] = NoBuilders /\ \A i \in 1..n : g[i] = applyToolEvent(g[i - 1], events[i])
  BY <1>3 DEF BuildersAfter
<1> DEFINE G == {k \in 0..n : f[k] = g[k]}
<1>6. 0 \in G
  BY <1>1, <1>4, <1>5
<1>7. ASSUME NEW k \in 0..n, k < n, k \in G PROVE k + 1 \in G
  <2>1. k + 1 \in 1..n /\ k + 1 \in 1..(n + 1) /\ (k + 1) - 1 = k /\ k + 1 \in 0..n
    BY <1>1, <1>7
  <2>2. f[k + 1] = applyToolEvent(f[k], events[k + 1]) /\ g[k + 1] = applyToolEvent(g[k], events[k + 1])
    BY <1>1, <1>4, <1>5, <2>1
  <2> QED BY <1>7, <2>1, <2>2
<1> HIDE DEF G
<1>8. n \in G
  <2>1. \A k \in 0..n : k \in G
    BY <1>1, <1>6, <1>7, UpTo
  <2> QED BY <1>1, <2>1
<1>9. f[n] = g[n]
  BY <1>8 DEF G
<1>10. n + 1 \in 1..(n + 1) /\ (n + 1) - 1 = n
  BY <1>1
<1>11. toolCallBuilders(more) = applyToolEvent(toolCallBuilders(events), e)
  BY <1>1, <1>2, <1>3, <1>4, <1>9, <1>10
<1> QED BY <1>11 DEF more

\* Events without a kind of content have none of it.
LEMMA NoTextNoContent ==
  ASSUME NEW S, NEW events \in Seq(S), NEW kind, \A i \in DOMAIN events : events[i].kind # kind
  PROVE  contentPieces(events, kind) = <<>>
<1>1. PICK f : ContentAfter(events, kind, Len(events), f) /\ contentPieces(events, kind) = f[Len(events)]
  BY ContentExists
<1>2. Len(events) \in Nat /\ DOMAIN events = 1..Len(events)
  OBVIOUS
<1> DEFINE G == {k \in 0..Len(events) : f[k] = <<>>}
<1>3. 0 \in G
  BY <1>1, <1>2 DEF ContentAfter
<1>4. ASSUME NEW k \in 0..Len(events), k < Len(events), k \in G PROVE k + 1 \in G
  <2>1. k + 1 \in 1..Len(events) /\ (k + 1) - 1 = k /\ k + 1 \in 0..Len(events)
    BY <1>2, <1>4
  <2>2. f[k + 1] = appendContent(f[k], events[k + 1], kind)
    BY <1>1, <2>1 DEF ContentAfter
  <2>3. events[k + 1].kind # kind
    BY <1>2, <2>1
  <2>4. appendContent(f[k], events[k + 1], kind) = f[k]
    BY <2>3 DEF appendContent
  <2> QED BY <1>4, <2>1, <2>2, <2>4
<1> HIDE DEF G
<1>5. \A k \in 0..Len(events) : k \in G
  BY <1>2, <1>3, <1>4, UpTo
<1>6. Len(events) \in G
  BY <1>2, <1>5
<1> QED BY <1>1, <1>6 DEF G

-----------------------------------------------------------------------------
(* What one more frame adds to what was sent.                              *)

sentAt(sent, kind, x) == {i \in DOMAIN sent : sent[i].kind = kind /\ sent[i].item = x}

LEMMA SentAt ==
  ASSUME NEW sent, NEW x
  PROVE  /\ \A kind : sends(sent, kind, x) <=> sentAt(sent, kind, x) # {}
         /\ argumentsSent(sent, x) = IF sentAt(sent, "args", x) # {} THEN sentAt(sent, "args", x)
                                     ELSE sentAt(sent, "itemDone", x)
BY DEF sends, argumentsSent, sentAt

LEMMA MoreSent ==
  ASSUME NEW S, NEW sent \in Seq(S), NEW f \in S
  PROVE  LET more == Append(sent, f)
             n == Len(sent) + 1
         IN  /\ \A kind : \A x : sentAt(more, kind, x) =
                  IF f.kind = kind /\ f.item = x THEN sentAt(sent, kind, x) \cup {n} ELSE sentAt(sent, kind, x)
<1> DEFINE more == Append(sent, f)
           n == Len(sent) + 1
<1>1. /\ Len(sent) \in Nat /\ DOMAIN sent = 1..Len(sent) /\ DOMAIN more = 1..n
      /\ \A i \in 1..Len(sent) : more[i] = sent[i]
      /\ more[n] = f
  BY AppendFacts
<1> HIDE DEF more
<1>2. n \notin DOMAIN sent /\ n \in DOMAIN more /\ DOMAIN more = DOMAIN sent \cup {n}
  BY <1>1
<1> HIDE DEF n
<1>3. ASSUME NEW kind, NEW x
      PROVE  sentAt(more, kind, x) =
               IF f.kind = kind /\ f.item = x THEN sentAt(sent, kind, x) \cup {n} ELSE sentAt(sent, kind, x)
  BY <1>1, <1>2 DEF sentAt
<1> QED BY <1>3 DEF more, n

\* The kind a frame is read as does not depend on the frames after it.
LEMMA ModeMore ==
  ASSUME NEW S, NEW sent \in Seq(S), NEW f \in S
  PROVE  LET more == Append(sent, f)
         IN  /\ \A i \in 1..(Len(sent) + 1) : modeAt(more, i) = modeAt(sent, i)
             /\ modeAt(more, Len(more) + 1) =
                  IF f.kind = "tag" THEN (IF f.inside THEN "thinking" ELSE "text") ELSE modeAt(sent, Len(sent) + 1)
<1> DEFINE more == Append(sent, f)
           n == Len(sent) + 1
<1>1. /\ Len(sent) \in Nat /\ n \in Nat /\ DOMAIN sent = 1..Len(sent) /\ DOMAIN more = 1..n /\ Len(more) = n
      /\ \A i \in 1..Len(sent) : more[i] = sent[i]
      /\ more[n] = f
  BY AppendFacts
<1> HIDE DEF more
<1>2. n = Len(sent) + 1 /\ \A i \in 1..n : i \in 1..Len(sent) \/ i = n
  BY <1>1
<1> HIDE DEF n
<1>3. ASSUME NEW i \in 1..n PROVE insideAt(more, i) <=> insideAt(sent, i)
  <2>1. ASSUME insideAt(more, i) PROVE insideAt(sent, i)
    <3>1. PICK j \in DOMAIN more : /\ j < i /\ more[j].kind = "tag" /\ more[j].inside
                                   /\ \A k \in DOMAIN more : j < k /\ k < i => more[k].kind # "tag"
      BY <2>1 DEF insideAt
    <3>2. j \in 1..Len(sent) /\ more[j] = sent[j]
      BY <1>1, <1>2, <3>1
    <3>3. \A k \in DOMAIN sent : k \in DOMAIN more /\ more[k] = sent[k]
      BY <1>1, <1>2
    <3> QED BY <1>1, <3>1, <3>2, <3>3 DEF insideAt
  <2>2. ASSUME insideAt(sent, i) PROVE insideAt(more, i)
    <3>1. PICK j \in DOMAIN sent : /\ j < i /\ sent[j].kind = "tag" /\ sent[j].inside
                                   /\ \A k \in DOMAIN sent : j < k /\ k < i => sent[k].kind # "tag"
      BY <2>2 DEF insideAt
    <3>2. j \in DOMAIN more /\ more[j] = sent[j]
      BY <1>1, <1>2, <3>1
    <3>3. ASSUME NEW k \in DOMAIN more, j < k, k < i PROVE more[k].kind # "tag"
      <4>1. k \in DOMAIN sent /\ more[k] = sent[k]
        BY <1>1, <1>2, <3>3
      <4> QED BY <3>1, <3>3, <4>1
    <3> QED BY <3>1, <3>2, <3>3 DEF insideAt
  <2> QED BY <2>1, <2>2
<1>4. \A i \in 1..n : modeAt(more, i) = modeAt(sent, i)
  BY <1>3 DEF modeAt
<1>5. CASE f.kind = "tag"
  <2>1. ASSUME f.inside PROVE insideAt(more, n + 1)
    <3>1. n \in DOMAIN more /\ n < n + 1
      BY <1>1, <1>2
    <3>2. ASSUME NEW k \in DOMAIN more PROVE ~(n < k)
      BY <1>1
    <3> QED BY <1>1, <1>5, <2>1, <3>1, <3>2 DEF insideAt
  <2>2. ASSUME insideAt(more, n + 1) PROVE f.inside
    <3>1. PICK j \in DOMAIN more : /\ j < n + 1 /\ more[j].kind = "tag" /\ more[j].inside
                                   /\ \A k \in DOMAIN more : j < k /\ k < n + 1 => more[k].kind # "tag"
      BY <2>2 DEF insideAt
    <3>2. CASE j = n
      BY <1>1, <3>1, <3>2
    <3>3. CASE j # n
      <4>1. n \in DOMAIN more /\ j < n /\ n < n + 1
        BY <1>1, <1>2, <3>1, <3>3
      <4> QED BY <1>1, <1>5, <3>1, <4>1
    <3> QED BY <3>2, <3>3
  <2> QED BY <1>1, <1>4, <1>5, <2>1, <2>2 DEF modeAt, more, n
<1>6. CASE f.kind # "tag"
  <2>1. ASSUME insideAt(more, n + 1) PROVE insideAt(more, n)
    <3>1. PICK j \in DOMAIN more : /\ j < n + 1 /\ more[j].kind = "tag" /\ more[j].inside
                                   /\ \A k \in DOMAIN more : j < k /\ k < n + 1 => more[k].kind # "tag"
      BY <2>1 DEF insideAt
    <3>2. j # n
      BY <1>1, <1>6, <3>1
    <3>3. j < n /\ \A k \in DOMAIN more : j < k /\ k < n => more[k].kind # "tag"
      BY <1>1, <3>1, <3>2
    <3> QED BY <3>1, <3>3 DEF insideAt
  <2>2. ASSUME insideAt(more, n) PROVE insideAt(more, n + 1)
    <3>1. PICK j \in DOMAIN more : /\ j < n /\ more[j].kind = "tag" /\ more[j].inside
                                   /\ \A k \in DOMAIN more : j < k /\ k < n => more[k].kind # "tag"
      BY <2>2 DEF insideAt
    <3>2. ASSUME NEW k \in DOMAIN more, j < k, k < n + 1 PROVE more[k].kind # "tag"
      <4>1. CASE k = n
        BY <1>1, <1>6, <4>1
      <4>2. CASE k # n
        <5>1. k < n
          BY <1>1, <3>2, <4>2
        <5> QED BY <3>1, <3>2, <5>1
      <4> QED BY <4>1, <4>2
    <3>3. j < n + 1
      BY <1>1, <3>1
    <3> QED BY <3>1, <3>2, <3>3 DEF insideAt
  <2>3. modeAt(more, n + 1) = modeAt(more, n) /\ n \in 1..n
    BY <1>1, <1>2, <2>1, <2>2 DEF modeAt
  <2>4. modeAt(more, Len(more) + 1) = modeAt(sent, Len(sent) + 1)
    BY <1>1, <1>2, <1>4, <2>3
  <2> QED BY <1>4, <1>6, <2>4 DEF more, n
<1> QED BY <1>5, <1>6

LEMMA NoTagsMode ==
  ASSUME NEW sent, \A i \in DOMAIN sent : sent[i].kind # "tag", NEW i
  PROVE  modeAt(sent, i) = "text"
BY DEF modeAt, insideAt

\* The frame says something of the kind.
says(sent, f, kind) ==
  \/ f.kind = "text" /\ kind = modeAt(sent, Len(sent) + 1)
  \/ f.kind = "tag" /\ (IF kind = "thinking" THEN f.thinking ELSE f.text)

LEMMA MoreSaid ==
  ASSUME NEW S, NEW sent \in Seq(S), NEW f \in S, NEW kind
  PROVE  sentOf(Append(sent, f), kind) =
           IF says(sent, f, kind) THEN sentOf(sent, kind) \cup {Len(sent) + 1} ELSE sentOf(sent, kind)
<1> DEFINE more == Append(sent, f)
           n == Len(sent) + 1
           saysAt(s, i) == \/ s[i].kind = "text" /\ kind = modeAt(s, i)
                           \/ s[i].kind = "tag" /\ (IF kind = "thinking" THEN s[i].thinking ELSE s[i].text)
<1>1. /\ Len(sent) \in Nat /\ DOMAIN sent = 1..Len(sent) /\ DOMAIN more = 1..n
      /\ \A i \in 1..Len(sent) : more[i] = sent[i]
      /\ more[n] = f
  BY AppendFacts
<1>2. \A i \in 1..n : modeAt(more, i) = modeAt(sent, i)
  BY ModeMore
<1>3. sentOf(more, kind) = {i \in DOMAIN more : saysAt(more, i)} /\ sentOf(sent, kind) = {i \in DOMAIN sent : saysAt(sent, i)}
  BY DEF sentOf, modeAt
<1>4. saysAt(more, n) <=> says(sent, f, kind)
  <2>1. n \in 1..n
    BY <1>1
  <2> HIDE DEF more
  <2> QED BY <1>1, <1>2, <2>1 DEF says
<1> HIDE DEF more
<1>5. n \notin DOMAIN sent /\ DOMAIN more = DOMAIN sent \cup {n} /\ \A i \in DOMAIN sent : i \in 1..n
  BY <1>1
<1>6. ASSUME NEW i \in DOMAIN sent PROVE saysAt(more, i) <=> saysAt(sent, i)
  BY <1>1, <1>2, <1>5
<1> HIDE DEF saysAt, n
<1>7. sentOf(more, kind) = IF says(sent, f, kind) THEN sentOf(sent, kind) \cup {n} ELSE sentOf(sent, kind)
  BY <1>3, <1>4, <1>5, <1>6
<1> QED BY <1>7 DEF more, n

LEMMA SentBefore ==
  ASSUME NEW S, NEW sent \in Seq(S)
  PROVE  /\ \A kind : \A x : sentAt(sent, kind, x) \subseteq 1..Len(sent)
         /\ \A x : argumentsSent(sent, x) \subseteq 1..Len(sent)
         /\ \A kind : sentOf(sent, kind) \subseteq 1..Len(sent)
<1>1. DOMAIN sent = 1..Len(sent)
  OBVIOUS
<1>2. \A kind : \A x : sentAt(sent, kind, x) \subseteq 1..Len(sent)
  BY <1>1 DEF sentAt
<1>3. \A kind : sentOf(sent, kind) \subseteq 1..Len(sent)
  BY <1>1 DEF sentOf
<1>4. ASSUME NEW x PROVE argumentsSent(sent, x) \subseteq 1..Len(sent)
  BY <1>2, SentAt
<1> QED BY <1>2, <1>3, <1>4

\* A frame of no call and without arguments.
LEMMA QuietFrame ==
  ASSUME NEW p, NEW S, NEW sent \in Seq(S), NEW f \in S, f.kind \notin {"call", "args", "itemDone"}
  PROVE  LET more == Append(sent, f)
         IN  /\ callsSent(p, more) = callsSent(p, sent)
             /\ \A x : argumentsSent(more, x) = argumentsSent(sent, x)
             /\ \A x : \A kind \in {"call", "args", "itemDone"} : sends(more, kind, x) <=> sends(sent, kind, x)
<1> DEFINE more == Append(sent, f)
<1>1. \A kind \in {"call", "args", "itemDone"} : \A x : sentAt(more, kind, x) = sentAt(sent, kind, x)
  BY MoreSent
<1> HIDE DEF more
<1>2. ASSUME NEW x
      PROVE  /\ argumentsSent(more, x) = argumentsSent(sent, x)
             /\ \A kind \in {"call", "args", "itemDone"} : sends(more, kind, x) <=> sends(sent, kind, x)
  BY <1>1, SentAt
<1>3. callsSent(p, more) = callsSent(p, sent)
  BY <1>2 DEF callsSent
<1> QED BY <1>2, <1>3 DEF more

\* A call, with no arguments so far.
LEMMA CallFrame ==
  ASSUME NEW p, NEW S, NEW sent \in Seq(S), NEW f \in S, f.kind = "call", f.item \in Items,
         ~sends(sent, "args", f.item), ~sends(sent, "itemDone", f.item)
  PROVE  LET more == Append(sent, f)
         IN  /\ callsSent(p, more) = IF p = "responses" THEN callsSent(p, sent) ELSE callsSent(p, sent) \cup {f.item}
             /\ \A x : argumentsSent(more, x) = argumentsSent(sent, x)
             /\ argumentsSent(sent, f.item) = {}
             /\ \A x : sends(more, "call", x) <=> sends(sent, "call", x) \/ x = f.item
             /\ \A x : \A kind \in {"args", "itemDone"} : sends(more, kind, x) <=> sends(sent, kind, x)
<1> DEFINE more == Append(sent, f)
           n == Len(sent) + 1
<1>1. \A x : /\ sentAt(more, "args", x) = sentAt(sent, "args", x)
             /\ sentAt(more, "itemDone", x) = sentAt(sent, "itemDone", x)
             /\ sentAt(more, "call", x) = IF f.item = x THEN sentAt(sent, "call", x) \cup {n} ELSE sentAt(sent, "call", x)
  BY MoreSent
<1> HIDE DEF more, n
<1>2. ASSUME NEW x
      PROVE  /\ argumentsSent(more, x) = argumentsSent(sent, x)
             /\ sends(more, "call", x) <=> sends(sent, "call", x) \/ x = f.item
             /\ \A kind \in {"args", "itemDone"} : sends(more, kind, x) <=> sends(sent, kind, x)
  <2>1. \A kind : /\ sends(more, kind, x) <=> sentAt(more, kind, x) # {}
                  /\ sends(sent, kind, x) <=> sentAt(sent, kind, x) # {}
    BY SentAt
  <2>2. sends(more, "call", x) <=> sends(sent, "call", x) \/ x = f.item
    <3>1. CASE x = f.item
      BY <1>1, <2>1, <3>1
    <3>2. CASE x # f.item
      BY <1>1, <2>1, <3>2
    <3> QED BY <3>1, <3>2
  <2>3. \A kind \in {"args", "itemDone"} : sends(more, kind, x) <=> sends(sent, kind, x)
    BY <1>1, <2>1
  <2>4. argumentsSent(more, x) = argumentsSent(sent, x)
    BY <1>1, SentAt
  <2> QED BY <2>2, <2>3, <2>4
<1>3. argumentsSent(sent, f.item) = {}
  BY SentAt
<1>4. callsSent(p, more) = IF p = "responses" THEN callsSent(p, sent) ELSE callsSent(p, sent) \cup {f.item}
  <2>1. CASE p = "responses"
    BY <1>2, <1>3, <2>1 DEF callsSent
  <2>2. CASE p # "responses"
    BY <1>2, <1>3, <2>2 DEF callsSent
  <2> QED BY <2>1, <2>2
<1> QED BY <1>2, <1>3, <1>4 DEF more

\* Arguments of a call: a fragment, or the whole that comes instead of fragments.
LEMMA ArgumentsFrame ==
  ASSUME NEW p, NEW S, NEW sent \in Seq(S), NEW f \in S, f.item \in Items, sends(sent, "call", f.item),
         ~sends(sent, "itemDone", f.item), f.kind = "args" \/ (f.kind = "itemDone" /\ ~sends(sent, "args", f.item))
  PROVE  LET more == Append(sent, f)
         IN  /\ callsSent(p, more) = callsSent(p, sent) \cup {f.item}
             /\ p # "responses" => f.item \in callsSent(p, sent)
             /\ f.item \notin callsSent(p, sent) => argumentsSent(sent, f.item) = {}
             /\ argumentsSent(more, f.item) = argumentsSent(sent, f.item) \cup {Len(sent) + 1}
             /\ \A y : y # f.item => argumentsSent(more, y) = argumentsSent(sent, y)
             /\ \A y : sends(more, "call", y) <=> sends(sent, "call", y)
             /\ \A y : sends(more, "args", y) <=> sends(sent, "args", y) \/ (y = f.item /\ f.kind = "args")
<1> DEFINE x == f.item
           more == Append(sent, f)
           n == Len(sent) + 1
<1>1. \A kind : \A y : sentAt(more, kind, y) =
        IF f.kind = kind /\ f.item = y THEN sentAt(sent, kind, y) \cup {n} ELSE sentAt(sent, kind, y)
  BY MoreSent
<1> HIDE DEF more, n
<1>2. ASSUME NEW y PROVE sends(more, "call", y) <=> sends(sent, "call", y)
  <2>1. sentAt(more, "call", y) = sentAt(sent, "call", y)
    BY <1>1
  <2> QED BY <2>1, SentAt
<1>3. ASSUME NEW y PROVE sends(more, "args", y) <=> sends(sent, "args", y) \/ (y = x /\ f.kind = "args")
  <2>1. sends(more, "args", y) <=> sentAt(more, "args", y) # {}
    BY SentAt
  <2>2. sends(sent, "args", y) <=> sentAt(sent, "args", y) # {}
    BY SentAt
  <2>3. CASE y = x /\ f.kind = "args"
    BY <1>1, <2>1, <2>3
  <2>4. CASE ~(y = x /\ f.kind = "args")
    BY <1>1, <2>1, <2>2, <2>4
  <2> QED BY <2>3, <2>4
<1>4. argumentsSent(more, x) = argumentsSent(sent, x) \cup {n}
  <2>1. sentAt(sent, "itemDone", x) = {}
    BY SentAt
  <2>2. CASE f.kind = "args"
    <3>1. sentAt(more, "args", x) = sentAt(sent, "args", x) \cup {n}
      BY <1>1, <2>2
    <3> QED BY <2>1, <3>1, SentAt
  <2>3. CASE f.kind = "itemDone" /\ ~sends(sent, "args", x)
    <3>1. sentAt(more, "args", x) = {} /\ sentAt(more, "itemDone", x) = {n}
      BY <1>1, <2>1, <2>3, SentAt
    <3>2. sentAt(sent, "args", x) = {}
      BY <2>3, SentAt
    <3> QED BY <2>1, <3>1, <3>2, SentAt
  <2> QED BY <2>2, <2>3
<1>5. ASSUME NEW y, y # x PROVE argumentsSent(more, y) = argumentsSent(sent, y)
  BY <1>1, <1>5, SentAt
<1>6. callsSent(p, more) = callsSent(p, sent) \cup {x}
  BY <1>2, <1>4, <1>5 DEF callsSent
<1>7. (p # "responses" => x \in callsSent(p, sent)) /\ (x \notin callsSent(p, sent) => argumentsSent(sent, x) = {})
  BY DEF callsSent
<1> QED BY <1>2, <1>3, <1>4, <1>5, <1>6, <1>7 DEF more, n

\* The end of an item whose arguments came in fragments.
LEMMA ItemDoneFrame ==
  ASSUME NEW p, NEW S, NEW sent \in Seq(S), NEW f \in S, f.kind = "itemDone", sends(sent, "args", f.item)
  PROVE  LET more == Append(sent, f)
         IN  /\ callsSent(p, more) = callsSent(p, sent)
             /\ \A x : argumentsSent(more, x) = argumentsSent(sent, x)
             /\ \A x : \A kind \in {"call", "args"} : sends(more, kind, x) <=> sends(sent, kind, x)
<1> DEFINE more == Append(sent, f)
<1>1. \A kind : \A y : sentAt(more, kind, y) = IF f.kind = kind /\ f.item = y
                                              THEN sentAt(sent, kind, y) \cup {Len(sent) + 1} ELSE sentAt(sent, kind, y)
  BY MoreSent
<1> HIDE DEF more
<1>2. ASSUME NEW x
      PROVE  /\ argumentsSent(more, x) = argumentsSent(sent, x)
             /\ \A kind \in {"call", "args"} : sends(more, kind, x) <=> sends(sent, kind, x)
  BY <1>1, SentAt
<1>3. callsSent(p, more) = callsSent(p, sent)
  BY <1>2 DEF callsSent
<1> QED BY <1>2, <1>3 DEF more

-----------------------------------------------------------------------------
(* Pieces in the order they were sent.                                     *)

LEMMA NothingSent == inOrder(<<>>, {})
BY DEF inOrder

LEMMA OneMorePiece ==
  ASSUME NEW S, NEW pieces \in Seq(S), NEW n \in Nat, NEW set, set \subseteq 1..n, inOrder(pieces, set),
         NEW piece \in S, piece.at = n + 1
  PROVE  inOrder(pieces \o <<piece>>, set \cup {n + 1})
<1> DEFINE more == pieces \o <<piece>>
           m == Len(pieces)
<1>1. /\ m \in Nat /\ DOMAIN pieces = 1..m /\ DOMAIN more = 1..(m + 1)
      /\ \A i \in 1..m : more[i] = pieces[i]
      /\ more[m + 1] = piece
  OBVIOUS
<1> HIDE DEF more
<1>2. \A i \in DOMAIN pieces : pieces[i].at \in set
  BY DEF inOrder
<1>3. {more[i].at : i \in DOMAIN more} = set \cup {n + 1}
  <2>1. m + 1 \notin 1..m /\ DOMAIN more = DOMAIN pieces \cup {m + 1}
    BY <1>1
  <2>2. {pieces[i].at : i \in DOMAIN pieces} = set
    BY DEF inOrder
  <2> HIDE DEF m
  <2>3. ASSUME NEW v \in {more[i].at : i \in DOMAIN more} PROVE v \in set \cup {n + 1}
    BY <1>1, <1>2, <2>1
  <2>4. ASSUME NEW v \in set PROVE v \in {more[i].at : i \in DOMAIN more}
    BY <1>1, <2>1, <2>2
  <2>5. n + 1 \in {more[i].at : i \in DOMAIN more}
    BY <1>1, <2>1
  <2> QED BY <2>3, <2>4, <2>5
<1>4. ASSUME NEW i \in DOMAIN more, NEW j \in DOMAIN more, i < j PROVE more[i].at < more[j].at
  <2>1. i \in 1..m
    BY <1>1, <1>4
  <2>2. CASE j \in 1..m
    BY <1>1, <1>4, <2>1, <2>2 DEF inOrder
  <2>3. CASE j = m + 1
    <3>1. more[i].at \in 1..n /\ more[j].at = n + 1
      BY <1>1, <1>2, <2>1, <2>3
    <3> QED BY <3>1
  <2> QED BY <1>1, <2>2, <2>3
<1> QED BY <1>3, <1>4 DEF inOrder, more

-----------------------------------------------------------------------------
(* One more fragment of a vendor's stream.                                 *)

LEMMA FiledSame ==
  ASSUME NEW p, NEW sent, NEW more, NEW acc, Filed(p, sent, acc), callsSent(p, more) = callsSent(p, sent),
         \A x : argumentsSent(more, x) = argumentsSent(sent, x)
  PROVE  Filed(p, more, acc)
BY DEF Filed

\* What appendFragment does, as one replacement of a builder.
LEMMA FragmentIsPut ==
  ASSUME NEW acc \in Accs, NEW k \in DOMAIN acc.builders, NEW id \in Labelings, NEW index \in Labelings,
         NEW pieces \in Seq(PiecesOf(Nat)), NEW e, e.id = id, e.index = index, e.pieces = pieces
  PROVE  appendFragment([key |-> k, acc |-> acc], e) =
           putBuilder(acc, k, fragment(acc.builders[k], id, index, pieces))
<1> DEFINE old == acc.builders[k]
           b == fragment(old, id, index, pieces)
           i == IF id = 0 THEN old.id ELSE id
           n == IF index = 0 THEN old.index ELSE index
           b1 == [old EXCEPT !.id = i]
           b2 == [b1 EXCEPT !.index = n]
           b3 == [b2 EXCEPT !.args = @ \o pieces]
           a1 == putBuilder(acc, k, b1)
           a2 == putBuilder(a1, k, b2)
           a3 == putBuilder(a2, k, b3)
<1>1. old \in Builders
  BY AccFields
<1>2. i \in Labelings /\ n \in Labelings /\ old.args \o pieces \in Seq(PiecesOf(Nat))
  BY <1>1, BuilderFields
<1>3. b1 \in Builders /\ b2 \in Builders /\ b3 \in Builders
  BY <1>1, <1>2 DEF Builders
<1>4. b3 = b
  BY <1>1 DEF fragment, Builders
<1>5. [acc EXCEPT !.builders[k].id = i] = a1
  BY <1>1 DEF putBuilder, Accs
<1>6. a1 \in Accs /\ k \in DOMAIN a1.builders /\ a1.builders[k] = b1
  BY <1>3, PutBuilder
<1>7. [a1 EXCEPT !.builders[k].index = n] = a2
  <2> HIDE DEF a1, b1, n
  <2> QED BY <1>6 DEF putBuilder, Accs
<1>8. a2 \in Accs /\ k \in DOMAIN a2.builders /\ a2.builders[k] = b2
  <2> HIDE DEF a1, b1, b2
  <2> QED BY <1>3, <1>6, PutBuilder
<1>9. [a2 EXCEPT !.builders[k].args = old.args \o pieces] = a3
  <2>1. b2.args = old.args
    BY <1>1 DEF Builders
  <2> HIDE DEF a2, b2, old
  <2> QED BY <1>8, <2>1 DEF putBuilder, Accs
<1>10. appendFragment([key |-> k, acc |-> acc], e) =
         [[[acc EXCEPT !.builders[k].id = i] EXCEPT !.builders[k].index = n]
                EXCEPT !.builders[k].args = old.args \o pieces]
  BY DEF appendFragment
<1>11. a3 = putBuilder(acc, k, b3)
  <2> HIDE DEF b1, b2, b3
  <2> QED BY DEF putBuilder, Accs
<1> HIDE DEF a1, a2, a3, b, b3, i, n, old
<1>12. appendFragment([key |-> k, acc |-> acc], e) = putBuilder(acc, k, b)
  BY <1>4, <1>5, <1>7, <1>9, <1>10, <1>11
<1> QED BY <1>12 DEF b, old

\* A fragment for the builder k of the call x.
LEMMA FiledPut ==
  ASSUME NEW p, NEW sent, NEW more, NEW acc, Filed(p, sent, acc), NEW x \in Items, x \in callsSent(p, sent),
         NEW b \in Builders, b.id = x, b.index = (IF p = "messages" THEN 0 ELSE x),
         inOrder(b.args, argumentsSent(more, x)),
         callsSent(p, more) = callsSent(p, sent),
         \A y : y # x => argumentsSent(more, y) = argumentsSent(sent, y)
  PROVE  Filed(p, more, putBuilder(acc, acc.ids[x], b))
<1> DEFINE k == acc.ids[x]
           a == putBuilder(acc, k, b)
<1>1. acc \in Accs /\ k \in DOMAIN acc.builders
  BY DEF Filed
<1>2. /\ a \in Accs /\ a.ids = acc.ids /\ a.indexes = acc.indexes
      /\ DOMAIN a.builders = DOMAIN acc.builders /\ a.builders[k] = b
      /\ \A j \in DOMAIN acc.builders : j # k => a.builders[j] = acc.builders[j]
  BY <1>1, PutBuilder
<1> HIDE DEF a
<1>3. ASSUME NEW j \in DOMAIN a.builders PROVE a.builders[j].id \in Items /\ a.ids[a.builders[j].id] = j
  <2>1. CASE j = k
    BY <1>2, <2>1
  <2>2. CASE j # k
    BY <1>2, <2>2 DEF Filed
  <2> QED BY <2>1, <2>2
<1>4. ASSUME NEW y \in Items
      PROVE  LET m == a.ids[y]
             IN /\ a.indexes[y] = IF p = "messages" THEN 0 ELSE m
                /\ IF y \in callsSent(p, more)
                   THEN /\ m \in DOMAIN a.builders
                        /\ a.builders[m].id = y
                        /\ a.builders[m].index = IF p = "messages" THEN 0 ELSE y
                        /\ inOrder(a.builders[m].args, argumentsSent(more, y))
                   ELSE m = 0
  <2>1. CASE y = x
    BY <1>1, <1>2, <2>1 DEF Filed
  <2>2. CASE y # x
    <3>1. CASE y \in callsSent(p, sent)
      <4>1. acc.ids[y] # k
        BY <2>2, <3>1, <1>1 DEF Filed
      <4> QED BY <1>2, <2>2, <3>1, <4>1 DEF Filed
    <3>2. CASE y \notin callsSent(p, sent)
      BY <1>2, <2>2, <3>2 DEF Filed
    <3> QED BY <3>1, <3>2
  <2> QED BY <2>1, <2>2
<1>5. Filed(p, more, a)
  BY <1>2, <1>3, <1>4 DEF Filed
<1> QED BY <1>5 DEF a

\* The builder of a call that was sent is found by either label.
LEMMA EnsureFinds ==
  ASSUME NEW p, NEW sent, NEW acc, Filed(p, sent, acc), NEW x \in Items, x \in callsSent(p, sent),
         NEW id \in {0, x}, NEW index \in {0, x}, id # 0 \/ index # 0, p = "messages" => index = 0
  PROVE  ensureToolCallBuilder(acc, id, index) = [key |-> acc.ids[x], acc |-> acc]
<1> DEFINE k == acc.ids[x]
<1>1. /\ acc \in Accs /\ k \in DOMAIN acc.builders /\ x # 0 /\ acc.builders[k] \in Builders
      /\ acc.builders[k].index = IF p = "messages" THEN 0 ELSE x
      /\ acc.indexes[x] = IF p = "messages" THEN 0 ELSE k
  BY AccFields, ItemsAssumption DEF Filed
<1>2. k # 0
  BY <1>1, AccFields
<1>3. CASE id = x /\ index = 0
  BY <1>1, <1>2, <1>3 DEF ensureToolCallBuilder
<1>4. CASE id = x /\ index = x
  <2>1. p # "messages"
    BY <1>1, <1>4
  <2>2. acc.builders[k].index = x /\ acc.indexes[x] = k
    BY <1>1, <2>1
  <2>3. bindIndex(acc, k, x) = [acc EXCEPT !.builders[k].index = x, !.indexes[x] = k]
    BY <2>2 DEF bindIndex
  <2>4. [acc EXCEPT !.builders[k].index = x] = acc
    <3>1. [acc.builders[k] EXCEPT !.index = x] = acc.builders[k]
      BY <1>1, <2>2 DEF Builders
    <3>2. [acc.builders EXCEPT ![k] = acc.builders[k]] = acc.builders
      BY <1>1, AccFields
    <3>3. [acc EXCEPT !.builders[k].index = x] = [acc EXCEPT !.builders = acc.builders]
      BY <3>1, <3>2
    <3>4. [acc EXCEPT !.builders = acc.builders] = acc
      BY <1>1 DEF Accs
    <3> QED BY <3>3, <3>4
  <2>5. [acc EXCEPT !.indexes[x] = k] = acc
    BY <1>1, <2>2 DEF Accs
  <2>6. bindIndex(acc, k, x) = [[acc EXCEPT !.builders[k].index = x] EXCEPT !.indexes[x] = k]
    BY <2>3
  <2>7. bindIndex(acc, k, x) = acc
    BY <2>4, <2>5, <2>6
  <2>8. id # 0 /\ acc.ids[id] # 0 /\ index # 0
    BY <1>1, <1>2, <1>4
  <2> QED BY <1>4, <2>7, <2>8 DEF ensureToolCallBuilder
<1>5. CASE id = 0 /\ index = x
  <2>1. p # "messages"
    BY <1>1, <1>5
  <2>2. acc.indexes[x] = k
    BY <1>1, <2>1
  <2> QED BY <1>1, <1>2, <1>5, <2>2 DEF ensureToolCallBuilder
<1> QED BY <1>3, <1>4, <1>5

LEMMA FiledMore ==
  ASSUME NEW p, NEW sent, NEW more, NEW acc, Filed(p, sent, acc), NEW x \in Items, x \in callsSent(p, sent),
         NEW id \in {0, x}, NEW index \in {0, x}, id # 0 \/ index # 0, p = "messages" => index = 0,
         NEW pieces \in Seq(PiecesOf(Nat)), NEW e, e.kind = "delta", e.id = id, e.index = index, e.pieces = pieces,
         inOrder(acc.builders[acc.ids[x]].args \o pieces, argumentsSent(more, x)),
         callsSent(p, more) = callsSent(p, sent),
         \A y : y # x => argumentsSent(more, y) = argumentsSent(sent, y)
  PROVE  Filed(p, more, applyToolEvent(acc, e))
<1> DEFINE k == acc.ids[x]
           old == acc.builders[k]
           b == fragment(old, id, index, pieces)
<1>1. /\ acc \in Accs /\ k \in DOMAIN acc.builders /\ old \in Builders
      /\ old.id = x /\ old.index = IF p = "messages" THEN 0 ELSE x
  BY AccFields DEF Filed
<1>2. id \in Labelings /\ index \in Labelings
  BY DEF Labelings
<1>3. ensureToolCallBuilder(acc, id, index) = [key |-> k, acc |-> acc]
  BY EnsureFinds
<1>4. appendFragment([key |-> k, acc |-> acc], e) = putBuilder(acc, k, b)
  BY <1>1, <1>2, FragmentIsPut
<1>5. applyToolEvent(acc, e) = putBuilder(acc, k, b)
  BY <1>3, <1>4 DEF applyToolEvent, applyToolCallDeltaEvent
<1>6. /\ b \in Builders /\ (id = 0 => b.id = old.id) /\ (id # 0 => b.id = id)
      /\ (index = 0 => b.index = old.index) /\ (index # 0 => b.index = index)
      /\ b.args = old.args \o pieces
  <2> HIDE DEF old, k
  <2>1. old \in Builders /\ id \in Labelings /\ index \in Labelings /\ pieces \in Seq(PiecesOf(Nat))
    BY <1>1, <1>2
  <2> QED BY ONLY <2>1, FragmentFields
<1>7. inOrder(b.args, argumentsSent(more, x))
  BY <1>6
<1> HIDE DEF b
<1>8. b.id = x /\ b.index = IF p = "messages" THEN 0 ELSE x
  BY <1>1, <1>6
<1>9. Filed(p, more, putBuilder(acc, k, b))
  BY <1>6, <1>7, <1>8, FiledPut
<1> QED BY <1>5, <1>9

LEMMA PushFacts ==
  ASSUME NEW acc \in Accs, NEW b \in Builders
  PROVE  LET a == pushBuilder(acc, b)
             key == Len(acc.builders) + 1
         IN  /\ a \in Accs /\ a.ids = acc.ids /\ a.indexes = acc.indexes
             /\ key \in Nat /\ key \notin DOMAIN acc.builders
             /\ DOMAIN a.builders = DOMAIN acc.builders \cup {key} /\ a.builders[key] = b
             /\ \A i \in DOMAIN acc.builders : a.builders[i] = acc.builders[i]
<1> DEFINE a == pushBuilder(acc, b)
           bs == Append(acc.builders, b)
           key == Len(acc.builders) + 1
<1>1. acc.builders \in Seq(Builders) /\ Len(acc.builders) \in Nat /\ DOMAIN acc.builders = 1..Len(acc.builders)
  BY AccFields
<1>2. /\ bs \in Seq(Builders) /\ DOMAIN bs = 1..(Len(acc.builders) + 1)
      /\ \A i \in 1..Len(acc.builders) : bs[i] = acc.builders[i]
      /\ bs[Len(acc.builders) + 1] = b
  BY <1>1, AppendFacts
<1>3. a = [acc EXCEPT !.builders = bs]
  BY DEF pushBuilder
<1>4. DOMAIN bs = DOMAIN acc.builders \cup {key} /\ key \notin DOMAIN acc.builders /\ key \in Nat
  BY <1>1, <1>2
<1> HIDE DEF bs, a
<1>5. a \in Accs /\ a.ids = acc.ids /\ a.indexes = acc.indexes /\ a.builders = bs
  BY <1>2, <1>3 DEF Accs
<1> QED BY <1>1, <1>2, <1>4, <1>5 DEF a

\* The first fragment of the call x opens its builder.
LEMMA FiledNew ==
  ASSUME NEW p, NEW sent, NEW more, NEW acc, Filed(p, sent, acc), NEW x \in Items, x \notin callsSent(p, sent),
         NEW index, index = (IF p = "messages" THEN 0 ELSE x),
         NEW pieces \in Seq(PiecesOf(Nat)), NEW e, e.kind = "delta", e.id = x, e.index = index, e.pieces = pieces,
         inOrder(pieces, argumentsSent(more, x)),
         callsSent(p, more) = callsSent(p, sent) \cup {x},
         \A y : y # x => argumentsSent(more, y) = argumentsSent(sent, y)
  PROVE  Filed(p, more, applyToolEvent(acc, e))
<1> DEFINE key == Len(acc.builders) + 1
           b == [id |-> x, index |-> index, args |-> <<>>, full |-> FALSE, conflict |-> FALSE]
           pushed == pushBuilder(acc, b)
           bound == putID(pushed, x, key)
           a == putIndex(bound, index, key)
           n == fragment(b, x, index, pieces)
           r == putBuilder(a, key, n)
<1>1. acc \in Accs /\ x # 0 /\ acc.ids[x] = 0 /\ acc.indexes[x] = 0 /\ x \in Labelings /\ index \in Labelings
  BY ItemsAssumption DEF Filed, Labelings
<1>2. b \in Builders /\ b.args = <<>>
  BY <1>1 DEF Builders
<1>3. newBuilder(acc, x, index) = [key |-> key, acc |-> a]
  <2>1. newBuilder(acc, x, index) = [key |-> key, acc |->
          [acc EXCEPT !.builders = Append(@, b), !.ids = IF x = 0 THEN @ ELSE [@ EXCEPT ![x] = key],
                      !.indexes = IF index = 0 THEN @ ELSE [@ EXCEPT ![index] = key]]]
    BY DEF newBuilder
  <2> HIDE DEF b, key
  <2>2. [acc EXCEPT !.builders = Append(@, b), !.ids = IF x = 0 THEN @ ELSE [@ EXCEPT ![x] = key],
                      !.indexes = IF index = 0 THEN @ ELSE [@ EXCEPT ![index] = key]] = a
    BY <1>1 DEF pushBuilder, putID, putIndex, Accs
  <2> QED BY <2>1, <2>2
<1>4. ensureToolCallBuilder(acc, x, index) = newBuilder(acc, x, index)
  BY <1>1 DEF ensureToolCallBuilder
<1> HIDE DEF b
<1>5. /\ pushed \in Accs /\ pushed.ids = acc.ids /\ pushed.indexes = acc.indexes
      /\ key \in Nat /\ key \notin DOMAIN acc.builders
      /\ DOMAIN pushed.builders = DOMAIN acc.builders \cup {key} /\ pushed.builders[key] = b
      /\ \A i \in DOMAIN acc.builders : pushed.builders[i] = acc.builders[i]
  BY <1>1, <1>2, PushFacts
<1> HIDE DEF pushed, key
<1>6. /\ bound \in Accs /\ bound.builders = pushed.builders /\ bound.indexes = pushed.indexes
      /\ \A y \in Items : bound.ids[y] = IF y = x THEN key ELSE pushed.ids[y]
  BY <1>1, <1>5, PutID
<1> HIDE DEF bound
<1>7. /\ a \in Accs /\ a.builders = bound.builders /\ a.ids = bound.ids
      /\ \A y \in Items : a.indexes[y] = IF y = index THEN key ELSE bound.indexes[y]
  <2>1. bound \in Accs /\ index \in Labelings /\ key \in Nat
    BY <1>1, <1>5, <1>6
  <2> QED BY ONLY <2>1, PutIndex
<1> HIDE DEF a
<1>8. a.builders[key] = b /\ key \in DOMAIN a.builders
  BY <1>5, <1>6, <1>7
<1>9. appendFragment([key |-> key, acc |-> a], e) = putBuilder(a, key, fragment(a.builders[key], x, index, pieces))
  BY <1>1, <1>7, <1>8, FragmentIsPut
<1>10. applyToolEvent(acc, e) = r
  BY <1>3, <1>4, <1>8, <1>9 DEF applyToolEvent, applyToolCallDeltaEvent
<1>11. n \in Builders /\ n.id = x /\ n.index = index /\ n.args = pieces
  <2>1. /\ n \in Builders /\ (x # 0 => n.id = x) /\ n.args = b.args \o pieces
        /\ (index = 0 => n.index = b.index) /\ (index # 0 => n.index = index)
    BY ONLY <1>1, <1>2, pieces \in Seq(PiecesOf(Nat)), FragmentFields
  <2>2. b.index = index
    BY DEF b
  <2>3. <<>> \o pieces = pieces
    BY ConcatEmptySeq
  <2> QED BY <1>1, <1>2, <2>1, <2>2, <2>3
<1> HIDE DEF n
<1>12. /\ r \in Accs /\ r.ids = a.ids /\ r.indexes = a.indexes
       /\ DOMAIN r.builders = DOMAIN a.builders /\ r.builders[key] = n
       /\ \A j \in DOMAIN a.builders : j # key => r.builders[j] = a.builders[j]
  BY <1>7, <1>8, <1>11, PutBuilder
<1> HIDE DEF r
<1>13. /\ DOMAIN r.builders = DOMAIN acc.builders \cup {key}
       /\ \A j \in DOMAIN acc.builders : r.builders[j] = acc.builders[j]
       /\ \A y \in Items : r.ids[y] = IF y = x THEN key ELSE acc.ids[y]
       /\ \A y \in Items : r.indexes[y] = IF y = index THEN key ELSE acc.indexes[y]
  BY <1>5, <1>6, <1>7, <1>12
<1>14. ASSUME NEW j \in DOMAIN r.builders PROVE r.builders[j].id \in Items /\ r.ids[r.builders[j].id] = j
  <2>1. CASE j = key
    BY <1>11, <1>12, <1>13, <2>1
  <2>2. CASE j \in DOMAIN acc.builders
    <3>1. j # 0
      BY <1>1, <2>2, AccFields
    <3>2. acc.builders[j].id # x
      BY <1>1, <2>2, <3>1 DEF Filed
    <3> QED BY <1>13, <2>2, <3>2 DEF Filed
  <2> QED BY <1>13, <2>1, <2>2
<1>15. ASSUME NEW y \in Items
       PROVE  LET m == r.ids[y]
              IN /\ r.indexes[y] = IF p = "messages" THEN 0 ELSE m
                 /\ IF y \in callsSent(p, more)
                    THEN /\ m \in DOMAIN r.builders
                         /\ r.builders[m].id = y
                         /\ r.builders[m].index = IF p = "messages" THEN 0 ELSE y
                         /\ inOrder(r.builders[m].args, argumentsSent(more, y))
                    ELSE m = 0
  <2>0. y # 0
    BY ItemsAssumption
  <2>1. CASE y = x
    <3>1. r.ids[y] = key /\ r.indexes[y] = IF p = "messages" THEN 0 ELSE key
      BY <1>1, <1>13, <2>0, <2>1
    <3> QED BY <1>11, <1>12, <1>13, <2>1, <3>1
  <2>2. CASE y # x
    <3>1. r.ids[y] = acc.ids[y] /\ r.indexes[y] = acc.indexes[y]
      BY <1>13, <2>0, <2>2
    <3> QED BY <1>13, <2>2, <3>1 DEF Filed
  <2> QED BY <2>1, <2>2
<1>16. Filed(p, more, r)
  BY <1>12, <1>14, <1>15 DEF Filed
<1> QED BY <1>10, <1>16

-----------------------------------------------------------------------------
(* One more event of a parser.                                             *)

LEMMA ContentTyped ==
  ASSUME NEW events \in Seq(EventsOf(Nat)), NEW kind
  PROVE  contentPieces(events, kind) \in Seq(PiecesOf(Nat))
<1>1. PICK f : ContentAfter(events, kind, Len(events), f) /\ contentPieces(events, kind) = f[Len(events)]
  BY ContentExists
<1>2. Len(events) \in Nat /\ DOMAIN events = 1..Len(events)
  OBVIOUS
<1> DEFINE G == {k \in 0..Len(events) : f[k] \in Seq(PiecesOf(Nat))}
<1>3. 0 \in G
  <2>1. <<>> \in Seq(PiecesOf(Nat))
    BY EmptySeq
  <2>2. f[0] = <<>>
    BY <1>1 DEF ContentAfter
  <2>3. f[0] \in Seq(PiecesOf(Nat)) /\ 0 \in 0..Len(events)
    BY <1>2, <2>1, <2>2
  <2> QED BY <2>3
<1>4. ASSUME NEW k \in 0..Len(events), k < Len(events), k \in G PROVE k + 1 \in G
  <2>1. k + 1 \in 1..Len(events) /\ (k + 1) - 1 = k /\ k + 1 \in 0..Len(events)
    BY <1>2, <1>4
  <2>2. f[k + 1] = appendContent(f[k], events[k + 1], kind)
    BY <1>1, <2>1 DEF ContentAfter
  <2>3. events[k + 1].pieces \in Seq(PiecesOf(Nat))
    BY <2>1, EventFields, ElementOfSeq
  <2>4. f[k] \in Seq(PiecesOf(Nat))
    BY <1>4
  <2>5. f[k] \o events[k + 1].pieces \in Seq(PiecesOf(Nat))
    BY <2>3, <2>4
  <2>6. appendContent(f[k], events[k + 1], kind) \in Seq(PiecesOf(Nat))
    BY <2>4, <2>5 DEF appendContent
  <2> QED BY <2>1, <2>2, <2>6
<1> HIDE DEF G
<1>5. \A k \in 0..Len(events) : k \in G
  BY <1>2, <1>3, <1>4, UpTo
<1>6. Len(events) \in G
  BY <1>2, <1>5
<1> QED BY <1>1, <1>6 DEF G

LEMMA QuietEvent ==
  ASSUME NEW events \in Seq(EventsOf(Nat)), NEW e \in EventsOf(Nat)
  PROVE  /\ \A kind : e.kind # kind => contentPieces(Append(events, e), kind) = contentPieces(events, kind)
         /\ contentPieces(Append(events, e), e.kind) = contentPieces(events, e.kind) \o e.pieces
         /\ e.kind \notin {"delta", "call"} => toolCallBuilders(Append(events, e)) = toolCallBuilders(events)
<1>1. \A kind : contentPieces(Append(events, e), kind) = appendContent(contentPieces(events, kind), e, kind)
  BY ContentAppend
<1>2. toolCallBuilders(Append(events, e)) = applyToolEvent(toolCallBuilders(events), e)
  BY BuildersAppend
<1> QED BY <1>1, <1>2 DEF appendContent, applyToolEvent

LEMMA TextMore ==
  ASSUME NEW content \in Seq(PiecesOf(Nat)), NEW buffer \in Seq(PiecesOf(Nat)), NEW n \in Nat, NEW set,
         set \subseteq 1..n, inOrder(content \o buffer, set), NEW piece \in PiecesOf(Nat), piece.at = n + 1
  PROVE  /\ inOrder((content \o Append(buffer, piece)) \o <<>>, set \cup {n + 1})
         /\ inOrder((content \o buffer) \o <<piece>>, set \cup {n + 1})
<1>1. content \o buffer \in Seq(PiecesOf(Nat)) /\ <<piece>> \in Seq(PiecesOf(Nat))
  OBVIOUS
<1>2. inOrder((content \o buffer) \o <<piece>>, set \cup {n + 1})
  BY <1>1, OneMorePiece
<1>3. Append(buffer, piece) = buffer \o <<piece>>
  BY AppendIsConcat
<1>4. (content \o buffer) \o <<piece>> = content \o (buffer \o <<piece>>)
  BY <1>1, ConcatAssociative
<1>5. (content \o buffer) \o <<piece>> \in Seq(PiecesOf(Nat))
  BY <1>1, ConcatProperties
<1>6. ((content \o buffer) \o <<piece>>) \o <<>> = (content \o buffer) \o <<piece>>
  BY <1>5, ConcatEmptySeq
<1>7. (content \o Append(buffer, piece)) \o <<>> = (content \o buffer) \o <<piece>>
  BY <1>3, <1>4, <1>6
<1> QED BY <1>2, <1>7

LEMMA TextFlushed ==
  ASSUME NEW content \in Seq(PiecesOf(Nat)), NEW buffer \in Seq(PiecesOf(Nat))
  PROVE  (content \o buffer) \o <<>> = content \o buffer /\ content \o <<>> = content
<1>1. content \o buffer \in Seq(PiecesOf(Nat))
  BY ConcatProperties
<1> QED BY <1>1, ConcatEmptySeq

\* What the parser q remembers after one more frame.
LEMMA RememberedMore ==
  ASSUME NEW p, NEW S, NEW sent \in Seq(S), NEW f \in S, NEW parser, NEW q, Remembered(p, sent, parser),
         f.kind \in {"args", "itemDone"} => sends(sent, "call", f.item),
         p # "responses" => /\ f.kind # "itemDone" /\ (f.kind = "finish" => f.stop = q.stop)
                            /\ q.stop = parser.stop \/ \A i \in DOMAIN sent : sent[i].kind # "finish",
         p # "chat" => q.buffer = <<>>,
         p # "chat" =>
           \A x \in Items : sends(sent, "call", x) \/ (f.kind = "call" /\ f.item = x) => q.items[x].id = x,
         p = "responses" =>
           \A x \in Items : q.items[x].deltas <=> sends(sent, "args", x) \/ (f.kind = "args" /\ f.item = x)
  PROVE  Remembered(p, Append(sent, f), q)
<1> DEFINE more == Append(sent, f)
           n == Len(sent) + 1
<1>1. /\ Len(sent) \in Nat /\ DOMAIN sent = 1..Len(sent) /\ DOMAIN more = 1..n
      /\ \A i \in 1..Len(sent) : more[i] = sent[i]
      /\ more[n] = f
  BY AppendFacts
<1> HIDE DEF more
<1>2. n \notin DOMAIN sent /\ DOMAIN more = DOMAIN sent \cup {n}
  BY <1>1
<1> HIDE DEF n
<1>3. ASSUME NEW kind, NEW x PROVE sends(more, kind, x) <=> sends(sent, kind, x) \/ (f.kind = kind /\ f.item = x)
  <2>1. ASSUME sends(more, kind, x) PROVE sends(sent, kind, x) \/ (f.kind = kind /\ f.item = x)
    <3>1. PICK i \in DOMAIN more : more[i].kind = kind /\ more[i].item = x
      BY <2>1 DEF sends
    <3>2. CASE i \in DOMAIN sent
      BY <1>1, <3>1, <3>2 DEF sends
    <3>3. CASE i = n
      BY <1>1, <3>1, <3>3
    <3> QED BY <1>2, <3>2, <3>3
  <2>2. ASSUME sends(sent, kind, x) PROVE sends(more, kind, x)
    <3>1. PICK i \in DOMAIN sent : sent[i].kind = kind /\ sent[i].item = x
      BY <2>2 DEF sends
    <3>2. i \in DOMAIN more /\ more[i] = sent[i]
      BY <1>1, <1>2, <3>1
    <3> QED BY <3>1, <3>2 DEF sends
  <2>3. ASSUME f.kind = kind /\ f.item = x PROVE sends(more, kind, x)
    BY <1>1, <1>2, <2>3 DEF sends
  <2> QED BY <2>1, <2>2, <2>3
<1>4. ASSUME NEW i \in DOMAIN more, more[i].kind \in {"args", "itemDone"} PROVE sends(more, "call", more[i].item)
  <2>1. CASE i \in DOMAIN sent
    BY <1>1, <1>3, <1>4, <2>1 DEF Remembered
  <2>2. CASE i = n
    BY <1>1, <1>3, <1>4, <2>2
  <2> QED BY <1>2, <2>1, <2>2
<1>5. ASSUME p # "responses", NEW i \in DOMAIN more
      PROVE  more[i].kind # "itemDone" /\ (more[i].kind = "finish" => more[i].stop = q.stop)
  <2>1. CASE i \in DOMAIN sent
    BY <1>1, <1>5, <2>1 DEF Remembered
  <2>2. CASE i = n
    BY <1>1, <1>5, <2>2
  <2> QED BY <1>2, <2>1, <2>2
<1>6. ASSUME p # "chat", NEW x \in Items, sends(more, "call", x) PROVE q.items[x].id = x
  BY <1>3, <1>6
<1>7. ASSUME p = "responses", NEW x \in Items PROVE q.items[x].deltas <=> sends(more, "args", x)
  BY <1>3, <1>7
<1>8. Remembered(p, more, q)
  BY <1>4, <1>5, <1>6, <1>7 DEF Remembered
<1> QED BY <1>8 DEF more

\* A parser that is unchanged in what it remembers, after a frame that says nothing of that.
LEMMA RememberedSame ==
  ASSUME NEW p, NEW S, NEW sent \in Seq(S), NEW f \in S, NEW parser, NEW q, Remembered(p, sent, parser),
         f.kind \notin {"call", "args", "itemDone", "finish"}, q.items = parser.items, q.stop = parser.stop,
         p # "chat" => q.buffer = <<>>
  PROVE  Remembered(p, Append(sent, f), q)
<1>1. p # "chat" => \A x \in Items : sends(sent, "call", x) => q.items[x].id = x
  BY DEF Remembered
<1>2. p = "responses" => \A x \in Items : q.items[x].deltas <=> sends(sent, "args", x)
  BY DEF Remembered
<1> QED BY <1>1, <1>2, RememberedMore

LEMMA NoDoneYet ==
  ASSUME NEW sent, NEW parser, NEW events, EndSaid(sent, parser, events), ~parser.finished
  PROVE  \A i \in DOMAIN events : events[i].kind # "done"
BY DEF EndSaid

LEMMA StillNoDone ==
  ASSUME NEW events \in Seq(EventsOf(Nat)), \A i \in DOMAIN events : events[i].kind # "done", NEW sent, NEW q
  PROVE  /\ EndSaid(sent, q, events)
         /\ \A e \in EventsOf(Nat) : e.kind # "done" =>
              EndSaid(sent, q, Append(events, e)) /\ \A i \in DOMAIN Append(events, e) : Append(events, e)[i].kind # "done"
<1>1. EndSaid(sent, q, events)
  BY DEF EndSaid
<1>2. ASSUME NEW e \in EventsOf(Nat), e.kind # "done"
      PROVE  EndSaid(sent, q, Append(events, e)) /\ \A i \in DOMAIN Append(events, e) : Append(events, e)[i].kind # "done"
  <2> DEFINE more == Append(events, e)
  <2>1. /\ Len(events) \in Nat /\ DOMAIN events = 1..Len(events) /\ DOMAIN more = 1..(Len(events) + 1)
        /\ \A i \in 1..Len(events) : more[i] = events[i]
        /\ more[Len(events) + 1] = e
    BY AppendFacts
  <2> HIDE DEF more
  <2>2. \A i \in DOMAIN more : i \in 1..Len(events) \/ i = Len(events) + 1
    BY <2>1
  <2>3. \A i \in DOMAIN more : more[i].kind # "done"
    BY <1>2, <2>1, <2>2
  <2>4. EndSaid(sent, q, more)
    BY <2>3 DEF EndSaid
  <2> QED BY <2>3, <2>4 DEF more
<1> QED BY <1>1, <1>2

LEMMA NowDone ==
  ASSUME NEW events \in Seq(EventsOf(Nat)), \A i \in DOMAIN events : events[i].kind # "done",
         NEW S, NEW sent \in Seq(S), NEW f \in S, f.kind = "end", NEW e \in EventsOf(Nat), e.stop = f.stop,
         NEW q, q.finished, q.buffer = <<>>
  PROVE  EndSaid(Append(sent, f), q, Append(events, e))
<1> DEFINE more == Append(events, e)
           frames == Append(sent, f)
<1>1. /\ Len(events) \in Nat /\ DOMAIN events = 1..Len(events) /\ DOMAIN more = 1..(Len(events) + 1)
      /\ \A i \in 1..Len(events) : more[i] = events[i]
      /\ more[Len(events) + 1] = e /\ Len(more) = Len(events) + 1
  BY AppendFacts
<1>2. Len(frames) = Len(sent) + 1 /\ frames[Len(sent) + 1] = f
  BY AppendFacts
<1> HIDE DEF more, frames
<1>3. Last(frames) = f
  BY <1>2 DEF Last
<1>4. \A i \in DOMAIN more : i \in 1..Len(events) \/ i = Len(events) + 1
  BY <1>1
<1>5. EndSaid(frames, q, more)
  BY <1>1, <1>3, <1>4 DEF EndSaid
<1> QED BY <1>5 DEF more, frames

LEMMA MayFollow ==
  ASSUME NEW p, NEW sent, NEW f, mayFollow(p, sent, f)
  PROVE  /\ f.kind = "call" => ~sends(sent, "call", f.item)
         /\ f.kind = "args" => sends(sent, "call", f.item) /\ ~sends(sent, "itemDone", f.item)
         /\ f.kind = "itemDone" => p = "responses" /\ sends(sent, "call", f.item) /\ ~sends(sent, "itemDone", f.item)
         /\ f.kind = "text" /\ f.held => p = "chat"
         /\ f.kind = "tag" => p = "chat"
         /\ f.kind = "finish" => p # "responses" /\ \A i \in DOMAIN sent : sent[i].kind # "finish"
         /\ f.kind = "end" /\ p # "responses" => \E i \in DOMAIN sent : sent[i].kind = "finish" /\ sent[i].stop = f.stop
<1>1. CASE f.kind = "call"
  BY <1>1 DEF mayFollow
<1>2. CASE f.kind = "args"
  BY <1>2 DEF mayFollow
<1>3. CASE f.kind = "itemDone"
  BY <1>3 DEF mayFollow
<1>4. CASE f.kind = "text"
  BY <1>4 DEF mayFollow
<1>5. CASE f.kind = "finish"
  BY <1>5 DEF mayFollow
<1>6. CASE f.kind = "end"
  BY <1>6 DEF mayFollow
<1>7. CASE f.kind = "tag"
  BY <1>7 DEF mayFollow
<1>8. CASE f.kind \notin {"call", "args", "itemDone", "text", "finish", "end", "tag"}
  BY <1>8
<1> QED BY <1>1, <1>2, <1>3, <1>4, <1>5, <1>6, <1>7, <1>8

\* A call that carries no arguments yet.
LEMMA FiledCall ==
  ASSUME NEW p, p # "responses", NEW sent \in Seq(AllFrames), NEW acc, Filed(p, sent, acc), NEW f \in AllFrames,
         f.kind = "call", f.item \in Items, ~sends(sent, "call", f.item),
         ~sends(sent, "args", f.item), ~sends(sent, "itemDone", f.item),
         NEW index, index = (IF p = "messages" THEN 0 ELSE f.item)
  PROVE  Filed(p, Append(sent, f), applyToolEvent(acc, ToolCallDelta(f.item, index, <<>>)))
<1> DEFINE x == f.item
           more == Append(sent, f)
           e == ToolCallDelta(x, index, <<>>)
<1>1. /\ callsSent(p, more) = callsSent(p, sent) \cup {x}
      /\ \A y : argumentsSent(more, y) = argumentsSent(sent, y)
      /\ argumentsSent(sent, x) = {}
  <2>1. /\ sent \in Seq(AllFrames) /\ f \in AllFrames /\ f.kind = "call" /\ f.item \in Items
        /\ ~sends(sent, "args", f.item) /\ ~sends(sent, "itemDone", f.item)
    OBVIOUS
  <2>2. /\ callsSent(p, Append(sent, f)) =
             IF p = "responses" THEN callsSent(p, sent) ELSE callsSent(p, sent) \cup {f.item}
        /\ \A y : argumentsSent(Append(sent, f), y) = argumentsSent(sent, y)
        /\ argumentsSent(sent, f.item) = {}
    BY ONLY <2>1, CallFrame
  <2> QED BY <2>2
<1>2. x \notin callsSent(p, sent)
  BY DEF callsSent
<1>3. e.kind = "delta" /\ e.id = x /\ e.index = index /\ e.pieces = <<>>
  BY DeltaFields
<1>4. inOrder(<<>>, argumentsSent(more, x))
  BY <1>1, NothingSent
<1>5. <<>> \in Seq(PiecesOf(Nat)) /\ x \in Items
  BY EmptySeq
<1> HIDE DEF x, more, e
<1>6. Filed(p, more, applyToolEvent(acc, e))
  <2>1. index = (IF p = "messages" THEN 0 ELSE x)
    BY DEF x
  <2> QED BY <1>1, <1>2, <1>3, <1>4, <1>5, <2>1, FiledNew
<1> QED BY <1>6 DEF x, more, e

LEMMA FirstPiece ==
  ASSUME NEW piece, NEW n, piece.at = n
  PROVE  inOrder(<<piece>>, {n})
<1>1. DOMAIN <<piece>> = {1} /\ <<piece>>[1] = piece
  BY OnePiece
<1> QED BY <1>1 DEF inOrder

\* Arguments of a call that was sent.
LEMMA FiledArguments ==
  ASSUME NEW p, NEW sent \in Seq(AllFrames), NEW acc, Filed(p, sent, acc), NEW f \in AllFrames, NEW x \in Items,
         f.item = x, sends(sent, "call", x), ~sends(sent, "itemDone", x),
         f.kind = "args" \/ (f.kind = "itemDone" /\ ~sends(sent, "args", x)),
         NEW id \in {0, x}, NEW index, index = (IF p = "messages" THEN 0 ELSE x), id = 0 => p = "chat",
         NEW piece \in PiecesOf(Nat), piece.at = Len(sent) + 1
  PROVE  Filed(p, Append(sent, f), applyToolEvent(acc, ToolCallDelta(id, index, <<piece>>)))
<1> DEFINE more == Append(sent, f)
           e == ToolCallDelta(id, index, <<piece>>)
           n == Len(sent)
<1>1. /\ callsSent(p, more) = callsSent(p, sent) \cup {x}
      /\ p # "responses" => x \in callsSent(p, sent)
      /\ x \notin callsSent(p, sent) => argumentsSent(sent, x) = {}
      /\ argumentsSent(more, x) = argumentsSent(sent, x) \cup {n + 1}
      /\ \A y : y # x => argumentsSent(more, y) = argumentsSent(sent, y)
  <2>1. /\ sent \in Seq(AllFrames) /\ f \in AllFrames /\ f.item \in Items /\ sends(sent, "call", f.item)
        /\ ~sends(sent, "itemDone", f.item)
        /\ f.kind = "args" \/ (f.kind = "itemDone" /\ ~sends(sent, "args", f.item))
    OBVIOUS
  <2>2. /\ callsSent(p, Append(sent, f)) = callsSent(p, sent) \cup {f.item}
        /\ p # "responses" => f.item \in callsSent(p, sent)
        /\ f.item \notin callsSent(p, sent) => argumentsSent(sent, f.item) = {}
        /\ argumentsSent(Append(sent, f), f.item) = argumentsSent(sent, f.item) \cup {Len(sent) + 1}
        /\ \A y : y # f.item => argumentsSent(Append(sent, f), y) = argumentsSent(sent, y)
    BY ONLY <2>1, ArgumentsFrame
  <2> QED BY <2>2
<1>2. e.kind = "delta" /\ e.id = id /\ e.index = index /\ e.pieces = <<piece>>
  BY DeltaFields
<1>3. <<piece>> \in Seq(PiecesOf(Nat)) /\ n \in Nat /\ argumentsSent(sent, x) \subseteq 1..n
  BY SentBefore
<1>4. x # 0
  BY ItemsAssumption
<1> HIDE DEF more, e, n
<1>5. CASE x \in callsSent(p, sent)
  <2> DEFINE old == acc.builders[acc.ids[x]].args
  <2>1. inOrder(old, argumentsSent(sent, x)) /\ acc \in Accs /\ acc.ids[x] \in DOMAIN acc.builders
    BY <1>5 DEF Filed
  <2>2. old \in Seq(PiecesOf(Nat))
    BY <2>1, AccFields, BuilderFields
  <2> HIDE DEF old
  <2>3. piece.at = n + 1
    BY DEF n
  <2>4. inOrder(old \o <<piece>>, argumentsSent(more, x))
    BY <1>1, <1>3, <2>1, <2>2, <2>3, OneMorePiece
  <2>5. callsSent(p, more) = callsSent(p, sent)
    BY <1>1, <1>5
  <2>6. index \in {0, x} /\ (id # 0 \/ index # 0) /\ (p = "messages" => index = 0)
    BY <1>4
  <2>7. Filed(p, more, applyToolEvent(acc, e))
    BY <1>1, <1>2, <1>3, <1>5, <2>4, <2>5, <2>6, FiledMore DEF old
  <2> QED BY <2>7 DEF more, e
<1>6. CASE x \notin callsSent(p, sent)
  <2>1. id = x
    BY <1>1, <1>6
  <2>2. argumentsSent(more, x) = {n + 1} /\ piece.at = n + 1
    BY <1>1, <1>6 DEF n
  <2>3. inOrder(<<piece>>, argumentsSent(more, x))
    BY <2>2, FirstPiece
  <2>4. Filed(p, more, applyToolEvent(acc, e))
    BY <1>1, <1>2, <1>3, <1>6, <2>1, <2>3, FiledNew
  <2> QED BY <2>4 DEF more, e
<1> QED BY <1>5, <1>6

-----------------------------------------------------------------------------
(* The parsers.                                                            *)

\* A parser that is asked for the next frame.
Asked(p, sent, parser, events) ==
  /\ sent \in Seq(AllFrames) /\ parser \in ParsersOf(Nat) /\ events \in Seq(EventsOf(Nat))
  /\ ~parser.finished /\ parser.pending = <<>>
  /\ Wired(p, sent, parser, events)

LEMMA AskedFacts ==
  ASSUME NEW p, NEW sent, NEW parser, NEW events, Asked(p, sent, parser, events)
  PROVE  /\ Remembered(p, sent, parser)
         /\ Said(p, sent, parser, events)
         /\ Filed(p, sent, toolCallBuilders(events))
         /\ \A i \in DOMAIN events : events[i].kind # "done"
         /\ \A kind : /\ contentPieces(events, kind) \in Seq(PiecesOf(Nat))
                      /\ heldBack(parser, kind) \in Seq(PiecesOf(Nat))
                      /\ sentOf(sent, kind) \subseteq 1..Len(sent)
         /\ parser.buffer \in Seq(PiecesOf(Nat))
         /\ Len(sent) \in Nat
         /\ parser.pending = <<>>
<1>1. /\ sent \in Seq(AllFrames) /\ parser \in ParsersOf(Nat) /\ events \in Seq(EventsOf(Nat))
      /\ ~parser.finished /\ parser.pending = <<>>
      /\ Remembered(p, sent, parser) /\ EndSaid(sent, parser, events)
      /\ Said(p, sent, parser, events)
      /\ Filed(p, sent, toolCallBuilders(events))
  BY DEF Asked, Wired
<1>2. \A i \in DOMAIN events : events[i].kind # "done"
  BY <1>1, NoDoneYet
<1>3. parser.buffer \in Seq(PiecesOf(Nat)) /\ <<>> \in Seq(PiecesOf(Nat))
  BY <1>1, ParserFields
<1>4. ASSUME NEW kind
      PROVE  /\ contentPieces(events, kind) \in Seq(PiecesOf(Nat))
             /\ heldBack(parser, kind) \in Seq(PiecesOf(Nat))
             /\ sentOf(sent, kind) \subseteq 1..Len(sent)
  BY <1>1, <1>3, ContentTyped, SentBefore DEF heldBack
<1>5. Len(sent) \in Nat
  BY <1>1
<1> QED BY <1>1, <1>2, <1>3, <1>4, <1>5

\* Nothing is said by a frame that is neither text nor has tags, whatever else it adds.
LEMMA SaidStill ==
  ASSUME NEW p, NEW sent \in Seq(AllFrames), NEW parser, NEW events, Said(p, sent, parser, events),
         NEW f \in AllFrames, f.kind \notin {"text", "tag"}, NEW q, q.buffer = parser.buffer, q.inThink = parser.inThink,
         NEW all, \A kind \in ContentKinds : contentPieces(all, kind) = contentPieces(events, kind)
  PROVE  Said(p, Append(sent, f), q, all)
<1> DEFINE more == Append(sent, f)
<1>1. mode(q) = mode(parser) /\ \A kind : heldBack(q, kind) = heldBack(parser, kind)
  BY DEF mode, heldBack
<1>2. modeAt(more, Len(more) + 1) = modeAt(sent, Len(sent) + 1)
  BY ModeMore
<1>3. ASSUME NEW kind PROVE sentOf(more, kind) = sentOf(sent, kind)
  <2>1. ~says(sent, f, kind)
    BY DEF says
  <2> QED BY <2>1, MoreSaid
<1>4. \A i \in DOMAIN more : more[i] = f \/ (i \in DOMAIN sent /\ more[i] = sent[i])
  BY AppendFacts
<1> HIDE DEF more
<1>5. p # "chat" => \A i \in DOMAIN more : more[i].kind # "tag"
  BY <1>4 DEF Said
<1>6. Said(p, more, q, all)
  BY <1>1, <1>2, <1>3, <1>5 DEF Said
<1> QED BY <1>6 DEF more

LEMMA PairOfEvents ==
  ASSUME NEW a \in EventsOf(Nat), NEW b \in EventsOf(Nat)
  PROVE  /\ <<a>> \in Seq(EventsOf(Nat)) /\ <<b>> \in Seq(EventsOf(Nat)) /\ <<a>> \o <<b>> = <<a, b>>
         /\ Append(<<a>>, b) = <<a, b>>
<1>1. <<a>> \in Seq(EventsOf(Nat)) /\ <<b>> \in Seq(EventsOf(Nat)) /\ <<a, b>> \in Seq(EventsOf(Nat))
  OBVIOUS
<1> DEFINE s == <<a>> \o <<b>>
<1>2. s \in Seq(EventsOf(Nat)) /\ Len(s) = 2 /\ s[1] = a /\ s[2] = b
  <2>1. Len(<<a>>) = 1 /\ Len(<<b>>) = 1 /\ <<a>>[1] = a /\ <<b>>[1] = b
    OBVIOUS
  <2> QED BY <1>1, <2>1, ConcatProperties
<1>3. Len(<<a, b>>) = 2 /\ <<a, b>>[1] = a /\ <<a, b>>[2] = b
  OBVIOUS
<1> HIDE DEF s
<1>4. \A i \in 1..2 : s[i] = <<a, b>>[i]
  BY <1>2, <1>3
<1>5. s = <<a, b>>
  BY <1>1, <1>2, <1>3, <1>4, SeqEqual
<1>6. Append(<<a>>, b) = <<a>> \o <<b>>
  BY <1>1, AppendIsConcat
<1> QED BY <1>1, <1>5, <1>6 DEF s

LEMMA PendingEvents ==
  ASSUME NEW events \in Seq(EventsOf(Nat)), NEW a \in EventsOf(Nat), NEW b \in EventsOf(Nat)
  PROVE  /\ events \o <<>> = events
         /\ events \o <<a>> = Append(events, a) /\ Append(events, a) \in Seq(EventsOf(Nat))
         /\ events \o <<a, b>> = Append(Append(events, a), b)
<1>1. events \o <<>> = events /\ events \o <<a>> = Append(events, a) /\ Append(events, a) \in Seq(EventsOf(Nat))
  BY ConcatEmptySeq, AppendIsConcat, AppendProperties
<1>2. Append(Append(events, a), b) = (events \o <<a>>) \o <<b>>
  BY <1>1, AppendIsConcat
<1>3. <<a>> \in Seq(EventsOf(Nat)) /\ <<b>> \in Seq(EventsOf(Nat)) /\ <<a>> \o <<b>> = <<a, b>>
  BY PairOfEvents
<1>4. (events \o <<a>>) \o <<b>> = events \o (<<a>> \o <<b>>)
  BY <1>3, ConcatAssociative
<1> QED BY <1>1, <1>2, <1>3, <1>4

LEMMA EmitFields ==
  ASSUME NEW parser \in ParsersOf(Nat), NEW e \in EventsOf(Nat)
  PROVE  LET q == emit(parser, e)
         IN  /\ q \in ParsersOf(Nat)
             /\ parser.pending = <<>> => q.pending = <<e>>
             /\ q.pending = Append(parser.pending, e)
             /\ q.finished = parser.finished /\ q.stop = parser.stop /\ q.buffer = parser.buffer
             /\ q.inThink = parser.inThink /\ q.items = parser.items
<1>1. emit(parser, e) \in ParsersOf(Nat)
  BY EmitTyped
<1>2. LET q == emit(parser, e)
      IN  /\ q.pending = Append(parser.pending, e)
          /\ q.finished = parser.finished /\ q.stop = parser.stop /\ q.buffer = parser.buffer
          /\ q.inThink = parser.inThink /\ q.items = parser.items
  BY DEF emit, ParsersOf
<1>3. Append(<<>>, e) = <<e>>
  OBVIOUS
<1> QED BY <1>1, <1>2, <1>3

\* Nothing is emitted, and nothing was sent that the properties speak of.
LEMMA WiredStill ==
  ASSUME NEW p, NEW sent, NEW parser, NEW events, Asked(p, sent, parser, events), NEW f \in AllFrames, NEW q,
         f.kind \notin {"text", "tag"}, q.pending = <<>>, q.buffer = parser.buffer, q.inThink = parser.inThink,
         Remembered(p, Append(sent, f), q),
         callsSent(p, Append(sent, f)) = callsSent(p, sent),
         \A x : argumentsSent(Append(sent, f), x) = argumentsSent(sent, x)
  PROVE  Wired(p, Append(sent, f), q, events \o q.pending)
<1> DEFINE more == Append(sent, f)
<1>1. sent \in Seq(AllFrames) /\ events \in Seq(EventsOf(Nat)) /\ Said(p, sent, parser, events)
  BY AskedFacts DEF Asked
<1>2. Said(p, more, q, events)
  BY <1>1, SaidStill
<1> HIDE DEF more
<1>3. events \o q.pending = events
  BY <1>1, ConcatEmptySeq
<1>4. EndSaid(more, q, events)
  BY <1>1, AskedFacts, StillNoDone
<1>5. Filed(p, more, toolCallBuilders(events))
  BY AskedFacts, FiledSame DEF more
<1>6. Wired(p, more, q, events)
  BY <1>2, <1>4, <1>5 DEF Wired, more
<1> QED BY <1>3, <1>6 DEF more

\* One event is emitted that is neither text nor the terminal event.
LEMMA WiredEvent ==
  ASSUME NEW p, NEW sent, NEW parser, NEW events, Asked(p, sent, parser, events), NEW f \in AllFrames, NEW q,
         NEW e \in EventsOf(Nat), e.kind \notin {"text", "thinking", "done"}, q.pending = <<e>>,
         f.kind \notin {"text", "tag"}, q.buffer = parser.buffer, q.inThink = parser.inThink,
         Remembered(p, Append(sent, f), q),
         Filed(p, Append(sent, f), applyToolEvent(toolCallBuilders(events), e))
  PROVE  Wired(p, Append(sent, f), q, events \o q.pending)
<1> DEFINE more == Append(sent, f)
           all == Append(events, e)
<1>1. sent \in Seq(AllFrames) /\ events \in Seq(EventsOf(Nat)) /\ Said(p, sent, parser, events)
  BY AskedFacts DEF Asked
<1>2. events \o q.pending = all
  BY <1>1, PendingEvents
<1>3. EndSaid(more, q, all)
  BY <1>1, AskedFacts, StillNoDone
<1>4. Filed(p, more, toolCallBuilders(all))
  BY <1>1, BuildersAppend
<1>5. \A kind \in ContentKinds : contentPieces(all, kind) = contentPieces(events, kind)
  BY <1>1, QuietEvent DEF ContentKinds
<1> HIDE DEF all
<1>6. Said(p, more, q, all)
  BY <1>1, <1>5, SaidStill
<1>7. Wired(p, more, q, all)
  BY <1>3, <1>4, <1>6 DEF Wired
<1> QED BY <1>2, <1>7

\* The terminal event, after what was held back: flushed, if there is any.
LEMMA WiredEnd ==
  ASSUME NEW p, NEW sent, NEW parser, NEW events, Asked(p, sent, parser, events), NEW f \in AllFrames, f.kind = "end",
         NEW q, q.finished, q.buffer = <<>>, q.inThink = parser.inThink, Remembered(p, Append(sent, f), q),
         NEW flushed \in Seq(EventsOf(Nat)), \A i \in DOMAIN flushed : flushed[i].kind # "done",
         \A kind \in ContentKinds :
           contentPieces(flushed, kind) = contentPieces(events, kind) \o heldBack(parser, kind),
         toolCallBuilders(flushed) = toolCallBuilders(events),
         NEW d \in EventsOf(Nat), d.kind = "done", d.stop = f.stop, events \o q.pending = Append(flushed, d)
  PROVE  Wired(p, Append(sent, f), q, events \o q.pending)
<1> DEFINE more == Append(sent, f)
           all == Append(flushed, d)
<1>1. sent \in Seq(AllFrames) /\ events \in Seq(EventsOf(Nat)) /\ Said(p, sent, parser, events)
  BY AskedFacts DEF Asked
<1>2. EndSaid(more, q, all)
  BY <1>1, NowDone
<1>3. /\ \A kind \in ContentKinds : contentPieces(all, kind) = contentPieces(flushed, kind)
      /\ toolCallBuilders(all) = toolCallBuilders(events)
  BY QuietEvent DEF ContentKinds
<1>4. Filed(p, more, toolCallBuilders(all))
  <2>1. callsSent(p, more) = callsSent(p, sent) /\ \A x : argumentsSent(more, x) = argumentsSent(sent, x)
    BY <1>1, QuietFrame
  <2> HIDE DEF more, all
  <2> QED BY <1>3, <2>1, AskedFacts, FiledSame
<1> HIDE DEF all
<1>5. Said(p, more, q, all)
  <2> DEFINE rest == [buffer |-> parser.buffer, inThink |-> parser.inThink]
  <2>1. rest.buffer = parser.buffer /\ rest.inThink = parser.inThink
    OBVIOUS
  <2> HIDE DEF rest
  <2>2. Said(p, more, rest, events)
    BY <1>1, <2>1, SaidStill
  <2>3. mode(q) = mode(rest) /\ \A kind : heldBack(rest, kind) = heldBack(parser, kind) /\ heldBack(q, kind) = <<>>
    BY <2>1 DEF mode, heldBack
  <2> HIDE DEF more
  <2>4. ASSUME NEW kind \in ContentKinds
        PROVE  inOrder(contentPieces(all, kind) \o heldBack(q, kind), sentOf(more, kind))
    <3> DEFINE content == contentPieces(events, kind)
               kept == heldBack(parser, kind)
    <3>1. content \in Seq(PiecesOf(Nat)) /\ kept \in Seq(PiecesOf(Nat))
      BY AskedFacts
    <3>2. inOrder(content \o kept, sentOf(more, kind))
      BY <2>2, <2>3 DEF Said
    <3>3. contentPieces(all, kind) \o heldBack(q, kind) = (content \o kept) \o <<>>
      BY <1>3, <2>3
    <3> HIDE DEF content, kept
    <3>4. (content \o kept) \o <<>> = content \o kept
      BY <3>1, TextFlushed
    <3> QED BY <3>2, <3>3, <3>4
  <2> QED BY <2>2, <2>3, <2>4 DEF Said
<1>6. Wired(p, more, q, all)
  BY <1>2, <1>4, <1>5 DEF Wired
<1> QED BY <1>6 DEF all

LEMMA TextFields ==
  ASSUME NEW pieces \in Seq(PiecesOf(Nat))
  PROVE  /\ Text(pieces) \in EventsOf(Nat) /\ Text(pieces).kind = "text" /\ Text(pieces).pieces = pieces
         /\ Thinking(pieces) \in EventsOf(Nat) /\ Thinking(pieces).kind = "thinking" /\ Thinking(pieces).pieces = pieces
<1>1. 0 \in Nat /\ "" \in StopReasons /\ <<>> \in Errors
  BY NilError DEF StopReasons
<1>2. Text(pieces) \in EventsOf(Nat) /\ Thinking(pieces) \in EventsOf(Nat)
  BY <1>1, EventsTyped
<1> QED BY <1>2 DEF Text, Thinking, NoEvent

LEMMA DoneFields ==
  ASSUME NEW stop \in StopReasons
  PROVE  EventDone(stop) \in EventsOf(Nat) /\ EventDone(stop).kind = "done" /\ EventDone(stop).stop = stop
<1>1. 0 \in Nat /\ <<>> \in Errors /\ <<>> \in Seq(PiecesOf(Nat))
  BY NilError
<1>2. EventDone(stop) \in EventsOf(Nat)
  BY <1>1, EventsTyped
<1> QED BY <1>2 DEF EventDone, NoEvent

LEMMA DeltaTyped ==
  ASSUME NEW id \in Nat, NEW index \in Nat, NEW pieces \in Seq(PiecesOf(Nat))
  PROVE  ToolCallDelta(id, index, pieces) \in EventsOf(Nat) /\ ToolCallDelta(id, index, pieces).kind = "delta"
<1>1. "" \in StopReasons /\ <<>> \in Errors
  BY NilError DEF StopReasons
<1>2. ToolCallDelta(id, index, pieces) \in EventsOf(Nat)
  BY <1>1, EventsTyped
<1> QED BY <1>2, DeltaFields

LEMMA ConcatAppend ==
  ASSUME NEW a \in Seq(EventsOf(Nat)), NEW b \in Seq(EventsOf(Nat)), NEW e \in EventsOf(Nat)
  PROVE  a \o Append(b, e) = Append(a \o b, e)
<1>1. <<e>> \in Seq(EventsOf(Nat)) /\ a \o b \in Seq(EventsOf(Nat))
  OBVIOUS
<1>2. Append(b, e) = b \o <<e>> /\ Append(a \o b, e) = (a \o b) \o <<e>>
  BY <1>1, AppendIsConcat
<1>3. (a \o b) \o <<e>> = a \o (b \o <<e>>)
  BY <1>1, ConcatAssociative
<1> QED BY <1>2, <1>3

\* What a parser queues is added to the content of its kind, and to nothing else.
Queued(parser, events, k, pieces, q) ==
  /\ q \in ParsersOf(Nat)
  /\ q.buffer = parser.buffer /\ q.inThink = parser.inThink /\ q.stop = parser.stop /\ q.items = parser.items
  /\ events \o q.pending \in Seq(EventsOf(Nat))
  /\ \A i \in DOMAIN (events \o q.pending) : (events \o q.pending)[i].kind # "done"
  /\ toolCallBuilders(events \o q.pending) = toolCallBuilders(events \o parser.pending)
  /\ contentPieces(events \o q.pending, k) = contentPieces(events \o parser.pending, k) \o pieces
  /\ \A kind : kind # k => contentPieces(events \o q.pending, kind) = contentPieces(events \o parser.pending, kind)

LEMMA QueueAdds ==
  ASSUME NEW parser \in ParsersOf(Nat), NEW events \in Seq(EventsOf(Nat)), NEW k \in ContentKinds,
         NEW pieces \in Seq(PiecesOf(Nat)),
         \A i \in DOMAIN (events \o parser.pending) : (events \o parser.pending)[i].kind # "done"
  PROVE  Queued(parser, events, k, pieces, queue(parser, k, pieces))
<1> DEFINE old == events \o parser.pending
           q == queue(parser, k, pieces)
           all == events \o q.pending
           e == IF k = "thinking" THEN Thinking(pieces) ELSE Text(pieces)
<1>0. old = events \o parser.pending /\ all = events \o q.pending /\ \A i \in DOMAIN old : old[i].kind # "done"
  OBVIOUS
<1>1. parser.pending \in Seq(EventsOf(Nat)) /\ old \in Seq(EventsOf(Nat))
  BY ParserFields
<1>2. e \in EventsOf(Nat) /\ e.kind = k /\ e.pieces = pieces
  BY TextFields DEF ContentKinds
<1>3. q = IF pieces = <<>> THEN parser ELSE emit(parser, e)
  BY DEF queue
<1> HIDE DEF e, q, old, all
<1>4. CASE pieces = <<>>
  <2>1. contentPieces(old, k) \in Seq(PiecesOf(Nat))
    BY <1>1, ContentTyped
  <2>2. contentPieces(old, k) \o <<>> = contentPieces(old, k)
    BY <2>1, ConcatEmptySeq
  <2>3. q = parser /\ all = old
    BY <1>0, <1>3, <1>4
  <2>4. Queued(parser, events, k, pieces, q)
    BY <1>0, <1>1, <1>4, <2>2, <2>3 DEF Queued
  <2> QED BY <2>4 DEF q
<1>5. CASE pieces # <<>>
  <2>1. /\ q \in ParsersOf(Nat) /\ q.pending = Append(parser.pending, e)
        /\ q.buffer = parser.buffer /\ q.inThink = parser.inThink /\ q.stop = parser.stop /\ q.items = parser.items
    BY ONLY parser \in ParsersOf(Nat), <1>2, <1>3, <1>5, EmitFields
  <2>2. all = Append(old, e)
    BY <1>0, <1>1, <1>2, <2>1, ConcatAppend
  <2>3. all \in Seq(EventsOf(Nat))
    BY <1>1, <1>2, <2>2, AppendFacts
  <2>4. k \notin {"done", "delta", "call"}
    BY DEF ContentKinds
  <2>5. \A i \in DOMAIN all : all[i].kind # "done"
    BY <1>1, <1>2, <2>2, <2>4, <1>0, StillNoDone
  <2>6. /\ toolCallBuilders(all) = toolCallBuilders(old)
        /\ contentPieces(all, k) = contentPieces(old, k) \o pieces
        /\ \A kind : kind # k => contentPieces(all, kind) = contentPieces(old, kind)
    BY ONLY <1>1, <1>2, <2>2, <2>4, QuietEvent
  <2>7. Queued(parser, events, k, pieces, q)
    BY <1>0, <2>1, <2>3, <2>5, <2>6 DEF Queued
  <2> QED BY <2>7 DEF q
<1> QED BY <1>4, <1>5

\* The content of a kind after a delta: what was held back of it comes before what the delta has of it.
LEMMA SaidDelta ==
  ASSUME NEW sent \in Seq(AllFrames), NEW parser, NEW events, Asked("chat", sent, parser, events),
         NEW f \in AllFrames, f.kind \in {"text", "tag"}, NEW piece \in PiecesOf(Nat), piece.at = Len(sent) + 1,
         NEW q, q.buffer = (IF f.kind = "text" /\ f.held THEN <<piece>> ELSE <<>>),
         q.inThink = (IF f.kind = "tag" THEN f.inside ELSE parser.inThink), NEW kind \in ContentKinds
  PROVE  inOrder((contentPieces(events, kind) \o splitter_process(parser, f, piece, kind)) \o heldBack(q, kind),
                 sentOf(Append(sent, f), kind))
<1> DEFINE content == contentPieces(events, kind)
           kept == heldBack(parser, kind)
           own == IF carries(parser, f, kind) THEN <<piece>> ELSE <<>>
           set == sentOf(sent, kind)
           all == sentOf(Append(sent, f), kind)
           n == Len(sent)
<1>1. /\ content \in Seq(PiecesOf(Nat)) /\ kept \in Seq(PiecesOf(Nat)) /\ n \in Nat /\ set \subseteq 1..n
      /\ inOrder(content \o kept, set) /\ mode(parser) = modeAt(sent, n + 1)
  BY AskedFacts DEF Said
<1>2. splitter_process(parser, f, piece, kind) = kept \o own
  BY DEF splitter_process, heldBack
<1>3. all = IF says(sent, f, kind) THEN set \cup {n + 1} ELSE set
  BY MoreSaid
<1>4. piece.at = n + 1
  OBVIOUS
<1>5. f.kind = "text" => mode(q) = mode(parser)
  BY DEF mode
<1> HIDE DEF content, kept, set, all, n
<1>6. kept \o <<>> = kept /\ Append(kept, piece) = kept \o <<piece>>
  BY <1>1, ConcatEmptySeq, AppendIsConcat
<1>7. CASE carries(parser, f, kind)
  <2>1. says(sent, f, kind)
    BY <1>1, <1>7 DEF carries, says, n
  <2>2. heldBack(q, kind) = <<>>
    BY <1>7 DEF heldBack, carries
  <2>3. inOrder((content \o Append(kept, piece)) \o <<>>, set \cup {n + 1})
    BY <1>1, <1>4, TextMore
  <2>4. own = <<piece>>
    BY <1>7
  <2> QED BY <1>2, <1>3, <1>6, <2>1, <2>2, <2>3, <2>4 DEF all, content
<1>8. CASE ~carries(parser, f, kind) /\ f.kind = "text" /\ f.held /\ kind = mode(parser)
  <2>1. says(sent, f, kind)
    BY <1>1, <1>8 DEF says, n
  <2>2. heldBack(q, kind) = <<piece>>
    BY <1>5, <1>8 DEF heldBack
  <2>3. inOrder((content \o kept) \o <<piece>>, set \cup {n + 1})
    BY <1>1, <1>4, TextMore
  <2>4. own = <<>>
    BY <1>8
  <2> QED BY <1>2, <1>3, <1>6, <2>1, <2>2, <2>3, <2>4 DEF all, content
<1>9. CASE ~carries(parser, f, kind) /\ ~(f.kind = "text" /\ f.held /\ kind = mode(parser))
  <2>1. ~says(sent, f, kind)
    BY <1>1, <1>9 DEF carries, says, n
  <2>2. heldBack(q, kind) = <<>>
    BY <1>5, <1>9 DEF heldBack, carries
  <2>3. (content \o kept) \o <<>> = content \o kept
    BY <1>1, TextFlushed
  <2>4. own = <<>>
    BY <1>9
  <2> QED BY <1>1, <1>2, <1>3, <1>6, <2>1, <2>2, <2>3, <2>4 DEF all, content
<1> QED BY <1>7, <1>8, <1>9

LEMMA ProcessWired ==
  ASSUME NEW sent, NEW parser, NEW events, Asked("chat", sent, parser, events), NEW f \in WireFrames,
         f.kind \in {"text", "tag"}, NEW piece \in PiecesOf(Nat), piece.at = Len(sent) + 1
  PROVE  LET q == processChoiceDelta(parser, f, piece)
         IN  Wired("chat", Append(sent, f), q, events \o q.pending)
<1> DEFINE after == splitter_after(parser, f, piece)
           thought == splitter_process(parser, f, piece, "thinking")
           said == splitter_process(parser, f, piece, "text")
           first == queue(after, "thinking", thought)
           q == queue(first, "text", said)
           half == events \o first.pending
           all == events \o q.pending
           more == Append(sent, f)
<1>1. /\ sent \in Seq(AllFrames) /\ parser \in ParsersOf(Nat) /\ events \in Seq(EventsOf(Nat))
      /\ Remembered("chat", sent, parser) /\ parser.pending = <<>> /\ f \in AllFrames
      /\ \A i \in DOMAIN events : events[i].kind # "done"
  BY AskedFacts DEF Asked, AllFrames
<1>2. f.kind = "tag" => f.inside \in BOOLEAN
  BY WireFrameFields
<1>3. after \in ParsersOf(Nat) /\ thought \in Seq(PiecesOf(Nat)) /\ said \in Seq(PiecesOf(Nat))
  BY <1>1, <1>2, SplitterTyped
<1>4. /\ after.pending = <<>> /\ after.items = parser.items /\ after.stop = parser.stop
      /\ after.buffer = (IF f.kind = "text" /\ f.held THEN <<piece>> ELSE <<>>)
      /\ after.inThink = (IF f.kind = "tag" THEN f.inside ELSE parser.inThink)
  BY <1>1 DEF splitter_after, ParsersOf
<1>5. processChoiceDelta(parser, f, piece) = q
  BY DEF processChoiceDelta
<1>6. "text" \in ContentKinds /\ "thinking" \in ContentKinds /\ "text" # "thinking"
  BY DEF ContentKinds
<1> HIDE DEF after
<1>7. events \o after.pending = events
  BY <1>1, <1>4, ConcatEmptySeq
<1>8. /\ first \in ParsersOf(Nat) /\ first.buffer = after.buffer /\ first.inThink = after.inThink
      /\ first.stop = after.stop /\ first.items = after.items
      /\ half \in Seq(EventsOf(Nat)) /\ \A i \in DOMAIN half : half[i].kind # "done"
      /\ toolCallBuilders(half) = toolCallBuilders(events)
      /\ contentPieces(half, "thinking") = contentPieces(events, "thinking") \o thought
      /\ contentPieces(half, "text") = contentPieces(events, "text")
  <2>1. first = queue(after, "thinking", thought) /\ half = events \o first.pending
    OBVIOUS
  <2> HIDE DEF thought, first, half
  <2>2. /\ first \in ParsersOf(Nat) /\ first.buffer = after.buffer /\ first.inThink = after.inThink
        /\ first.stop = after.stop /\ first.items = after.items
        /\ half \in Seq(EventsOf(Nat)) /\ \A i \in DOMAIN half : half[i].kind # "done"
        /\ toolCallBuilders(half) = toolCallBuilders(events)
        /\ contentPieces(half, "thinking") = contentPieces(events, "thinking") \o thought
        /\ \A kind : kind # "thinking" => contentPieces(half, kind) = contentPieces(events, kind)
    <3>1. Queued(after, events, "thinking", thought, queue(after, "thinking", thought))
      BY <1>1, <1>3, <1>6, <1>7, QueueAdds
    <3> QED BY <1>7, <2>1, <3>1 DEF Queued
  <2> QED BY <1>6, <2>2
<1> HIDE DEF first
<1>9. /\ q.buffer = first.buffer /\ q.inThink = first.inThink /\ q.stop = first.stop /\ q.items = first.items
      /\ all \in Seq(EventsOf(Nat)) /\ \A i \in DOMAIN all : all[i].kind # "done"
      /\ toolCallBuilders(all) = toolCallBuilders(half)
      /\ contentPieces(all, "text") = contentPieces(half, "text") \o said
      /\ contentPieces(all, "thinking") = contentPieces(half, "thinking")
  <2>1. half = events \o first.pending /\ q = queue(first, "text", said) /\ all = events \o q.pending
    OBVIOUS
  <2> HIDE DEF said, half, q, all
  <2>2. /\ q.buffer = first.buffer /\ q.inThink = first.inThink /\ q.stop = first.stop /\ q.items = first.items
        /\ all \in Seq(EventsOf(Nat)) /\ \A i \in DOMAIN all : all[i].kind # "done"
        /\ toolCallBuilders(all) = toolCallBuilders(half)
        /\ contentPieces(all, "text") = contentPieces(half, "text") \o said
        /\ \A kind : kind # "text" => contentPieces(all, kind) = contentPieces(half, kind)
    <3>1. Queued(first, events, "text", said, queue(first, "text", said))
      BY <1>1, <1>3, <1>6, <1>8, <2>1, QueueAdds
    <3> QED BY <2>1, <3>1 DEF Queued
  <2> QED BY <1>6, <2>2
<1> HIDE DEF q, half, all
<1>10. /\ q.items = parser.items /\ q.stop = parser.stop
       /\ q.buffer = (IF f.kind = "text" /\ f.held THEN <<piece>> ELSE <<>>)
       /\ q.inThink = (IF f.kind = "tag" THEN f.inside ELSE parser.inThink)
  BY <1>4, <1>8, <1>9
<1>11. ASSUME NEW kind \in ContentKinds
       PROVE  /\ contentPieces(all, kind) = contentPieces(events, kind) \o splitter_process(parser, f, piece, kind)
              /\ inOrder(contentPieces(all, kind) \o heldBack(q, kind), sentOf(more, kind))
  <2>1. contentPieces(all, kind) = contentPieces(events, kind) \o splitter_process(parser, f, piece, kind)
    BY <1>8, <1>9 DEF ContentKinds
  <2>2. inOrder((contentPieces(events, kind) \o splitter_process(parser, f, piece, kind)) \o heldBack(q, kind),
                sentOf(Append(sent, f), kind))
    BY <1>1, <1>10, SaidDelta
  <2> QED BY <2>1, <2>2
<1>12. mode(q) = modeAt(more, Len(more) + 1)
  <2>1. mode(parser) = modeAt(sent, Len(sent) + 1)
    BY AskedFacts DEF Said
  <2>2. mode(q) = IF f.kind = "tag" THEN (IF f.inside THEN "thinking" ELSE "text") ELSE mode(parser)
    BY <1>10 DEF mode
  <2> QED BY <1>1, <2>1, <2>2, ModeMore
<1>13. Said("chat", more, q, all)
  <2> HIDE DEF more
  <2> QED BY <1>11, <1>12 DEF Said
<1>14. Remembered("chat", more, q)
  BY <1>1, <1>10, RememberedSame
<1>15. EndSaid(more, q, all)
  BY <1>9, StillNoDone
<1>16. Filed("chat", more, toolCallBuilders(all))
  <2>1. callsSent("chat", more) = callsSent("chat", sent) /\ \A x : argumentsSent(more, x) = argumentsSent(sent, x)
    BY <1>1, QuietFrame
  <2>2. toolCallBuilders(all) = toolCallBuilders(events)
    BY <1>8, <1>9
  <2> HIDE DEF more
  <2> QED BY <2>1, <2>2, AskedFacts, FiledSame
<1>17. Wired("chat", more, q, all)
  BY <1>13, <1>14, <1>15, <1>16 DEF Wired
<1> QED BY <1>5, <1>17 DEF all

LEMMA DoneMarkerWired ==
  ASSUME NEW sent, NEW parser, NEW events, Asked("chat", sent, parser, events), NEW f \in AllFrames, f.kind = "end",
         parser.stop = f.stop
  PROVE  LET q == handleDoneMarker(parser)
         IN  Wired("chat", Append(sent, f), q, events \o q.pending)
<1> DEFINE d == EventDone(parser.stop)
           flushed == queue(parser, mode(parser), parser.buffer)
           said == events \o flushed.pending
           ended == emit(flushed, d)
           q == handleDoneMarker(parser)
           more == Append(sent, f)
<1>1. /\ sent \in Seq(AllFrames) /\ parser \in ParsersOf(Nat) /\ events \in Seq(EventsOf(Nat))
      /\ Remembered("chat", sent, parser) /\ parser.buffer \in Seq(PiecesOf(Nat)) /\ parser.pending = <<>>
      /\ parser.stop \in StopReasons /\ \A i \in DOMAIN events : events[i].kind # "done"
  BY AskedFacts, ParserFields DEF Asked
<1>2. d \in EventsOf(Nat) /\ d.kind = "done" /\ d.stop = f.stop
  BY <1>1, DoneFields
<1>3. q = [ended EXCEPT !.finished = TRUE, !.buffer = <<>>]
  BY DEF handleDoneMarker
<1> HIDE DEF d
<1>4. events \o parser.pending = events /\ mode(parser) \in ContentKinds
  BY <1>1, ConcatEmptySeq DEF mode, ContentKinds
<1>5. /\ flushed \in ParsersOf(Nat) /\ flushed.items = parser.items /\ flushed.stop = parser.stop
      /\ flushed.inThink = parser.inThink
      /\ said \in Seq(EventsOf(Nat)) /\ \A i \in DOMAIN said : said[i].kind # "done"
      /\ toolCallBuilders(said) = toolCallBuilders(events)
      /\ contentPieces(said, mode(parser)) = contentPieces(events, mode(parser)) \o parser.buffer
      /\ \A kind : kind # mode(parser) => contentPieces(said, kind) = contentPieces(events, kind)
  <2>1. flushed = queue(parser, mode(parser), parser.buffer) /\ said = events \o flushed.pending
    OBVIOUS
  <2> HIDE DEF flushed, said
  <2>2. Queued(parser, events, mode(parser), parser.buffer, queue(parser, mode(parser), parser.buffer))
    BY <1>1, <1>4, QueueAdds
  <2> QED BY <1>4, <2>1, <2>2 DEF Queued
<1> HIDE DEF flushed
<1>6. /\ ended \in ParsersOf(Nat) /\ ended.items = parser.items /\ ended.stop = parser.stop
      /\ ended.inThink = parser.inThink /\ ended.pending = Append(flushed.pending, d)
  BY <1>2, <1>5, EmitFields
<1> HIDE DEF ended
<1>7. /\ q.finished /\ q.buffer = <<>> /\ q.pending = Append(flushed.pending, d)
      /\ q.items = parser.items /\ q.stop = parser.stop /\ q.inThink = parser.inThink
  BY <1>3, <1>6 DEF ParsersOf
<1> HIDE DEF q
<1>8. Remembered("chat", more, q)
  BY <1>1, <1>7, RememberedSame
<1>9. events \o q.pending = Append(said, d)
  <2>1. flushed.pending \in Seq(EventsOf(Nat))
    BY <1>5, ParserFields
  <2> QED BY <1>1, <1>2, <1>7, <2>1, ConcatAppend
<1> HIDE DEF said
<1>10. ASSUME NEW kind \in ContentKinds
       PROVE  contentPieces(said, kind) = contentPieces(events, kind) \o heldBack(parser, kind)
  <2>1. contentPieces(events, kind) \o <<>> = contentPieces(events, kind)
    BY AskedFacts, ConcatEmptySeq
  <2> QED BY <1>5, <2>1 DEF heldBack
<1>11. Wired("chat", more, q, events \o q.pending)
  BY <1>2, <1>5, <1>7, <1>8, <1>9, <1>10, WiredEnd
<1> QED BY <1>11 DEF q

LEMMA NoArgumentsBeforeCall ==
  ASSUME NEW p, NEW sent, NEW parser, Remembered(p, sent, parser), NEW x, ~sends(sent, "call", x)
  PROVE  ~sends(sent, "args", x) /\ ~sends(sent, "itemDone", x)
<1>1. ASSUME NEW i \in DOMAIN sent, sent[i].kind \in {"args", "itemDone"} PROVE sent[i].item # x
  BY <1>1 DEF Remembered
<1> QED BY <1>1 DEF sends

\* A frame of which this parser makes nothing.
LEMMA WiredIgnored ==
  ASSUME NEW p, NEW sent, NEW parser, NEW events, Asked(p, sent, parser, events), NEW f \in AllFrames, NEW q,
         f.kind \notin {"text", "tag", "call", "args", "itemDone", "finish"}, q.pending = <<>>, q.buffer = parser.buffer,
         q.inThink = parser.inThink, q.items = parser.items, q.stop = parser.stop
  PROVE  Wired(p, Append(sent, f), q, events \o q.pending)
<1>1. sent \in Seq(AllFrames) /\ Remembered(p, sent, parser)
  BY AskedFacts DEF Asked
<1>2. p # "chat" => q.buffer = <<>>
  BY <1>1 DEF Remembered
<1>3. Remembered(p, Append(sent, f), q)
  BY <1>1, <1>2, RememberedSame
<1>4. callsSent(p, Append(sent, f)) = callsSent(p, sent) /\ \A x : argumentsSent(Append(sent, f), x) = argumentsSent(sent, x)
  BY <1>1, QuietFrame
<1> QED BY <1>3, <1>4, WiredStill

\* The reason to stop, for the terminal event.
LEMMA WiredFinish ==
  ASSUME NEW p, NEW sent, NEW parser, NEW events, Asked(p, sent, parser, events), NEW f \in AllFrames, f.kind = "finish",
         mayFollow(p, sent, f)
  PROVE  LET q == [parser EXCEPT !.stop = f.stop]
         IN  Wired(p, Append(sent, f), q, events \o q.pending)
<1> DEFINE q == [parser EXCEPT !.stop = f.stop]
<1>1. /\ sent \in Seq(AllFrames) /\ parser \in ParsersOf(Nat) /\ Remembered(p, sent, parser) /\ parser.pending = <<>>
      /\ p # "responses" /\ \A i \in DOMAIN sent : sent[i].kind # "finish"
  BY AskedFacts, MayFollow DEF Asked
<1>2. q.pending = <<>> /\ q.buffer = parser.buffer /\ q.inThink = parser.inThink /\ q.items = parser.items /\ q.stop = f.stop
  BY <1>1 DEF ParsersOf
<1> HIDE DEF q
<1>3. /\ p # "chat" => q.buffer = <<>>
      /\ p # "chat" => \A x \in Items : sends(sent, "call", x) => q.items[x].id = x
  BY <1>1, <1>2 DEF Remembered
<1>4. Remembered(p, Append(sent, f), q)
  BY <1>1, <1>2, <1>3, RememberedMore
<1>5. callsSent(p, Append(sent, f)) = callsSent(p, sent) /\ \A x : argumentsSent(Append(sent, f), x) = argumentsSent(sent, x)
  BY <1>1, QuietFrame
<1>6. Wired(p, Append(sent, f), q, events \o q.pending)
  BY <1>2, <1>4, <1>5, WiredStill
<1> QED BY <1>6 DEF q

LEMMA FinishStop ==
  ASSUME NEW p, p # "responses", NEW sent, NEW parser, Remembered(p, sent, parser), NEW f, f.kind = "end",
         mayFollow(p, sent, f)
  PROVE  parser.stop = f.stop
<1>1. PICK i \in DOMAIN sent : sent[i].kind = "finish" /\ sent[i].stop = f.stop
  BY MayFollow
<1> QED BY <1>1 DEF Remembered

LEMMA ChatWired ==
  ASSUME NEW sent, NEW parser, NEW events, Asked("chat", sent, parser, events), NEW f \in WireFrames,
         mayFollow("chat", sent, f), NEW piece \in PiecesOf(Nat), piece.at = Len(sent) + 1,
         chat(parser, f, piece).err = <<>>
  PROVE  LET q == chat(parser, f, piece).parser
         IN  Wired("chat", Append(sent, f), q, events \o q.pending)
<1> DEFINE out == chat(parser, f, piece)
           q == out.parser
           more == Append(sent, f)
           x == f.item
<1>1. /\ sent \in Seq(AllFrames) /\ parser \in ParsersOf(Nat) /\ events \in Seq(EventsOf(Nat))
      /\ Remembered("chat", sent, parser) /\ parser.pending = <<>> /\ f \in AllFrames
      /\ Filed("chat", sent, toolCallBuilders(events))
  BY AskedFacts DEF Asked, AllFrames
<1>2. CASE f.kind \in {"text", "tag"}
  <2>1. q = processChoiceDelta(parser, f, piece)
    BY <1>2 DEF chat, Outcome
  <2> QED BY <1>1, <1>2, <2>1, ProcessWired
<1>4. CASE f.kind = "call"
  <2> DEFINE e == ToolCallDelta(x, x, <<>>)
  <2>1. x \in Items /\ ~sends(sent, "call", x) /\ x \in Nat
    BY <1>4, MayFollow, WireFrameFields, ItemsAreNumbers
  <2>2. ~sends(sent, "args", x) /\ ~sends(sent, "itemDone", x)
    BY <1>1, <2>1, NoArgumentsBeforeCall
  <2>3. q = emit(parser, e)
    BY <1>4 DEF chat, Outcome
  <2>4. e \in EventsOf(Nat) /\ e.kind = "delta"
    BY <2>1, DeltaTyped, EmptySeq
  <2>5. Filed("chat", more, applyToolEvent(toolCallBuilders(events), e))
    BY <1>1, <1>4, <2>1, <2>2, FiledCall
  <2> HIDE DEF e, q
  <2>6. q.pending = <<e>> /\ q.buffer = parser.buffer /\ q.inThink = parser.inThink /\ q.items = parser.items /\ q.stop = parser.stop
    BY <1>1, <2>3, <2>4, EmitFields
  <2>7. Remembered("chat", more, q)
    BY <1>1, <1>4, <2>6, RememberedMore
  <2>8. Wired("chat", more, q, events \o q.pending)
    BY <1>1, <1>4, <2>4, <2>5, <2>6, <2>7, WiredEvent
  <2> QED BY <2>8 DEF q
<1>5. CASE f.kind = "args"
  <2> DEFINE e == ToolCallDelta(0, x, <<piece>>)
  <2>1. x \in Items /\ sends(sent, "call", x) /\ ~sends(sent, "itemDone", x) /\ x \in Nat
    BY <1>5, MayFollow, WireFrameFields, ItemsAreNumbers
  <2>2. q = emit(parser, e)
    BY <1>5 DEF chat, Outcome
  <2>3. e \in EventsOf(Nat) /\ e.kind = "delta"
    <3>1. <<piece>> \in Seq(PiecesOf(Nat)) /\ 0 \in Nat
      OBVIOUS
    <3> QED BY <2>1, <3>1, DeltaTyped
  <2>4. Filed("chat", more, applyToolEvent(toolCallBuilders(events), e))
    BY <1>1, <1>5, <2>1, FiledArguments
  <2> HIDE DEF e, q
  <2>5. q.pending = <<e>> /\ q.buffer = parser.buffer /\ q.inThink = parser.inThink /\ q.items = parser.items /\ q.stop = parser.stop
    BY <1>1, <2>2, <2>3, EmitFields
  <2>6. Remembered("chat", more, q)
    BY <1>1, <1>5, <2>1, <2>5, RememberedMore
  <2>7. Wired("chat", more, q, events \o q.pending)
    BY <1>1, <1>5, <2>3, <2>4, <2>5, <2>6, WiredEvent
  <2> QED BY <2>7 DEF q
<1>6. CASE f.kind = "finish"
  <2>1. q = [parser EXCEPT !.stop = f.stop]
    BY <1>6 DEF chat, Outcome
  <2> QED BY <1>1, <1>6, <2>1, WiredFinish
<1>7. CASE f.kind = "end"
  <2>1. q = handleDoneMarker(parser)
    BY <1>7 DEF chat, Outcome
  <2>2. parser.stop = f.stop
    BY <1>1, <1>7, FinishStop
  <2> QED BY <1>1, <1>7, <2>1, <2>2, DoneMarkerWired
<1>8. CASE f.kind \in {"failed", "rejected"}
  <2>1. out.err = apiError(f)
    BY <1>8 DEF chat, Outcome
  <2>2. apiError(f) # <<>>
    BY DEF apiError
  <2> QED BY <2>1, <2>2
<1>9. CASE f.kind \notin {"text", "tag", "call", "args", "finish", "end", "failed", "rejected"}
  <2>1. q = parser
    BY <1>9 DEF chat, Outcome
  <2>2. f.kind # "itemDone"
    BY MayFollow
  <2>3. Wired("chat", more, parser, events \o parser.pending)
    BY <1>1, <1>9, <2>2, WiredIgnored
  <2> QED BY <2>1, <2>3
<1> QED BY <1>2, <1>4, <1>5, <1>6, <1>7, <1>8, <1>9

LEMMA RecordedFields ==
  ASSUME NEW parser \in ParsersOf(Nat), NEW x \in Items
  PROVE  LET q == recordOutputItem(parser, x)
         IN  /\ q \in ParsersOf(Nat) /\ q.pending = parser.pending /\ q.buffer = parser.buffer /\ q.stop = parser.stop
             /\ q.finished = parser.finished /\ q.inThink = parser.inThink
             /\ \A y \in Items : q.items[y].id = (IF y = x THEN x ELSE parser.items[y].id)
                                 /\ q.items[y].deltas = parser.items[y].deltas
<1> DEFINE item == [parser.items[x] EXCEPT !.id = x]
           items == [parser.items EXCEPT ![x] = item]
           q == recordOutputItem(parser, x)
<1>1. parser.items \in [Items -> [id : Nat, deltas : BOOLEAN]] /\ parser.items[x] \in [id : Nat, deltas : BOOLEAN]
  BY DEF ParsersOf
<1>2. item.id = x /\ item.deltas = parser.items[x].deltas
  BY <1>1
<1> HIDE DEF item
<1>3. \A y \in Items : items[y] = IF y = x THEN item ELSE parser.items[y]
  BY <1>1
<1>4. q = [parser EXCEPT !.items = items]
  BY DEF recordOutputItem, item
<1> HIDE DEF items
<1>5. /\ q.pending = parser.pending /\ q.buffer = parser.buffer /\ q.stop = parser.stop
      /\ q.finished = parser.finished /\ q.inThink = parser.inThink /\ q.items = items
  BY <1>4 DEF ParsersOf
<1>6. q \in ParsersOf(Nat)
  BY ItemUpdates
<1> HIDE DEF q
<1>7. ASSUME NEW y \in Items
      PROVE  q.items[y].id = (IF y = x THEN x ELSE parser.items[y].id) /\ q.items[y].deltas = parser.items[y].deltas
  BY <1>2, <1>3, <1>5
<1> QED BY <1>5, <1>6, <1>7 DEF q

LEMMA DeltasFields ==
  ASSUME NEW parser \in ParsersOf(Nat), NEW x \in Items
  PROVE  LET q == [parser EXCEPT !.items[x].deltas = TRUE]
         IN  /\ q \in ParsersOf(Nat) /\ q.pending = parser.pending /\ q.buffer = parser.buffer /\ q.stop = parser.stop
             /\ q.inThink = parser.inThink
             /\ \A y \in Items : q.items[y].id = parser.items[y].id
                                 /\ q.items[y].deltas = (IF y = x THEN TRUE ELSE parser.items[y].deltas)
<1> DEFINE item == [parser.items[x] EXCEPT !.deltas = TRUE]
           items == [parser.items EXCEPT ![x] = item]
           q == [parser EXCEPT !.items[x].deltas = TRUE]
<1>1. parser.items \in [Items -> [id : Nat, deltas : BOOLEAN]] /\ parser.items[x] \in [id : Nat, deltas : BOOLEAN]
  BY DEF ParsersOf
<1>2. item.id = parser.items[x].id /\ item.deltas = TRUE
  BY <1>1
<1> HIDE DEF item
<1>3. \A y \in Items : items[y] = IF y = x THEN item ELSE parser.items[y]
  BY <1>1
<1>4. q = [parser EXCEPT !.items = items]
  BY DEF item
<1> HIDE DEF items
<1>5. q.pending = parser.pending /\ q.buffer = parser.buffer /\ q.stop = parser.stop /\ q.inThink = parser.inThink /\ q.items = items
  BY <1>4 DEF ParsersOf
<1>6. q \in ParsersOf(Nat)
  BY ItemUpdates
<1> HIDE DEF q
<1>7. ASSUME NEW y \in Items
      PROVE  q.items[y].id = parser.items[y].id /\ q.items[y].deltas = (IF y = x THEN TRUE ELSE parser.items[y].deltas)
  BY <1>2, <1>3, <1>5
<1> QED BY <1>5, <1>6, <1>7 DEF q

\* Text of a protocol that holds nothing back.
LEMMA PlainTextWired ==
  ASSUME NEW p, p # "chat", NEW sent, NEW parser, NEW events, Asked(p, sent, parser, events), NEW f \in AllFrames,
         f.kind = "text", NEW piece \in PiecesOf(Nat), piece.at = Len(sent) + 1
  PROVE  LET q == emit(parser, Text(<<piece>>))
         IN  Wired(p, Append(sent, f), q, events \o q.pending)
<1> DEFINE e == Text(<<piece>>)
           q == emit(parser, e)
           all == Append(events, e)
           more == Append(sent, f)
           n == Len(sent)
<1>1. /\ sent \in Seq(AllFrames) /\ parser \in ParsersOf(Nat) /\ events \in Seq(EventsOf(Nat))
      /\ Remembered(p, sent, parser) /\ Said(p, sent, parser, events) /\ parser.pending = <<>>
  BY AskedFacts DEF Asked
<1>2. parser.buffer = <<>> /\ \A i \in DOMAIN sent : sent[i].kind # "tag"
  BY <1>1 DEF Remembered, Said
<1>3. e \in EventsOf(Nat) /\ e.kind = "text" /\ e.pieces = <<piece>>
  <2>1. <<piece>> \in Seq(PiecesOf(Nat))
    OBVIOUS
  <2> QED BY <2>1, TextFields
<1> HIDE DEF e
<1>4. q.pending = <<e>> /\ q.buffer = <<>> /\ q.inThink = parser.inThink /\ q.items = parser.items /\ q.stop = parser.stop
  BY <1>1, <1>2, <1>3, EmitFields
<1> HIDE DEF q
<1>5. Remembered(p, more, q)
  BY <1>1, <1>4, RememberedSame
<1>6. events \o q.pending = all
  BY <1>1, <1>3, <1>4, PendingEvents
<1>7. EndSaid(more, q, all)
  BY <1>1, <1>3, AskedFacts, StillNoDone
<1>8. /\ contentPieces(all, "text") = contentPieces(events, "text") \o <<piece>>
      /\ contentPieces(all, "thinking") = contentPieces(events, "thinking")
      /\ toolCallBuilders(all) = toolCallBuilders(events)
  BY <1>1, <1>3, QuietEvent
<1> HIDE DEF all
<1>9. Filed(p, more, toolCallBuilders(all))
  <2>1. callsSent(p, more) = callsSent(p, sent) /\ \A x : argumentsSent(more, x) = argumentsSent(sent, x)
    BY <1>1, QuietFrame
  <2> HIDE DEF more
  <2> QED BY <1>8, <2>1, AskedFacts, FiledSame
<1>10. modeAt(sent, n + 1) = "text" /\ modeAt(more, Len(more) + 1) = "text"
  BY <1>1, <1>2, NoTagsMode, ModeMore
<1>11. /\ mode(q) = "text" /\ \A kind : heldBack(q, kind) = <<>> /\ heldBack(parser, kind) = <<>>
  BY <1>1, <1>2, <1>4, <1>10 DEF Said, mode, heldBack
<1>12. sentOf(more, "text") = sentOf(sent, "text") \cup {n + 1} /\ sentOf(more, "thinking") = sentOf(sent, "thinking")
  <2>1. says(sent, f, "text") /\ ~says(sent, f, "thinking")
    BY <1>10 DEF says
  <2> QED BY <1>1, <2>1, MoreSaid
<1>13. inOrder(contentPieces(all, "text") \o <<>>, sentOf(more, "text"))
  <2> DEFINE content == contentPieces(events, "text")
             set == sentOf(sent, "text")
  <2>1. /\ content \in Seq(PiecesOf(Nat)) /\ n \in Nat /\ set \subseteq 1..n /\ piece.at = n + 1
        /\ <<>> \in Seq(PiecesOf(Nat)) /\ Append(<<>>, piece) = <<piece>>
    BY AskedFacts
  <2>2. inOrder(content \o <<>>, set)
    BY <1>1, <1>11 DEF Said, ContentKinds
  <2> HIDE DEF content, set, n
  <2>3. inOrder((content \o Append(<<>>, piece)) \o <<>>, set \cup {n + 1})
    BY <2>1, <2>2, TextMore
  <2> QED BY <1>8, <1>12, <2>1, <2>3 DEF content, set
<1>14. inOrder(contentPieces(all, "thinking") \o <<>>, sentOf(more, "thinking"))
  BY <1>1, <1>8, <1>11, <1>12 DEF Said, ContentKinds
<1>15. \A i \in DOMAIN more : more[i].kind # "tag"
  <2>1. \A i \in DOMAIN more : more[i] = f \/ (i \in DOMAIN sent /\ more[i] = sent[i])
    BY <1>1, AppendFacts
  <2> HIDE DEF more
  <2> QED BY <1>2, <2>1
<1>16. Said(p, more, q, all)
  <2> HIDE DEF more
  <2> QED BY <1>10, <1>11, <1>13, <1>14, <1>15 DEF Said, ContentKinds
<1>17. Wired(p, more, q, all)
  BY <1>5, <1>7, <1>9, <1>16 DEF Wired
<1> QED BY <1>6, <1>17 DEF q, e

\* The terminal event of a protocol that holds nothing back.
LEMMA PlainEndWired ==
  ASSUME NEW p, p # "chat", NEW sent, NEW parser, NEW events, Asked(p, sent, parser, events), NEW f \in AllFrames,
         f.kind = "end", f.stop \in StopReasons
  PROVE  LET q == [emit(parser, EventDone(f.stop)) EXCEPT !.finished = TRUE]
         IN  Wired(p, Append(sent, f), q, events \o q.pending)
<1> DEFINE d == EventDone(f.stop)
           ended == emit(parser, d)
           q == [ended EXCEPT !.finished = TRUE]
<1>1. /\ sent \in Seq(AllFrames) /\ parser \in ParsersOf(Nat) /\ Remembered(p, sent, parser) /\ parser.pending = <<>>
      /\ events \in Seq(EventsOf(Nat)) /\ \A i \in DOMAIN events : events[i].kind # "done"
  BY AskedFacts DEF Asked
<1>2. parser.buffer = <<>>
  BY <1>1 DEF Remembered
<1>3. d \in EventsOf(Nat) /\ d.kind = "done" /\ d.stop = f.stop
  BY DoneFields
<1> HIDE DEF d
<1>4. /\ ended \in ParsersOf(Nat) /\ ended.pending = <<d>> /\ ended.buffer = <<>> /\ ended.items = parser.items
      /\ ended.stop = parser.stop /\ ended.inThink = parser.inThink
  BY <1>1, <1>2, <1>3, EmitFields
<1> HIDE DEF ended
<1>5. q.finished /\ q.pending = <<d>> /\ q.buffer = <<>> /\ q.items = parser.items /\ q.stop = parser.stop /\ q.inThink = parser.inThink
  BY <1>4 DEF ParsersOf
<1> HIDE DEF q
<1>6. Remembered(p, Append(sent, f), q)
  BY <1>1, <1>5, RememberedSame
<1>7. events \o q.pending = Append(events, d)
  BY <1>1, <1>3, <1>5, PendingEvents
<1>8. ASSUME NEW kind \in ContentKinds
      PROVE  contentPieces(events, kind) = contentPieces(events, kind) \o heldBack(parser, kind)
  <2>1. contentPieces(events, kind) \o <<>> = contentPieces(events, kind)
    BY AskedFacts, ConcatEmptySeq
  <2> QED BY <1>2, <2>1 DEF heldBack
<1>9. Wired(p, Append(sent, f), q, events \o q.pending)
  BY <1>1, <1>3, <1>5, <1>6, <1>7, <1>8, WiredEnd
<1> QED BY <1>9 DEF q, ended, d

LEMMA MessagesWired ==
  ASSUME NEW sent, NEW parser, NEW events, Asked("messages", sent, parser, events), NEW f \in WireFrames,
         mayFollow("messages", sent, f), NEW piece \in PiecesOf(Nat), piece.at = Len(sent) + 1,
         messages(parser, f, piece).err = <<>>
  PROVE  LET q == messages(parser, f, piece).parser
         IN  Wired("messages", Append(sent, f), q, events \o q.pending)
<1> DEFINE out == messages(parser, f, piece)
           q == out.parser
           more == Append(sent, f)
           x == f.item
<1>1. /\ sent \in Seq(AllFrames) /\ parser \in ParsersOf(Nat) /\ events \in Seq(EventsOf(Nat))
      /\ Remembered("messages", sent, parser) /\ parser.pending = <<>> /\ f \in AllFrames
      /\ Filed("messages", sent, toolCallBuilders(events))
  BY AskedFacts DEF Asked, AllFrames
<1>2. parser.buffer = <<>> /\ \A y \in Items : sends(sent, "call", y) => parser.items[y].id = y
  BY <1>1 DEF Remembered
<1>3. CASE f.kind = "text"
  <2>1. q = emit(parser, Text(<<piece>>))
    BY <1>3 DEF messages, Outcome
  <2> QED BY <1>1, <1>3, <2>1, PlainTextWired
<1>4. CASE f.kind = "call"
  <2> DEFINE e == ToolCallDelta(x, 0, <<>>)
             recorded == recordOutputItem(parser, x)
  <2>1. x \in Items /\ ~sends(sent, "call", x) /\ x \in Nat
    BY <1>4, MayFollow, WireFrameFields, ItemsAreNumbers
  <2>2. ~sends(sent, "args", x) /\ ~sends(sent, "itemDone", x)
    BY <1>1, <2>1, NoArgumentsBeforeCall
  <2>3. q = emit(recorded, e)
    BY <1>4 DEF messages, Outcome
  <2>4. e \in EventsOf(Nat) /\ e.kind = "delta"
    <3>1. <<>> \in Seq(PiecesOf(Nat)) /\ 0 \in Nat
      BY EmptySeq
    <3> QED BY <2>1, <3>1, DeltaTyped
  <2>5. Filed("messages", more, applyToolEvent(toolCallBuilders(events), e))
    BY <1>1, <1>4, <2>1, <2>2, FiledCall
  <2>6. /\ recorded \in ParsersOf(Nat) /\ recorded.pending = <<>> /\ recorded.buffer = <<>> /\ recorded.stop = parser.stop
        /\ recorded.inThink = parser.inThink
        /\ \A y \in Items : recorded.items[y].id = IF y = x THEN x ELSE parser.items[y].id
    BY <1>1, <1>2, <2>1, RecordedFields
  <2> HIDE DEF e, q, recorded
  <2>7. q.pending = <<e>> /\ q.buffer = <<>> /\ q.inThink = parser.inThink /\ q.items = recorded.items /\ q.stop = parser.stop
    BY <2>3, <2>4, <2>6, EmitFields
  <2>8. ASSUME NEW y \in Items, sends(sent, "call", y) \/ (f.kind = "call" /\ f.item = y) PROVE q.items[y].id = y
    BY <1>2, <2>6, <2>7, <2>8
  <2>9. Remembered("messages", more, q)
    BY <1>1, <1>4, <2>7, <2>8, RememberedMore
  <2>10. Wired("messages", more, q, events \o q.pending)
    BY <1>1, <1>2, <1>4, <2>4, <2>5, <2>7, <2>9, WiredEvent
  <2> QED BY <2>10 DEF q
<1>5. CASE f.kind = "args"
  <2> DEFINE e == ToolCallDelta(x, 0, <<piece>>)
  <2>1. x \in Items /\ sends(sent, "call", x) /\ ~sends(sent, "itemDone", x) /\ x \in Nat
    BY <1>5, MayFollow, WireFrameFields, ItemsAreNumbers
  <2>2. q = emit(parser, e)
    <3>1. parser.items[x].id = x
      BY <1>2, <2>1
    <3>2. q = emit(parser, ToolCallDelta(parser.items[f.item].id, 0, <<piece>>))
      BY <1>5 DEF messages, Outcome
    <3> QED BY <3>1, <3>2
  <2>3. e \in EventsOf(Nat) /\ e.kind = "delta"
    <3>1. <<piece>> \in Seq(PiecesOf(Nat)) /\ 0 \in Nat
      OBVIOUS
    <3> QED BY <2>1, <3>1, DeltaTyped
  <2>4. Filed("messages", more, applyToolEvent(toolCallBuilders(events), e))
    <3>1. x # 0 /\ x \in {0, x} /\ 0 = (IF "messages" = "messages" THEN 0 ELSE x)
      BY <2>1, ItemsAssumption
    <3> QED BY <1>1, <1>5, <2>1, <3>1, FiledArguments
  <2> HIDE DEF e, q
  <2>5. q.pending = <<e>> /\ q.buffer = <<>> /\ q.inThink = parser.inThink /\ q.items = parser.items /\ q.stop = parser.stop
    BY <1>1, <1>2, <2>2, <2>3, EmitFields
  <2>6. Remembered("messages", more, q)
    BY <1>1, <1>2, <1>5, <2>1, <2>5, RememberedMore
  <2>7. Wired("messages", more, q, events \o q.pending)
    BY <1>1, <1>2, <1>5, <2>3, <2>4, <2>5, <2>6, WiredEvent
  <2> QED BY <2>7 DEF q
<1>6. CASE f.kind = "finish"
  <2>1. q = [parser EXCEPT !.stop = f.stop]
    BY <1>6 DEF messages, Outcome
  <2> QED BY <1>1, <1>6, <2>1, WiredFinish
<1>7. CASE f.kind = "end"
  <2>1. q = [emit(parser, EventDone(parser.stop)) EXCEPT !.finished = TRUE]
    BY <1>7 DEF messages, Outcome
  <2>2. parser.stop = f.stop
    BY <1>1, <1>7, FinishStop
  <2>3. f.stop \in StopReasons
    BY <1>7, WireFrameFields
  <2> QED BY <1>1, <1>7, <2>1, <2>2, <2>3, PlainEndWired
<1>8. CASE f.kind \in {"failed", "rejected"}
  <2>1. out.err = apiError(f)
    BY <1>8 DEF messages, Outcome
  <2>2. apiError(f) # <<>>
    BY DEF apiError
  <2> QED BY <2>1, <2>2
<1>9. CASE f.kind \notin {"text", "call", "args", "finish", "end", "failed", "rejected"}
  <2>1. q = parser
    BY <1>9 DEF messages, Outcome
  <2>2. f.kind \notin {"itemDone", "tag"}
    BY MayFollow
  <2>3. Wired("messages", more, parser, events \o parser.pending)
    BY <1>1, <1>9, <2>2, WiredIgnored
  <2> QED BY <2>1, <2>3
<1> QED BY <1>3, <1>4, <1>5, <1>6, <1>7, <1>8, <1>9

LEMMA ErrorFields ==
  ASSUME NEW err \in Errors
  PROVE  EventError(err) \in EventsOf(Nat) /\ EventError(err).kind = "error"
<1>1. 0 \in Nat /\ "" \in StopReasons /\ <<>> \in Seq(PiecesOf(Nat))
  BY EmptySeq DEF StopReasons
<1>2. EventError(err) \in EventsOf(Nat)
  BY <1>1, EventsTyped
<1> QED BY <1>2 DEF EventError, NoEvent

LEMMA ResponsesWired ==
  ASSUME NEW sent, NEW parser, NEW events, Asked("responses", sent, parser, events), NEW f \in WireFrames,
         mayFollow("responses", sent, f), NEW piece \in PiecesOf(Nat), piece.at = Len(sent) + 1,
         responses(parser, f, piece).err = <<>>
  PROVE  LET q == responses(parser, f, piece).parser
         IN  Wired("responses", Append(sent, f), q, events \o q.pending)
<1> DEFINE out == responses(parser, f, piece)
           q == out.parser
           more == Append(sent, f)
           x == f.item
<1>1. /\ sent \in Seq(AllFrames) /\ parser \in ParsersOf(Nat) /\ events \in Seq(EventsOf(Nat))
      /\ Remembered("responses", sent, parser) /\ parser.pending = <<>> /\ f \in AllFrames
      /\ Filed("responses", sent, toolCallBuilders(events))
  BY AskedFacts DEF Asked, AllFrames
<1>2. /\ parser.buffer = <<>>
      /\ \A y \in Items : sends(sent, "call", y) => parser.items[y].id = y
      /\ \A y \in Items : parser.items[y].deltas <=> sends(sent, "args", y)
  BY <1>1 DEF Remembered
<1>3. CASE f.kind = "text"
  <2>1. q = emit(parser, Text(<<piece>>))
    BY <1>3 DEF responses, Outcome
  <2> QED BY <1>1, <1>3, <2>1, PlainTextWired
<1>4. CASE f.kind = "call"
  <2>1. x \in Items /\ ~sends(sent, "call", x)
    BY <1>4, MayFollow, WireFrameFields
  <2>2. ~sends(sent, "args", x) /\ ~sends(sent, "itemDone", x)
    BY <1>1, <2>1, NoArgumentsBeforeCall
  <2>3. q = recordOutputItem(parser, x)
    BY <1>4 DEF responses, Outcome
  <2>4. /\ q.pending = <<>> /\ q.buffer = <<>> /\ q.stop = parser.stop /\ q.inThink = parser.inThink
        /\ \A y \in Items : q.items[y].id = (IF y = x THEN x ELSE parser.items[y].id)
                            /\ q.items[y].deltas = parser.items[y].deltas
    BY <1>1, <1>2, <2>1, <2>3, RecordedFields
  <2> HIDE DEF q
  <2>5. ASSUME NEW y \in Items, sends(sent, "call", y) \/ (f.kind = "call" /\ f.item = y) PROVE q.items[y].id = y
    BY <1>2, <2>4, <2>5
  <2>6. ASSUME NEW y \in Items
        PROVE  q.items[y].deltas <=> sends(sent, "args", y) \/ (f.kind = "args" /\ f.item = y)
    BY <1>2, <1>4, <2>4
  <2>7. Remembered("responses", more, q)
    BY <1>1, <1>4, <2>4, <2>5, <2>6, RememberedMore
  <2>8. callsSent("responses", more) = callsSent("responses", sent) /\ \A y : argumentsSent(more, y) = argumentsSent(sent, y)
    <3>1. /\ sent \in Seq(AllFrames) /\ f \in AllFrames /\ f.kind = "call" /\ f.item \in Items
          /\ ~sends(sent, "args", f.item) /\ ~sends(sent, "itemDone", f.item)
      BY <1>1, <1>4, <2>1, <2>2
    <3>2. /\ callsSent("responses", Append(sent, f)) =
               IF "responses" = "responses" THEN callsSent("responses", sent) ELSE callsSent("responses", sent) \cup {f.item}
          /\ \A y : argumentsSent(Append(sent, f), y) = argumentsSent(sent, y)
      BY ONLY <3>1, CallFrame
    <3> QED BY <3>2
  <2>9. Wired("responses", more, q, events \o q.pending)
    <3>1. q.pending = <<>> /\ q.buffer = parser.buffer /\ f \in AllFrames /\ f.kind \notin {"text", "tag"} /\ q.inThink = parser.inThink
      BY <1>1, <1>2, <1>4, <2>4
    <3> QED BY ONLY <3>1, <2>7, <2>8, Asked("responses", sent, parser, events), WiredStill
  <2> QED BY <2>9 DEF q
<1>5. CASE f.kind = "args"
  <2> DEFINE e == ToolCallDelta(x, x, <<piece>>)
             told == [parser EXCEPT !.items[x].deltas = TRUE]
  <2>1. x \in Items /\ sends(sent, "call", x) /\ ~sends(sent, "itemDone", x) /\ x \in Nat
    BY <1>5, MayFollow, WireFrameFields, ItemsAreNumbers
  <2>2. q = emit(told, e)
    <3>1. parser.items[x].id = x
      BY <1>2, <2>1
    <3>2. q = emit(told, ToolCallDelta(parser.items[f.item].id, f.item, <<piece>>))
      BY <1>5 DEF responses, Outcome
    <3> QED BY <3>1, <3>2
  <2>3. e \in EventsOf(Nat) /\ e.kind = "delta"
    <3>1. <<piece>> \in Seq(PiecesOf(Nat))
      OBVIOUS
    <3> QED BY <2>1, <3>1, DeltaTyped
  <2>4. Filed("responses", more, applyToolEvent(toolCallBuilders(events), e))
    <3>1. x # 0 /\ x \in {0, x} /\ x = (IF "responses" = "messages" THEN 0 ELSE x)
      BY <2>1, ItemsAssumption
    <3> QED BY <1>1, <1>5, <2>1, <3>1, FiledArguments
  <2>5. /\ told \in ParsersOf(Nat) /\ told.pending = <<>> /\ told.buffer = <<>> /\ told.stop = parser.stop
        /\ told.inThink = parser.inThink
        /\ \A y \in Items : told.items[y].id = parser.items[y].id
                            /\ told.items[y].deltas = (IF y = x THEN TRUE ELSE parser.items[y].deltas)
    BY <1>1, <1>2, <2>1, DeltasFields
  <2> HIDE DEF e, q, told
  <2>6. q.pending = <<e>> /\ q.buffer = <<>> /\ q.inThink = parser.inThink /\ q.items = told.items /\ q.stop = parser.stop
    BY <2>2, <2>3, <2>5, EmitFields
  <2>7. ASSUME NEW y \in Items
        PROVE  q.items[y].deltas <=> sends(sent, "args", y) \/ (f.kind = "args" /\ f.item = y)
    <3>1. CASE y = x
      <4>1. q.items[y].deltas = TRUE
        BY <2>5, <2>6, <3>1
      <4> QED BY <1>5, <3>1, <4>1
    <3>2. CASE y # x
      <4>1. q.items[y].deltas = parser.items[y].deltas
        BY <2>5, <2>6, <3>2
      <4> QED BY <1>2, <3>2, <4>1
    <3> QED BY <3>1, <3>2
  <2>8. \A y \in Items : sends(sent, "call", y) \/ (f.kind = "call" /\ f.item = y) => q.items[y].id = y
    BY <1>2, <1>5, <2>5, <2>6
  <2>9. Remembered("responses", more, q)
    BY <1>1, <1>5, <2>1, <2>6, <2>7, <2>8, RememberedMore
  <2>10. Wired("responses", more, q, events \o q.pending)
    BY <1>1, <1>2, <1>5, <2>3, <2>4, <2>6, <2>9, WiredEvent
  <2> QED BY <2>10 DEF q
<1>6. CASE f.kind = "itemDone"
  <2> DEFINE e == ToolCallDelta(x, x, <<piece>>)
             recorded == recordOutputItem(parser, x)
  <2>1. x \in Items /\ sends(sent, "call", x) /\ ~sends(sent, "itemDone", x) /\ x \in Nat
    BY <1>6, MayFollow, WireFrameFields, ItemsAreNumbers
  <2>2. /\ recorded \in ParsersOf(Nat) /\ recorded.pending = <<>> /\ recorded.buffer = <<>> /\ recorded.stop = parser.stop
        /\ recorded.inThink = parser.inThink
        /\ \A y \in Items : recorded.items[y].id = (IF y = x THEN x ELSE parser.items[y].id)
                            /\ recorded.items[y].deltas = parser.items[y].deltas
    BY <1>1, <1>2, <2>1, RecordedFields
  <2>3. q = outputItemDone(parser, x, piece)
    BY <1>6 DEF responses, Outcome
  <2>4. ASSUME NEW r, r.items = recorded.items, r.buffer = <<>>, r.stop = parser.stop
        PROVE  Remembered("responses", more, r)
    <3>1. ASSUME NEW y \in Items
          PROVE  r.items[y].deltas <=> sends(sent, "args", y) \/ (f.kind = "args" /\ f.item = y)
      BY <1>2, <1>6, <2>2, <2>4
    <3>2. \A y \in Items : sends(sent, "call", y) \/ (f.kind = "call" /\ f.item = y) => r.items[y].id = y
      BY <1>2, <1>6, <2>2, <2>4
    <3> QED BY <1>1, <1>6, <2>1, <2>4, <3>1, <3>2, RememberedMore
  <2>5. CASE parser.items[x].deltas
    <3>1. q = recorded
      BY <2>3, <2>5 DEF outputItemDone
    <3> HIDE DEF q, recorded
    <3>2. Remembered("responses", more, q) /\ q.pending = <<>> /\ q.buffer = parser.buffer /\ q.inThink = parser.inThink
      BY <1>2, <2>2, <2>4, <3>1
    <3>3. sends(sent, "args", f.item)
      BY <1>2, <2>1, <2>5
    <3>4. callsSent("responses", more) = callsSent("responses", sent) /\ \A y : argumentsSent(more, y) = argumentsSent(sent, y)
      BY <1>1, <1>6, <3>3, ItemDoneFrame
    <3>5. Wired("responses", more, q, events \o q.pending)
      BY <1>1, <1>6, <3>2, <3>4, WiredStill
    <3> QED BY <3>5 DEF q
  <2>6. CASE ~parser.items[x].deltas
    <3>1. q = emit(recorded, e)
      <4>1. recorded.items[x].id = x
        BY <2>1, <2>2
      <4>2. q = emit(recorded, ToolCallDelta(recorded.items[x].id, x, <<piece>>))
        BY <2>3, <2>6 DEF outputItemDone
      <4> QED BY <4>1, <4>2
    <3>2. ~sends(sent, "args", x)
      BY <1>2, <2>1, <2>6
    <3>3. e \in EventsOf(Nat) /\ e.kind = "delta"
      <4>1. <<piece>> \in Seq(PiecesOf(Nat))
        OBVIOUS
      <4> QED BY <2>1, <4>1, DeltaTyped
    <3>4. Filed("responses", more, applyToolEvent(toolCallBuilders(events), e))
      <4>1. x # 0 /\ x \in {0, x} /\ x = (IF "responses" = "messages" THEN 0 ELSE x)
        BY <2>1, ItemsAssumption
      <4> QED BY <1>1, <1>6, <2>1, <3>2, <4>1, FiledArguments
    <3> HIDE DEF q, recorded, e
    <3>5. q.pending = <<e>> /\ q.buffer = <<>> /\ q.inThink = parser.inThink /\ q.items = recorded.items /\ q.stop = parser.stop
      BY <2>2, <3>1, <3>3, EmitFields
    <3>6. Remembered("responses", more, q)
      BY <2>4, <3>5
    <3>7. Wired("responses", more, q, events \o q.pending)
      BY <1>1, <1>2, <1>6, <3>3, <3>4, <3>5, <3>6, WiredEvent
    <3> QED BY <3>7 DEF q
  <2> QED BY <2>5, <2>6
<1>7. CASE f.kind = "end"
  <2>1. q = [emit(parser, EventDone(f.stop)) EXCEPT !.finished = TRUE]
    BY <1>7 DEF responses, Outcome
  <2>2. f.stop \in StopReasons
    BY <1>7, WireFrameFields
  <2> QED BY <1>1, <1>7, <2>1, <2>2, PlainEndWired
<1>8. CASE f.kind \in {"failed", "rejected"}
  <2> DEFINE e == EventError(apiError(f))
             ended == emit(parser, e)
  <2>1. q = [ended EXCEPT !.finished = TRUE]
    BY <1>8 DEF responses, Outcome
  <2>2. e \in EventsOf(Nat) /\ e.kind = "error"
    BY ErrorsNamed, ErrorFields
  <2> HIDE DEF e
  <2>3. /\ ended \in ParsersOf(Nat) /\ ended.pending = <<e>> /\ ended.buffer = <<>> /\ ended.items = parser.items
        /\ ended.stop = parser.stop /\ ended.inThink = parser.inThink
    BY <1>1, <1>2, <2>2, EmitFields
  <2> HIDE DEF ended
  <2>4. q.pending = <<e>> /\ q.buffer = <<>> /\ q.inThink = parser.inThink /\ q.items = parser.items /\ q.stop = parser.stop
    BY <2>1, <2>3 DEF ParsersOf
  <2> HIDE DEF q
  <2>5. Remembered("responses", more, q)
    BY <1>1, <1>8, <2>4, RememberedSame
  <2>6. Filed("responses", more, applyToolEvent(toolCallBuilders(events), e))
    <3>1. applyToolEvent(toolCallBuilders(events), e) = toolCallBuilders(events)
      BY <2>2 DEF applyToolEvent
    <3>2. callsSent("responses", more) = callsSent("responses", sent) /\ \A y : argumentsSent(more, y) = argumentsSent(sent, y)
      BY <1>1, <1>8, QuietFrame
    <3> QED BY <1>1, <3>1, <3>2, FiledSame
  <2>7. Wired("responses", more, q, events \o q.pending)
    BY <1>1, <1>2, <1>8, <2>2, <2>4, <2>5, <2>6, WiredEvent
  <2> QED BY <2>7 DEF q
<1>9. CASE f.kind = "eof"
  <2>1. out.err = <<"cut">>
    BY <1>9 DEF responses, Outcome
  <2>2. <<"cut">> # <<>>
    OBVIOUS
  <2> QED BY <2>1, <2>2
<1>10. CASE f.kind \notin {"text", "call", "args", "itemDone", "end", "failed", "rejected", "eof"}
  <2>1. q = parser
    BY <1>10 DEF responses, Outcome
  <2>2. f.kind \notin {"finish", "tag"}
    BY MayFollow
  <2>3. Wired("responses", more, parser, events \o parser.pending)
    BY <1>1, <1>10, <2>2, WiredIgnored
  <2> QED BY <2>1, <2>3
<1> QED BY <1>3, <1>4, <1>5, <1>6, <1>7, <1>8, <1>9, <1>10

-----------------------------------------------------------------------------
(* A frame that is read keeps the wire.                                    *)

LEMMA FramesFollow ==
  ASSUME NEW body, protocol(body) # "host", NEW f \in Frames(body), f.kind # "canceled"
  PROVE  f \in WireFrames /\ mayFollow(protocol(body), body.frames, f)
<1>1. CanceledFrame.kind = "canceled"
  BY DEF CanceledFrame
<1>2. f # CanceledFrame
  BY <1>1
<1> QED BY <1>2 DEF Frames, CanceledFrame

LEMMA PieceAt ==
  ASSUME NEW b, NEW f
  PROVE  pieceOf(b, f).at = Len(bodies[b].frames) + 1
<1> DEFINE n == Len(bodies[b].frames) + 1
           ofHostStream == protocol(bodies[b]) = "host"
<1>1. \A id, index, final : Piece(b, n, id, index, final).at = n
  BY DEF Piece
<1> HIDE DEF n
<1>2. CASE f.kind = "args" /\ ofHostStream
  BY <1>1, <1>2 DEF pieceOf, n
<1>3. CASE f.kind = "args" /\ ~ofHostStream
  BY <1>1, <1>3 DEF pieceOf, n
<1>4. CASE f.kind \in {"itemDone", "tool"}
  BY <1>1, <1>4 DEF pieceOf, n
<1>5. CASE f.kind \notin {"args", "itemDone", "tool"}
  BY <1>1, <1>5 DEF pieceOf, n
<1> QED BY <1>2, <1>3, <1>4, <1>5 DEF n

LEMMA PiecesGrow ==
  ASSUME NEW b \in Nat
  PROVE  PiecesOf({b}) \subseteq PiecesOf(Nat)
BY DEF PiecesOf

LEMMA ConsumeFails ==
  ASSUME NEW p, NEW parser, NEW f, NEW piece, consume(p, parser, f, piece).err = <<>>
  PROVE  f.kind \notin {"bad", "cut", "canceled"} /\ ~(f.kind = "eof" /\ p # "responses")
<1>1. <<"plain">> # <<>> /\ <<"cut">> # <<>> /\ <<"canceled">> # <<>> /\ <<"eof">> # <<>>
  OBVIOUS
<1>2. \A err : Outcome(parser, err).err = err
  BY DEF Outcome
<1>3. f.kind # "bad"
  BY <1>1, <1>2 DEF consume
<1>4. f.kind # "cut"
  BY <1>1, <1>2 DEF consume
<1>5. f.kind # "canceled"
  BY <1>1, <1>2 DEF consume
<1>6. ~(f.kind = "eof" /\ p # "responses")
  BY <1>1, <1>2 DEF consume
<1> QED BY <1>3, <1>4, <1>5, <1>6

LEMMA ConsumeWired ==
  ASSUME NEW p \in Protocols \ {"host"}, NEW sent, NEW parser, NEW events, Asked(p, sent, parser, events),
         NEW f \in WireFrames, mayFollow(p, sent, f), NEW piece \in PiecesOf(Nat), piece.at = Len(sent) + 1,
         consume(p, parser, f, piece).err = <<>>
  PROVE  LET q == consume(p, parser, f, piece).parser
         IN  Wired(p, Append(sent, f), q, events \o q.pending)
<1>1. f.kind \notin {"bad", "cut", "canceled"} /\ ~(f.kind = "eof" /\ p # "responses")
  BY ConsumeFails
<1>2. CASE p = "chat"
  <2>1. consume(p, parser, f, piece) = chat(parser, f, piece)
    BY <1>1, <1>2 DEF consume
  <2> QED BY <1>2, <2>1, ChatWired
<1>3. CASE p = "responses"
  <2>1. consume(p, parser, f, piece) = responses(parser, f, piece)
    BY <1>1, <1>3 DEF consume
  <2> QED BY <1>3, <2>1, ResponsesWired
<1>4. CASE p = "messages"
  <2>1. consume(p, parser, f, piece) = messages(parser, f, piece)
    BY <1>1, <1>4 DEF consume
  <2> QED BY <1>4, <2>1, MessagesWired
<1> QED BY <1>2, <1>3, <1>4 DEF Protocols

\* The events that were recorded and are pending, however they are divided.
LEMMA WiredSame ==
  ASSUME NEW p, NEW sent, NEW parser, NEW q, NEW events, Wired(p, sent, parser, events),
         q.stop = parser.stop, q.buffer = parser.buffer, q.items = parser.items, q.inThink = parser.inThink, q.finished = parser.finished
  PROVE  Wired(p, sent, q, events)
<1>1. Remembered(p, sent, q)
  BY DEF Wired, Remembered
<1>2. EndSaid(sent, q, events)
  BY DEF Wired, EndSaid
<1>3. Said(p, sent, q, events)
  <2>1. mode(q) = mode(parser) /\ \A kind : heldBack(q, kind) = heldBack(parser, kind)
    BY DEF mode, heldBack
  <2> QED BY <2>1 DEF Wired, Said
<1> QED BY <1>1, <1>2, <1>3 DEF Wired

LEMMA HandedOn ==
  ASSUME NEW S, NEW events \in Seq(S), NEW pending \in Seq(S), pending # <<>>
  PROVE  events \o pending = Append(events, Head(pending)) \o Tail(pending)
<1>1. Head(pending) \in S /\ Tail(pending) \in Seq(S)
  OBVIOUS
<1>2. Len(pending) \in Nat /\ Len(pending) >= 1 /\ Len(Tail(pending)) = Len(pending) - 1
  OBVIOUS
<1>3. \A i \in 1..Len(Tail(pending)) : Tail(pending)[i] = pending[i + 1]
  OBVIOUS
<1>4. Head(pending) = pending[1]
  OBVIOUS
<1> DEFINE h == Head(pending)
           t == Tail(pending)
<1> HIDE DEF h, t
<1> DEFINE a == events \o pending
           b == Append(events, h) \o t
<1>5. Len(events) \in Nat /\ Append(events, h) \in Seq(S) /\ Len(Append(events, h)) = Len(events) + 1
  BY <1>1 DEF h
<1>6. t \in Seq(S) /\ Len(t) = Len(pending) - 1 /\ \A i \in 1..Len(t) : t[i] = pending[i + 1]
  BY <1>1, <1>2, <1>3 DEF t
<1>7. a \in Seq(S) /\ b \in Seq(S) /\ Len(a) = Len(events) + Len(pending) /\ Len(b) = Len(a)
  <2>1. a \in Seq(S) /\ Len(a) = Len(events) + Len(pending)
    OBVIOUS
  <2> DEFINE front == Append(events, h)
  <2>2. front \in Seq(S) /\ Len(front) = Len(events) + 1
    BY <1>5
  <2> HIDE DEF front
  <2>3. front \o t \in Seq(S) /\ Len(front \o t) = Len(front) + Len(t)
    BY <1>6, <2>2, ConcatProperties
  <2> QED BY <1>2, <1>5, <1>6, <2>1, <2>2, <2>3 DEF front
<1>8. ASSUME NEW i \in 1..Len(a) PROVE a[i] = b[i]
  <2>1. CASE i <= Len(events)
    BY <1>1, <1>5, <1>6, <1>7, <2>1 DEF h
  <2>2. CASE i = Len(events) + 1
    BY <1>1, <1>2, <1>4, <1>5, <1>6, <1>7, <2>2 DEF h
  <2>3. CASE i > Len(events) + 1
    BY <1>1, <1>2, <1>5, <1>6, <1>7, <2>3 DEF h
  <2> QED BY <1>5, <1>7, <2>1, <2>2, <2>3
<1>9. a = b
  <2> HIDE DEF a, b
  <2> QED BY <1>7, <1>8, SeqEqual
<1> QED BY <1>9 DEF h, t

-----------------------------------------------------------------------------
(* What collect and retryingStream do with an event keeps the wire.        *)

LEMMA CompletedEnds ==
  ASSUME IInv, completed.err = <<>>
  PROVE  /\ ~occurs(turn.events, "error")
         /\ Len(turn.events) \in DOMAIN turn.events /\ turn.events[Len(turn.events)].kind = "done"
<1> DEFINE events == turn.events
<1>1. completed.err = EndedTurn(events).err
  <2>1. turn \in Turns(current, turn)
    BY TurnFields
  <2>2. completed = [turn EXCEPT !.assistant = EndedTurn(events).turn, !.err = EndedTurn(events).err]
    BY DEF completed, applyNormalized, EndedTurn
  <2> HIDE DEF events
  <2> QED BY <2>1, <2>2 DEF Turns
<1>2. events \in Seq(EventsOf({current}))
  BY TurnFields
<1> HIDE DEF events
<1>3. validateTerminalSequence(events, TRUE) = <<>> /\ ~occurs(events, "error")
  BY <1>1, NormalizeAccepts, Zenon DEF EndedTurn
<1>4. {i \in DOMAIN events : isTerminal(events[i])} = {Len(events)}
  BY <1>2, <1>3, TerminalLast
<1>5. Len(events) \in DOMAIN events /\ isTerminal(events[Len(events)])
  BY <1>4
<1> QED BY <1>3, <1>5 DEF occurs, isTerminal, events

LEMMA OccursMore ==
  ASSUME NEW S, NEW events \in Seq(S), NEW e, NEW kind
  PROVE  /\ occurs(Append(events, e), kind) => occurs(events, kind) \/ e.kind = kind
         /\ occurs(events, kind) \/ e.kind = kind => occurs(Append(events, e), kind)
<1> DEFINE more == Append(events, e)
<1>1. /\ \A i \in DOMAIN more : (i \in DOMAIN events /\ more[i] = events[i]) \/ more[i] = e
      /\ \A i \in DOMAIN events : i \in DOMAIN more /\ more[i] = events[i]
      /\ Len(events) + 1 \in DOMAIN more /\ more[Len(events) + 1] = e
  OBVIOUS
<1> HIDE DEF more
<1>2. occurs(more, kind) => occurs(events, kind) \/ e.kind = kind
  BY <1>1 DEF occurs
<1>3. occurs(events, kind) \/ e.kind = kind => occurs(more, kind)
  BY <1>1 DEF occurs
<1> QED BY <1>2, <1>3 DEF more

\* Closing a body changes nothing of what it said.
LEMMA ClosedWire ==
  ASSUME NEW bs, GoodBodies(bs), current \in Nat, current # 0, NEW events, WireOf(bs[current], events)
  PROVE  WireOf(closeBody(bs, current)[current], events)
<1> DEFINE body == closeBody(bs, current)[current]
<1>1. current \in DOMAIN bs /\ bs[current] \in BodiesOf({current})
  BY DEF GoodBodies
<1>2. body = [bs[current] EXCEPT !.open = FALSE]
  BY <1>1 DEF closeBody, GoodBodies
<1>3. body.driver = bs[current].driver /\ body.parser = bs[current].parser /\ body.frames = bs[current].frames
  BY <1>1, <1>2 DEF BodiesOf
<1> HIDE DEF body
<1>4. protocol(body) = protocol(bs[current])
  BY <1>3 DEF protocol
<1>5. WireOf(body, events)
  BY <1>3, <1>4 DEF WireOf
<1> QED BY <1>5 DEF body

LEMMA WireOfNow ==
  ASSUME config' = config, NEW body, NEW events, WireOf(body, events), body = bodies'[current'],
         events = turn'.events
  PROVE  WireOf(bodies[current], turn.events)'
<1>1. protocol(bodies[current])' = protocol(body)
  BY DEF protocol
<1> QED BY <1>1 DEF WireOf

LEMMA FailedWire ==
  ASSUME IInv, NEW bs, NEW r, NEW err, err # <<>>, leave(bs, r, failed(err))
  PROVE  Wire'
<1>1. pc' = "returned" /\ turn' = failed(err)
  BY DEF leave
<1>2. failed(err).err = err
  BY TurnFields DEF failed, Turns
<1> QED BY <1>1, <1>2 DEF Wire, Reading, returned

LEMMA CompletedWire ==
  ASSUME IInv, current # 0, NEW bs, GoodBodies(bs), NEW r, leave(bs, r, completed),
         completed.err = <<>> => WireOf(bs[current], turn.events)
  PROVE  Wire'
<1>1. /\ pc' = "returned" /\ turn' = completed /\ bodies' = closeBody(bs, current)
      /\ config' = config /\ current' = current
  BY DEF leave
<1>2. completed.events = turn.events
  BY CompletedAccepted
<1>3. ASSUME completed.err = <<>> PROVE WireOf(bodies[current], turn.events)'
  <2>1. WireOf(closeBody(bs, current)[current], turn.events)
    BY <1>3, ClosedWire, TurnFields
  <2> QED BY <1>1, <1>2, <2>1, WireOfNow
<1> QED BY <1>1, <1>3 DEF Wire, Reading, returned

\* An event that is handed on is wired, and retryingStream knows the last one.
LEMMA ReceivedWire ==
  ASSUME IInv, Wire, pc # "returned", current # 0, NEW bs, GoodBodies(bs), NEW r, NEW event, NEW err,
         received(bs, r, event, err),
         err = <<>> => /\ event.kind = "error" \/ WireOf(bs[current], Append(turn.events, event))
                       /\ config.retry /\ (retry.terminal \/ event.kind = "done") => r.terminal,
         completed.err = <<>> => WireOf(bs[current], turn.events)
  PROVE  Wire'
<1>1. CASE err = <<>> /\ ~exceeds(event)
  <2>1. handOn(bs, r, event)
    BY <1>1 DEF received
  <2>2. /\ bodies' = bs /\ config' = config /\ current' = current /\ pc' = "deliver" /\ turn' = record(event)
        /\ retry' = r
    BY <2>1 DEF handOn
  <2>3. turn \in Turns(current, turn) /\ turn.events \in Seq(EventsOf({current}))
    BY TurnFields
  <2> DEFINE more == Append(turn.events, event)
  <2>4. turn'.events = more
    BY <2>2, <2>3 DEF record, Turns
  <2> HIDE DEF more
  <2>5. WireOf(bs[current], more)
    <3>1. CASE event.kind = "error"
      <4>1. occurs(more, "error")
        BY <2>3, <3>1, OccursMore DEF more
      <4> QED BY <4>1 DEF WireOf
    <3>2. CASE event.kind # "error"
      BY <1>1, <3>2 DEF more
    <3> QED BY <3>1, <3>2
  <2>6. WireOf(bodies[current], turn.events)'
    BY <2>2, <2>4, <2>5, WireOfNow
  <2>7. occurs(more, "done") => occurs(turn.events, "done") \/ event.kind = "done"
    BY <2>3, OccursMore DEF more
  <2>8. config.retry /\ occurs(more, "done") => r.terminal
    BY <1>1, <2>7 DEF Wire
  <2>9. (config.retry /\ pc # "returned" /\ occurs(turn.events, "done") => retry.terminal)'
    BY <2>2, <2>4, <2>8
  <2> QED BY <2>2, <2>6, <2>9 DEF Wire
<1>2. CASE ~(err = <<>> /\ ~exceeds(event)) /\ streamEnded(err)
  <2>1. leave(bs, r, completed)
    BY <1>2 DEF received
  <2> QED BY <2>1, CompletedWire
<1>3. CASE ~(err = <<>> /\ ~exceeds(event)) /\ ~streamEnded(err)
  <2> DEFINE e == IF err = <<>> THEN <<"limit">> ELSE err
  <2>1. leave(bs, r, failed(e)) /\ e # <<>>
    BY <1>3 DEF received
  <2> HIDE DEF e
  <2> QED BY <2>1, FailedWire
<1> QED BY <1>1, <1>2, <1>3

\* What retryingStream answers without an error is an error event, or the event of its stream.
Heard(event, recvErr, r, e, err) ==
  err = <<>> => /\ e.kind = "error" \/ (e = event /\ recvErr = <<>>)
                /\ config.retry /\ (retry.terminal \/ e.kind = "done") => r.terminal

LEMMA PartialIsError ==
  ASSUME NEW err \in Errors
  PROVE  <<"partial">> \o err # <<>> /\ <<"exhausted">> \o err # <<>>
<1>1. "partial" \in Tags /\ "exhausted" \in Tags
  BY DEF Tags
<1> QED BY <1>1, WrappedError

LEMMA ClassifiedHeard ==
  ASSUME IInv, ~retry.terminal, NEW event \in EventsOf({current}), NEW recvErr \in Errors
  PROVE  LET c == classifyReceived(event, recvErr)
         IN  \/ c.again = TRUE /\ c.err # <<>> /\ c.err \in Errors
             \/ c.again = FALSE /\ Heard(event, recvErr, c.r, c.event, c.err)
<1> DEFINE c == classifyReceived(event, recvErr)
           cause == IF event.kind = "error" /\ event.err # <<>> THEN event.err ELSE recvErr
           ended == [retry EXCEPT !.terminal = TRUE]
           emitted == [retry EXCEPT !.emitted = TRUE]
           both == [ended EXCEPT !.emitted = TRUE]
<1>1. ended.terminal
  BY TurnFields, RetryEnds
<1>2. event.kind \in EventKinds /\ event.err \in Errors
  BY EventFields
<1>3. cause \in Errors
  BY <1>2
<1>4. <<"partial">> \o recvErr # <<>> /\ <<"partial">> \o cause # <<>>
  <2> HIDE DEF cause
  <2> QED BY <1>3, PartialIsError
<1> HIDE DEF c, cause, ended, emitted, both
<1>5. ASSUME NEW r, NEW e, NEW err, c = Classified(r, e, FALSE, err), Heard(event, recvErr, r, e, err)
      PROVE  c.again = FALSE /\ Heard(event, recvErr, c.r, c.event, c.err)
  BY <1>5 DEF Classified
<1>6. CASE event.kind = "done"
  <2>1. CASE recvErr = <<>>
    <3>1. c = Classified(ended, event, FALSE, <<>>)
      BY <1>6, <2>1 DEF classifyReceived, c, cause, ended, emitted, both
    <3>2. Heard(event, recvErr, ended, event, <<>>)
      BY <1>1, <2>1 DEF Heard
    <3> QED BY <1>5, <3>1, <3>2 DEF c
  <2>2. CASE recvErr # <<>>
    <3>1. c = Classified(ended, NoEvent, FALSE, <<"partial">> \o recvErr)
      BY <1>6, <2>2 DEF classifyReceived, c, cause, ended, emitted, both
    <3>2. Heard(event, recvErr, ended, NoEvent, <<"partial">> \o recvErr)
      BY <1>4 DEF Heard
    <3> QED BY <1>5, <3>1, <3>2 DEF c
  <2> QED BY <2>1, <2>2
<1>7. CASE event.kind \notin {"", "error", "done"}
  <2>1. CASE recvErr = <<>>
    <3>1. c = Classified(emitted, event, FALSE, <<>>)
      BY <1>7, <2>1 DEF classifyReceived, c, cause, ended, emitted, both
    <3>2. Heard(event, recvErr, emitted, event, <<>>)
      BY <1>7, <2>1 DEF Heard
    <3> QED BY <1>5, <3>1, <3>2 DEF c
  <2>2. CASE recvErr # <<>>
    <3>1. c = Classified(both, event, FALSE, <<"partial">> \o recvErr)
      BY <1>7, <2>2 DEF classifyReceived, c, cause, ended, emitted, both
    <3>2. Heard(event, recvErr, both, event, <<"partial">> \o recvErr)
      BY <1>4 DEF Heard
    <3> QED BY <1>5, <3>1, <3>2 DEF c
  <2> QED BY <2>1, <2>2
<1>8. CASE event.kind \in {"", "error"} /\ retry.emitted
  <2>1. c = classifyPartialFailure(event, recvErr, cause)
    BY <1>8 DEF classifyReceived, c, cause
  <2>2. CASE cause = <<>> /\ event.kind # "error"
    <3>1. c = Classified(retry, event, FALSE, recvErr)
      BY <2>1, <2>2 DEF classifyPartialFailure
    <3>2. Heard(event, recvErr, retry, event, recvErr)
      BY <1>8 DEF Heard
    <3> QED BY <1>5, <3>1, <3>2 DEF c
  <2>3. CASE ~(cause = <<>> /\ event.kind # "error")
    <3>1. c = Classified(ended, NoEvent, FALSE, <<"partial">> \o cause)
      BY <2>1, <2>3 DEF classifyPartialFailure, ended
    <3>2. Heard(event, recvErr, ended, NoEvent, <<"partial">> \o cause)
      BY <1>4 DEF Heard
    <3> QED BY <1>5, <3>1, <3>2 DEF c
  <2> QED BY <2>2, <2>3
<1>9. CASE event.kind \in {"", "error"} /\ ~retry.emitted /\ cause = <<>>
  <2> DEFINE r == IF event.kind = "error" THEN ended ELSE retry
  <2>1. c = Classified(r, event, FALSE, recvErr)
    BY <1>9 DEF classifyReceived, c, cause, ended
  <2>2. Heard(event, recvErr, r, event, recvErr)
    BY <1>9 DEF Heard
  <2> QED BY <1>5, <2>1, <2>2 DEF c
<1>10. CASE event.kind \in {"", "error"} /\ ~retry.emitted /\ cause # <<>>
  <2>1. c = Classified(retry, event, TRUE, cause)
    BY <1>10 DEF classifyReceived, c, cause
  <2>2. c.again = TRUE /\ c.err = cause
    BY <2>1 DEF Classified
  <2> QED BY <1>3, <1>10, <2>2 DEF c
<1> QED BY <1>2, <1>6, <1>7, <1>8, <1>9, <1>10 DEF EventKinds

LEMMA OutcomeHeard ==
  ASSUME IInv, NEW event \in EventsOf({current}), NEW recvErr \in Errors,
         NEW o \in Outcomes(event, recvErr, classifyReceived(event, recvErr)), ~o.again
  PROVE  Heard(event, recvErr, o.r, o.event, o.err)
<1> DEFINE c == classifyReceived(event, recvErr)
           ended == [retry EXCEPT !.terminal = TRUE]
           failure == streamRetryFailure(event, <<"exhausted">> \o c.err)
<1>1. ASSUME NEW r, NEW e, NEW err, o = Classified(r, e, FALSE, err), Heard(event, recvErr, r, e, err)
      PROVE  Heard(event, recvErr, o.r, o.event, o.err)
  BY <1>1 DEF Classified
<1>2. o \in Outcomes(event, recvErr, c)
  OBVIOUS
<1>3. CASE ~config.retry \/ retry.terminal
  <2>1. o = Classified(retry, event, FALSE, recvErr)
    BY <1>2, <1>3 DEF Outcomes
  <2>2. Heard(event, recvErr, retry, event, recvErr)
    BY <1>3 DEF Heard
  <2> QED BY <1>1, <2>1, <2>2
<1>4. CASE ~(~config.retry \/ retry.terminal)
  <2>1. \/ c.again = TRUE /\ c.err # <<>> /\ c.err \in Errors
        \/ c.again = FALSE /\ Heard(event, recvErr, c.r, c.event, c.err)
    BY <1>4, ClassifiedHeard
  <2> HIDE DEF c, ended, failure
  <2>2. CASE ~c.again
    <3>1. o = c
      BY <1>2, <1>4, <2>2 DEF Outcomes
    <3> QED BY <2>1, <2>2, <3>1
  <2>3. CASE c.again /\ contextRetryStop(c.err)
    <3>1. o = Classified(retry, NoEvent, FALSE, c.err)
      BY <1>2, <1>4, <2>3 DEF Outcomes
    <3>2. Heard(event, recvErr, retry, NoEvent, c.err)
      BY <2>1, <2>3 DEF Heard
    <3> QED BY <1>1, <3>1, <3>2
  <2>4. CASE c.again /\ ~contextRetryStop(c.err) /\ retry.retries >= MaxRetries
    <3>1. o = Classified(retry, failure.event, FALSE, failure.err)
      BY <1>2, <1>4, <2>4 DEF Outcomes, failure
    <3>2. Heard(event, recvErr, retry, failure.event, failure.err)
      <4> DEFINE err == <<"exhausted">> \o c.err
      <4>1. err # <<>>
        BY <2>1, <2>4, PartialIsError
      <4> HIDE DEF err
      <4>2. CASE event.kind = "error"
        <5>1. [event EXCEPT !.err = err].kind = "error"
          BY <4>2 DEF EventsOf, Events
        <5>2. failure.event = [event EXCEPT !.err = err]
          BY <4>2 DEF failure, streamRetryFailure, err
        <5>3. failure.event.kind = "error"
          BY <5>1, <5>2
        <5> QED BY <1>4, <5>3 DEF Heard
      <4>3. CASE event.kind # "error"
        <5>1. failure.err = err
          BY <4>3 DEF failure, streamRetryFailure, err
        <5> QED BY <4>1, <5>1 DEF Heard
      <4> QED BY <4>2, <4>3
    <3> QED BY <1>1, <3>1, <3>2
  <2>5. CASE c.again /\ ~contextRetryStop(c.err) /\ ~(retry.retries >= MaxRetries)
    <3>1. PICK a \in Approvals(c.err) :
            o = CASE a \in {"canceled", "veto"} -> Classified(retry, NoEvent, FALSE, <<a>>)
                  [] a = "wait" -> c
                  [] OTHER -> IF event.kind = "error" THEN Classified(ended, event, FALSE, recvErr)
                              ELSE Classified(retry, event, FALSE, c.err)
      BY <1>2, <1>4, <2>5 DEF Outcomes, ended
    <3>2. CASE a \in {"canceled", "veto"}
      <4>1. o = Classified(retry, NoEvent, FALSE, <<a>>)
        BY <3>1, <3>2
      <4>2. <<a>> # <<>>
        OBVIOUS
      <4>3. Heard(event, recvErr, retry, NoEvent, <<a>>)
        BY <4>2 DEF Heard
      <4> QED BY <1>1, <4>1, <4>3
    <3>3. CASE a = "wait"
      BY <2>5, <3>1, <3>3
    <3>4. CASE a \notin {"canceled", "veto", "wait"} /\ event.kind = "error"
      <4>1. o = Classified(ended, event, FALSE, recvErr)
        BY <3>1, <3>4
      <4>2. Heard(event, recvErr, ended, event, recvErr)
        BY <1>4, <3>4 DEF Heard
      <4> QED BY <1>1, <4>1, <4>2
    <3>5. CASE a \notin {"canceled", "veto", "wait"} /\ event.kind # "error"
      <4>1. o = Classified(retry, event, FALSE, c.err)
        BY <3>1, <3>5
      <4>2. Heard(event, recvErr, retry, event, c.err)
        BY <2>1, <2>5 DEF Heard
      <4> QED BY <1>1, <4>1, <4>2
    <3> QED BY <3>2, <3>3, <3>4, <3>5
  <2> QED BY <2>2, <2>3, <2>4, <2>5
<1> QED BY <1>3, <1>4

LEMMA AwaitWire ==
  ASSUME IInv, Wire, pc # "returned", NEW bs, NEW wait, NEW event, await(bs, retry, wait, event)
  PROVE  Wire'
<1>1. pc' = "retryWait" /\ turn' = turn /\ config' = config
  BY DEF await
<1>2. retry'.terminal = retry.terminal
  BY TurnFields DEF await, Retries
<1> QED BY <1>1, <1>2 DEF Wire, Reading, returned

LEMMA RetriedWire ==
  ASSUME IInv, Wire, pc = "recv", NEW bs, GoodBodies(bs), NEW event \in EventsOf({current}), NEW recvErr \in Errors,
         retried(bs, event, recvErr), recvErr = <<>> => WireOf(bs[current], Append(turn.events, event)),
         completed.err = <<>> => WireOf(bs[current], turn.events)
  PROVE  Wire'
<1>1. PICK o \in Outcomes(event, recvErr, classifyReceived(event, recvErr)) :
        IF o.again THEN await(bs, retry, "recv", event) ELSE received(bs, o.r, o.event, o.err)
  BY DEF retried
<1>2. current # 0
  BY ReadingHasBody
<1>3. CASE o.again
  <2>1. await(bs, retry, "recv", event)
    BY <1>1, <1>3
  <2> QED BY <2>1, AwaitWire
<1>4. CASE ~o.again
  <2>1. received(bs, o.r, o.event, o.err)
    BY <1>1, <1>4
  <2>2. Heard(event, recvErr, o.r, o.event, o.err)
    BY <1>4, OutcomeHeard
  <2>3. o.err = <<>> => /\ o.event.kind = "error" \/ WireOf(bs[current], Append(turn.events, o.event))
                        /\ config.retry /\ (retry.terminal \/ o.event.kind = "done") => o.r.terminal
    BY <2>2 DEF Heard
  <2> QED BY <1>2, <2>1, <2>3, ReceivedWire
<1> QED BY <1>3, <1>4

-----------------------------------------------------------------------------
(* Every step keeps the wire.                                              *)

LEMMA ReadingTypes ==
  ASSUME IInv, current # 0
  PROVE  /\ turn.events \in Seq(EventsOf(Nat)) /\ bodies[current].parser \in ParsersOf(Nat)
         /\ bodies[current].parser.pending \in Seq(EventsOf(Nat))
<1>1. current \in Nat /\ turn.events \in Seq(EventsOf({current})) /\ bodies[current] \in BodiesOf({current})
  BY TurnFields, CurrentBody
<1>2. turn.events \in Seq(EventsOf(Nat))
  BY <1>1, EventsGrow, SeqGrows
<1>3. bodies[current].parser \in ParsersOf(Nat)
  BY <1>1, BodyWidens DEF BodiesOf
<1> QED BY <1>2, <1>3, ParserFields

\* The terminal event is handed on last: a turn is not accepted before.
LEMMA NotYetAccepted ==
  ASSUME IInv, Wire, pc = "recv", protocol(bodies[current]) # "host", completed.err = <<>>
  PROVE  bodies[current].parser.finished /\ bodies[current].parser.pending = <<>>
<1> DEFINE events == turn.events
           parser == bodies[current].parser
           pending == parser.pending
           both == events \o pending
           n == Len(events)
<1>1. current # 0
  BY ReadingHasBody
<1>2. ~occurs(events, "error") /\ n \in DOMAIN events /\ events[n].kind = "done"
  BY CompletedEnds
<1>3. WireOf(bodies[current], events)
  BY DEF Wire, Reading
<1>4. EndSaid(bodies[current].frames, parser, both)
  BY <1>2, <1>3 DEF WireOf, Wired
<1>5. events \in Seq(EventsOf(Nat)) /\ pending \in Seq(EventsOf(Nat))
  BY <1>1, ReadingTypes
<1> HIDE DEF events, pending, parser
<1>6. n \in DOMAIN both /\ both[n] = events[n] /\ Len(both) = n + Len(pending) /\ n \in Nat /\ Len(pending) \in Nat
  BY <1>2, <1>5
<1> HIDE DEF both
<1>7. n = Len(both) /\ parser.finished
  BY <1>2, <1>4, <1>6 DEF EndSaid
<1>8. Len(pending) = 0
  BY <1>6, <1>7
<1>9. pending = <<>>
  BY <1>5, <1>8
<1> QED BY <1>7, <1>9 DEF parser, pending

LEMMA RecvPendingWire ==
  ASSUME IInv, Wire, RecvPending
  PROVE  Wire'
<1>1. pc = "recv" /\ current # 0
  BY ReadingHasBody DEF RecvPending
<1> DEFINE old == bodies[current]
           pending == old.parser.pending
           parser == [old.parser EXCEPT !.pending = Tail(pending)]
           body == [old EXCEPT !.parser = parser]
           bs == [bodies EXCEPT ![current] = body]
           event == Head(pending)
<1>2. /\ old \in BodiesOf({current}) /\ old.parser \in ParsersOf({current}) /\ current \in DOMAIN bodies
  BY <1>1, CurrentBody
<1>3. pending \in Seq(EventsOf({current})) /\ pending # <<>>
  BY <1>2, ParserFields DEF RecvPending
<1>4. event \in EventsOf({current}) /\ Tail(pending) \in Seq(EventsOf({current}))
  <2> HIDE DEF pending
  <2> QED BY <1>3
<1>5. parser \in ParsersOf({current})
  BY <1>2, <1>4, ParserUpdates
<1>6. [bodies EXCEPT ![current].parser.pending = Tail(@)] = bs
  BY <1>2 DEF BodiesOf, ParsersOf
<1>7. /\ parser.pending = Tail(pending) /\ parser.stop = old.parser.stop /\ parser.buffer = old.parser.buffer
      /\ parser.items = old.parser.items /\ parser.finished = old.parser.finished
      /\ parser.inThink = old.parser.inThink
  BY <1>2 DEF ParsersOf
<1>8. body \in BodiesOf({current}) /\ body.driver = old.driver /\ body.frames = old.frames /\ body.parser = parser
  <2> HIDE DEF parser, old
  <2> QED BY <1>2, <1>5 DEF BodiesOf
<1>9. retried(bs, event, <<>>)
  BY <1>6 DEF RecvPending
<1>10. WireOf(old, turn.events)
  BY <1>1 DEF Wire, Reading
<1>11. turn.events \in Seq(EventsOf(Nat)) /\ pending \in Seq(EventsOf(Nat))
  BY <1>1, ReadingTypes
<1>12. bs[current] = body
  <2> HIDE DEF body
  <2> QED BY <1>2 DEF IInv, Bodied
<1>13. GoodBodies(bs)
  <2> HIDE DEF body
  <2> QED BY <1>1, <1>8, PutBody
<1> DEFINE more == Append(turn.events, event)
<1>14. turn.events \o pending = more \o Tail(pending)
  <2> HIDE DEF pending
  <2> QED BY <1>3, <1>11, HandedOn
<1>15. occurs(turn.events, "error") => occurs(more, "error")
  BY <1>11, OccursMore
<1>16. protocol(body) = protocol(old)
  BY <1>8 DEF protocol
<1> HIDE DEF more, bs, body, parser, event, pending
<1>17. WireOf(body, more)
  <2> SUFFICES ASSUME protocol(old) # "host", ~occurs(more, "error")
               PROVE  Wired(protocol(old), old.frames, parser, more \o parser.pending)
    BY <1>8, <1>16 DEF WireOf
  <2>1. Wired(protocol(old), old.frames, old.parser, turn.events \o pending)
    BY <1>10, <1>15 DEF WireOf, pending
  <2> HIDE DEF old
  <2> QED BY <1>7, <1>14, <2>1, WiredSame
<1>18. completed.err = <<>> => WireOf(body, turn.events)
  <2>1. CASE protocol(old) = "host"
    BY <1>16, <2>1 DEF WireOf
  <2>2. CASE protocol(old) # "host"
    BY <1>1, <1>3, <2>2, NotYetAccepted DEF pending
  <2> QED BY <2>1, <2>2
<1>19. WireOf(bs[current], Append(turn.events, event)) /\ (completed.err = <<>> => WireOf(bs[current], turn.events))
  BY <1>12, <1>17, <1>18 DEF more
<1> QED BY <1>1, <1>4, <1>9, <1>13, <1>19, RetriedWire, NilError

LEMMA RecvEndWire ==
  ASSUME IInv, Wire, RecvEnd
  PROVE  Wire'
<1> DEFINE err == IF bodies[current].parser.finished THEN <<"eof">> ELSE <<"plain">>
<1>1. pc = "recv" /\ retried(bodies, NoEvent, err)
  BY DEF RecvEnd
<1>2. err \in Errors /\ err # <<>>
  BY ErrorsNamed
<1>3. NoEvent \in EventsOf({current})
  BY NoEventSilent, SilentIsEvent
<1>4. WireOf(bodies[current], turn.events)
  BY <1>1 DEF Wire, Reading
<1> HIDE DEF err
<1> QED BY <1>1, <1>2, <1>3, <1>4, OwnBodiesGood, RetriedWire

LEMMA ReadFrameBody ==
  ASSUME IInv, current # 0, NEW f, NEW q
  PROVE  LET body == readFrame(f, q)[current]
         IN  /\ body.driver = bodies[current].driver
             /\ f.kind # "canceled" => body.frames = Append(bodies[current].frames, f) /\ body.parser = q
<1> DEFINE old == bodies[current]
           body == [old EXCEPT !.frames = Append(@, f), !.parser = q]
<1>1. old \in BodiesOf({current}) /\ current \in DOMAIN bodies
  BY CurrentBody
<1>2. body.driver = old.driver /\ body.frames = Append(old.frames, f) /\ body.parser = q
  BY <1>1 DEF BodiesOf
<1>3. [bodies EXCEPT ![current].frames = Append(@, f), ![current].parser = q] = [bodies EXCEPT ![current] = body]
  BY <1>1 DEF BodiesOf
<1> HIDE DEF body
<1>4. [bodies EXCEPT ![current] = body][current] = body
  BY <1>1 DEF IInv, Bodied
<1>5. readFrame(f, q)[current] = body \/ (f.kind = "canceled" /\ readFrame(f, q)[current] = old)
  BY <1>3, <1>4 DEF readFrame
<1> QED BY <1>2, <1>5

LEMMA FrameWire ==
  ASSUME IInv, Wire, pc = "recv", protocol(bodies[current]) # "host", ~occurs(turn.events, "error"),
         bodies[current].parser.pending = <<>>, ~bodies[current].parser.finished, NEW f \in Frames(bodies[current]),
         consume(protocol(bodies[current]), bodies[current].parser, f, pieceOf(current, f)).err = <<>>
  PROVE  LET p == protocol(bodies[current])
             q == consume(p, bodies[current].parser, f, pieceOf(current, f)).parser
         IN  /\ f.kind # "canceled"
             /\ Wired(p, Append(bodies[current].frames, f), q, turn.events \o q.pending)
<1> DEFINE p == protocol(bodies[current])
           old == bodies[current]
           piece == pieceOf(current, f)
<1>1. current # 0
  BY ReadingHasBody
<1>2. p \in Protocols \ {"host"} /\ old.frames \in Seq(AllFrames) /\ current \in DOMAIN bodies
  BY <1>1, CurrentBody
<1>3. f.kind # "canceled"
  BY ConsumeFails
<1>4. f \in WireFrames /\ mayFollow(p, old.frames, f)
  BY <1>3, FramesFollow
<1>5. piece \in PiecesOf(Nat) /\ piece.at = Len(old.frames) + 1
  BY <1>2, PieceTyped, PieceAt, PiecesGrow, TurnFields
<1>6. turn.events \in Seq(EventsOf(Nat)) /\ old.parser \in ParsersOf(Nat) /\ old.parser.pending \in Seq(EventsOf(Nat))
  BY <1>1, ReadingTypes
<1>7. WireOf(old, turn.events)
  BY DEF Wire, Reading
<1>8. Wired(p, old.frames, old.parser, turn.events)
  <2>1. Wired(p, old.frames, old.parser, turn.events \o old.parser.pending)
    BY <1>7 DEF WireOf
  <2>2. turn.events \o <<>> = turn.events
    BY <1>6
  <2> QED BY <2>1, <2>2
<1>9. Asked(p, old.frames, old.parser, turn.events)
  BY <1>2, <1>6, <1>8 DEF Asked
<1>10. consume(p, old.parser, f, piece).err = <<>>
  OBVIOUS
<1> HIDE DEF p, old, piece
<1>11. LET q == consume(p, old.parser, f, piece).parser
       IN  Wired(p, Append(old.frames, f), q, turn.events \o q.pending)
  BY <1>2, <1>4, <1>5, <1>9, <1>10, ConsumeWired
<1> QED BY <1>3, <1>11 DEF p, old, piece

LEMMA RecvFrameWire ==
  ASSUME IInv, Wire, RecvFrame
  PROVE  Wire'
<1>1. pc = "recv" /\ current # 0 /\ bodies[current].parser.pending = <<>> /\ ~bodies[current].parser.finished
  BY ReadingHasBody DEF RecvFrame
<1>2. PICK f \in Frames(bodies[current]) :
        consumed(f, consume(protocol(bodies[current]), bodies[current].parser, f, pieceOf(current, f)))
  BY DEF RecvFrame
<1> DEFINE p == protocol(bodies[current])
           piece == pieceOf(current, f)
           out == consume(p, bodies[current].parser, f, piece)
           pending == out.parser.pending
           rest == IF pending = <<>> THEN <<>> ELSE Tail(pending)
           parser == [out.parser EXCEPT !.pending = rest]
           event == IF pending = <<>> THEN NoEvent ELSE Head(pending)
           sent == Append(bodies[current].frames, f)
<1>3. f \in AllFrames
  BY FrameInAll
<1>4. /\ current \in DOMAIN bodies /\ bodies[current].parser \in ParsersOf({current}) /\ p \in Protocols
      /\ piece \in PiecesOf({current}) /\ current \in Nat
  BY <1>1, CurrentBody, PieceTyped, TurnFields
<1>5. out \in Parsed({current})
  BY <1>4, ConsumeTyped
<1>6. ASSUME out.err = <<>>, p # "host", ~occurs(turn.events, "error")
      PROVE  f.kind # "canceled" /\ Wired(p, sent, out.parser, turn.events \o pending)
  BY <1>1, <1>6, FrameWire
<1> HIDE DEF out, sent
<1>7. out.parser \in ParsersOf({current}) /\ out.err \in Errors
  BY <1>5 DEF Parsed
<1>8. pending \in Seq(EventsOf({current}))
  BY <1>7, ParserFields
<1>9. turn.events \in Seq(EventsOf({current}))
  BY TurnFields
<1>10. ASSUME NEW q PROVE protocol(readFrame(f, q)[current]) = p
  BY <1>1, ReadFrameBody DEF protocol
<1>11. CASE out.err = <<>> /\ pending = <<>>
  <2>1. bodies' = readFrame(f, out.parser) /\ UNCHANGED <<config, ctx, pc, current, chain, retry, turn>>
    BY <1>2, <1>11 DEF consumed, out
  <2> DEFINE body == readFrame(f, out.parser)[current]
  <2>2. WireOf(body, turn.events)
    <3> SUFFICES ASSUME p # "host", ~occurs(turn.events, "error")
                 PROVE  Wired(p, body.frames, body.parser, turn.events \o body.parser.pending)
      BY <1>10 DEF WireOf
    <3>1. f.kind # "canceled" /\ Wired(p, sent, out.parser, turn.events \o pending)
      BY <1>6, <1>11
    <3>2. body.frames = sent /\ body.parser = out.parser
      BY <1>1, <3>1, ReadFrameBody DEF sent
    <3> QED BY <3>1, <3>2
  <2> HIDE DEF body
  <2>3. WireOf(bodies[current], turn.events)'
    BY <2>1, <2>2, WireOfNow DEF body
  <2>4. (config.retry /\ pc # "returned" /\ occurs(turn.events, "done") => retry.terminal)'
    BY <2>1 DEF Wire
  <2> QED BY <1>1, <2>1, <2>3, <2>4 DEF Wire
<1>12. CASE ~(out.err = <<>> /\ pending = <<>>)
  <2>1. retried(readFrame(f, parser), event, out.err)
    BY <1>2, <1>12 DEF consumed, out
  <2>2. rest \in Seq(EventsOf({current})) /\ event \in EventsOf({current})
    <3>1. NoEvent \in EventsOf({current})
      BY NoEventSilent, SilentIsEvent
    <3> HIDE DEF pending
    <3> QED BY <1>8, <3>1
  <2>3. /\ parser.pending = rest /\ parser.stop = out.parser.stop /\ parser.buffer = out.parser.buffer
        /\ parser.items = out.parser.items /\ parser.finished = out.parser.finished
        /\ parser.inThink = out.parser.inThink
        /\ parser \in ParsersOf({current})
    <3> HIDE DEF rest
    <3> QED BY <1>7, <2>2 DEF ParsersOf
  <2> DEFINE bs == readFrame(f, parser)
             body == bs[current]
             more == Append(turn.events, event)
  <2> HIDE DEF parser
  <2>4. GoodBodies(bs)
    BY <1>1, <1>3, <2>3, ReadFrameGood
  <2>5. ASSUME out.err = <<>> PROVE WireOf(body, more)
    <3>1. pending # <<>>
      BY <1>12, <2>5
    <3>2. turn.events \o pending = more \o rest
      <4>1. event = Head(pending) /\ rest = Tail(pending)
        BY <3>1
      <4> HIDE DEF event, rest, pending
      <4> QED BY <1>8, <1>9, <3>1, <4>1, HandedOn
    <3>3. occurs(turn.events, "error") => occurs(more, "error")
      <4> HIDE DEF event
      <4> QED BY <1>9, OccursMore
    <3> HIDE DEF more, event
    <3> SUFFICES ASSUME p # "host", ~occurs(turn.events, "error")
                 PROVE  Wired(p, body.frames, body.parser, more \o body.parser.pending)
      BY <1>10, <3>3 DEF WireOf
    <3>4. f.kind # "canceled" /\ Wired(p, sent, out.parser, more \o rest)
      BY <1>6, <2>5, <3>2
    <3>5. body.frames = sent /\ body.parser = parser
      BY <1>1, <3>4, ReadFrameBody DEF sent
    <3> HIDE DEF body, rest
    <3>6. Wired(p, sent, parser, more \o rest)
      BY <2>3, <3>4, WiredSame
    <3> QED BY <2>3, <3>5, <3>6
  <2>6. completed.err = <<>> => WireOf(body, turn.events)
    <3>1. CASE p = "host"
      BY <1>10, <3>1 DEF WireOf
    <3>2. CASE p # "host"
      BY <1>1, <3>2, NotYetAccepted
    <3> QED BY <3>1, <3>2
  <2> HIDE DEF event, bs
  <2> QED BY <1>1, <1>7, <2>1, <2>2, <2>4, <2>5, <2>6, RetriedWire DEF bs
<1> QED BY <1>11, <1>12

\* A step that only moves the goroutine, or the context.
LEMMA SameWire ==
  ASSUME Wire, UNCHANGED <<config, bodies, current, retry, turn>>, Reading' => Reading, pc = "returned" => pc' = pc
  PROVE  Wire'
<1>1. ASSUME Reading' PROVE current' # 0 /\ WireOf(bodies[current], turn.events)'
  <2>1. current # 0 /\ WireOf(bodies[current], turn.events)
    BY <1>1 DEF Wire
  <2> QED BY <2>1, WireOfNow
<1>2. (config.retry /\ pc # "returned" /\ occurs(turn.events, "done") => retry.terminal)'
  BY DEF Wire
<1> QED BY <1>1, <1>2 DEF Wire

LEMMA CollectWire ==
  ASSUME IInv, Wire, Collect
  PROVE  Wire'
<1>1. CASE ctx /\ ~turn.sawTerminal
  <2>1. leave(bodies, retry, failed(<<"canceled">>)) /\ <<"canceled">> # <<>>
    BY <1>1 DEF Collect
  <2> QED BY <2>1, FailedWire
<1>2. CASE ~(ctx /\ ~turn.sawTerminal)
  <2>1. pc = "collect" /\ UNCHANGED <<config, bodies, current, retry, turn>>
    BY <1>2 DEF Collect
  <2>2. Reading /\ pc # "returned"
    BY <2>1 DEF Reading
  <2> QED BY <2>1, <2>2, SameWire
<1> QED BY <1>1, <1>2

LEMMA DeliverWire ==
  ASSUME IInv, Wire, Deliver
  PROVE  Wire'
<1>1. ASSUME NEW fault, leave(bodies, retry, failed(<<fault>>)) PROVE Wire'
  <2>1. <<fault>> # <<>>
    OBVIOUS
  <2> QED BY <1>1, <2>1, FailedWire
<1>2. CASE pc' = "collect" /\ UNCHANGED <<config, ctx, bodies, current, chain, retry, turn>>
  <2>1. Reading /\ pc # "returned"
    BY DEF Reading, Deliver
  <2> QED BY <1>2, <2>1, SameWire
<1> QED BY <1>1, <1>2 DEF Deliver

\* While a stream is opened or replaced nothing was said to be the end.
LEMMA NotDoneOpening ==
  ASSUME IInv, Wire, pc \in Opening
  PROVE  /\ ~occurs(turn.events, "done") /\ ~retry.terminal
         /\ completed.err # <<>>
<1>1. ~retry.terminal /\ (current # 0 => config.retry) /\ (current = 0 => turn.events = <<>>)
  BY QuietOpening
<1>2. pc # "returned"
  BY DEF Opening
<1>3. ~occurs(turn.events, "done")
  <2>1. CASE current = 0
    BY <1>1, <2>1 DEF occurs
  <2>2. CASE current # 0
    BY <1>1, <1>2, <2>2 DEF Wire
  <2> QED BY <2>1, <2>2
<1>4. completed.err # <<>>
  BY <1>3, CompletedEnds DEF occurs
<1> QED BY <1>1, <1>3, <1>4

LEMMA GaveUpWire ==
  ASSUME IInv, Wire, pc \in Opening, NEW bs, GoodBodies(bs), NEW err, err # <<>>, gaveUp(bs, err)
  PROVE  Wire'
<1>1. CASE current = 0
  <2>1. pc' = "returned" /\ turn' = [turn EXCEPT !.err = err]
    BY <1>1 DEF gaveUp, leave
  <2>2. turn'.err = err
    BY <2>1, TurnFields DEF Turns
  <2> QED BY <2>1, <2>2 DEF Wire, Reading, returned
<1>2. CASE current # 0
  <2> DEFINE failure == streamRetryFailure(retry.event, err)
  <2>1. received(bs, retry, failure.event, failure.err)
    BY <1>2 DEF gaveUp
  <2>2. failure.err = <<>> => failure.event.kind = "error"
    <3>1. CASE retry.event.kind = "error"
      <4> DEFINE e == [retry.event EXCEPT !.err = err]
      <4>1. e.kind = "error"
        BY <3>1, TurnFields DEF SilentEvents
      <4>2. failure.event = e
        BY <3>1 DEF streamRetryFailure
      <4> QED BY <4>1, <4>2
    <3>2. CASE retry.event.kind # "error"
      BY <3>2 DEF streamRetryFailure
    <3> QED BY <3>1, <3>2
  <2> HIDE DEF failure
  <2>3. ~retry.terminal /\ completed.err # <<>>
    BY NotDoneOpening
  <2>4. pc # "returned"
    BY DEF Opening
  <2>5. failure.err = <<>> =>
          /\ failure.event.kind = "error" \/ WireOf(bs[current], Append(turn.events, failure.event))
          /\ config.retry /\ (retry.terminal \/ failure.event.kind = "done") => retry.terminal
    BY <2>2, <2>3
  <2> QED BY <1>2, <2>1, <2>3, <2>4, <2>5, ReceivedWire
<1> QED BY <1>1, <1>2

LEMMA OpenFailedWire ==
  ASSUME IInv, Wire, pc \in Opening, NEW bs, GoodBodies(bs), NEW err \in Errors, err # <<>>, openFailed(bs, err)
  PROVE  Wire'
<1>1. PICK o \in Reopenings(err) :
        IF o.again THEN await(bs, retry, "open", retry.event) ELSE gaveUp(bs, o.err)
  BY DEF openFailed
<1>2. CASE o.again
  <2>1. pc # "returned" /\ await(bs, retry, "open", retry.event)
    BY <1>1, <1>2 DEF Opening
  <2> QED BY <2>1, AwaitWire
<1>3. CASE ~o.again
  <2>1. gaveUp(bs, o.err) /\ o.err # <<>>
    BY <1>1, <1>3, ReopeningFails
  <2> QED BY <2>1, GaveUpWire
<1> QED BY <1>2, <1>3

\* A step of opening a stream that goes on.
LEMMA OpeningWire ==
  ASSUME IInv, Wire, pc \in Opening, pc' \in Opening, UNCHANGED <<config, turn>>
  PROVE  Wire'
<1>1. ~occurs(turn.events, "done")
  BY NotDoneOpening
<1>2. ~occurs(turn.events, "done")'
  BY <1>1
<1>3. ~Reading'
  BY DEF Reading, Opening, returned
<1> QED BY <1>2, <1>3 DEF Wire

LEMMA DriverFailedWire ==
  ASSUME IInv, Wire, pc \in Opening, NEW bs, GoodBodies(bs), NEW err \in Errors, err # <<>>, driverFailed(bs, err)
  PROVE  Wire'
<1>1. CASE config.chain = "single"
  BY <1>1, OpenFailedWire DEF driverFailed
<1>2. CASE config.chain # "single"
  <2>1. pc' \in Opening /\ UNCHANGED <<config, turn>>
    BY <1>2 DEF driverFailed, Opening
  <2> QED BY <2>1, OpeningWire
<1> QED BY <1>1, <1>2

LEMMA DriverWire ==
  ASSUME IInv, Wire, Driver
  PROVE  Wire'
<1> DEFINE joined == <<"joined">> \o chain.errs \o IF chain.at > Len(config.drivers) THEN <<>> ELSE <<"canceled">>
<1>1. pc \in Opening
  BY DEF Driver, Opening
<1>2. joined \in Errors /\ joined # <<>>
  BY JoinedFails
<1>3. CASE openFailed(bodies, joined)
  <2> HIDE DEF joined
  <2> QED BY <1>1, <1>2, <1>3, OpenFailedWire, OwnBodiesGood
<1>4. CASE pc' = "request" /\ UNCHANGED <<config, ctx, bodies, current, chain, retry, turn>>
  BY <1>1, <1>4, OpeningWire DEF Opening
<1>5. CASE driverFailed(bodies, <<"plain">>)
  <2>1. <<"plain">> # <<>>
    OBVIOUS
  <2> QED BY <1>1, <1>5, <2>1, DriverFailedWire, OwnBodiesGood, ErrorsNamed
<1> QED BY <1>3, <1>4, <1>5 DEF Driver

LEMMA RetryTimerWire ==
  ASSUME IInv, Wire, RetryTimer
  PROVE  Wire'
BY OpeningWire DEF RetryTimer, Opening

LEMMA RetryCanceledWire ==
  ASSUME IInv, Wire, RetryCanceled
  PROVE  Wire'
<1>1. <<"canceled">> # <<>> /\ pc \in Opening /\ pc # "returned"
  BY DEF RetryCanceled, Opening
<1>2. CASE retry.wait = "recv"
  <2>1. received(bodies, retry, NoEvent, <<"canceled">>)
    BY <1>2 DEF RetryCanceled
  <2>2. current # 0
    BY <1>2 DEF IInv, Silent, RetryCanceled
  <2>3. completed.err # <<>>
    BY <1>1, NotDoneOpening
  <2> QED BY <1>1, <2>1, <2>2, <2>3, ReceivedWire, OwnBodiesGood
<1>3. CASE retry.wait # "recv"
  <2>1. gaveUp(bodies, <<"canceled">>)
    BY <1>3 DEF RetryCanceled
  <2> QED BY <1>1, <2>1, GaveUpWire, OwnBodiesGood
<1> QED BY <1>2, <1>3

LEMMA BackoffWire ==
  ASSUME IInv, Wire, Backoff
  PROVE  Wire'
<1>1. pc \in Opening
  BY DEF Backoff, Opening
<1>2. CASE driverFailed(bodies, <<"canceled">>)
  <2>1. <<"canceled">> # <<>>
    OBVIOUS
  <2> QED BY <1>1, <1>2, <2>1, DriverFailedWire, OwnBodiesGood, ErrorsNamed
<1>3. CASE pc' = "request" /\ UNCHANGED <<config, ctx, bodies, current, retry, turn>>
  BY <1>1, <1>3, OpeningWire DEF Opening
<1> QED BY <1>2, <1>3 DEF Backoff

\* Nothing was said of a body that has just been opened.
LEMMA NothingWired ==
  ASSUME NEW p, NEW events \in Seq(SilentEvents), ~occurs(events, "done"), ~occurs(events, "error")
  PROVE  Wired(p, <<>>, NewParser, events \o NewParser.pending)
<1>1. ASSUME NEW i \in DOMAIN events PROVE events[i].kind = ""
  <2>1. events[i] \in SilentEvents
    OBVIOUS
  <2>2. events[i].kind \in {"", "done", "error"}
    BY <2>1, SilentFields
  <2> QED BY <2>2 DEF occurs
<1>2. (\A kind \in ContentKinds : contentPieces(events, kind) = <<>>) /\ toolCallBuilders(events) = NoBuilders
  <2>1. \A i \in DOMAIN events : events[i].kind \notin {"text", "thinking", "delta", "call"}
    BY <1>1
  <2>2. \A kind \in ContentKinds : contentPieces(events, kind) = <<>>
    BY <2>1, NoTextNoContent DEF ContentKinds
  <2> QED BY <2>1, <2>2, NoCallsNoBuilders
<1>3. /\ NewParser.pending = <<>> /\ NewParser.buffer = <<>> /\ NewParser.stop = "" /\ ~NewParser.inThink
      /\ \A x \in Items : ~NewParser.items[x].deltas
  BY DEF NewParser
<1>4. \A kind : \A x : ~sends(<<>>, kind, x)
  BY DEF sends
<1>5. Remembered(p, <<>>, NewParser)
  <2>1. DOMAIN <<>> = {}
    OBVIOUS
  <2>2. p = "responses" => \A x \in Items : NewParser.items[x].deltas <=> sends(<<>>, "args", x)
    BY <1>3, <1>4
  <2> QED BY <1>3, <1>4, <2>1, <2>2 DEF Remembered
<1>6. EndSaid(<<>>, NewParser, events)
  BY <1>1 DEF EndSaid
<1>7. (\A kind : sentOf(<<>>, kind) = {}) /\ callsSent(p, <<>>) = {}
  BY <1>4 DEF sentOf, callsSent
<1>8. Filed(p, <<>>, NoBuilders)
  <2>1. NoBuilders \in Accs
    BY DEF NoBuilders, Accs
  <2>2. NoBuilders.builders = <<>> /\ \A x \in Items : NoBuilders.ids[x] = 0 /\ NoBuilders.indexes[x] = 0
    BY DEF NoBuilders
  <2> HIDE DEF NoBuilders
  <2> QED BY <1>7, <2>1, <2>2 DEF Filed
<1>9. Said(p, <<>>, NewParser, events)
  <2>1. <<>> \o <<>> = <<>> /\ DOMAIN <<>> = {}
    OBVIOUS
  <2>2. mode(NewParser) = "text" /\ \A kind : heldBack(NewParser, kind) = <<>>
    BY <1>3 DEF mode, heldBack
  <2>3. modeAt(<<>>, Len(<<>>) + 1) = "text"
    BY <2>1 DEF modeAt, insideAt
  <2>4. ASSUME NEW kind \in ContentKinds
        PROVE  inOrder(contentPieces(events, kind) \o heldBack(NewParser, kind), sentOf(<<>>, kind))
    BY <1>2, <1>7, <2>1, <2>2, NothingSent
  <2> QED BY <2>1, <2>2, <2>3, <2>4 DEF Said
<1>10. events \o NewParser.pending = events
  <2>1. events \o <<>> = events
    OBVIOUS
  <2> QED BY <1>3, <2>1
<1> QED BY <1>2, <1>5, <1>6, <1>8, <1>9, <1>10 DEF Wired

LEMMA RequestWire ==
  ASSUME IInv, Wire, Request
  PROVE  Wire'
<1>1. pc = "request" /\ pc \in Opening
  BY DEF Request, Opening
<1>2. PICK answer \in Answers :
        CASE answer = "stream" ->
               /\ bodies' = answered(answer)
               /\ current' = Len(bodies) + 1
               /\ pc' = IF current = 0 THEN "collect" ELSE "recv"
               /\ chain' = NewChain
               /\ UNCHANGED <<config, ctx, retry, turn>>
          [] requestRetryable(answer) /\ chain.attempt < Attempts ->
               /\ bodies' = answered(answer)
               /\ pc' = "backoff"
               /\ UNCHANGED <<config, ctx, current, chain, retry, turn>>
          [] OTHER -> driverFailed(answered(answer), responseError(answer))
  BY DEF Request
<1>3. ~occurs(turn.events, "done") /\ turn.events \in Seq(SilentEvents)
  BY <1>1, NotDoneOpening, QuietOpening
<1>4. CASE answer = "stream"
  <2>1. /\ bodies' = answered(answer) /\ current' = Len(bodies) + 1
        /\ config' = config /\ turn' = turn
    <3>1. ~(requestRetryable(answer) /\ chain.attempt < Attempts)
      BY <1>4 DEF requestRetryable, isResponse
    <3> QED BY <1>2, <1>4, <3>1
  <2> DEFINE body == NewBody(chain.at, TRUE)
  <2>2. body.frames = <<>> /\ body.parser = NewParser
    BY DEF NewBody
  <2>3. bodies \in Seq(BodiesOf(Nat)) /\ answered(answer) = Append(bodies, NewBody(chain.at, answer = "stream"))
    BY <1>4 DEF IInv, Bodied, answered, isResponse
  <2>4. answered(answer) = Append(bodies, body)
    <3>1. (answer = "stream") = TRUE
      BY <1>4
    <3> QED BY <2>3, <3>1
  <2> HIDE DEF body
  <2>5. bodies'[current'] = body /\ current' # 0
    BY <2>1, <2>3, <2>4
  <2>6. WireOf(body, turn.events)
    <3>1. ASSUME ~occurs(turn.events, "error")
          PROVE  Wired(protocol(body), <<>>, NewParser, turn.events \o NewParser.pending)
      BY <1>3, <3>1, NothingWired
    <3> QED BY <2>2, <3>1 DEF WireOf
  <2>7. WireOf(bodies[current], turn.events)'
    BY <2>1, <2>5, <2>6, WireOfNow
  <2>8. ~occurs(turn.events, "done")'
    BY <1>3, <2>1
  <2> QED BY <2>5, <2>7, <2>8 DEF Wire
<1>5. CASE answer # "stream" /\ requestRetryable(answer) /\ chain.attempt < Attempts
  <2>1. pc' \in Opening /\ UNCHANGED <<config, turn>>
    BY <1>2, <1>5 DEF Opening
  <2> QED BY <1>1, <2>1, OpeningWire
<1>6. CASE answer # "stream" /\ ~(requestRetryable(answer) /\ chain.attempt < Attempts)
  <2>1. driverFailed(answered(answer), responseError(answer))
    BY <1>2, <1>6
  <2> QED BY <1>1, <1>6, <2>1, ResponseFails, AnsweredGood, DriverFailedWire
<1> QED BY <1>4, <1>5, <1>6

LEMMA NextWire ==
  ASSUME IInv, Wire, [Next]_vars
  PROVE  Wire'
<1>1. CASE Step
  BY <1>1, DriverWire, RequestWire, BackoffWire, RetryTimerWire, RetryCanceledWire, CollectWire,
     RecvPendingWire, RecvEndWire, RecvFrameWire, DeliverWire DEF Step
<1>2. CASE Cancel
  <2>1. UNCHANGED <<config, bodies, current, retry, turn>> /\ pc' = pc
    BY <1>2 DEF Cancel
  <2>2. Reading' => Reading
    BY <2>1 DEF Reading, returned
  <2> QED BY <2>1, <2>2, SameWire
<1>3. CASE Returned \/ UNCHANGED vars
  <2>1. UNCHANGED <<config, bodies, current, retry, turn>> /\ pc' = pc
    BY <1>3 DEF Returned, vars
  <2>2. Reading' => Reading
    BY <2>1 DEF Reading, returned
  <2> QED BY <2>1, <2>2, SameWire
<1> QED BY <1>1, <1>2, <1>3 DEF Next

LEMMA InitWire == Init => Wire
<1> SUFFICES ASSUME Init PROVE Wire
  OBVIOUS
<1>1. pc = "driver" /\ turn.events = <<>>
  BY DEF Init, NewTurn
<1>2. ~Reading /\ ~occurs(turn.events, "done")
  BY <1>1 DEF Reading, returned, occurs
<1> QED BY <1>2 DEF Wire

-----------------------------------------------------------------------------
(* A turn that is accepted is the wire.                                    *)

\* The builders and the calls that were sent are one to one.
LEMMA FiledCalls ==
  ASSUME NEW p, NEW sent, NEW acc, Filed(p, sent, acc)
  PROVE  /\ callsSent(p, sent) = {acc.builders[k].id : k \in DOMAIN acc.builders}
         /\ Len(acc.builders) = Cardinality(callsSent(p, sent))
         /\ \A k \in DOMAIN acc.builders : inOrder(acc.builders[k].args, argumentsSent(sent, acc.builders[k].id))
<1> DEFINE builders == acc.builders
           set == callsSent(p, sent)
           n == Len(builders)
           f == [k \in 1..n |-> builders[k].id]
<1>1. builders \in Seq(Builders) /\ n \in Nat /\ DOMAIN builders = 1..n
  BY AccFields DEF Filed
<1>2. \A k \in DOMAIN builders : builders[k].id \in Items /\ acc.ids[builders[k].id] = k
  BY DEF Filed
<1>3. ASSUME NEW x \in set
      PROVE  /\ acc.ids[x] \in DOMAIN builders /\ builders[acc.ids[x]].id = x
             /\ inOrder(builders[acc.ids[x]].args, argumentsSent(sent, x))
  <2>1. x \in Items
    BY DEF callsSent
  <2> QED BY <2>1 DEF Filed
<1>4. ASSUME NEW x \in Items, x \notin set PROVE acc.ids[x] = 0
  BY <1>4 DEF Filed
<1> HIDE DEF builders, set, n
<1>5. ASSUME NEW k \in DOMAIN builders PROVE builders[k].id \in set
  <2>1. builders[k].id \in Items /\ acc.ids[builders[k].id] = k /\ k # 0
    BY <1>1, <1>2
  <2> QED BY <1>4, <2>1
<1>6. set = {builders[k].id : k \in DOMAIN builders}
  <2>1. ASSUME NEW x \in set PROVE \E k \in DOMAIN builders : x = builders[k].id
    BY <1>3
  <2> QED BY <1>5, <2>1
<1>7. \A k \in DOMAIN builders : inOrder(builders[k].args, argumentsSent(sent, builders[k].id))
  BY <1>2, <1>3, <1>5
<1>8. Cardinality(set) = n
  <2>1. f \in [1..n -> set]
    BY <1>1, <1>5
  <2>2. \A i, j \in 1..n : f[i] = f[j] => i = j
    BY <1>1, <1>2
  <2>3. \A x \in set : \E k \in 1..n : f[k] = x
    BY <1>1, <1>3
  <2> HIDE DEF f
  <2>4. f \in Bijection(1..n, set)
    BY <2>1, <2>2, <2>3, Fun_IsBij
  <2>5. ExistsBijection(1..n, set)
    BY <2>4 DEF ExistsBijection
  <2>6. IsFiniteSet(1..n) /\ Cardinality(1..n) = n
    BY <1>1, FS_Interval
  <2> QED BY <2>5, <2>6, FS_Bijection
<1> QED BY <1>6, <1>7, <1>8 DEF builders, set, n

LEMMA LastDone ==
  ASSUME NEW S, NEW events \in Seq(S), Len(events) \in DOMAIN events, events[Len(events)].kind = "done",
         \A i \in DOMAIN events : events[i].kind = "done" => i = Len(events)
  PROVE  occurs(events, "done") /\ firstOf(events, "done") = events[Len(events)]
<1> DEFINE n == Len(events)
           found == {i \in DOMAIN events : events[i].kind = "done"}
<1>1. found = {n} /\ n \in Nat
  OBVIOUS
<1> HIDE DEF n
<1>2. (CHOOSE i \in found : \A j \in found : i <= j) = n
  <2>1. n \in found /\ \A j \in found : n <= j
    BY <1>1
  <2>2. \A i \in found : i = n
    BY <1>1
  <2> HIDE DEF found
  <2> QED BY <2>1, <2>2
<1>3. occurs(events, "done")
  BY DEF occurs
<1> QED BY <1>2, <1>3 DEF firstOf, n

\* What the wire says when normalizeEvents has accepted the events of the turn.
LEMMA WiredTurn ==
  ASSUME NEW p, NEW sent, NEW parser, NEW events \in Seq(EventsOf(Nat)), parser.pending \in Seq(EventsOf(Nat)),
         Wired(p, sent, parser, events \o parser.pending), EndedTurn(events).err = <<>>
  PROVE  LET response == EndedTurn(events).turn
             calls == response.calls
         IN  /\ Last(sent).kind = "end"
             /\ response.stop = Last(sent).stop
             /\ \A kind \in ContentKinds : inOrder(response.content[kind], sentOf(sent, kind))
             /\ callsSent(p, sent) = {calls[k].id : k \in DOMAIN calls}
             /\ Len(calls) = Cardinality(callsSent(p, sent))
             /\ \A k \in DOMAIN calls : inOrder(calls[k].args, argumentsSent(sent, calls[k].id))
<1> DEFINE acc == toolCallBuilders(events)
           builders == acc.builders
           response == EndedTurn(events).turn
           calls == response.calls
           n == Len(events)
           pending == parser.pending
           both == events \o pending
<1>1. /\ validateTerminalSequence(events, TRUE) = <<>>
      /\ response = normalizedTurn(events, builders)
      /\ ~occurs(events, "error")
  BY NormalizeAccepts, Zenon DEF EndedTurn
<1> HIDE DEF response
<1>2. {i \in DOMAIN events : isTerminal(events[i])} = {n}
  BY <1>1, TerminalLast
<1>3. n \in DOMAIN events /\ events[n].kind = "done" /\ \A i \in DOMAIN events : events[i].kind = "done" => i = n
  BY <1>1, <1>2 DEF isTerminal, occurs
<1>4. firstOf(events, "done") = events[n] /\ occurs(events, "done")
  BY <1>3, LastDone
<1>5. /\ parser.buffer = <<>> /\ pending = <<>> /\ Last(sent).kind = "end" /\ Last(sent).stop = events[n].stop
  <2>1. EndSaid(sent, parser, both)
    BY DEF Wired
  <2> HIDE DEF pending
  <2>2. pending \in Seq(EventsOf(Nat))
    BY DEF pending
  <2>3. n \in DOMAIN both /\ both[n] = events[n] /\ Len(both) = n + Len(pending) /\ n \in Nat /\ Len(pending) \in Nat
    BY <1>3, <2>2
  <2> HIDE DEF both, n
  <2>4. n = Len(both) /\ parser.buffer = <<>> /\ Last(sent).kind = "end" /\ Last(sent).stop = both[n].stop
    BY <1>3, <2>1, <2>3 DEF EndSaid
  <2>5. Len(pending) = 0
    BY <2>3, <2>4
  <2>6. pending = <<>>
    BY <2>2, <2>5
  <2> QED BY <2>3, <2>4, <2>6
<1>6. (\A kind \in ContentKinds : inOrder(contentPieces(events, kind), sentOf(sent, kind))) /\ Filed(p, sent, acc)
  <2>1. both = events
    BY <1>5
  <2>2. Said(p, sent, parser, events) /\ Filed(p, sent, acc)
    BY <2>1 DEF Wired
  <2>3. ASSUME NEW kind \in ContentKinds PROVE inOrder(contentPieces(events, kind), sentOf(sent, kind))
    <3>1. inOrder(contentPieces(events, kind) \o <<>>, sentOf(sent, kind))
      BY <1>5, <2>2 DEF Said, heldBack
    <3>2. contentPieces(events, kind) \in Seq(PiecesOf(Nat))
      BY ContentTyped
    <3>3. contentPieces(events, kind) \o <<>> = contentPieces(events, kind)
      BY <3>2
    <3> QED BY <3>1, <3>3
  <2> QED BY <2>2, <2>3
<1>7. builders \in Seq(Builders)
  BY <1>6, AccFields DEF Filed
<1> HIDE DEF acc, both, pending
<1>8. /\ callsSent(p, sent) = {builders[k].id : k \in DOMAIN builders}
      /\ Len(builders) = Cardinality(callsSent(p, sent))
      /\ \A k \in DOMAIN builders : inOrder(builders[k].args, argumentsSent(sent, builders[k].id))
  BY <1>6, FiledCalls
<1> HIDE DEF builders
<1>9. /\ response.content = contentOf(events) /\ response.stop = events[n].stop
      /\ calls = [i \in DOMAIN builders |-> [id |-> builders[i].id, args |-> builders[i].args]]
  BY <1>1, <1>4, Zenon DEF normalizedTurn
<1> HIDE DEF calls, n
<1>10. /\ DOMAIN calls = DOMAIN builders /\ Len(calls) = Len(builders)
       /\ \A k \in DOMAIN builders : calls[k].id = builders[k].id /\ calls[k].args = builders[k].args
  BY <1>7, <1>9
<1>11. {calls[k].id : k \in DOMAIN calls} = {builders[k].id : k \in DOMAIN builders}
  BY <1>10
<1>12. \A k \in DOMAIN calls : inOrder(calls[k].args, argumentsSent(sent, calls[k].id))
  BY <1>8, <1>10
<1>13. \A kind \in ContentKinds : inOrder(response.content[kind], sentOf(sent, kind))
  BY <1>6, <1>9 DEF contentOf
<1> QED BY <1>5, <1>8, <1>9, <1>10, <1>11, <1>12, <1>13 DEF response, calls

\* A turn that collect accepts from a vendor's stream is one terminated response as it was on the wire:
\* its text in order, its reasoning in order and nothing of either left in the splitter's buffer, wherever
\* in the deltas of a chat stream the tags are; and each tool call once, with
\* exactly the fragments that were sent for it, however the fragments of several calls were interleaved
\* and whatever was retried or replaced before.
THEOREM AcceptedIsWireHolds == Spec => []AcceptedIsWire
<1>1. ASSUME IInv, Labels, Wire PROVE AcceptedIsWire
  <2> SUFFICES ASSUME returned, turn.err = <<>>, protocol(bodies[current]) # "host"
      PROVE  LET sent == bodies[current].frames
                 calls == turn.assistant.calls
             IN  /\ Last(sent).kind = "end"
                 /\ turn.assistant.stop = Last(sent).stop
                 /\ \A kind \in ContentKinds : inOrder(turn.assistant.content[kind], sentOf(sent, kind))
                 /\ callsSent(protocol(bodies[current]), sent) = {calls[k].id : k \in DOMAIN calls}
                 /\ Len(calls) = Cardinality(callsSent(protocol(bodies[current]), sent))
                 /\ \A k \in DOMAIN calls : inOrder(calls[k].args, argumentsSent(sent, calls[k].id))
    BY DEF AcceptedIsWire
  <2> DEFINE p == protocol(bodies[current])
             events == turn.events
             sent == bodies[current].frames
             parser == bodies[current].parser
  <2>1. current # 0 /\ WireOf(bodies[current], events)
    BY <1>1 DEF Wire, Reading
  <2>2. EndedTurn(events).err = <<>> /\ turn.assistant = EndedTurn(events).turn
    BY <1>1 DEF Labels, Accepted
  <2>3. events \in Seq(EventsOf(Nat)) /\ parser.pending \in Seq(EventsOf(Nat))
    BY <1>1, <2>1, ReadingTypes
  <2>4. ~occurs(events, "error")
    <3> HIDE DEF events
    <3> QED BY <2>2, NormalizeAccepts, Zenon DEF EndedTurn
  <2>5. Wired(p, sent, parser, events \o parser.pending)
    BY <2>1, <2>4 DEF WireOf
  <2> HIDE DEF p, events, sent, parser
  <2>6. LET response == EndedTurn(events).turn
            calls == response.calls
        IN  /\ Last(sent).kind = "end"
            /\ response.stop = Last(sent).stop
            /\ \A kind \in ContentKinds : inOrder(response.content[kind], sentOf(sent, kind))
            /\ callsSent(p, sent) = {calls[k].id : k \in DOMAIN calls}
            /\ Len(calls) = Cardinality(callsSent(p, sent))
            /\ \A k \in DOMAIN calls : inOrder(calls[k].args, argumentsSent(sent, calls[k].id))
    BY <2>2, <2>3, <2>5, WiredTurn
  <2> QED BY <2>2, <2>6 DEF p, sent
<1>2. IInv /\ Wire /\ [Next]_vars => Wire'
  BY NextWire
<1>3. IInv /\ Labels /\ [Next]_vars => Labels'
  BY NextLabels
<1>4. IInv /\ [Next]_vars => IInv'
  BY NextStep
<1> QED BY <1>1, <1>2, <1>3, <1>4, InitInv, InitLabels, InitWire, PTL DEF Spec

=============================================================================
