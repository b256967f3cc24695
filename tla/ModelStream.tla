---------------------------- MODULE ModelStream ----------------------------
(***************************************************************************)
(* One model call of the agent loop: Engine.collect reads a stream that    *)
(* provider.OpenRetryingStream reopens, over provider.Fallback or          *)
(* ModelFallback, over vendor drivers that retry their HTTP requests       *)
(* (shared.DoWithRetry) and parse server-sent events.                      *)
(*                                                                         *)
(* The server chooses how it answers each request and each next frame; the *)
(* caller may cancel the context between any two steps; callbacks may      *)
(* fail, panic or veto a retry.                                            *)
(***************************************************************************)
EXTENDS StreamEvents

CONSTANTS
  Configs,       \* how the call is set up, see ConfigType
  MaxRetries,    \* StreamRetryOptions.Max
  Attempts,      \* RetryPolicy.attempts()
  MaxTurnEvents, \* maxProviderTurnEvents
  MaxTurnBytes   \* maxProviderTurnBytes

\* What client.Do may return with a context that is not done; deadline is the client's own timeout.
HTTPAnswers == {"stream", "otherType", "server", "refused", "cut", "deadline"}

\* retry: the stream is an OpenRetryingStream; chain: how its drivers are joined;
\* always: ShouldRetry approves every failure; faults: callbacks may fail;
\* answers, kinds and maxFrames bound what the servers do.
ConfigType ==
  [retry : BOOLEAN, chain : {"single", "fallback", "model"}, drivers : Seq(Protocols),
   always : BOOLEAN, faults : BOOLEAN, cancels : BOOLEAN,
   answers : SUBSET HTTPAnswers, kinds : SUBSET STRING, maxFrames : Nat]

ASSUME ConfigAssumption ==
  \A c \in Configs : c.drivers \in Seq(Protocols) /\ c.answers \subseteq HTTPAnswers /\ c.maxFrames \in Nat
ASSUME LimitAssumption == /\ MaxRetries \in Nat /\ Attempts \in Nat \ {0}
                          /\ MaxTurnEvents \in Nat /\ MaxTurnBytes \in Nat

VARIABLES
  config,
  ctx,      \* the context is cancelled
  pc,       \* where the goroutine of the call is
  bodies,   \* response bodies: frames read, whether open, its driver and parser
  current,  \* retryingStream.current: its body, 0 before there is one
  chain,    \* fallbackDriver.Stream: the next driver, the errors so far, the HTTP attempt
  retry,    \* retryingStream
  turn      \* collect: its locals and what it returned

vars == <<config, ctx, pc, bodies, current, chain, retry, turn>>

PCs == {"driver", "request", "backoff", "retryWait", "collect", "recv", "deliver", "returned"}

NewChain == [at |-> 1, errs |-> <<>>, attempt |-> 1]

\* event: the failure received before the stream was reopened; wait: what the retry is for.
NewRetry == [retries |-> 0, emitted |-> FALSE, terminal |-> FALSE, event |-> NoEvent, wait |-> "open"]

NewTurn == [events |-> <<>>, sawTerminal |-> FALSE, bytes |-> 0, err |-> <<>>, assistant |-> EmptyTurn]

NewBody(driver, open) == [driver |-> driver, open |-> open, frames |-> <<>>, parser |-> NewParser]

protocol(body) == config.drivers[body.driver]

Init ==
  /\ config \in Configs
  /\ ctx = FALSE
  /\ pc = "driver"
  /\ bodies = <<>>
  /\ current = 0
  /\ chain = NewChain
  /\ retry = NewRetry
  /\ turn = NewTurn

-----------------------------------------------------------------------------
(* What the servers send.                                                  *)

WireFrames ==
  [kind : {"noise", "bad", "cut", "eof", "failed", "rejected", "torn", "endTorn", "nilError"}]
  \cup [kind : {"text"}, held : BOOLEAN]
  \cup [kind : {"tag"}, text : BOOLEAN, thinking : BOOLEAN, inside : BOOLEAN]
  \cup [kind : {"call", "itemDone", "tool"}, item : Items]
  \cup [kind : {"args"}, item : Items, final : BOOLEAN]
  \cup [kind : {"finish", "end"}, stop : {"natural", "length"}]

sends(sent, kind, item) == \E i \in DOMAIN sent : sent[i].kind = kind /\ sent[i].item = item

\* The arguments of a call are complete, or there are none.
whole(sent, item) ==
  \/ ~sends(sent, "args", item)
  \/ \E i \in DOMAIN sent : sent[i].kind = "args" /\ sent[i].item = item /\ sent[i].final

mayFollow(p, sent, frame) ==
  LET called(i) == sends(sent, "call", i)
      finishes == {i \in DOMAIN sent : sent[i].kind = "finish"}
      truthful == \/ frame.stop = "length"
                  \/ \A i \in Items : whole(sent, i) /\ (p = "responses" /\ called(i) => sends(sent, "itemDone", i))
  IN CASE frame.kind = "call" -> finishes = {} /\ ~called(frame.item) /\ \A i \in Items : i < frame.item => called(i)
       [] frame.kind = "args" ->
            /\ finishes = {} /\ called(frame.item) /\ ~sends(sent, "itemDone", frame.item)
            /\ ~(sends(sent, "args", frame.item) /\ whole(sent, frame.item))
       [] frame.kind = "itemDone" ->
            p = "responses" /\ called(frame.item) /\ whole(sent, frame.item) /\ ~sends(sent, "itemDone", frame.item)
       [] frame.kind = "text" -> finishes = {} /\ (frame.held => p = "chat")
       [] frame.kind = "tag" -> p = "chat" /\ finishes = {}
       [] frame.kind = "finish" -> p # "responses" /\ finishes = {} /\ truthful
       [] frame.kind = "end" -> IF p = "responses" THEN truthful
                                ELSE \E i \in finishes : sent[i].stop = frame.stop
       [] OTHER -> frame.kind \notin {"tool", "torn", "endTorn", "nilError"}

\* A host's stream labels its deltas with an id, an index, both or neither.
hostFrames ==
  {f \in WireFrames : f.kind \in {"tool", "torn", "endTorn", "nilError", "failed", "rejected", "cut", "eof"}}
  \cup {[kind |-> "text", held |-> FALSE], [kind |-> "end", stop |-> "natural"]}
  \cup [kind : {"args"}, id : {0} \cup Items, index : {0} \cup Items, final : BOOLEAN]

\* A read of a cancelled context fails, perhaps after what had arrived, and then always fails.
Frames(body) ==
  LET p == protocol(body)
      ready == IF p = "host" THEN hostFrames ELSE {f \in WireFrames : mayFollow(p, body.frames, f)}
      canceled == {[kind |-> "canceled"]}
  IN IF body.frames # <<>> /\ Last(body.frames).kind = "canceled" THEN canceled
     ELSE {f \in ready : /\ f.kind \in config.kinds
                         /\ Len(body.frames) < config.maxFrames \/ f.kind \in {"cut", "eof", "end"}}
          \cup (IF ctx THEN canceled ELSE {})

pieceOf(b, frame) ==
  LET at == Len(bodies[b].frames) + 1
  IN CASE frame.kind = "args" /\ protocol(bodies[b]) = "host" -> Piece(b, at, frame.id, frame.index, frame.final)
       [] frame.kind = "args" /\ protocol(bodies[b]) # "host" -> Piece(b, at, frame.item, frame.item, frame.final)
       [] frame.kind \in {"itemDone", "tool"} -> Piece(b, at, frame.item, 0, TRUE)
       [] OTHER -> Piece(b, at, 0, 0, FALSE)

-----------------------------------------------------------------------------
(* Engine.collect.  bs and r are the bodies and the retryingStream after   *)
(* the step so far.                                                        *)

closeBody(bs, b) == IF b = 0 THEN bs ELSE [bs EXCEPT ![b].open = FALSE]

leave(bs, r, t) ==
  /\ pc' = "returned" /\ turn' = t /\ bodies' = closeBody(bs, current) /\ retry' = r
  /\ UNCHANGED <<config, ctx, current, chain>>

\* Fault: a failed call returns an empty turn.
failed_discards(err) == [turn EXCEPT !.err = err]

\* Failure paths: what was streamed so far stays on the turn.
failed(err) == [turn EXCEPT !.assistant = normalizeEvents(turn.events, FALSE).turn, !.err = err]

\* The stream ended: the turn must be complete.
applyNormalized(response) == [turn EXCEPT !.assistant = response.turn, !.err = response.err]

completed == applyNormalized(normalizeEvents(turn.events, TRUE))

exceeds(event) ==
  \/ Len(turn.events) >= MaxTurnEvents
  \/ providerEventSize(event) > MaxTurnBytes - turn.bytes

record(event) ==
  [turn EXCEPT !.events = Append(@, event), !.bytes = @ + providerEventSize(event),
               !.sawTerminal = @ \/ event.kind = "done"]

handOn(bs, r, event) ==
  /\ turn' = record(event) /\ pc' = "deliver" /\ bodies' = bs /\ retry' = r
  /\ UNCHANGED <<config, ctx, current, chain>>

\* io.EOF itself, or the end of the context after the terminal event.
streamEnded(err) == err = <<"eof">> \/ (turn.sawTerminal /\ contextRetryStop(err))

\* Fault: a context error after the terminal event is tolerated by reading on.
received_readsOn(bs, r, event, err) ==
  IF err = <<>> /\ ~exceeds(event) THEN handOn(bs, r, event)
  ELSE IF err # <<"eof">> /\ streamEnded(err)
  THEN bodies' = bs /\ retry' = r /\ UNCHANGED <<config, ctx, pc, current, chain, turn>>
  ELSE leave(bs, r, IF err = <<"eof">> THEN completed ELSE failed(IF err = <<>> THEN <<"limit">> ELSE err))

\* What collect does with the answer of Recv.
received(bs, r, event, err) ==
  IF err = <<>> /\ ~exceeds(event) THEN handOn(bs, r, event)
  ELSE leave(bs, r, IF streamEnded(err) THEN completed ELSE failed(IF err = <<>> THEN <<"limit">> ELSE err))

Collect ==
  /\ pc = "collect"
  /\ IF ctx /\ ~turn.sawTerminal
     THEN leave(bodies, retry, failed(<<"canceled">>))
     ELSE pc' = "recv" /\ UNCHANGED <<config, ctx, bodies, current, chain, retry, turn>>

\* fanOutEvent: the callback, the hooks and the sink of one event.
Deliver ==
  /\ pc = "deliver"
  /\ \/ pc' = "collect" /\ UNCHANGED <<config, ctx, bodies, current, chain, retry, turn>>
     \/ config.faults /\ \E fault \in {"callback", "panic"} : leave(bodies, retry, failed(<<fault>>))

-----------------------------------------------------------------------------
(* provider.retryingStream.                                                *)

streamRetryFailure(event, err) ==
  IF event.kind = "error" THEN [event |-> [event EXCEPT !.err = err], err |-> <<>>]
  ELSE [event |-> event, err |-> err]

\* again: the failure came before any output and may be retried.
Classified(r, event, again, err) == [r |-> r, event |-> event, again |-> again, err |-> err]

\* Fault: a failure after output is marked, and left to the retry policy.
classifyPartialFailure_asksPolicy(event, recvErr, cause) ==
  Classified(retry, event, TRUE, <<"partial">> \o cause)

classifyPartialFailure(event, recvErr, cause) ==
  IF cause = <<>> /\ event.kind # "error" THEN Classified(retry, event, FALSE, recvErr)
  ELSE Classified([retry EXCEPT !.terminal = TRUE], NoEvent, FALSE, <<"partial">> \o cause)

classifyReceived(event, recvErr) ==
  LET cause == IF event.kind = "error" /\ event.err # <<>> THEN event.err ELSE recvErr
      ended == [retry EXCEPT !.terminal = TRUE]
  IN CASE event.kind = "done" ->
            IF recvErr = <<>> THEN Classified(ended, event, FALSE, <<>>)
            ELSE Classified(ended, NoEvent, FALSE, <<"partial">> \o recvErr)
       [] event.kind \notin {"", "error", "done"} ->
            IF recvErr = <<>> THEN Classified([retry EXCEPT !.emitted = TRUE], event, FALSE, <<>>)
            ELSE Classified([ended EXCEPT !.emitted = TRUE], event, FALSE, <<"partial">> \o recvErr)
       [] event.kind \in {"", "error"} /\ retry.emitted -> classifyPartialFailure(event, recvErr, cause)
       [] event.kind \in {"", "error"} /\ ~retry.emitted /\ cause = <<>> ->
            Classified(IF event.kind = "error" THEN ended ELSE retry, event, FALSE, recvErr)
       [] OTHER -> Classified(retry, event, TRUE, cause)

\* approveStreamRetryAndWait up to its timer.
Approvals(cause) ==
  CASE ctx -> {"canceled"}
    [] ~ctx /\ (contextRetryStop(cause) \/ ~(config.always \/ IsRetryableError(cause))) -> {"no"}
    [] OTHER -> IF config.faults THEN {"wait", "veto"} ELSE {"wait"}

await(bs, r, wait, event) ==
  /\ pc' = "retryWait" /\ bodies' = bs /\ retry' = [r EXCEPT !.wait = wait, !.event = event]
  /\ chain' = NewChain
  /\ UNCHANGED <<config, ctx, current, turn>>

\* What retryingStream.Recv returns for its stream's answer, classified as c; again: after a retry.
Outcomes(event, recvErr, c) ==
  LET ended == [retry EXCEPT !.terminal = TRUE]
      exhausted == streamRetryFailure(event, <<"exhausted">> \o c.err)
      approved(a) ==
        CASE a \in {"canceled", "veto"} -> Classified(retry, NoEvent, FALSE, <<a>>)
          [] a = "wait" -> c
          [] OTHER -> IF event.kind = "error" THEN Classified(ended, event, FALSE, recvErr)
                      ELSE Classified(retry, event, FALSE, c.err)
  IN IF ~config.retry \/ retry.terminal THEN {Classified(retry, event, FALSE, recvErr)}
     ELSE IF ~c.again THEN {c}
     ELSE IF contextRetryStop(c.err) THEN {Classified(retry, NoEvent, FALSE, c.err)}
     ELSE IF retry.retries >= MaxRetries THEN {Classified(retry, exhausted.event, FALSE, exhausted.err)}
     ELSE {approved(a) : a \in Approvals(c.err)}

retried(bs, event, recvErr) ==
  \E o \in Outcomes(event, recvErr, classifyReceived(event, recvErr)) :
    IF o.again THEN await(bs, retry, "recv", event) ELSE received(bs, o.r, o.event, o.err)

\* A vendor stream's Recv answers from its pending events, then from its body.
RecvPending ==
  /\ pc = "recv"
  /\ bodies[current].parser.pending # <<>>
  /\ retried([bodies EXCEPT ![current].parser.pending = Tail(@)], Head(bodies[current].parser.pending), <<>>)

RecvEnd ==
  LET body == bodies[current]
  IN /\ pc = "recv"
     /\ body.parser.pending = <<>>
     /\ body.parser.finished \/ ~body.open
     /\ retried(bodies, NoEvent, IF body.parser.finished THEN <<"eof">> ELSE <<"plain">>)

\* A cancelled body that was read before says the same again.
readFrame(frame, parser) ==
  IF frame.kind = "canceled" /\ Contains(bodies[current].frames, frame) THEN bodies
  ELSE [bodies EXCEPT ![current].frames = Append(@, frame), ![current].parser = parser]

\* out: what the parser made of the frame; it reads on when that is nothing.
consumed(frame, out) ==
  CASE out.err = <<>> /\ out.parser.pending = <<>> ->
         bodies' = readFrame(frame, out.parser) /\ UNCHANGED <<config, ctx, pc, current, chain, retry, turn>>
    [] OTHER ->
         LET pending == out.parser.pending
         IN retried(readFrame(frame, [out.parser EXCEPT !.pending = IF pending = <<>> THEN <<>> ELSE Tail(pending)]),
                    IF pending = <<>> THEN NoEvent ELSE Head(pending), out.err)

RecvFrame ==
  LET body == bodies[current]
  IN /\ pc = "recv"
     /\ body.parser.pending = <<>> /\ ~body.parser.finished /\ body.open
     /\ \E frame \in Frames(body) :
          consumed(frame, consume(protocol(body), body.parser, frame, pieceOf(current, frame)))

-----------------------------------------------------------------------------
(* Opening a stream: openStreamWithRetry over the drivers of the chain.    *)

\* openStreamWithRetry gave up: the call has no stream, or Recv could not replace its own.
gaveUp(bs, err) ==
  LET failure == streamRetryFailure(retry.event, err)
  IN IF current = 0 THEN leave(bs, retry, [turn EXCEPT !.err = err])
     ELSE received(bs, retry, failure.event, failure.err)

\* What openStreamWithRetry makes of a failure to open.
Reopenings(err) ==
  LET no(cause) == [again |-> FALSE, err |-> cause]
  IN IF ~config.retry \/ contextRetryStop(err) THEN {no(err)}
     ELSE IF retry.retries >= MaxRetries THEN {no(<<"exhausted">> \o err)}
     ELSE {CASE a \in {"canceled", "veto"} -> no(<<a>>)
             [] a = "no" -> no(err)
             [] OTHER -> [again |-> TRUE, err |-> err] : a \in Approvals(err)}

openFailed(bs, err) ==
  \E o \in Reopenings(err) : IF o.again THEN await(bs, retry, "open", retry.event) ELSE gaveUp(bs, o.err)

\* Fault: the stream that failed is not closed when it is replaced.
RetryTimer_keepsOpen ==
  /\ pc = "retryWait"
  /\ pc' = "driver"
  /\ retry' = [retry EXCEPT !.retries = @ + 1]
  /\ UNCHANGED <<config, ctx, bodies, current, chain, turn>>

\* The timer of a retry, or the context: Recv closes the stream it replaces.
RetryTimer ==
  /\ pc = "retryWait"
  /\ pc' = "driver"
  /\ retry' = [retry EXCEPT !.retries = @ + 1]
  /\ bodies' = IF retry.wait = "recv" THEN closeBody(bodies, current) ELSE bodies
  /\ UNCHANGED <<config, ctx, current, chain, turn>>

RetryCanceled ==
  /\ pc = "retryWait" /\ ctx
  /\ IF retry.wait = "recv" THEN received(bodies, retry, NoEvent, <<"canceled">>)
     ELSE gaveUp(bodies, <<"canceled">>)

\* The next driver of fallbackDriver.Stream and modelFallbackDriver.Stream, or their failure.
driverFailed(bs, err) ==
  IF config.chain = "single" THEN openFailed(bs, err)
  ELSE /\ pc' = "driver" /\ bodies' = bs
       /\ chain' = [NewChain EXCEPT !.at = chain.at + 1, !.errs = chain.errs \o err]
       /\ UNCHANGED <<config, ctx, current, retry, turn>>

chainStops ==
  \/ chain.at > Len(config.drivers)
  \/ ctx /\ (config.chain = "fallback" \/ (config.chain = "model" /\ chain.at > 1))

Driver ==
  /\ pc = "driver"
  /\ \/ /\ chainStops
        /\ openFailed(bodies, <<"joined">> \o chain.errs \o
                      IF chain.at > Len(config.drivers) THEN <<>> ELSE <<"canceled">>)
     \/ /\ ~chainStops
        /\ pc' = "request"
        /\ UNCHANGED <<config, ctx, bodies, current, chain, retry, turn>>
     \/ ~chainStops /\ config.faults /\ driverFailed(bodies, <<"plain">>)

-----------------------------------------------------------------------------
(* shared.DoWithRetry and postEventStream: one HTTP request at a time.     *)

Answers == IF ctx THEN {"canceled"} ELSE config.answers

isResponse(answer) == answer \in {"stream", "otherType", "server", "refused"}

requestRetryable(answer) ==
  \/ answer = "server"
  \/ ~isResponse(answer) /\ (IsRetryableError(<<answer>>) \/ (answer = "deadline" /\ ~ctx))

\* A response that is not streamed is read and closed before its error is returned.
answered(answer) ==
  IF isResponse(answer) THEN Append(bodies, NewBody(chain.at, answer = "stream")) ELSE bodies

responseError(answer) == IF answer = "otherType" THEN <<"plain">> ELSE <<answer>>

Request ==
  /\ pc = "request"
  /\ \E answer \in Answers :
       CASE answer = "stream" ->
              /\ bodies' = answered(answer)
              /\ current' = Len(bodies) + 1
              /\ pc' = IF current = 0 THEN "collect" ELSE "recv"
              /\ chain' = NewChain
              /\ UNCHANGED <<config, ctx, retry, turn>>
         [] requestRetryable(answer) /\ chain.attempt < Attempts ->
              /\ bodies' = answered(answer)
              /\ pc' = "backoff"
              /\ UNCHANGED <<config, ctx, current, chain, retry, turn>>
         [] OTHER -> driverFailed(answered(answer), responseError(answer))

Backoff ==
  /\ pc = "backoff"
  /\ \/ /\ pc' = "request"
        /\ chain' = [chain EXCEPT !.attempt = @ + 1]
        /\ UNCHANGED <<config, ctx, bodies, current, retry, turn>>
     \/ ctx /\ driverFailed(bodies, <<"canceled">>)

Cancel ==
  /\ config.cancels /\ ~ctx /\ pc # "returned"
  /\ ctx' = TRUE
  /\ UNCHANGED <<config, pc, bodies, current, chain, retry, turn>>

Returned == pc = "returned" /\ UNCHANGED vars

Step == Driver \/ Request \/ Backoff \/ RetryTimer \/ RetryCanceled \/ Collect \/ RecvPending \/ RecvEnd
        \/ RecvFrame \/ Deliver

Next == Step \/ Cancel \/ Returned

Spec == Init /\ [][Next]_vars

\* A server need never answer.  Once the context is cancelled a request or a read returns (net/http),
\* and the goroutine of the call goes on.
FairSpec == Spec /\ WF_vars(ctx /\ Step)

-----------------------------------------------------------------------------
(* Properties.                                                             *)

returned == pc = "returned"

\* Output was recorded.
hasContent(events) == \E i \in DOMAIN events : events[i].pieces # <<>>

\* Before frame i the last tag opened a block of reasoning.
insideAt(sent, i) ==
  \E j \in DOMAIN sent :
    /\ j < i /\ sent[j].kind = "tag" /\ sent[j].inside
    /\ \A k \in DOMAIN sent : j < k /\ k < i => sent[k].kind # "tag"

\* The places of what a body really sent: its text or its reasoning, and the arguments of a call.
sentOf(sent, kind) ==
  {i \in DOMAIN sent :
     \/ sent[i].kind = "text" /\ kind = (IF insideAt(sent, i) THEN "thinking" ELSE "text")
     \/ sent[i].kind = "tag" /\ (IF kind = "thinking" THEN sent[i].thinking ELSE sent[i].text)}

argumentsSent(sent, item) ==
  LET of(kind) == {i \in DOMAIN sent : sent[i].kind = kind /\ sent[i].item = item}
  IN IF of("args") # {} THEN of("args") ELSE of("itemDone")

\* An output item of the responses protocol is a call once it has arguments.
callsSent(p, sent) ==
  {i \in Items : sends(sent, "call", i) /\ (p = "responses" => argumentsSent(sent, i) # {})}

\* The pieces are what was sent at the places: each of them once, in order.
inOrder(pieces, places) ==
  /\ {pieces[i].at : i \in DOMAIN pieces} = places
  /\ \A i, j \in DOMAIN pieces : i < j => pieces[i].at < pieces[j].at

\* What retryingStream promises: once a piece of a body was handed on no other body is ever read for
\* this call, so output is never repeated or spliced from two responses.
OneBody ==
  \A i \in DOMAIN turn.events : \A j \in DOMAIN turn.events[i].pieces :
    turn.events[i].pieces[j].body = current

\* A turn that is accepted is the whole of one terminated response as it was on the wire: its text in
\* order and its reasoning in order, whatever tags a delta has in it or was held for, and every tool call
\* with exactly its own argument fragments, whatever the protocol, however the fragments of several calls
\* were interleaved, and whatever failed before.  (Text and reasoning of one delta change places, so
\* nothing is said of the order between the two.)
AcceptedIsWire ==
  (returned /\ turn.err = <<>> /\ protocol(bodies[current]) # "host") =>
    LET sent == bodies[current].frames
        calls == turn.assistant.calls
    IN /\ Last(sent).kind = "end"
       /\ turn.assistant.stop = Last(sent).stop
       /\ \A kind \in ContentKinds : inOrder(turn.assistant.content[kind], sentOf(sent, kind))
       /\ callsSent(protocol(bodies[current]), sent) = {calls[k].id : k \in DOMAIN calls}
       /\ Len(calls) = Cardinality(callsSent(protocol(bodies[current]), sent))
       /\ \A k \in DOMAIN calls : inOrder(calls[k].args, argumentsSent(sent, calls[k].id))

\* Even from a stream that breaks the protocol, an accepted turn ends with its only terminal event and
\* no tool call holds a fragment that was labelled with the id of another, or with two indexes.
NeverMixed ==
  (returned /\ turn.err = <<>>) =>
    /\ {i \in DOMAIN turn.events : isTerminal(turn.events[i])} = {Len(turn.events)}
    /\ \A k \in DOMAIN turn.assistant.calls :
         LET call == turn.assistant.calls[k]
             labels == {call.args[j] : j \in DOMAIN call.args}
         IN /\ \A p \in labels : p.id \in {0, call.id}
            /\ Cardinality({p.index : p \in labels} \ {0}) <= 1

\* A call that a failure, a limit, a callback or a cancellation cut off keeps what was streamed: unless
\* a tool call had begun or the stream broke the protocol, the partial turn holds every piece of text
\* that was recorded (a stream that merely ends, without a terminal event, is rejected as a whole).  And
\* its failure is never one a caller may retry: the output would be paid for and delivered twice.
PartialKept ==
  returned /\ turn.err # <<>> =>
    /\ (turn.err # <<"missingTerminal">> /\ validateTerminalSequence(turn.events, FALSE) = <<>>
          /\ ~(\E i \in DOMAIN turn.events : turn.events[i].kind \in {"delta", "call", "error"})) =>
         turn.assistant.content = contentOf(turn.events)
    /\ (config.retry /\ hasContent(turn.events)
          /\ ~(\E i \in DOMAIN turn.events : isTerminal(turn.events[i]))) => ~IsRetryableError(turn.err)

\* Response bodies are never leaked: at most one is open, and none when the call has returned.
BodiesClosed ==
  /\ Cardinality({b \in DOMAIN bodies : bodies[b].open}) <= 1
  /\ returned => \A b \in DOMAIN bodies : ~bodies[b].open

\* A cancelled call returns, wherever the cancellation met it and whatever the server does.
CancelReturns == ctx ~> returned

\* ADR-030, common lifecycle contract: "No event is delivered after the terminal outcome."
NothingAfterTerminal ==
  \A i \in DOMAIN turn.events : isTerminal(turn.events[i]) => i = Len(turn.events)

=============================================================================
