--------------------------- MODULE MCModelStream ---------------------------
(* Instances of ModelStream.                                               *)
EXTENDS ModelStream

Plain(drivers, kinds, frames) ==
  [retry |-> FALSE, chain |-> "single", drivers |-> drivers, always |-> FALSE, faults |-> FALSE,
   cancels |-> FALSE, answers |-> {"stream"}, kinds |-> kinds, maxFrames |-> frames]

Retried(chained, drivers, kinds, frames) ==
  [Plain(drivers, kinds, frames) EXCEPT !.retry = TRUE, !.chain = chained, !.answers = HTTPAnswers]

\* One driver and long responses: every interleaving of two tool calls, and text held by the splitter.
WireKinds == {"text", "call", "args", "itemDone", "finish", "end", "eof"}

LongResponses ==
  {Plain(<<p>>, WireKinds, 6) : p \in {"chat", "responses", "messages"}}
  \cup {Plain(<<"chat">>, {"text", "tag", "finish", "end", "noise", "cut"}, 4)}

\* A host's stream that labels fragments as it likes and goes on after its terminal event.
HostResponses == {Plain(<<"host">>, {"text", "args", "tool", "end", "eof"}, 3)}

\* Short responses, every failure, retried over one or two drivers.
FaultKinds == {"text", "finish", "end", "eof", "cut", "bad", "failed", "rejected", "torn", "endTorn", "nilError"}

FailingCalls ==
  {[Retried("fallback", <<"chat", "messages">>, FaultKinds, 2) EXCEPT !.cancels = TRUE],
   [Retried("model", <<"responses", "chat">>, FaultKinds, 2) EXCEPT !.faults = TRUE],
   [Retried("single", <<"host">>, FaultKinds, 2) EXCEPT !.faults = TRUE, !.cancels = TRUE],
   [Retried("single", <<"responses">>, FaultKinds, 3) EXCEPT !.always = TRUE]}

AllCalls == LongResponses \cup HostResponses \cup FailingCalls

ResponsesCalls == {Retried("single", <<"responses">>, FaultKinds, 2)}
=============================================================================
