---------------------------- MODULE MCAgentLoop ----------------------------
(* Model-checking instances of AgentLoop. *)
EXTENDS AgentLoop

\* A ContextManager that keeps the first message and the latest tool turn.
KeepLatest(messages) ==
  LET turns == {i \in DOMAIN messages : messages[i].role = "assistant" /\ messages[i].calls > 0}
      latest == CHOOSE i \in turns : \A j \in turns : j <= i
  IN IF turns = {} THEN messages
     ELSE <<messages[1]>> \o SubSeq(messages, IF latest = 1 THEN 2 ELSE latest, Len(messages))

text(t, guard) ==
  [text |-> t, calls |-> 0, tokens |-> 2, guard |-> guard, known |-> TRUE,
   terminal |-> FALSE, decide |-> "continue", child |-> 0]

step(n, decide) ==
  [text |-> "none", calls |-> n, tokens |-> 2, guard |-> "allow", known |-> TRUE,
   terminal |-> FALSE, decide |-> decide, child |-> 0]

SomeAnswers ==
  {text("valid", "allow"), text("invalid", "allow"), text("none", "allow"), text("invalid", "replace"),
   text("invalid", "retryKeep"), text("invalid", "retryDrop"), text("valid", "block"),
   text("valid", "error"), text("valid", "panic"), [text("valid", "allow") EXCEPT !.tokens = 0],
   step(1, "continue"), step(2, "continue"), step(1, "finish"), step(1, "fail"),
   [step(1, "continue") EXCEPT !.terminal = TRUE], [step(1, "continue") EXCEPT !.known = FALSE],
   [step(1, "continue") EXCEPT !.child = 2]}

unlimited ==
  [maxIterations |-> 3, maxTokens |-> 0, maxToolCalls |-> 0, maxSteps |-> 0,
   validate |-> FALSE, maxRepairs |-> 0, boundaries |-> TRUE, compaction |-> "off"]

\* One execution per limit and policy, with and without a BoundaryObserver.
SomeConfigs ==
  {unlimited,
   [unlimited EXCEPT !.maxToolCalls = 3],
   [unlimited EXCEPT !.maxTokens = 5, !.compaction = "headroom"],
   [unlimited EXCEPT !.maxSteps = 2, !.maxIterations = 0],
   [unlimited EXCEPT !.compaction = "target"],
   [unlimited EXCEPT !.validate = TRUE],
   [unlimited EXCEPT !.validate = TRUE, !.maxRepairs = 2, !.maxSteps = 2, !.boundaries = FALSE],
   [unlimited EXCEPT !.validate = TRUE, !.maxRepairs = 1, !.boundaries = FALSE, !.compaction = "target"]}

\* A new conversation, and one that continues a conversation with a tool turn.
SomeContexts ==
  {<<UserMessage>>,
   <<UserMessage, [UserMessage EXCEPT !.role = "assistant", !.calls = 1, !.turn = 0],
     ToolMessage(0, 1), UserMessage>>}

\* Structured output with one repair, under a BoundaryObserver.
Repairing == {[unlimited EXCEPT !.validate = TRUE, !.maxRepairs = 1]}

TextAnswers == {text("valid", "allow"), text("invalid", "allow")}

NewConversation == {<<UserMessage>>}

=============================================================================
