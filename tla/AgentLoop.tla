----------------------------- MODULE AgentLoop -----------------------------
(***************************************************************************)
(* agent.Engine: the bounded loop of model turns and tool steps, output    *)
(* guardrails, structured-output repair, and Resume from a Continuation,   *)
(* src/agent/agent.go, engine.go, resume.go and continuation.go.           *)
(*                                                                         *)
(* One execution.  The engine may crash or be cancelled at any step and is *)
(* resumed from the last continuation its BoundaryObserver kept, or run    *)
(* again when there is none.  Model calls go through a journal keyed by    *)
(* operation ID, as durable.Runtime's interceptors do: an operation that   *)
(* was answered is answered the same way again.  Guardrails, StepDecider   *)
(* and ContextManager are functions of what they are given, so what they   *)
(* will say of an answer is part of the answer.                            *)
(***************************************************************************)
EXTENDS Integers, Sequences, FiniteSets

CONSTANTS
  Configs,     \* limits and policies of an execution, see ConfigType
  Contexts,    \* transcripts ContextManager.Build may return
  Answers,     \* answers of the model, see AnswerType
  Compact(_),  \* ContextManager.Compact and CompactTo
  MaxTurn,     \* bound: operation turns
  MaxResumes,  \* bound: crashes and interruptions that are resumed
  None

\* 0 is no limit; maxRepairs is 0 without policy.Repair.
ConfigType ==
  [maxIterations : Nat, maxTokens : Nat, maxToolCalls : Nat, maxSteps : Nat,
   validate : BOOLEAN, maxRepairs : Nat, boundaries : BOOLEAN,
   compaction : {"off", "headroom", "target"}]

Texts == {"none", "valid", "invalid"}

Guards == {"allow", "replace", "retryKeep", "retryDrop", "block", "error", "panic"}

\* calls: tool calls of the turn; tokens: its usage; known: every tool is
\* registered; terminal: one of them is Terminal; child: tokens spent by agents
\* behind its tools.
AnswerType ==
  [text : Texts, calls : Nat, tokens : Nat, guard : Guards, known : BOOLEAN,
   terminal : BOOLEAN, decide : {"continue", "finish", "fail"}, child : Nat]

\* turn and slot are the operation ID "turn:%d:call:%d": of the calls 1..calls of an
\* assistant turn, and of the call a tool result answers.  -1 is no operation ID.
MessageType ==
  [role : {"user", "assistant", "tool"}, text : Texts, calls : Nat, turn : Nat \cup {-1}, slot : Nat]

ASSUME ConfigAssumption == Configs \subseteq ConfigType
ASSUME AnswerAssumption == Answers \subseteq AnswerType
ASSUME ContextAssumption == Contexts \subseteq Seq(MessageType)
ASSUME BoundAssumption == MaxTurn \in Nat /\ MaxResumes \in Nat

VARIABLES
  config,      \* Engine, Request and OutputPolicy
  context,     \* what Build returns for this execution
  loop,        \* the goroutine of Run or Resume
  checkpoint,  \* the continuation kept by the BoundaryObserver, or None
  journal,     \* answered model operations: turn -> request, answer
  tools,       \* tool operations: those dispatched, and the turns whose outcomes are journaled
  resumes      \* number of resumes

vars == <<config, context, loop, checkpoint, journal, tools, resumes>>

-----------------------------------------------------------------------------
(* Messages, steps and the state of the loop.                              *)

UserMessage == [role |-> "user", text |-> "none", calls |-> 0, turn |-> -1, slot |-> 0]

AssistantMessage(answer, turn) ==
  [role |-> "assistant", text |-> answer.text, calls |-> answer.calls,
   turn |-> IF answer.calls = 0 THEN -1 ELSE turn, slot |-> 0]

ToolMessage(turn, slot) ==
  [role |-> "tool", text |-> "none", calls |-> 0, turn |-> turn, slot |-> slot]

\* model: tokens of the turn; tokens and toolCalls: BudgetUsed, the totals so far.
Step == [index : Nat, decision : {"continue", "finish", "fail"}, traces : Nat,
         model : Nat, tokens : Nat, toolCalls : Nat]

Phases == {"ready", "model_complete", "tools_complete", "validating_output"}

Continuation ==
  [messages : Seq(MessageType), steps : Seq(Step), usage : Nat, toolCallsUsed : Nat,
   repairCount : Nat, operationTurn : Nat, phase : Phases]

ASSUME NoneAssumption == None \notin Continuation

PCs == {"top", "model", "answered", "validate", "dispatch", "tools", "results", "returned", "result", "crashed"}

Stops == {"none", "complete", "maxTurns", "error", "aborted"}

\* What ended RunMessages, and what loopErrorFailure makes of it.
Errs == {"none", "budget", "context", "tool", "guardrail", "stepAborted", "engine", "invalid", "observer", "panic"}

Results == {"none", "ok", "budget_exhausted", "tool_unavailable", "schema_invalid", "repair_failed",
            "output_blocked", "engine_error", "step_aborted", "panicked"}

\* Operation turns in use: -1 when there are none.
maxOperationTurn(messages) ==
  LET turns == {messages[i].turn : i \in {j \in DOMAIN messages : messages[j].role = "assistant"}}
  IN CHOOSE t \in turns \cup {-1} : \A u \in turns : u <= t

nextToolOperationTurn(messages) == maxOperationTurn(messages) + 1

isAssistant(m) == m.role = "assistant"

last(s) == s[Len(s)]

front(s) == SubSeq(s, 1, Len(s) - 1)

NewLoop(messages) ==
  [pc |-> "top", messages |-> messages, steps |-> <<>>, usage |-> 0, toolCallsUsed |-> 0,
   repairCount |-> 0, operationTurn |-> nextToolOperationTurn(messages), turn |-> -1,
   answer |-> None, cancelled |-> FALSE, resumed |-> FALSE,
   stop |-> "none", err |-> "none", result |-> "none"]

at(pc) == loop.pc = pc

goto(l, pc) == [l EXCEPT !.pc = pc]

\* loopErrorOutput, budgetAbort and the returns without an error.
return(l, stop, err) ==
  [l EXCEPT !.pc = "returned", !.stop = stop, !.err = err, !.answer = None, !.turn = -1]

failed(l, err) == return(l, "error", err)

decided(l, decision) == [l EXCEPT !.steps[Len(l.steps)].decision = decision]

traced(l, calls) == [l EXCEPT !.steps[Len(l.steps)].traces = calls]

-----------------------------------------------------------------------------
(* ValidateContinuation.                                                   *)

\* Some calls of the last assistant turn are not answered.
pending(messages) ==
  \E i \in DOMAIN messages : isAssistant(messages[i]) /\ i + messages[i].calls > Len(messages)

\* The calls of an assistant turn are answered right after it, in order, and
\* nothing else is a tool result.
paired(messages) ==
  \A i \in DOMAIN messages :
    LET groups == {j \in 1..(i - 1) : isAssistant(messages[j]) /\ i - j <= messages[j].calls}
    IN IF messages[i].role = "tool"
       THEN \E j \in groups : messages[i].turn = messages[j].turn /\ messages[i].slot = i - j
       ELSE groups = {}

ValidateCompleteTurns(messages) == messages \in Seq(MessageType) /\ paired(messages) /\ ~pending(messages)

validateContinuationPhaseTranscript(c) ==
  CASE c.phase = "ready" -> ~pending(c.messages)
    [] c.phase = "model_complete" -> pending(c.messages)
    [] c.phase = "tools_complete" ->
         ~pending(c.messages) /\ c.messages # <<>> /\ last(c.messages).role = "tool"
    [] c.phase = "validating_output" ->
         /\ ~pending(c.messages) /\ c.messages # <<>>
         /\ isAssistant(last(c.messages)) /\ last(c.messages).calls = 0

\* The i-th step against the assistant turn it stands for and the step before it.
validateContinuationStep(c, i, assistant, turn) ==
  LET step == c.steps[i]
      pendingStep == c.phase = "model_complete" /\ i = Len(c.steps)
      tokens == step.model + IF i = 1 THEN 0 ELSE c.steps[i - 1].tokens
      toolCalls == (IF pendingStep THEN 0 ELSE assistant.calls)
                     + IF i = 1 THEN 0 ELSE c.steps[i - 1].toolCalls
  IN /\ step.index = i - 1
     /\ i < Len(c.steps) \/ pendingStep => step.decision = "continue"
     /\ assistant.calls > 0 => assistant.turn = turn
     /\ step.traces = IF pendingStep THEN 0 ELSE assistant.calls
     /\ step.toolCalls = toolCalls
     /\ IF pendingStep \/ assistant.calls = 0 THEN step.tokens = tokens ELSE step.tokens >= tokens

validateContinuationSteps(c) ==
  LET assistants == SelectSeq(c.messages, isAssistant)
      n == Len(c.steps)
  IN /\ c.operationTurn >= n
     /\ Len(assistants) >= n
     /\ \A i \in 1..n :
          validateContinuationStep(c, i, assistants[Len(assistants) - n + i], c.operationTurn - n + i - 1)

validateContinuationTotals(c) ==
  /\ c.toolCallsUsed = IF c.steps = <<>> THEN 0 ELSE last(c.steps).toolCalls
  /\ c.usage = IF c.steps = <<>> THEN 0 ELSE last(c.steps).tokens
  /\ maxOperationTurn(c.messages) < c.operationTurn

validateContinuationPhaseSteps(c) ==
  CASE c.phase = "ready" -> c.steps # <<>> => last(c.steps).decision = "continue"
    [] c.phase = "model_complete" -> c.steps # <<>>
    [] c.phase = "tools_complete" -> c.steps # <<>> /\ last(c.steps).traces > 0
    [] c.phase = "validating_output" -> c.steps # <<>> /\ last(c.steps).decision = "finish"

ValidateContinuation(c) ==
  /\ paired(c.messages)
  /\ validateContinuationPhaseTranscript(c)
  /\ validateContinuationSteps(c)
  /\ validateContinuationTotals(c)
  /\ validateContinuationPhaseSteps(c)

continuationOf(l, phase) ==
  [messages |-> l.messages, steps |-> l.steps, usage |-> l.usage, toolCallsUsed |-> l.toolCallsUsed,
   repairCount |-> l.repairCount, operationTurn |-> l.operationTurn, phase |-> phase]

\* The loop is in state l and goes on with next once the observer has kept the
\* continuation.  An observer that fails may have kept it all the same.
observeBoundary(l, phase, next) ==
  LET c == continuationOf(l, phase)
      because(err) == IF next.err = "none" THEN err ELSE next.err
  IN \/ /\ ~config.boundaries
        /\ loop' = next /\ UNCHANGED checkpoint
     \/ /\ config.boundaries /\ ~ValidateContinuation(c)
        /\ loop' = failed(l, because("invalid")) /\ UNCHANGED checkpoint
     \/ /\ config.boundaries /\ ValidateContinuation(c)
        /\ loop' = next /\ checkpoint' = c
     \/ /\ config.boundaries /\ ValidateContinuation(c)
        /\ loop' = failed(l, because("observer")) /\ checkpoint' \in {checkpoint, c}

-----------------------------------------------------------------------------
(* RunMessages: the head of an iteration.                                  *)

iteration == Len(loop.steps)

iterationAllowed == config.maxIterations = 0 \/ iteration < config.maxIterations

budgetExhausted(l) ==
  \/ config.maxTokens > 0 /\ l.usage >= config.maxTokens
  \/ config.maxToolCalls > 0 /\ l.toolCallsUsed >= config.maxToolCalls
  \/ config.maxSteps > 0 /\ Len(l.steps) >= config.maxSteps

\* The history is compacted before this turn.
compacts ==
  \/ config.compaction = "target"
  \/ /\ config.compaction = "headroom" /\ iteration > 0 /\ config.maxTokens > 0
     /\ config.maxTokens - loop.usage <= config.maxTokens \div 5

mayContinue == iterationAllowed /\ ~loop.cancelled /\ (iteration > 0 => ~budgetExhausted(loop))

MaxTurnsReached ==
  /\ at("top") /\ ~iterationAllowed
  /\ loop' = return(loop, "maxTurns", "none")
  /\ UNCHANGED <<config, context, checkpoint, journal, tools, resumes>>

ContextEnded ==
  /\ at("top") /\ iterationAllowed /\ loop.cancelled
  /\ loop' = failed(loop, "context")
  /\ UNCHANGED <<config, context, checkpoint, journal, tools, resumes>>

BudgetAbort ==
  /\ at("top") /\ iterationAllowed /\ ~loop.cancelled
  /\ iteration > 0 /\ budgetExhausted(loop)
  /\ loop' = return(loop, "aborted", "budget")
  /\ UNCHANGED <<config, context, checkpoint, journal, tools, resumes>>

\* The manager fails, or what it returns splits a tool turn or the cached prefix.
CompactionFails ==
  /\ at("top") /\ mayContinue /\ compacts
  /\ loop' = failed(loop, "engine")
  /\ UNCHANGED <<config, context, checkpoint, journal, tools, resumes>>

Ready ==
  LET l == [loop EXCEPT !.messages = IF compacts THEN Compact(@) ELSE @, !.resumed = FALSE]
  IN /\ at("top") /\ mayContinue
     /\ compacts => ValidateCompleteTurns(l.messages)
     /\ observeBoundary(l, "ready", goto(l, "model"))
     /\ UNCHANGED <<config, context, journal, tools, resumes>>

-----------------------------------------------------------------------------
(* The model turn.                                                         *)

\* handleTurnFailure: a stream that was opened leaves a failed step, and what it
\* delivered stays in the transcript.
ModelFails(opened, partial) ==
  LET l == [loop EXCEPT !.messages = IF partial = None THEN @ ELSE Append(@, AssistantMessage(partial, -1)),
                        !.usage = IF partial = None THEN @ ELSE @ + partial.tokens]
      step == [index |-> iteration, decision |-> "fail", traces |-> 0,
               model |-> IF partial = None THEN 0 ELSE partial.tokens,
               tokens |-> l.usage, toolCalls |-> l.toolCallsUsed]
  IN /\ at("model")
     /\ partial # None => opened
     /\ loop' = failed([l EXCEPT !.steps = IF opened THEN Append(@, step) ELSE @],
                       IF loop.cancelled THEN "context" ELSE "engine")
     /\ UNCHANGED <<config, context, checkpoint, journal, tools, resumes>>

\* An operation that is in the journal gets the answer it got.
ModelAnswers(answer) ==
  LET turn == loop.operationTurn
  IN /\ at("model") /\ turn <= MaxTurn
     /\ turn \in DOMAIN journal => answer = journal[turn].answer
     /\ journal' = [t \in DOMAIN journal \cup {turn} |->
                      IF t \in DOMAIN journal THEN journal[t] ELSE [request |-> loop.messages, answer |-> answer]]
     /\ loop' = [loop EXCEPT !.pc = "answered", !.answer = answer, !.turn = turn,
                             !.operationTurn = turn + 1, !.usage = @ + answer.tokens]
     /\ UNCHANGED <<config, context, checkpoint, tools, resumes>>

newStep(l, decision) ==
  [index |-> Len(l.steps), decision |-> decision, traces |-> 0, model |-> l.answer.tokens,
   tokens |-> l.usage, toolCalls |-> l.toolCallsUsed]

appendFinalAssistant(messages, text) ==
  IF text = "none" THEN messages
  ELSE Append(messages, AssistantMessage([text |-> text, calls |-> 0], -1))

\* runToolStep up to its boundary.
RecordToolCalls ==
  LET l == [loop EXCEPT !.messages = Append(@, AssistantMessage(loop.answer, loop.turn)),
                        !.steps = Append(@, newStep(loop, "continue"))]
  IN /\ at("answered") /\ loop.answer.calls > 0
     /\ observeBoundary(l, "model_complete", goto(l, "dispatch"))
     /\ UNCHANGED <<config, context, journal, tools, resumes>>

\* finalizeNoToolStep up to its boundary.
RecordOutput ==
  LET l == [loop EXCEPT !.messages = appendFinalAssistant(@, loop.answer.text),
                        !.steps = Append(@, newStep(loop, "finish"))]
  IN /\ at("answered") /\ loop.answer.calls = 0
     /\ observeBoundary(l, "validating_output", goto(l, "validate"))
     /\ UNCHANGED <<config, context, journal, tools, resumes>>

-----------------------------------------------------------------------------
(* Output guardrails.                                                      *)

\* The transcript without the output that is being finalized.
base == IF loop.answer.text = "none" THEN loop.messages ELSE front(loop.messages)

\* A StepObserver that fails ends the loop.
observeFinalizedStep(l, next) == loop' \in {next, failed(l, "engine")}

zeroUsage == config.maxTokens > 0 /\ loop.answer.tokens = 0

\* A token ceiling cannot be enforced on a turn that reports no usage.
UsageMissing ==
  LET l == decided(loop, "fail")
  IN /\ at("validate") \/ (at("dispatch") /\ ~loop.cancelled)
     /\ zeroUsage
     /\ observeFinalizedStep(l, return(l, "aborted", "budget"))
     /\ UNCHANGED <<config, context, checkpoint, journal, tools, resumes>>

OutputAllowed ==
  LET text == IF loop.answer.guard = "replace" THEN "valid" ELSE loop.answer.text
      l == [loop EXCEPT !.messages = appendFinalAssistant(base, text)]
  IN /\ at("validate") /\ ~zeroUsage
     /\ loop.answer.guard \in {"allow", "replace"}
     /\ observeFinalizedStep(l, return(l, "complete", "none"))
     /\ UNCHANGED <<config, context, checkpoint, journal, tools, resumes>>

retryAllowed == config.maxIterations = 0 \/ Len(loop.steps) < config.maxIterations

\* appendRetryContext: what the guardrail's retry adds, its replacement context
\* and its messages, is one user message here.
OutputRetried ==
  LET rejected == IF loop.answer.guard = "retryKeep" THEN loop.messages ELSE base
      l == [decided(loop, "continue") EXCEPT !.messages = Append(rejected, UserMessage)]
  IN /\ at("validate") /\ ~zeroUsage
     /\ loop.answer.guard \in {"retryKeep", "retryDrop"} /\ retryAllowed
     /\ observeFinalizedStep(l, [l EXCEPT !.pc = "top", !.answer = None, !.turn = -1])
     /\ UNCHANGED <<config, context, checkpoint, journal, tools, resumes>>

\* Blocked, retried once too often, or the guardrail itself failed.
OutputRefused ==
  /\ at("validate") /\ ~zeroUsage
  /\ \/ loop.answer.guard \in {"block", "error"}
     \/ loop.answer.guard \in {"retryKeep", "retryDrop"} /\ ~retryAllowed
  /\ loop' = failed(decided(loop, "fail"), IF loop.answer.guard = "error" THEN "engine" ELSE "guardrail")
  /\ UNCHANGED <<config, context, checkpoint, journal, tools, resumes>>

\* RunMessages recovers it, with the transcript it had before finalizeNoToolStep and
\* a failed step; Resume, which calls finalizeNoToolStep itself, does not.
GuardrailPanics ==
  /\ at("validate") /\ ~zeroUsage
  /\ loop.answer.guard = "panic"
  /\ loop' = failed([decided(loop, "fail") EXCEPT !.messages = base], "panic")
  /\ UNCHANGED <<config, context, checkpoint, journal, tools, resumes>>

-----------------------------------------------------------------------------
(* runToolStep after its boundary.                                         *)

\* Fault: only what was used before this turn counts.
preDispatchBudgetBlock_batchIgnored == budgetExhausted(loop)

\* len(*steps) already counts this turn.
preDispatchBudgetBlock ==
  \/ budgetExhausted(loop)
  \/ config.maxToolCalls > 0 /\ loop.toolCallsUsed + loop.answer.calls > config.maxToolCalls

\* The context has ended, BeforeToolCall fails or a tool is not registered.
DispatchRefused ==
  /\ at("dispatch")
  /\ \/ loop.cancelled /\ loop' = failed(loop, "context")
     \/ /\ ~loop.cancelled /\ ~zeroUsage /\ ~preDispatchBudgetBlock
        /\ \/ loop' = failed(loop, "engine")
           \/ ~loop.answer.known /\ loop' = failed(loop, "tool")
  /\ UNCHANGED <<config, context, checkpoint, journal, tools, resumes>>

DispatchBlocked ==
  LET l == decided(loop, "fail")
  IN /\ at("dispatch") /\ ~loop.cancelled /\ ~zeroUsage
     /\ preDispatchBudgetBlock
     /\ observeFinalizedStep(l, return(l, "aborted", "budget"))
     /\ UNCHANGED <<config, context, checkpoint, journal, tools, resumes>>

Dispatch ==
  /\ at("dispatch") /\ ~loop.cancelled /\ ~zeroUsage /\ ~preDispatchBudgetBlock
  /\ loop.answer.known
  /\ loop' = [loop EXCEPT !.pc = "tools", !.toolCallsUsed = @ + loop.answer.calls]
  /\ tools' = [tools EXCEPT !.dispatched = @ \cup {<<loop.turn, i>> : i \in 1..loop.answer.calls}]
  /\ UNCHANGED <<config, context, checkpoint, journal, resumes>>

\* An outcome that was journaled before a crash is replayed without running the
\* driver, which then reports no usage of its own.
childUsage == IF loop.turn \in tools.settled THEN 0 ELSE loop.answer.child

\* All drivers have returned.
ToolsReturn ==
  /\ at("tools")
  /\ loop' = [loop EXCEPT !.pc = "results", !.usage = @ + childUsage]
  /\ tools' = [tools EXCEPT !.settled = @ \cup {loop.turn}]
  /\ UNCHANGED <<config, context, checkpoint, journal, resumes>>

\* Fault: a batch has one result.
results_first(turn, n, succeeded) == <<ToolMessage(turn, 1)>>

\* The results of the calls that succeeded, in call order.
results(turn, n, succeeded) ==
  LET upTo[i \in 0..n] == IF i = 0 THEN <<>>
                          ELSE IF i \in succeeded THEN Append(upTo[i - 1], ToolMessage(turn, i))
                          ELSE upTo[i - 1]
  IN upTo[n]

withResults(l, succeeded) ==
  [l EXCEPT !.messages = @ \o results(l.turn, l.answer.calls, succeeded),
            !.steps[Len(l.steps)].tokens = l.usage, !.steps[Len(l.steps)].toolCalls = l.toolCallsUsed]

\* A driver, AfterToolCall or the Sink fails: the results that exist are recorded,
\* and the usage of the child agents that ran.
ToolsFail ==
  /\ at("tools")
  /\ \E succeeded \in SUBSET (1..loop.answer.calls), childRan \in BOOLEAN :
       LET l == [loop EXCEPT !.usage = @ + IF childRan THEN childUsage ELSE 0]
       IN /\ loop' = failed(withResults(l, succeeded), IF loop.cancelled THEN "context" ELSE "engine")
          /\ tools' = IF childRan THEN [tools EXCEPT !.settled = @ \cup {loop.turn}] ELSE tools
  /\ UNCHANGED <<config, context, checkpoint, journal, resumes>>

\* A driver of a sequential batch panics.
DriverPanics ==
  /\ at("tools")
  /\ loop' = failed(loop, "panic")
  /\ UNCHANGED <<config, context, checkpoint, journal, tools, resumes>>

stepDecision(answer) == IF answer.terminal THEN "finish" ELSE answer.decide

FinalizeToolStep ==
  LET recorded == withResults(loop, 1..loop.answer.calls)
      decision == stepDecision(loop.answer)
      l == traced(decided(recorded, decision), loop.answer.calls)
      next == CASE decision = "finish" -> return(l, "complete", "none")
                [] decision = "fail" -> failed(l, "stepAborted")
                [] decision = "continue" -> [l EXCEPT !.pc = "top", !.answer = None, !.turn = -1]
  IN /\ at("results")
     /\ \/ observeBoundary(l, "tools_complete", next)
        \/ loop' = failed(l, IF decision = "fail" THEN "stepAborted" ELSE "engine") /\ UNCHANGED checkpoint
     /\ UNCHANGED <<config, context, journal, tools, resumes>>

-----------------------------------------------------------------------------
(* Engine.run and Engine.resume.                                           *)

loopErrorFailure(l) ==
  CASE l.err = "budget" -> "budget_exhausted"
    [] l.err = "tool" -> "tool_unavailable"
    [] l.err = "guardrail" -> "output_blocked"
    [] l.err = "stepAborted" -> "step_aborted"
    [] l.err = "panic" /\ l.resumed -> "panicked"
    [] OTHER -> "engine_error"

\* finalAssistantTextFromMessages: "none" when no assistant turn has text.
finalText(messages) ==
  LET withText(m) == isAssistant(m) /\ m.text # "none"
      texts == SelectSeq(messages, withText)
  IN IF texts = <<>> THEN "none" ELSE last(texts).text

outputValid == ~config.validate \/ finalText(loop.messages) = "valid"

Return ==
  /\ at("returned")
  /\ \/ loop.err # "none" /\ loop' = [goto(loop, "result") EXCEPT !.result = loopErrorFailure(loop)]
     \/ loop.err = "none" /\ outputValid /\ loop' = [goto(loop, "result") EXCEPT !.result = "ok"]
  /\ UNCHANGED <<config, context, checkpoint, journal, tools, resumes>>

mayRepair == loop.repairCount < config.maxRepairs

RepairEnds ==
  /\ at("returned") /\ loop.err = "none" /\ ~outputValid
  /\ ~mayRepair \/ budgetExhausted(loop)
  /\ loop' = [goto(loop, "result") EXCEPT !.result =
                IF mayRepair THEN "budget_exhausted"
                ELSE IF config.maxRepairs > 0 THEN "repair_failed" ELSE "schema_invalid"]
  /\ UNCHANGED <<config, context, checkpoint, journal, tools, resumes>>

\* RunMessages numbers its turns after those of the transcript it is given.
repairLoop(l) ==
  LET next == nextToolOperationTurn(l.messages)
  IN [l EXCEPT !.pc = "top", !.stop = "none", !.messages = Append(@, UserMessage), !.repairCount = @ + 1,
               !.operationTurn = IF next > @ THEN next ELSE @]

\* Fault: the tool calls already used are not handed to the repair.
Repair_toolCallsForgotten ==
  /\ at("returned") /\ loop.err = "none" /\ ~outputValid
  /\ mayRepair /\ ~budgetExhausted(loop)
  /\ loop' = [repairLoop(loop) EXCEPT !.toolCallsUsed = 0]
  /\ UNCHANGED <<config, context, checkpoint, journal, tools, resumes>>

\* RunMessages again, on the transcript so far and an instruction.
Repair ==
  /\ at("returned") /\ loop.err = "none" /\ ~outputValid
  /\ mayRepair /\ ~budgetExhausted(loop)
  /\ loop' = repairLoop(loop)
  /\ UNCHANGED <<config, context, checkpoint, journal, tools, resumes>>

Cancel ==
  /\ loop.pc \notin {"result", "crashed"} /\ ~loop.cancelled
  /\ loop' = [loop EXCEPT !.cancelled = TRUE]
  /\ UNCHANGED <<config, context, checkpoint, journal, tools, resumes>>

Crash ==
  /\ config.boundaries /\ loop.pc \notin {"result", "crashed"}
  /\ resumes < MaxResumes
  /\ loop' = goto(NewLoop(context), "crashed")
  /\ UNCHANGED <<config, context, checkpoint, journal, tools, resumes>>

continued(c) ==
  [NewLoop(c.messages) EXCEPT
     !.steps = c.steps, !.usage = c.usage, !.toolCallsUsed = c.toolCallsUsed,
     !.repairCount = c.repairCount, !.operationTurn = c.operationTurn]

\* resumeModelComplete and resumeValidatingOutput take the last assistant turn
\* and its step back and go through the step again.
resumeStep(c) ==
  [continued(c) EXCEPT
     !.pc = "answered", !.messages = front(@), !.steps = front(@), !.resumed = TRUE,
     !.turn = last(c.messages).turn, !.answer = journal[c.operationTurn - 1].answer]

resumeToolsComplete(c) ==
  CASE last(c.steps).decision = "continue" -> continued(c)
    [] last(c.steps).decision = "finish" -> return(continued(c), "complete", "none")
    [] last(c.steps).decision = "fail" -> failed(continued(c), "stepAborted")

\* Fault: the next turn is numbered from the transcript.
resumeLoop_turnFromTranscript(c) ==
  CASE c.phase = "ready" -> [continued(c) EXCEPT !.operationTurn = nextToolOperationTurn(c.messages)]
    [] c.phase \in {"model_complete", "validating_output"} -> resumeStep(c)
    [] c.phase = "tools_complete" -> resumeToolsComplete(c)

\* Fault: the context is built anew.
resumeLoop_rerun(c) == NewLoop(context)

resumeLoop(c) ==
  CASE c.phase = "ready" -> continued(c)
    [] c.phase \in {"model_complete", "validating_output"} -> resumeStep(c)
    [] c.phase = "tools_complete" -> resumeToolsComplete(c)

\* An interrupted execution is resumed, or run again when nothing was kept.  Resume
\* returns at once when its context has already ended.
Resume ==
  /\ \/ at("crashed")
     \/ at("result") /\ loop.err \in {"context", "observer"} /\ config.boundaries
  /\ resumes < MaxResumes
  /\ IF checkpoint = None THEN loop' = NewLoop(context)
     ELSE loop' \in {resumeLoop(checkpoint), failed(continued(checkpoint), "context")}
  /\ resumes' = resumes + 1
  /\ UNCHANGED <<config, context, checkpoint, journal, tools>>

-----------------------------------------------------------------------------
Init ==
  /\ config \in Configs
  /\ context \in Contexts
  /\ loop = NewLoop(context)
  /\ checkpoint = None
  /\ journal = <<>>
  /\ tools = [dispatched |-> {}, settled |-> {}]
  /\ resumes = 0

Next ==
  \/ MaxTurnsReached
  \/ ContextEnded
  \/ BudgetAbort
  \/ CompactionFails
  \/ Ready
  \/ \E opened \in BOOLEAN, partial \in Answers \cup {None} : ModelFails(opened, partial)
  \/ \E answer \in Answers : ModelAnswers(answer)
  \/ RecordToolCalls
  \/ RecordOutput
  \/ UsageMissing
  \/ OutputAllowed
  \/ OutputRetried
  \/ OutputRefused
  \/ GuardrailPanics
  \/ DispatchRefused
  \/ DispatchBlocked
  \/ Dispatch
  \/ ToolsReturn
  \/ ToolsFail
  \/ DriverPanics
  \/ FinalizeToolStep
  \/ Return
  \/ RepairEnds
  \/ Repair
  \/ Cancel
  \/ Crash
  \/ Resume

Spec == Init /\ [][Next]_vars

-----------------------------------------------------------------------------
(* Properties.                                                             *)

\* The state of the loop, of the kept continuation and of the journal has its type.
TypeOK ==
  /\ config \in Configs /\ context \in Contexts
  /\ loop.pc \in PCs /\ loop.stop \in Stops /\ loop.err \in Errs /\ loop.result \in Results
  /\ loop.messages \in Seq(MessageType) /\ loop.steps \in Seq(Step)
  /\ loop.usage \in Nat /\ loop.toolCallsUsed \in Nat /\ loop.repairCount \in Nat
  /\ loop.operationTurn \in Nat /\ loop.turn \in Int
  /\ loop.answer \in Answers \cup {None}
  /\ checkpoint \in Continuation \cup {None}
  /\ \A t \in DOMAIN journal : journal[t].answer \in Answers /\ journal[t].request \in Seq(MessageType)

\* Limits hold for the whole execution, whatever is interrupted and resumed: in
\* the number of distinct model and tool operations started in the world, and
\* in the number of repairs.
LimitsHold ==
  LET turns == Cardinality(DOMAIN journal)
  IN /\ config.maxIterations > 0 => turns <= config.maxIterations
     /\ config.maxSteps > 0 => turns <= config.maxSteps
     /\ config.maxToolCalls > 0 => Cardinality(tools.dispatched) <= config.maxToolCalls
     /\ loop.repairCount <= config.maxRepairs

\* At every model call the accounts agree with what was really done: each answered
\* turn is one step with its usage, each dispatched call is counted once, also
\* when Resume went through a step again or a repair runs the loop again.
AccountsExact ==
  at("model") =>
    LET first == loop.operationTurn - Len(loop.steps)
        counted == {t \in DOMAIN journal : t < loop.operationTurn}
    IN /\ counted = first..(loop.operationTurn - 1)
       /\ loop.toolCallsUsed = Cardinality({op \in tools.dispatched : op[1] \in counted})
       /\ \A i \in DOMAIN loop.steps : loop.steps[i].model = journal[first + i - 1].answer.tokens

\* An operation ID stands for one request: a turn that is asked again after an
\* interruption sends the transcript it sent the first time, so its journaled
\* answer may be replayed, and no later turn takes its ID.
ReplayIsExact ==
  at("model") /\ loop.operationTurn \in DOMAIN journal =>
    journal[loop.operationTurn].request = loop.messages

\* A model never sees a tool call without its result, or a result without its call.
\* (The code does not look at the messages of a guardrail's retry: a guardrail that
\* adds calls or results of its own is not covered.)
TranscriptComplete == at("model") => ValidateCompleteTurns(loop.messages)

rank(c) ==
  3 * Len(c.steps) + CASE c.phase \in {"model_complete", "validating_output"} -> 0
                       [] c.phase = "tools_complete" -> 1
                       [] c.phase = "ready" -> 2

\* A resumed execution does not fall behind what was kept: each continuation
\* stands at or after the one it replaces.
ContinuationForward ==
  [][checkpoint # None => rank(checkpoint') >= rank(checkpoint)]_checkpoint

\* The loop builds a valid continuation at every boundary: observeBoundary never
\* refuses the execution's own state.
BoundariesAccepted == loop.err # "invalid"

=============================================================================
