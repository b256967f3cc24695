----------------------------- MODULE Delegation -----------------------------
(***************************************************************************)
(* Agents used as tools: src/agent/agent_tool.go, with the layers a call   *)
(* of one passes through: the interceptor guard of src/tool/interceptor.go *)
(* and the update wrapper of src/tool/update.go.                           *)
(*                                                                         *)
(* A call is named by its path: <<1>> and <<2>> are calls of the root run, *)
(* <<1, 2>> is the second call of the run that <<1>> starts.  A run takes  *)
(* a model turn, dispatches its calls in parallel, adds up what they used  *)
(* and takes a last turn.  The calls in Plain have an ordinary driver; an  *)
(* ordinary driver may use its update callback after it has returned.      *)
(*                                                                         *)
(* Errors are sets of the causes errors.Is finds in them, {} is nil.       *)
(***************************************************************************)
EXTENDS Integers, Sequences, FiniteSets

CONSTANTS
  Calls,         \* the calls of all plans, as paths
  Plain,         \* those of ordinary tools
  MaxDepth,      \* MaxDepth[c]: AgentToolConfig.MaxDepth
  Budget,        \* Budget[c]: MaxTokens of the child's own budget, 0 for none
  Tokens,        \* what one model turn may report as TotalTokens
  Plans,         \* what a behaviour consists of: the calls the models make, MaxTokens
                 \* of the root run (0 for none), and the interceptor of each call:
                 \* "none", one that "waits" for its next and passes a failure of
                 \* it on, one that waits and "masks" such a failure if it likes,
                 \* or a "hasty" one that may return before its next does
  Cancelable,    \* contexts that end: <<>> of the caller, a call's by its Timeout
  MaxUpdates     \* maxToolUpdatesPerCall

Root == <<>>

Runs == {Root} \cup (Calls \ Plain)

parent(c) == SubSeq(c, 1, Len(c) - 1)

levels(p) == {SubSeq(p, 1, n) : n \in 1 .. Len(p)}

ASSUME DelegationAssumption ==
  /\ Calls \subseteq Seq(Nat) /\ IsFiniteSet(Calls) /\ Root \notin Calls
  /\ Plain \subseteq Calls
  /\ \A c \in Calls : parent(c) \in Runs
  /\ MaxDepth \in [Calls -> Nat \ {0}] /\ Budget \in [Calls -> Nat]
  /\ Tokens \subseteq Nat /\ Tokens # {}
  /\ Plans \subseteq [calls : SUBSET Calls, max : Nat,
                     interceptor : [Calls -> {"none", "waits", "masks", "hasty"}]]
  /\ Cancelable \subseteq Calls \cup {Root}
  /\ MaxUpdates \in Nat \ {0}

VARIABLES
  run,     \* run[r]: the loop of a run, its usage collector and its token tracker
  guard,   \* guard[c]: the interceptor of a call and the guard around its next
  driver,  \* driver[c]: the update wrapper, the driver and its reservation
  ended,   \* the contexts that ended from outside
  sinkErr, \* the caller's sink has failed
  plan     \* the plan of this behaviour

vars == <<run, guard, driver, ended, sinkErr, plan>>

-----------------------------------------------------------------------------
(* State.                                                                  *)

\* own is history: the tokens of the run's own turns.
NoRun == [pc |-> "off", max |-> 0, depth |-> 0, own |-> 0, usage |-> 0, said |-> FALSE,
          dispatched |-> FALSE, collector |-> 0, remaining |-> 0, gate |-> FALSE, err |-> {}]

NewRun(max, depth) == [NoRun EXCEPT !.pc = "turn", !.max = max, !.depth = depth]

\* The counters a wrapped call captures, and the error the call returns.
NewGuard == [pc |-> "off", calls |-> 0, protocolErr |-> {}, err |-> {}]

\* toolUpdateState (closed, count, output, updateErr), the reservation (claim,
\* settled) and what the driver returned.
NewDriver == [pc |-> "off", count |-> 0, output |-> FALSE, updateErr |-> FALSE, closed |-> FALSE,
              claim |-> 0, settled |-> FALSE, err |-> {}]

kids(r) == {c \in plan.calls : parent(c) = r}

interceptor(c) == plan.interceptor[c]

notExecuted(cause) == {"notExecuted", cause}

bounded(r) == run[r].max > 0

\* The context of a call's driver: it ends with any context above it, when an
\* update fails and when the update wrapper returns.
canceled(c) ==
  \/ Root \in ended
  \/ \E q \in levels(c) : q \in ended \/ driver[q].updateErr \/ driver[q].closed

returned(c) == guard[c].pc = "returned"

Init ==
  /\ plan \in Plans
  /\ run = [r \in Runs |-> IF r = Root THEN NewRun(plan.max, 0) ELSE NoRun]
  /\ guard = [c \in Calls |-> NewGuard]
  /\ driver = [c \in Calls |-> NewDriver]
  /\ ended = {} /\ sinkErr = FALSE

-----------------------------------------------------------------------------
(* Updates.                                                                *)

\* Fault: a returned driver may still emit.
refuses_open(q) == driver[q].updateErr \/ driver[q].count >= MaxUpdates

\* A frame of the run behind p, or an update of the driver of p, passes the
\* update state of every level up to the caller's sink, one call inside the
\* other.  The walk stops at the first level that refuses it, or at Root.
refuses(q) == driver[q].closed \/ driver[q].updateErr \/ driver[q].count >= MaxUpdates

stop(p, valid) ==
  LET refusing == {q \in levels(p) : refuses(q) \/ (q = p /\ ~valid)}
  IN  IF refusing = {} THEN Root
      ELSE CHOOSE q \in refusing : \A other \in refusing : Len(other) <= Len(q)

delivered(p, valid, sinkOK) == stop(p, valid) = Root /\ sinkOK

\* emit: a level counts an update before it hands it up, and every level
\* below the failure stores the error it gets back; so does the level that
\* refuses, unless it is closed.
emit(p, valid, sinkOK) ==
  LET at == stop(p, valid)
      passed(q) == q \in levels(p) /\ Len(q) > Len(at)
      fails(q) == ~delivered(p, valid, sinkOK) /\ (passed(q) \/ (q = at /\ ~driver[q].closed))
  IN  [q \in Calls |-> [driver[q] EXCEPT !.count = IF passed(q) THEN @ + 1 ELSE @,
                                         !.updateErr = @ \/ fails(q)]]

\* The caller's sink fails once at most.
SinkAnswers == {TRUE, sinkErr}

\* A text frame of a model turn.  FrameThinking and FrameToolCallDelta are
\* dropped by mapAgentToolFrame and are not modelled.
Say(r) ==
  /\ r # Root /\ run[r].pc = "turn" /\ ~run[r].said
  /\ \E sinkOK \in SinkAnswers :
       /\ driver' = emit(r, TRUE, sinkOK)
       /\ sinkErr' = (sinkErr \/ (stop(r, TRUE) = Root /\ ~sinkOK))
       /\ run' = [run EXCEPT ![r] = IF delivered(r, TRUE, sinkOK) THEN [@ EXCEPT !.said = TRUE]
                                    ELSE [@ EXCEPT !.pc = "ended", !.err = {"update"}]]
  /\ UNCHANGED <<guard, ended, plan>>

-----------------------------------------------------------------------------
(* Runs: the loop of src/agent/agent.go, as far as delegation depends on   *)
(* it.                                                                     *)

finish(state, err) == [state EXCEPT !.pc = "ended", !.err = err]

exhausted(state) == state.max > 0 /\ state.usage >= state.max

\* withAgentToolDispatchContext: a new collector, and a tracker of what is
\* left of the ceiling.
dispatch(state) ==
  [state EXCEPT !.pc = "batch", !.dispatched = TRUE, !.collector = 0, !.gate = FALSE,
                !.remaining = IF state.max > 0 THEN state.max - state.usage ELSE 0]

afterTurn(r, state, tokens, asks) ==
  IF ~asks THEN finish(state, {})
  ELSE IF canceled(r) THEN finish(state, {"canceled"})
  ELSE IF state.max > 0 /\ tokens = 0 THEN finish(state, {"exhausted"})
  ELSE IF exhausted(state) THEN finish(state, {"exhausted"})
  ELSE dispatch(state)

Turn(r) ==
  /\ run[r].pc = "turn"
  /\ \E tokens \in Tokens, asks \in BOOLEAN :
       LET spent == [run[r] EXCEPT !.usage = @ + tokens, !.own = @ + tokens]
           next == afterTurn(r, spent, tokens, asks)
       IN  /\ asks => kids(r) # {} /\ ~run[r].dispatched
           /\ run' = [run EXCEPT ![r] = next]
           /\ guard' = IF next.pc = "batch"
                       THEN [c \in Calls |-> IF c \in kids(r) THEN [guard[c] EXCEPT !.pc = "pending"]
                                             ELSE guard[c]]
                       ELSE guard
  /\ UNCHANGED <<driver, ended, sinkErr, plan>>

TurnCanceled(r) ==
  /\ run[r].pc = "turn" /\ canceled(r)
  /\ run' = [run EXCEPT ![r] = finish(@, {"canceled"})]
  /\ UNCHANGED <<guard, driver, ended, sinkErr, plan>>

\* The batch has returned: its usage is charged whatever its outcome.
afterBatch(r) ==
  LET charged == [run[r] EXCEPT !.usage = @ + run[r].collector]
  IN  IF \E c \in kids(r) : guard[c].err # {} THEN finish(charged, {"failed"})
      ELSE IF exhausted(charged) THEN finish(charged, {"exhausted"})
      ELSE [charged EXCEPT !.pc = "turn", !.said = FALSE]

Join(r) ==
  /\ run[r].pc = "batch" /\ \A c \in kids(r) : returned(c)
  /\ run' = [run EXCEPT ![r] = afterBatch(r)]
  /\ UNCHANGED <<guard, driver, ended, sinkErr, plan>>

-----------------------------------------------------------------------------
(* The guard around an interceptor: wrapInterceptor.                       *)

enter(c) == [driver EXCEPT ![c].pc = IF c \in Plain THEN "running" ELSE "validate"]

\* A worker of the batch takes the call up; without an interceptor it calls
\* the driver itself.
Execute(c) ==
  /\ guard[c].pc = "pending"
  /\ IF canceled(parent(c))
     THEN /\ guard' = [guard EXCEPT ![c].pc = "returned", ![c].err = notExecuted("canceled")]
          /\ UNCHANGED driver
     ELSE /\ guard' = [guard EXCEPT ![c].pc = "active"]
          /\ IF interceptor(c) = "none" THEN driver' = enter(c) ELSE UNCHANGED driver
  /\ UNCHANGED <<run, ended, sinkErr, plan>>

\* The guarded next runs the driver once, on the unchanged call, and not after
\* the interceptor returned.
violation(c, modified) ==
  IF guard[c].calls > 0 THEN {"protocol"} ELSE IF modified THEN notExecuted("protocol") ELSE {}

\* Fault: a late next is not refused.
next_late(c, modified) ==
  /\ guard' = [guard EXCEPT ![c].calls = @ + 1, ![c].protocolErr = violation(c, modified)]
  /\ IF violation(c, modified) = {} THEN driver' = enter(c) ELSE UNCHANGED driver

next(c, modified) ==
  IF returned(c) THEN UNCHANGED <<guard, driver>>
  ELSE /\ guard' = [guard EXCEPT ![c].calls = @ + 1, ![c].protocolErr = violation(c, modified)]
       /\ IF violation(c, modified) = {} THEN driver' = enter(c) ELSE UNCHANGED driver

CallNext(c) ==
  /\ guard[c].pc = "active" \/ (returned(c) /\ interceptor(c) = "hasty")
  /\ interceptor(c) # "none" /\ guard[c].calls < 2
  /\ \E modified \in BOOLEAN : next(c, modified)
  /\ UNCHANGED <<run, ended, sinkErr, plan>>

\* What the interceptor returns, unless it panics: the answer of the driver or
\* of the guard to its next, an error of its own, or a result of its own, which
\* it may also put in the place of a failed next: the guard passes it on.
Outcomes(c) ==
  (IF driver[c].pc = "done" THEN {driver[c].err} ELSE {})
  \cup (IF guard[c].protocolErr # {} THEN {guard[c].protocolErr} ELSE {})
  \cup (IF guard[c].calls = 0 \/ interceptor(c) # "waits" THEN {{}} ELSE {})
  \cup {{"interceptor"}}

returnedErr(c, err) ==
  IF guard[c].protocolErr # {} THEN err \cup guard[c].protocolErr
  ELSE IF guard[c].calls = 0 /\ err # {} THEN err \cup {"notExecuted"}
  ELSE err

panicErr(c) == IF guard[c].calls = 0 THEN notExecuted("panic") ELSE {"panic"}

Return(c) ==
  /\ guard[c].pc = "active" /\ interceptor(c) # "none"
  /\ driver[c].pc \in {"off", "done"} \/ interceptor(c) = "hasty"
  /\ \E err \in {returnedErr(c, o) : o \in Outcomes(c)} \cup {panicErr(c)} :
       guard' = [guard EXCEPT ![c].pc = "returned", ![c].err = err]
  /\ UNCHANGED <<run, driver, ended, sinkErr, plan>>

-----------------------------------------------------------------------------
(* The driver of an agent tool: agentTool.Execute.                         *)

moveTo(c, pc) == driver' = [driver EXCEPT ![c].pc = pc]

answer(c, err) == [driver[c] EXCEPT !.pc = "finish", !.err = err]

tracker(c) == bounded(parent(c))

\* nextAgentToolContext: the strictest limit on the path, 0 for none yet.
effectiveMaxDepth(c) ==
  LET inherited == run[parent(c)].depth
  IN  IF inherited > 0 /\ inherited < MaxDepth[c] THEN inherited ELSE MaxDepth[c]

allowed(c) == Len(parent(c)) < effectiveMaxDepth(c)

\* A rejected input, and a refusal for the depth, are results with IsError.
Validate(c) ==
  /\ driver[c].pc = "validate"
  /\ \/ driver' = [driver EXCEPT ![c] = answer(c, {})]
     \/ /\ canceled(c)
        /\ driver' = [driver EXCEPT ![c] = answer(c, notExecuted("canceled"))]
     \/ /\ allowed(c)
        /\ moveTo(c, IF tracker(c) THEN "reserve" ELSE "start")
  /\ UNCHANGED <<run, guard, ended, sinkErr, plan>>

claimOf(c) ==
  LET remaining == run[parent(c)].remaining
  IN  IF Budget[c] > 0 /\ Budget[c] < remaining THEN Budget[c] ELSE remaining

\* reserve waits for the gate; with the gate or without it, a cancelled call
\* is not executed.
Reserve(c) ==
  /\ driver[c].pc = "reserve"
  /\ \/ /\ canceled(c)
        /\ driver' = [driver EXCEPT ![c] = answer(c, notExecuted("canceled"))]
        /\ UNCHANGED run
     \/ /\ ~canceled(c) /\ ~run[parent(c)].gate /\ run[parent(c)].remaining <= 0
        /\ driver' = [driver EXCEPT ![c] = answer(c, notExecuted("exhausted"))]
        /\ UNCHANGED run
     \/ /\ ~canceled(c) /\ ~run[parent(c)].gate /\ run[parent(c)].remaining > 0
        /\ driver' = [driver EXCEPT ![c].pc = "start", ![c].claim = claimOf(c)]
        /\ run' = [run EXCEPT ![parent(c)].gate = TRUE, ![parent(c)].remaining = @ - claimOf(c)]
  /\ UNCHANGED <<guard, ended, sinkErr, plan>>

\* The parent's tracker after the reservation of c is settled with usage.
spentOf(c, usage) == IF usage < driver[c].claim THEN usage ELSE driver[c].claim

\* Fault: the claim is refunded and the gate kept.
settle_keepsGate(c, usage) ==
  [run EXCEPT ![parent(c)] =
     IF tracker(c) THEN [@ EXCEPT !.remaining = @ + driver[c].claim - spentOf(c, usage)] ELSE @]

\* Fault: the whole claim is refunded.
settle_refundsAll(c, usage) ==
  [run EXCEPT ![parent(c)] =
     IF tracker(c) THEN [@ EXCEPT !.remaining = @ + driver[c].claim, !.gate = FALSE] ELSE @]

settle(c, usage) ==
  IF tracker(c)
  THEN [run EXCEPT ![parent(c)].remaining = @ + driver[c].claim - spentOf(c, usage),
                   ![parent(c)].gate = FALSE]
  ELSE run

\* Fault: the child runs on its own budget.
childBudget_own(c) == Budget[c]

\* Request.Budget: the claim, or the child's own budget without a tracker.
childBudget(c) == IF tracker(c) THEN driver[c].claim ELSE Budget[c]

Start(c) ==
  /\ driver[c].pc = "start"
  /\ IF canceled(c)
     THEN /\ driver' = [driver EXCEPT ![c] = [answer(c, notExecuted("canceled")) EXCEPT !.settled = TRUE]]
          /\ run' = settle(c, 0)
     ELSE /\ moveTo(c, "running")
          /\ run' = [run EXCEPT ![c] = NewRun(childBudget(c), effectiveMaxDepth(c))]
  /\ UNCHANGED <<guard, ended, sinkErr, plan>>

Settle(c) ==
  /\ c \notin Plain /\ driver[c].pc = "running" /\ run[c].pc = "ended"
  /\ run' = settle(c, run[c].usage)
  /\ driver' = [driver EXCEPT ![c].pc = "report", ![c].settled = TRUE]
  /\ UNCHANGED <<guard, ended, sinkErr, plan>>

\* Fault: the usage of a cancelled child is not reported.
report_unlessCanceled(c) == [run EXCEPT ![parent(c)].collector = IF canceled(c) THEN @ ELSE @ + run[c].usage]

\* reportAgentToolUsage, mapResult and the infrastructure errors.  How the
\* child's run ended is data of the result.
report(c) == [run EXCEPT ![parent(c)].collector = @ + run[c].usage]

Report(c) ==
  /\ driver[c].pc = "report"
  /\ run' = report(c)
  /\ driver' = [driver EXCEPT ![c] = answer(c, (IF canceled(c) THEN {"canceled"} ELSE {})
                                               \cup (IF driver[c].updateErr THEN {"update"} ELSE {}))]
  /\ UNCHANGED <<guard, ended, sinkErr, plan>>

-----------------------------------------------------------------------------
(* An ordinary driver, and the end of every driver.                        *)

\* Progress, output or an invalid update, also after the driver returned.
PlainEmit(c) ==
  /\ c \in Plain /\ driver[c].pc \in {"running", "finish", "done"}
  /\ \E valid \in BOOLEAN, output \in BOOLEAN, sinkOK \in SinkAnswers :
       /\ driver' = [emit(c, valid, sinkOK) EXCEPT
                       ![c].output = @ \/ (output /\ valid /\ ~refuses(c))]
       /\ sinkErr' = (sinkErr \/ (stop(c, valid) = Root /\ ~sinkOK))
  /\ UNCHANGED <<run, guard, ended, plan>>

\* The parts of its result may differ from the output it streamed.
PlainReturn(c) ==
  /\ c \in Plain /\ driver[c].pc = "running"
  /\ \E err \in {{}, {"driver"}, {"notExecuted", "driver"}, {"mismatch"}} :
       driver' = [driver EXCEPT ![c] = answer(c, err)]
  /\ UNCHANGED <<run, guard, ended, sinkErr, plan>>

\* toolUpdateDriver.Execute after its driver returned.
normalizeUpdatedResult(c) ==
  IF driver[c].err = {"mismatch"} THEN IF driver[c].output THEN {"protocol"} ELSE {} ELSE driver[c].err

\* Fault: the error of the driver hides the failed update.
finished_driverFirst(c) ==
  IF driver[c].err # {} THEN driver[c].err ELSE IF driver[c].updateErr THEN {"update"} ELSE {}

finished(c) ==
  LET d == driver[c]
  IN  IF d.updateErr THEN {"update"}
      ELSE IF "notExecuted" \in d.err /\ d.count > 0 THEN {"protocol"}
      ELSE normalizeUpdatedResult(c)

Finish(c) ==
  /\ driver[c].pc = "finish"
  /\ driver' = [driver EXCEPT ![c].pc = "done", ![c].closed = TRUE, ![c].err = finished(c)]
  /\ guard' = IF interceptor(c) = "none"
              THEN [guard EXCEPT ![c].pc = "returned", ![c].err = finished(c)] ELSE guard
  /\ UNCHANGED <<run, ended, sinkErr, plan>>

-----------------------------------------------------------------------------
(* The environment and the specification.                                  *)

Cancel(q) ==
  /\ q \in Cancelable \ ended
  /\ q # Root => guard[q].pc = "active"
  /\ ended' = ended \cup {q}
  /\ UNCHANGED <<run, guard, driver, sinkErr, plan>>

StepOf(c) ==
  \/ Execute(c) \/ CallNext(c) \/ Return(c)
  \/ Validate(c) \/ Reserve(c) \/ Start(c) \/ Settle(c) \/ Report(c)
  \/ PlainReturn(c) \/ Finish(c)

Step == (\E r \in Runs : Turn(r) \/ TurnCanceled(r) \/ Join(r)) \/ \E c \in Calls : StepOf(c)

Next ==
  \/ Step
  \/ \E r \in Runs : Say(r)
  \/ \E c \in Calls : PlainEmit(c)
  \/ \E q \in Cancelable : Cancel(q)

Spec == Init /\ [][Next]_vars

\* Models answer, drivers and interceptors return, and so does the sink.
FairSpec == Spec /\ WF_vars(Step)

-----------------------------------------------------------------------------
(* Properties.                                                             *)

\* Calls with no hasty interceptor on their path: what they do is over when
\* they are answered.
awaited == {c \in Calls : \A q \in levels(c) : interceptor(q) # "hasty"}

\* Those whose interceptor answers no failed next with a result of its own.
candid == {c \in awaited : interceptor(c) # "masks"}

started(c) == run[c].pc # "off"

children(r) == {c \in kids(r) \ Plain : started(c)}

\* The sum of f over S, as the number of the tokens that f counts.
tokensOf(S, f) == UNION {{c} \X (1 .. f[c]) : c \in S}

total(S, f) == Cardinality(tokensOf(S, f))

used(c) == IF c \in Plain THEN 0 ELSE run[c].usage

usages == [c \in Calls |-> used(c)]

claims == [c \in Calls |-> driver[c].claim]

spent == [c \in Calls |-> spentOf(c, used(c))]

openClaims(r) == {c \in kids(r) : driver[c].claim > 0 /\ ~driver[c].settled}

settledClaims(r) == {c \in kids(r) : driver[c].settled}

\* The shared token pool is conserved while a batch runs: what is left, what
\* is claimed and what was spent add up to what the parent had, nothing is
\* ever negative, and the one unsettled claim holds the gate.
PoolConserved ==
  \A r \in Runs : bounded(r) /\ run[r].pc = "batch" =>
    /\ run[r].remaining >= 0
    /\ run[r].remaining + total(openClaims(r), claims) + total(settledClaims(r), spent)
         = run[r].max - run[r].usage
    /\ Cardinality(openClaims(r)) <= IF run[r].gate THEN 1 ELSE 0

over(r) == IF bounded(r) /\ run[r].usage > run[r].max THEN run[r].usage - run[r].max ELSE 0

overs == [c \in Calls |-> IF c \in Plain THEN 0 ELSE over(c)]

\* A run goes past its token ceiling by one model turn of its own, or by what
\* its children went past theirs, and by no more: reservations of parallel
\* and nested children never promise the same tokens twice.
CeilingHeld ==
  \A r \in Runs : bounded(r) /\ kids(r) \subseteq awaited =>
    \/ \E t \in Tokens : over(r) < t
    \/ over(r) <= total(children(r), overs)

\* A finished run has counted every token of its own turns and of every run
\* below it exactly once, whether the calls succeeded, failed or were
\* cancelled.
UsageOnce ==
  \A r \in Runs : run[r].pc = "ended" /\ kids(r) \subseteq awaited =>
    run[r].usage = run[r].own + total(children(r), usages)

\* ErrNotExecuted is proof: the agent of such a call never runs, and no
\* update of it was counted, not even when an interceptor left next running.
NotExecutedTrue ==
  \A c \in Calls : returned(c) /\ "notExecuted" \in guard[c].err =>
    driver[c].count = 0 /\ (c \notin Plain => ~started(c))

\* A failed update is visible wherever no interceptor masks it: the call it
\* belongs to, and every call above it, returns an error that does not claim it
\* was not executed, unless that call's own interceptor answers its failed next
\* with a result (wrapInterceptor passes such an answer on).  And the caller's
\* run fails when the caller's sink did, unless the interceptor of one of its
\* own calls masks failures: one further down cannot hide it.
UpdateFailureSurfaces ==
  [][/\ \A c \in candid : driver[c].updateErr /\ ~returned(c) /\ returned(c)' =>
          guard'[c].err # {} /\ "notExecuted" \notin guard'[c].err
     /\ sinkErr /\ awaited = Calls /\ kids(Root) \subseteq candid
          /\ run[Root].pc # "ended" /\ run'[Root].pc = "ended" => run'[Root].err # {}]_vars

\* No update passes a level whose call has been answered: updates of a call
\* come before its result, at every depth.
NoLateUpdate ==
  [][\A c \in awaited : driver'[c].count # driver[c].count => \A q \in levels(c) : ~returned(q)]_vars

\* Every run and every call comes back: nobody waits for the gate of a pool for
\* ever, whatever was cancelled, refused or left running.
RunReturns == <>(run[Root].pc = "ended" /\ \A c \in Calls : driver[c].pc \in {"off", "done"})

=============================================================================
