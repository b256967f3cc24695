# Venat: models, checks and proofs

Venat is a Go SDK for LLM agents. This directory models the parts of it whose correctness
depends on interleavings, crashes, lost answers and limits, checks them with TLC on small
instances and proves the central invariants with TLAPS for every instance.

## The system

| part | state it keeps | operations | what is hard |
|---|---|---|---|
| durable backend (`durable/backend.go`, reference implementation `durable/internal/testbackend`) | one record per execution: spec hash, status, version, lease with fencing token, checkpoint, effect attempts, tables of answered claims, releases, suspends and finishes | StartExecution, ResumeExecution, RenewExecution, SaveCheckpoint, SuspendExecution, FinishExecution, ReleaseExecution, StartAttempt, FinishAttempt, MarkAttemptUnknown, ReconcileAttempt | stale holders, repeated calls whose answer was lost, leases that expire between two calls, attempts left running |
| durable runtime (`durable/runtime.go`, `active.go`, `interceptor.go`, `boundary.go`, `reconcile.go`) | per process: active calls, pending claims, closed flag, close errors; per call: lease, version, stop cause, control error | Start, Resume, Suspend, Close, Reconcile, heartbeat, boundary observer, model and tool interceptors | goroutines of one call against Suspend, Close, cancellation and heartbeat; processes against each other; crashes |
| agent loop (`agent/agent.go`, `resume.go`, `continuation.go`, output policy and guardrails) | transcript, usage, steps, tool calls used, repair count, phase | Run, Resume, model turn, tool step, finalisation, compaction | limits, resuming in every phase, the same operation IDs after a resume |
| agents as tools (`agent/agent_tool.go`) | nesting depth; per run a usage collector and a token pool with its gate; per call a reservation and an update forwarder | Execute, reserve, settle | parallel and nested reservations from one pool; cancellation between reservation and settlement; usage of children that failed |
| tool bus (`tool/tool.go`) | registered drivers, limiters that clones share, calls in progress | ExecuteBatch, parallel and sequential, Execute | cancellation of siblings, permits, what a skipped call says |
| tool updates and interceptors (`tool/update.go`, `interceptor.go`) | per call: closed flag, count, output, first error; per interceptor: calls of next, protocol error | Execute, emit, finish, next | late and failed updates through several levels, interceptors that misuse next |
| provider streams (`provider/retry_stream.go`, `failover.go`, `conformance.go`, `provider/shared`) | current stream, retries, whether output was emitted; next driver and the errors so far; HTTP attempt | OpenRetryingStream, Recv, Close, Fallback, ModelFallback, DoWithRetry, normalizeEvents | retry only before output; three layers of retry; one terminal outcome; bodies to close |
| vendor drivers (`provider/openai`, `provider/anthropic`) | parser of one response: pending events, stop reason, output items, text held by the reasoning splitter | Stream, Recv | fragments of parallel tool calls; streams that end in the middle |
| orchestration (`orchestration/drive.go`, `scheduler.go`) | permits, current batch, results | Drive | one failure cancels siblings; a tick is applied as a whole or not |
| messages and skills (`message/`, `skill/`) | values | parsing, cloning, pairing of calls and results | |

A `durable.Runtime` wraps an `agent.Engine`: it puts its interceptors in front of the
provider and the tool bus, so every model call and every tool call goes through
`StartAttempt` and `FinishAttempt`, and its observer behind the loop's boundaries, so every
boundary becomes a `SaveCheckpoint`. Runtimes of different processes meet only in the
Backend. Inside a process, a call, its effect goroutines, its heartbeat, the callers of
`Suspend` and the callers of `Close` share one `activeExecution` under a mutex.


What makes each part correct:

* **Backend**: a lease that is not the newest can write nothing; a repeated call gets the
  answer of the first; a settled outcome never changes; an attempt is running only under the
  lease that is held; a terminal execution has nothing in doubt; checkpoints move forward.
* **Runtime**: the engine only works with outcomes that are persisted; an attempt runs at
  most once in the world; a lease is given back or the failure is reported; progress survives
  crashes; every call returns.
* **Agent loop**: limits hold for an execution however often it is resumed; every turn and
  tool call is counted once; an operation ID stands for one request; a model never sees a tool
  call without its result; what is kept of an execution only moves forward.
* **Agents as tools**: a token pool is conserved and no token is promised twice; every token used
  below a run is counted in it once, also when a call fails; `ErrNotExecuted` is true; updates come
  before their result and a failed update is not lost; every run returns.
* **Tools**: `ErrNotExecuted` is true; every call is answered; a limiter holds over all
  clones; batches return.
* **Provider streams and vendor drivers**: output comes from one response; an accepted turn is
  that response as it was on the wire; a failed turn keeps what was streamed; bodies are closed;
  there is one terminal outcome; a cancelled call returns.
* **Orchestration**: the State does not depend on completion order; a tick counts as a whole
  or not at all; no success is lost or repeated; Drive returns.

## Modules

| module | models | state | composed of |
|---|---|---|---|
| `DurableBackend` | the Backend verbs, from the reference implementation | `record` | |
| `EffectJournal` | abstract: what the record promises about effects | `outcome`, `doubt`, `final` | implemented by `DurableBackend` |
| `DurableRuntime` | Runtimes of several processes over one record | `record`, `call`, `effect`, `runtime`, `suspender`, `executions`, `retried` | `DurableBackend` |
| `OrchestrationDrive` | `orchestration.Drive` | `state`, `drive`, `worker`, `records`, `permits`, `history` | |
| `ToolBus` | `tool.Bus` batches, clones and limiters | `batch`, `call`, `permits` | |
| `AgentLoop` | `agent.Engine` Run and Resume | `config`, `context`, `loop`, `checkpoint`, `journal`, `tools`, `resumes` | |
| `StreamEvents` | provider errors and events, the three stream parsers, `normalizeEvents` | none: operators only | |
| `ModelStream` | one model call: `collect` over the retrying stream over the fallback drivers over HTTP | `config`, `ctx`, `pc`, `bodies`, `current`, `chain`, `retry`, `turn` | `StreamEvents` |
| `Delegation` | agents used as tools, update state, interceptor guard | `run`, `guard`, `driver`, `ended`, `sinkErr`, `plan` | |
| `...Proofs` | theorems, see Proofs | | the module of the same name |
| `MC...` | instances for TLC | | the module of the same name |

Names follow the code: the operator `validateBatch` is the function `validateBatch`. An
operator `X_fault` before an operator `X` is a faulty variant of it, named after the fault; no
specification uses it.

### DurableBackend

Executions are independent entries of one map and each verb holds one mutex, so the model
keeps one record and each verb is one atomic step. `<Verb>Verdict(r, q)` gives the verdict of
the early returns, in their order; `<Verb>(r, q)` the record afterwards. `Next` takes only the
applying verdicts: refusals and exact replays change nothing, and `StaleLeaseFenced` and
`RetryIsExact` speak about their verdicts in every reachable record. Hashes are the values
they identify. The clock is the remaining life of the lease: `Advance` may let it pass at any
time. The partial payload of an attempt in doubt is left out: nothing reads it.

### DurableRuntime

A process is named by its owner ID. A call of `Start` or `Resume` is named by the claim ID it
would generate. Each Backend call is answered, applied with its answer lost, or never sent
(`Fates`). The goroutine of a call goes through

`ready -> entered -> boundary <-> batch -> complete -> finishing | suspending | releasing -> finish -> leave -> returned`

with the early returns of `runClaimed` in between, beside one goroutine per effect, the
heartbeat, the Suspend caller, the Close caller, cancellation, crashes, the clock and
`Reconcile`. The engine is a plan of effect batches between boundaries; its memory is what it
has seen. Normalisations, each behaviour-preserving for the properties:

* locals that nothing reads any more are reset when a call finishes, a batch returns or a
  process dies;
* `waitEffects` is always satisfied when it is called, because `RunMessages` and
  `ExecuteBatch` return only after their effects, so it is not a step; `stopNewEffects` is
  then not observable either;
* whether the time of a pending claim is over is a nondeterministic choice;
* a cancelled context stops new effects, but a Backend call under it may still be answered;
* the engine is deterministic, so an operation always has the same input.

### OrchestrationDrive

The launch loop, each dispatch goroutine and the caller's context are actors. The loop's
`select` and the look at the context behind it are separate steps, as are the record, the
`cancel` and the permit release of a goroutine. `history` is not in the code: it remembers
what the properties compare the State with. The caller may call Drive again with the State it
got. Dispatch IDs are numbers, because Drive compares them.

### ToolBus

A batch is one `ExecuteBatch`, a call one `Execute`. The workers of a batch are the free
places among `workerCount`. Clones share limiters, so `permits` is global. A driver may run a
batch of its own (`parent`): the composition that agents used as tools have. Interceptors run
inside the driver's step here; `Delegation` has them step by step. A call without a limiter does not look at its context in
`acquire`, as in the code; the panic of a driver is an error in parallel mode and unwinds
`ExecuteBatch` in sequential mode.

### AgentLoop

One execution, run by one goroutine at a time. `loop` holds the locals of `RunMessages`
(transcript, steps, usage, tool calls used, next operation turn) and its place:

`top -> model -> answered -> dispatch -> tools -> results -> top` for a turn with tool calls,
`answered -> validate -> top | returned` for a turn without, and `returned -> top | result` for
structured output and its repair.

`checkpoint` is the continuation the `BoundaryObserver` kept last, `journal` the answered model
operations, as the durable interceptors keep them, and `tools` what was really dispatched.
`observeBoundary` is modelled with the whole of `ValidateContinuation`; an observer that fails
may have kept the continuation all the same. Cancellation and crashes may come between any two
steps, and `Resume` goes on from the checkpoint in each of the four phases.

A message keeps its role, whether its text is empty, valid or invalid for the output schema, the
number of its tool calls and the turn and slot of its operation IDs. Tool call IDs, which the
provider gives, are taken to be distinct in a turn, so a result is named by its slot. An answer of
the model carries what guardrails and the StepDecider will say of it, because they are functions
of it. A guardrail's retry adds one user message, which stands for its replacement context and its
messages: `appendRetryContext` does not look at them, so a guardrail that adds tool calls or results
of its own is outside `TranscriptComplete`. `ContextManager.Compact` is the parameter `Compact`; the
instance keeps the first message
and the latest tool turn, and is idempotent. Usage is its total. The wall clock is a cancellation.
A Sink, an observer or a hook that fails ends the loop where the code says so. A repair of structured
output starts a second `RunMessages` on the transcript of the first: its turn number goes on from the
larger of the first one's and what the transcript shows (`repairLoop`).

### StreamEvents and ModelStream

An error is the sequence of what `errors.Is` and `errors.As` meet in it, outermost first. Text is
a sequence of pieces; a piece says which response body and which frame it came from and how the
event that carried it was labelled, so that `AcceptedIsWire` can compare an accepted turn with what
was sent. The content of a turn is kept per kind, text and reasoning. A delta of a chat stream has no
tags and is perhaps held back as what may be the start of one, or it has tags in it (a `tag` frame): text
outside them, reasoning inside, both or neither, and it leaves `thinkSplitter` inside or outside a block.
`processChoiceDelta` queues the reasoning of a delta before its text whatever their order in it.
The `reasoning_content` field of a delta, whose event does not pass the splitter, is left out. A JSON document
of arguments is valid when it ends with the fragment that completes it.
The parsers map one frame to the events they append: the chat parser labels argument fragments by
index only, the messages parser by id only, the responses parser by both, and each treats an error
frame and the end of the body in its own way. A `host` stream is a Driver of the application: it
labels as it likes, returns an event together with an error, and goes on after its terminal event.

`ModelStream` is the goroutine of one call:

`driver -> request <-> backoff` opens a body, `collect -> recv -> deliver -> collect` reads it, and
`retryWait -> driver` replaces it. `Driver` is the loop of Fallback or ModelFallback, `Request` one
HTTP request of `DoWithRetry` and `postEventStream`, `RecvPending`, `RecvEnd` and `RecvFrame` the
vendor stream's Recv, wrapped in `retried` (`retryingStream.Recv`) and `received` (what `collect`
does with the answer). Response bodies are kept after they are closed, so that leaks show. The
server's choices are the frames its protocol allows (`mayFollow`), a broken or ended body and a
malformed frame; callbacks may fail, panic or veto a retry (`faults`). Delays are left out: a timer
may fire at any time.

### Delegation

A call is named by its path in the tree of runs: `<<1, 2>>` is the second call of the run that
`<<1>>` starts. A run takes a model turn, dispatches its calls in parallel and takes a last turn;
each turn reports its tokens. A call of an agent passes the interceptor guard (`Execute`, `CallNext`,
`Return`), the update wrapper (`Finish`) and the driver (`Validate -> Reserve -> Start -> Settle ->
Report`). `emit` is one update on its way up: each level's mutex is held while the level above is
called, so the walk is one step, and it stops at the first level that refuses. The context of a call
is derived (`canceled`): it ends with any context above it, a failed update or the return of the
wrapper. `own` is not in the code: the tokens of a run's own turns, which `UsageOnce` compares
with. A `hasty` interceptor returns while its next still runs; the properties about what is over
when a call is answered speak of calls without one on their path (`awaited`), because the code
promises nothing else: the guard refuses only calls of next made afterwards, and a settlement that
comes after the batch is charged to nobody. One that `masks` waits for its next and may answer its
failure with a result of its own, which `wrapInterceptor` passes on; `UpdateFailureSurfaces` says of such a
call nothing, and of the others that they show the failure (`candid`). An interceptor's own errors do not
claim `ErrNotExecuted`; the guard adds it where next was not called. The byte limit of updates refuses like the count limit
and is the case of an invalid update. One interceptor per call stands for a chain, whose links
are guarded separately.

## Runs

| run | shows | bounds |
|---|---|---|
| `backend` | fencing, idempotent repetition, settled terminal state, forward checkpoints; attempts and lease agree, outcomes are final, `ImplementsJournal` | two claims, three leases, three versions, so a lease has a successor that has a successor; one operation with two attempts |
| `runtime_takeover` | every attempt runs at most once in the world; what engines see and results say is journaled; progress kept | two processes, two turns, two attempts, lost answers, crashes and stalls at every step |
| `runtime_stops` | leases given back, Close reports, the call returns | one call of two turns, Suspend, Close, cancellation, all fates |
| `runtime_suspend` | finding: Suspend returns nil and nothing is suspended | one process, two calls, lost answers |
| `runtime_replay` | finding: a stored outcome that cannot be replayed | one effect, one payload that does not normalize |
| `drive` | canonical State with whole ticks, successes kept and not repeated, permits bound the work and fail fast; Drive returns | good dispatches and a malformed one, one permit, two or none, two calls of two ticks |
| `bus` | every call answered and `ErrNotExecuted` true, shared limiter, sequential order and stop; batches return | a parallel batch on two workers with a tool that runs a sequential batch on a clone, one permit between them, a timeout, an unknown tool |
| `loop` | limits, accounts, operation IDs, transcripts and checkpoints over interruptions | eight limits and policies, seventeen kinds of answer, three turns, batches of two, two resumes, a new and a continued conversation |
| `loop_repair` | finding: no repair under a BoundaryObserver | one repair |
| `stream` | one response, turn equals wire, calls never mixed, partial turns kept, bodies closed; a cancelled call returns | nine set-ups: six frames of each protocol with two tool calls, four with the reasoning splitter and tags anywhere, three of a host stream; two frames with every failure over two drivers, one retry and two HTTP attempts |
| `stream_terminal` | finding: events after the terminal error | one driver, two retries |
| `delegation` | pool conserved, ceiling, usage counted once, `ErrNotExecuted` true, updates before results and their failure visible where no interceptor masks it; every run returns | seven trees of up to three levels: two agents on one pool, a pool in a pool, three levels without pool, a refused depth, the three kinds of interceptor; turns of 0 or 2 tokens, two updates per call, the contexts of the caller and of one call |

The bounds are chosen so that each interesting case needs fewer: a stale holder needs two
leases, a stale holder of a stale holder three; a retry needs two attempts; a skipped,
a waiting and a running call need three calls on two workers; a permit that is handed over
while the batch is cancelled needs more dispatches than permits; two calls with two fragments each
are enough for every wrong binding of a fragment; a pool in a pool needs three levels. `MaxToken`, `MaxVersion` and
`MaxSequence` in the runtime's configurations are above what its finite number of calls can reach.
Deadlock is checked in the `stream` runs. Elsewhere every instance stops when its calls are used up,
and the liveness properties check what a deadlock check would.

**Fairness** is weak fairness per goroutine: Go schedules runnable goroutines, and providers,
tools, Executors and Schedulers are assumed to return. There is none for callers, crashes,
cancellation, the clock, the heartbeat or Close. Waiters of a channel are served in order in
Go; with finitely many calls weak fairness is enough. In `ModelStream` a server need never answer:
the only fairness is that a call whose context is cancelled goes on, because `net/http` returns from
a request or a read of a cancelled context and the waits of the code select on it. In `Delegation`
models, drivers and interceptors return; nobody need emit an update or cancel.

**Merged properties.** `WorksFromJournal` says of engines and of results that they hold what the
journal holds; `StateIsCanonical` that a State is sorted and its ticks are whole; `SuccessesFinal`
that successes are neither lost nor repeated; `PermitsBound` that no more than the permits run and that one
permit makes Drive fail fast; `AnswersTrue` that each call of a batch is answered and that
`ErrNotExecuted` means what it says; `PartialKept` that a failed turn keeps its text and that its
failure is not one to retry.

**Findings.** `runtime_suspend`: the call is active while it claims. If a Suspend arrives then
and the claim fails, or is applied and its answer lost, `Suspend` returns nil although nothing
was suspended. `runtime_replay`: a stream that ends in Done and does not normalize is stored
as a failure together with its Done event, and the decoder of failures refuses a terminal
event, so every later Resume fails. `loop_repair`: a repair calls `RunMessages` with steps
whose last decision is finish, and `ValidateContinuation` refuses a ready boundary after such a
step; with a BoundaryObserver, and so under `durable.Runtime`, structured-output repair fails with
`engine_error` before the model is asked. A guardrail retry that drops the rejected output, a
compaction that drops assistant turns and an empty final text are refused by the same
validation, because steps and assistant turns no longer correspond. `stream_terminal`: when a stream
fails with an error event before any output and the stream that should replace it cannot be opened,
Recv delivers the error event and does not mark the stream as ended. A reader that goes on, as
`collect` does, makes it open a further response, whose events follow the terminal one.

Seen in the model and not stated as properties: a comment on `preDispatchBudgetBlock` says that the
turn's own step is not yet counted, but it is, so with `MaxSteps = N` the tools of the N-th turn never
run; a stream that ends without a terminal event, or in the middle of a tool call, loses the text
before it; `Fallback` joins an error that says nothing was started with real failures of other drivers;
a tool's not-started error under a cancelled context is kept as its outcome; a guardrail or sequential driver that panics
during `Resume`'s own step is not recovered; the usage of an agent behind a tool is missing when
the tool's journaled outcome is replayed after a crash; when a guardrail keeps its rejected output
and `MaxIterations` ends the loop, that output is the `Text` of the Result; repairs that are
counted after `MaxIterations` is reached never ask the model; the chat delta `A<think>B` becomes reasoning
`B` and then text `A`, so the parts of an accepted message can be out of the order they had on the wire
(`AcceptedIsWire` compares text and reasoning separately); an interceptor that answers a failed next with a
result hides a failed update from the caller, although ADR-030 (line 99) says that a sink failure is
visible to the caller.

## Proofs

The theorems hold for every value of the constants: any number of processes, calls, operations,
batches, dispatch IDs and values, and any bounds. What they assume is named in the module that
declares the constants and evaluated by TLC in its runs: the assumptions on the backend's
parameters (`TTLAssumption`, `ResultAssumption`, `NoneAssumption`, `BoundAssumption`), on the set-up
of the runtimes (`RuntimeOfAssumption`, `PlanAssumption`, `InvalidAssumption`,
`EnvironmentAssumption`), on their Engine (`EngineAssumption`: its continuations and results are
values that the Backend can store, and a result is stored as a failure when it is one), on the bus
(`BusAssumption`: limits are positive, a sequential tool has a limiter of its own with one permit),
on Drive (`IDAssumption`, `LimitAssumption`), on delegation (`DelegationAssumption`: the
calls form a finite tree, and budgets, depths and tokens are numbers), on model calls
(`ConfigAssumption`, `LimitAssumption`, `ItemsAssumption`: drivers speak a known protocol, limits are
numbers, a tool call's label is a positive number) and on the agent loop (`ConfigAssumption`,
`AnswerAssumption`, `ContextAssumption`, `NoneAssumption`: limits and usage are numbers, a first context is a
sequence of messages, and what stands for no continuation is none). Three theorems of `AgentLoopProofs`
have a hypothesis of their own, on the ContextManager.

| proof module | about | extends |
|---|---|---|
| `DurableBackendProofs` | the record: types, leases, attempts, fencing, final outcomes | `DurableBackend` |
| `DurableJournalProofs` | refinement of `EffectJournal`, checkpoints, exact repetition | `DurableBackendProofs` |
| `DurableRuntimeProofs` | the runtimes over the record | `DurableRuntime`, `DurableJournalProofs` |
| `OrchestrationDriveProofs` | Drive | `OrchestrationDrive` |
| `ToolBusProofs` | batches, calls and limiters | `ToolBus` |
| `DelegationProofs` | trees of delegated runs: budgets, usage, interceptors, updates | `Delegation` |
| `ModelStreamProofs` | a model call: retries, fallbacks, vendor parsers, what is recorded | `ModelStream` |
| `AgentLoopProofs` | an execution that is interrupted and resumed: limits, accounts, replay, transcripts, continuations | `AgentLoop` |

Each follows one plan: an inductive invariant, a lemma per action, a theorem
`Spec => []IInv`, and the properties of the runs as consequences. Every inductive invariant was
model-checked on instances of its component before it was proved.

**DurableBackendProofs.** `TypeCorrect` (one lemma per verb: it maps records to records),
`Safety` (`Spec => []BackendInv`) and from it `RunningHeldByLeaseHolds`, `OnlyLatestOpenHolds`,
`TerminalIsSettledHolds`, `StaleLeaseFencedHolds` and `OutcomeFinalHolds`. `BackendInv` is `TypeOK`,
that a held lease carries the newest token and only a running execution is held (`LeaseIsNewest`),
the two attempt invariants and the terminal invariant. `RunningHeldByLease` is not inductive alone:
a claim marks only the attempts of the lease it replaces, so that none of an older lease are running
must be known, and that the token it issues is new needs `LeaseIsNewest`. `TerminalIsSettled` needs
that a claim never applies to a terminal record and that without a lease no attempt is started.
`OutcomeFinal` holds because a settled attempt is the newest one and all others are abandoned, so no
verb applies to the operation. The lemmas are about `Calls`, the verbs with any requests and without
the bounds of `Next`: a step of `Next` is a step of `Calls`, and so is what the runtimes do to
the record, which makes them usable for both.

**DurableJournalProofs.** `BackendImplementsJournal` is the refinement: under the mapping of
`ImplementsJournal` the first record is an initial journal, and each verb is a `Begin`, a `Settle`,
a `GiveUp`, a `Complete` or a stutter of it. It needs `BackendInv`: an operation has one
outcome because only its newest attempt can have one, and `Complete` finds nothing in doubt because
of `TerminalIsSettled`. `CheckpointForwardHolds` needs one fact more, `NothingSaved`: an execution that
does not exist has no checkpoint, so that starting it takes nothing back. `RetryIsExactHolds` goes through
the verbs: what the first call wrote makes the early returns of the second reach its replay case.

**DurableRuntimeProofs.** `IInv` relates the record to what the processes hold. Its parts:

* `Tokens`, `Claimed`, `Pending`: a fencing token belongs to one call for ever; the claims table
  agrees with the leases it gave; a claim whose answer was lost may have been granted, but nobody
  works under its lease, so that the retry of the claim may.
* `Effects`, `Worked`: an effect that may run is the only one with its attempt, which has not
  run; an effect that has not started leaves no running attempt under its call's lease; an effect
  delivers only the outcome the record holds; every attempt that ran is in the record; every
  abandoned attempt was retried by the application.
* `Saved`, `Working`: every stored checkpoint, every checkpoint in the answer of a claim, every
  result and every engine hold journaled outcomes only and have succeeded in all batches before
  their position; a call whose version is current continues the current checkpoint.
* `Ended`, `Sessions`: the idempotency tables of suspend, finish and release answer only leases that
  are gone; a call that ends without an error is one of them; the active map holds the calls between
  enter and leave; what the Closes know of the calls they stopped.

`EffectAtMostOnce` is not inductive, because a second effect could hold the same attempt.
`StartAttempt` answers "execute" again to the lease under which the newest attempt runs, which is
right for a lost answer and would be wrong for an effect that was granted before: that the
grant is exclusive follows from the tokens being exclusive and from `Effects`, by which an effect
that has only begun has no attempt running under its lease. `ProgressKept` needs the versions: a
call may hold an older checkpoint than the record, but then its version is older too and
`SaveCheckpoint` refuses it. `LeaseGivenBack` needs that a lost answer followed by a replay was applied,
which is what `Ended` says of the tables. The proof has one lemma per action; those that make no
Backend call, or one that leaves checkpoint, results and claims alone, share lemmas about `Quiet`
calls. `RuntimeImplementsJournal` and `RuntimeOutcomesFinal` carry the refinement and the
finality of outcomes over, because each step of a runtime leaves the record alone or is one step of
`Calls`.

**OrchestrationDriveProofs.** `fold` is the set of outcomes, arranged by `sorted` in the order
`outcomeLess`; that such an arrangement exists for outcomes with distinct IDs is proved by
ranks (`Ranks`), so the choice is not of nothing. `IInv` says where in the batch the launch loop is, which
goroutines and records there are (`Running`), why the loop gave up (`Reasons`), what the permits
count (`PermitsExact`) and that the State is in order with whole ticks (`Canonical`, `Whole`).
`SuccessesFinal` needs that `validateBatch` refuses what is folded and that no record is lost between a
goroutine and the fold. `PermitsBound` with one permit needs that the context is looked at again
after the permit is taken: `drive.limit = 1` at `go` implies that no sibling has failed.

**ToolBusProofs.** Batches share only limiters, so `IInv` has a part for each batch (`Coherent`: the index of
the loop agrees with the states of the calls) and the account of each limiter (`LimiterExact`: the permits taken are the
calls that execute). `AnswersTrue` needs the first for the hand-over: the call offered to a busy
worker is still pending, so cancelling answers it as skipped and no worker has it.

**DelegationProofs.** `IInv` has `Types`, a part for each call (`CallInv`), a part for each run
(`RunInv`), and two about the tree:

* `Guarded`, `Driven`, `Honest`, `Reserved`: how the interceptor's guard, the update wrapper and the
  driver of a call stand to each other; when a call may say that it was not executed; what it has
  reserved from its parent, and that the maximum of its child is what was granted;
* `Looping`, `Pooled`, `Charged`, `Ceiling`: where a run is in its batch; that pool, claims and settled
  claims add up and that at most one claim is open, only while the gate is taken; that what it has
  counted is its own turns and the reports of its children; that it stays under its ceiling;
* `Placed`: a call that is awaited keeps every run above it in its batch; `SinkKept`: after a
  failure of the caller's sink, a call of the caller's batch has a failed update, and the caller's
  run ends with an error unless an interceptor of one of its own calls masks it.

`PoolConserved` is not inductive: a settlement returns what a claim left over, and that it is neither returned
twice nor returned while the child still spends needs `Reserved` and `Driven`. `CeilingHeld` needs
that a child's maximum is its claim and, when a batch is joined, that the pool is
conserved: what the children used is what they spent of the pool and what they passed their own
maximum by. `UsageOnce` needs that all awaited children have reported once the batch is
joined. `NoLateUpdate` and `UpdateFailureSurfaces` need `Placed`: an update goes up through calls that are
all still being awaited, so each wrapper on the way is open. The sums are over sets of calls;
`total` is the number of tokens in them, the cardinality of a set of pairs, and `TotalAdd` and
`TotalSplit` say what one changed call does to it. They rest on `SetInduction`, induction over a
finite set stated for a family of sets instead of a predicate, which follows from the
least-number principle of the library (`Least`).

**ModelStreamProofs.** `IInv` has:

* `Types`, `Bodied`: what a body's parser holds and has emitted are pieces of that body, and what
  collect recorded are pieces of the current body; one lemma per parser (`chat`, `responses`,
  `messages`, `host`) says that it makes of a frame only events of its own body;
* `Silent`: while a stream is opened or replaced nothing with output was recorded, and a body is
  only replaced by a retrying stream;
* `Told`: `emitted` and `terminal` of retryingStream agree with what collect has recorded: without either
  flag nothing with output was, and after `terminal` a terminal event was;
* `Closed`: only the current body is open, and none while a response is requested;
* `PartialKept`.

`OneBody` is not inductive: a request that succeeds makes another body current, and that
nothing was recorded of the one before needs `Silent`, which a retry establishes from `Told`
because `classifyReceived` asks for a retry only before output. `BodiesClosed` needs that `RetryTimer`
closes the body it replaces before the next request, and which of the two waits it was in.
`PartialKept` needs `Told` for what the caller may retry: a failure after output is a
`PartialStreamError`, a context error or one after a terminal event. That the partial turn holds
every recorded piece needs that events without tool calls leave `toolCallBuilders`, a
recursive function over the recorded events, as it began; `BuildersExist` constructs the function from
its initial segments by the least-number principle.

`NeverMixedHolds` rests on `Labels`, an invariant over `IInv`, and on what `toolCallBuilders` does with
labelled events:

* `Labels`: an event that a vendor's parser emits holds pieces of one tool call and no label of
  another, because the parser knows its items by their own ids; an event of a host's stream has the
  labels of its pieces, whatever they are. It holds for what is pending in a parser and what was
  recorded, and a call returns without error only what `normalizeEvents` accepted;
* `Apart`: after each event the ids and indexes are bound to builders that have them, a builder of a
  vendor's stream holds one tool call, and one of a host's stream holds no fragment that contradicts its
  labels or is marked as a conflict. It is needed because `finalizeToolCalls` looks at the mark and never at
  the fragments: the proof goes through each branch of `ensureToolCallBuilder` to show that none of them
  appends a fragment to the builder of another call without setting it.

`AcceptedIsWireHolds` rests on a third invariant, `Wire`: as long as a stream is read, what the frames said
is what was recorded followed by what is pending in the parser (`Wired`), and `terminal` of
retryingStream is set once the terminal event was recorded. `Wired` has four parts, each kept by
`chat`, `messages` and `responses` for every frame that `mayFollow` allows (`ChatWired`, `MessagesWired`,
`ResponsesWired`):

* `Remembered`: what the parser knows of the frames before, such as the stop reason of the finish frame, the ids of its
  items and whether an item had argument deltas, is what was sent, and only the chat parser holds text back;
* `EndSaid`: a terminal event is the last of all, of a parser that has finished with nothing held back, and carries
  the stop reason of the frame that ended the response;
* `Said`: for each kind of content, the recorded and pending pieces, followed by what the splitter holds of that
  kind, are those that were sent, in order. What a delta without tags is depends on the tags before it, so
  the invariant also says that the splitter is inside a block exactly when the last tag opened one
  (`modeAt`); `ProcessWired` shows that the held tail goes to the kind it belongs to when the tags of the next delta
  change it;
* `Filed`: there is one builder for each tool call that was sent, found by its id and, but for the messages
  protocol, by its index, with the fragments that were sent for it.

The chat parser labels an argument fragment by index only and the messages parser by id only, so that a
fragment finds its builder needs both maps of `Filed`. An accepted turn ends with a terminal event, so by
`EndSaid` nothing is pending or held, and builders and calls are one to one. A retry begins with a new
body and recorded events that say nothing, from `Silent` and `Told` of `IInv`. A stream that
recorded an error event is left out: its turn is not accepted.

**AgentLoopProofs.** `IInv` relates the goroutine, the continuation that was kept last, the journal of
answered model operations and the tool calls that were really dispatched:

* `Types`, `Journaled`, `Answered`: types; what was dispatched are calls of journaled answers; the turn
  in hand is journaled, with the answer the loop works on;
* `Counted`, `Kept`: in a loop that goes on, and in the kept continuation, each answered turn is a
  step and each dispatched call is counted, without the calls of a turn that is still, or will be, gone
  through;
* `Latest`, `Placed`: nothing was answered after the turn that a resumed execution asks first, and
  how far the loop can be from the continuation in each place;
* `Asked`, `LimitsHold`.

`LimitsHold` is not inductive: it speaks of all operations ever started, and what the code compares with
its limits are counters that are restored from a continuation. That these count everything needs
`Counted` and `Kept`, and that a resumed execution meets its own journaled turns again instead of new
ones needs `Latest`. None of it depends on what a ContextManager does to a transcript.
`ContinuationForward` follows from `Placed`. Three more properties rest on layers over `IInv`, each
an invariant of its own, and on a hypothesis about the application's ContextManager that is named in
the theorem:

* `ReplayExact` (`Replayed`) for an idempotent `Compact` (`Idempotent`; src/agent/context_manager.go:11
  asks for it): a resumed loop compacts the continuation's transcript again;
* `AccountsAlwaysExact` (`Accounts`) for a `Compact` that makes up no tool calls of later turns
  (`KeepsTurns`): the repair of structured output takes its turn number from the transcript;
* `TranscriptsComplete` (`Transcripts`) for a `Build` that returns whole turns (`CompleteContexts`). Nothing is
  assumed of `Compact`: the code validates what it returns. The lemmas say when `ValidateCompleteTurns`
  survives appending a message, the results of a turn, and taking the last turn back.

The hypotheses quantify over all transcripts, which TLC cannot enumerate; the `Compact` and the contexts of
`MCAgentLoop` satisfy them.

Only model-checked:

* liveness (`CallReturns`, `DriveReturns`, `BatchReturns`, `CancelReturns`, `RunReturns`): fairness and
  `ENABLED` are out of the prover's reach. `BatchReturns` is checked with the limiters of nested tools kept apart: a
  tool that holds the only permit of its group and runs a batch that needs it waits for itself until its context
  ends (see the hazards);
* the properties of the four finding runs, which the code violates.

## Plan

1. Done: backend, journal, runtime, Drive, bus, agent loop, provider streams with their parsers,
   agents as tools with updates and interceptors; every invariant and action property of the passing
   runs proved.
2. Next: the least covered parts of the agent package (output policy, sinks) and of the vendor drivers.

## Not modelled

* JSON, schemas and the building of requests: functions of data without state. Their verdicts are
  alternatives of the actions that use them.
* The provider interceptor chain: its guard has the rules of the tool interceptors' guard, which
  `Delegation` has; the durable interceptor in it is in `DurableRuntime`. The resolver is a lookup.
* Skills: discovery and parsing are file I/O, the skill tools are stateless lookups.
* The conformance suites and examples: test and demonstration code. What the suites ask of a
  Backend are the properties of `DurableBackend`.
* Sinks, traces and the codec of a continuation; the wall clock, of which only expiry and
  cancellation remain.
