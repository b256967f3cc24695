--------------------------- MODULE DurableRuntime ---------------------------
(***************************************************************************)
(* Runtimes of package durable driving one execution through a Backend:    *)
(* src/durable/runtime.go, active.go, interceptor.go and boundary.go over  *)
(* the record of DurableBackend.                                           *)
(*                                                                         *)
(* A runtime is a process (its OwnerID names it) that may crash.  A call   *)
(* is one Start or Resume; it is named by the claim ID it would generate,  *)
(* and runtimeOf tells which runtime it is made on.  Any number of calls   *)
(* of different runtimes run at once; the active map admits one per        *)
(* runtime.  Every call of a Backend verb can be answered, applied with    *)
(* its answer lost, or never arrive.                                       *)
(*                                                                         *)
(* The Engine is abstract: it runs the batches of Plan in order, saves a   *)
(* continuation at the boundary before each batch and after the last one,  *)
(* and returns when every effect of a batch has returned (RunMessages and  *)
(* ExecuteBatch wait for them).  What it has seen of the outcomes is its   *)
(* whole memory; its Result is that and whether it failed.                 *)
(***************************************************************************)
EXTENDS DurableBackend

CONSTANTS
  runtimeOf,        \* the runtime a call is made on
  Plan,             \* sequence of sets of operations
  InvalidPayloads,  \* terminal event sequences that do not normalize
  Fates,            \* what may happen to a call of the Backend
  Suspended,        \* the calls somebody may Suspend
  Cancelled,        \* the calls whose context may be cancelled
  Closed            \* the runtimes somebody may Close

ASSUME RuntimeOfAssumption == runtimeOf \in [ClaimIDs -> Owners]

ASSUME PlanAssumption == Plan \in Seq(SUBSET Operations)

ASSUME InvalidAssumption == InvalidPayloads \subseteq Payloads

ASSUME EnvironmentAssumption ==
  /\ "answered" \in Fates /\ Fates \subseteq {"answered", "lost", "unsent"}
  /\ Suspended \cup Cancelled \subseteq ClaimIDs
  /\ Closed \subseteq Owners

VARIABLES
  call,      \* call[c]: the activeExecution of call c and its goroutine
  effect,    \* effect[c][op]: the effect goroutine of op in call c
  runtime,   \* runtime[o]: the Runtime struct of owner o and its Close caller
  suspender, \* suspender[c]: the Suspend caller of call c
  executions, \* executions[op][n]: how often attempt n of op ran in the world
  retried    \* attempts the application resolved with retry

vars == <<record, call, effect, runtime, suspender, executions, retried>>

-----------------------------------------------------------------------------
(* State.                                                                  *)

Seen == [Operations -> Outcomes \cup {None}]

NothingSeen == [op \in Operations |-> None]

\* What agent.Continuation keeps: where the loop is and what it has seen.
EngineContinuations == [pos : 1..(Len(Plan) + 1), seen : Seen]

EngineResults == [failed : BOOLEAN, seen : Seen]

\* The Engine's continuations and results are what the Backend stores, and a
\* Result is failed exactly when the Engine says so.
ASSUME EngineAssumption ==
  /\ EngineContinuations \subseteq Continuations
  /\ EngineResults \subseteq Results
  /\ \A r \in EngineResults : r \in FailedResults <=> r.failed
  /\ None \notin Outcomes

StopCauses == {"none", "Suspended", "Closed", "Heartbeat"}

CallPCs == {"ready", "entered", "boundary", "batch", "complete", "finishing",
            "suspending", "releasing", "finish", "leave", "returned"}

CallState == [pc : CallPCs, mode : {"start", "resume"}, lease : LeaseRef,
              version : Nat, sequence : Nat, pos : Nat, seen : Seen,
              stop : StopCauses, cancelled : BOOLEAN, infra : BOOLEAN,
              failed : BOOLEAN,
              ret : {"none", "ok", "Suspended", "Closed", "err"},
              control : {"nil", "err"}]

NewCall == [pc |-> "ready", mode |-> "start", lease |-> NoLeaseRef, version |-> 0,
            sequence |-> 0, pos |-> 1, seen |-> NothingSeen, stop |-> "none",
            cancelled |-> FALSE, infra |-> FALSE, failed |-> FALSE,
            ret |-> "none", control |-> "nil"]

EffectState == [state : {"idle", "begun", "granted", "produced", "ambiguous", "ok",
                         "failed", "aborted", "infra", "unreplayable"},
                number : Nat, outcome : Outcomes \cup {None}]

NoEffect == [state |-> "idle", number |-> 0, outcome |-> None]

RuntimeState == [alive : BOOLEAN, active : ClaimIDs \cup {None},
                 pending : ClaimIDs \cup {None}, pendingMode : {"start", "resume"},
                 closed : BOOLEAN, closeErrors : BOOLEAN,
                 closing : ClaimIDs \cup {None}, prior : BOOLEAN,
                 closer : {"none", "waiting", "nil", "err"}]

NewRuntime == [alive |-> TRUE, active |-> None, pending |-> None,
               pendingMode |-> "start", closed |-> FALSE, closeErrors |-> FALSE,
               closing |-> None, prior |-> FALSE, closer |-> "none"]

-----------------------------------------------------------------------------
(* Calls of the Backend.                                                   *)

\* The record when a call whose effect on it is after meets fate.
sent(fate, after) == IF fate = "unsent" THEN record ELSE after

up(c) == runtime[runtimeOf[c]].alive

at(c, pc) == up(c) /\ call[c].pc = pc

\* The call returns, with cleanup (runtime.release) first or not.
releasing(s, ret) == [s EXCEPT !.pc = "releasing", !.ret = ret]

returning(s, ret) == [s EXCEPT !.pc = "finish", !.ret = ret]

-----------------------------------------------------------------------------
(* Start and Resume: enter, claim, runClaimed.                             *)

enter(c, mode) ==
  /\ up(c)
  /\ call[c].pc = "ready"
  /\ ~runtime[runtimeOf[c]].closed
  /\ runtime[runtimeOf[c]].active = None
  /\ runtime' = [runtime EXCEPT ![runtimeOf[c]].active = c]
  /\ call' = [call EXCEPT ![c].pc = "entered", ![c].mode = mode]
  /\ UNCHANGED <<record, effect, suspender, executions, retried>>

\* A pending claim of the same mode is repeated unless its time is over.
claimID(c, expired) ==
  LET r == runtime[runtimeOf[c]]
  IN IF r.pending # None /\ r.pendingMode = call[c].mode /\ ~expired THEN r.pending ELSE c

claimRequest(c, id, spec, ttl) ==
  [mode |-> call[c].mode, owner |-> runtimeOf[c], claim |-> id, leaseTTL |-> ttl,
   specHash |-> IF call[c].mode = "start" THEN spec ELSE None]

verdictOf(q) == IF q.mode = "start" THEN StartExecutionVerdict(record, q)
                                    ELSE ResumeExecutionVerdict(record, q)

claimedRecord(q) == IF q.mode = "start" THEN StartExecution(record, q)
                                        ELSE ResumeExecution(record, q)

\* Fault: a resumed execution runs from its Spec.
holding_fromScratch(c, e) ==
  [call[c] EXCEPT !.pc = "boundary", !.lease = leaseReference(e.lease),
                  !.version = e.version, !.sequence = e.checkpoint.sequence]

\* The activeExecution after setExecution, and where the Engine starts.
holding(c, e) ==
  [call[c] EXCEPT !.pc = "boundary", !.lease = leaseReference(e.lease),
                  !.version = e.version, !.sequence = e.checkpoint.sequence,
                  !.pos = IF e.checkpoint = NoCheckpoint THEN 1
                                                         ELSE e.checkpoint.continuation.pos,
                  !.seen = IF e.checkpoint = NoCheckpoint THEN NothingSeen
                                                          ELSE e.checkpoint.continuation.seen]

runClaimed(c, response, mismatch) ==
  LET held == holding(c, response.execution)
  IN IF terminal(response.execution.status)
     THEN IF mismatch THEN [returning(call[c], "err") EXCEPT !.control = "err"]
                      ELSE [returning(call[c], "ok") EXCEPT
                              !.seen = response.execution.result.seen,
                              !.failed = response.execution.result.failed]
     ELSE IF response.reconcile # {} \/ mismatch THEN releasing(held, "err")
     ELSE held

\* A call that was not answered keeps its claim ID for the next one.
Claim(c, spec, ttl, expired, mismatch, fate) ==
  LET id == claimID(c, expired)
      q == claimRequest(c, id, spec, ttl)
      accepted == verdictOf(q) \in {"Create", "Claim", "Replay", "Terminal"}
      rt == runtimeOf[c]
  IN /\ at(c, "entered")
     /\ mismatch => call[c].mode = "resume"
     /\ record' = sent(fate, claimedRecord(q))
     /\ runtime' = [runtime EXCEPT
                      ![rt].pending = IF fate = "answered" THEN None ELSE id,
                      ![rt].pendingMode = call[c].mode]
     /\ call' = [call EXCEPT ![c] =
                   IF fate = "answered" /\ accepted
                   THEN runClaimed(c, claimResponse(record, q), mismatch)
                   ELSE returning(@, "err")]
     /\ UNCHANGED <<effect, suspender, executions, retried>>

-----------------------------------------------------------------------------
(* The Engine and its boundary observer.                                   *)

engineFails(s) == [s EXCEPT !.pc = "complete", !.infra = TRUE]

boundaryRequest(c) ==
  [lease |-> call[c].lease, version |-> call[c].version,
   checkpoint |-> [sequence |-> call[c].sequence + 1,
                   continuation |-> [pos |-> call[c].pos, seen |-> call[c].seen]]]

ObserveBoundaryStopped(c) ==
  /\ at(c, "boundary")
  /\ call[c].stop # "none" \/ call[c].cancelled
  /\ call' = [call EXCEPT ![c] = engineFails(@)]
  /\ UNCHANGED <<record, effect, runtime, suspender, executions, retried>>

ObserveBoundary(c, fate) ==
  LET q == boundaryRequest(c)
      saved == fate = "answered" /\ SaveCheckpointVerdict(record, q) \in {"Save", "Replay"}
  IN /\ at(c, "boundary")
     /\ call[c].stop = "none"
     /\ record' = sent(fate, SaveCheckpoint(record, q))
     /\ call' = [call EXCEPT ![c] =
                   IF saved
                   THEN [@ EXCEPT !.version = SaveCheckpoint(record, q).execution.version,
                                  !.sequence = call[c].sequence + 1,
                                  !.pc = IF call[c].pos > Len(Plan) THEN "complete" ELSE "batch"]
                   ELSE engineFails(@)]
     /\ UNCHANGED <<effect, runtime, suspender, executions, retried>>

inFlight(e) == e.state \in {"begun", "granted", "produced", "ambiguous"}

\* The batch is over: every effect returned, or one failed and the bus or the
\* loop started no more of them.
BatchReturn(c) ==
  LET batch == effect[c]
      ops == Plan[call[c].pos]
      seen == [op \in Operations |->
                 IF op \in ops /\ batch[op].state \in {"ok", "failed"}
                 THEN batch[op].outcome ELSE call[c].seen[op]]
      infra == \E op \in ops : batch[op].state \in {"infra", "unreplayable"}
      failed == \E op \in ops : batch[op].state \in {"failed", "aborted"}
  IN /\ at(c, "batch")
     /\ \A op \in ops : ~inFlight(batch[op])
     /\ \/ infra \/ failed
        \/ \A op \in ops : batch[op].state = "ok"
     /\ call' = [call EXCEPT ![c] =
                   [@ EXCEPT !.seen = seen, !.infra = infra, !.failed = failed,
                             !.pc = IF infra \/ failed THEN "complete" ELSE "boundary",
                             !.pos = IF infra \/ failed THEN call[c].pos ELSE call[c].pos + 1]]
     /\ effect' = [effect EXCEPT ![c] = [op \in Operations |-> NoEffect]]
     /\ UNCHANGED <<record, runtime, suspender, executions, retried>>

-----------------------------------------------------------------------------
(* Effects: the model and tool attempt interceptors.                       *)

setEffect(c, op, e) == effect' = [effect EXCEPT ![c][op] = e]

\* Fault: an effect that may not begin is left waiting.
beginEffect_waits(c, op) ==
  /\ at(c, "batch")
  /\ op \in Plan[call[c].pos]
  /\ effect[c][op].state = "idle"
  /\ call[c].stop = "none" /\ ~call[c].cancelled
  /\ setEffect(c, op, [NoEffect EXCEPT !.state = "begun"])
  /\ UNCHANGED <<record, call, runtime, suspender, executions, retried>>

beginEffect(c, op) ==
  /\ at(c, "batch")
  /\ op \in Plan[call[c].pos]
  /\ effect[c][op].state = "idle"
  /\ setEffect(c, op, [NoEffect EXCEPT !.state =
       IF call[c].stop # "none" \/ call[c].cancelled THEN "infra" ELSE "begun"])
  /\ UNCHANGED <<record, call, runtime, suspender, executions, retried>>

outcomeOf(a) == [payload |-> a.payload, failure |-> a.failure]

\* A settled attempt handed back by StartAttempt.  A stored Done sequence that
\* does not normalize was stored as a failure and cannot be decoded as one.
replayed(a) ==
  [number |-> a.number, outcome |-> outcomeOf(a),
   state |-> IF a.payload \in InvalidPayloads THEN "unreplayable"
             ELSE IF a.failure = None THEN "ok" ELSE "failed"]

StartEffect(c, op, input, fate) ==
  LET q == [lease |-> call[c].lease, operation |-> op, input |-> input]
      accepted == StartAttemptVerdict(record, q) \notin {"NotFound", "LeaseLost", "Conflict"}
      response == startAttemptResponse(record, q)
  IN /\ up(c)
     /\ effect[c][op].state = "begun"
     /\ record' = sent(fate, StartAttempt(record, q))
     /\ setEffect(c, op,
          IF fate # "answered" \/ ~accepted THEN [NoEffect EXCEPT !.state = "infra"]
          ELSE CASE response.decision = "execute" ->
                      [NoEffect EXCEPT !.state = "granted", !.number = response.attempt.number]
                 [] response.decision = "replay" -> replayed(response.attempt)
                 [] response.decision = "reconcile" -> [NoEffect EXCEPT !.state = "infra"])
     /\ UNCHANGED <<call, runtime, suspender, executions, retried>>

\* What the provider or the tool can return: a terminal outcome, a proof that
\* nothing was started, or an error after it may have run.
ran(op, n) == executions' = [executions EXCEPT ![op][n] = @ + 1]

EffectReturns(c, op, payload) ==
  /\ up(c)
  /\ effect[c][op].state = "granted"
  /\ ran(op, effect[c][op].number)
  /\ \E failure \in Failures \cup (IF payload \in InvalidPayloads THEN {} ELSE {None}) :
       setEffect(c, op, [effect[c][op] EXCEPT !.state = "produced",
                           !.outcome = [payload |-> payload, failure |-> failure]])
  /\ UNCHANGED <<record, call, runtime, suspender, retried>>

EffectNotStarted(c, op, payload, failure) ==
  /\ up(c)
  /\ effect[c][op].state = "granted"
  /\ payload \notin InvalidPayloads
  /\ setEffect(c, op, [effect[c][op] EXCEPT !.state = "produced",
                         !.outcome = [payload |-> payload, failure |-> failure]])
  /\ UNCHANGED <<record, call, runtime, suspender, executions, retried>>

EffectAmbiguous(c, op) ==
  /\ up(c)
  /\ effect[c][op].state = "granted"
  /\ ran(op, effect[c][op].number)
  /\ setEffect(c, op, [effect[c][op] EXCEPT !.state = "ambiguous"])
  /\ UNCHANGED <<record, call, runtime, suspender, retried>>

settleRequest(c, op, payload, failure) ==
  [lease |-> call[c].lease, operation |-> op, number |-> effect[c][op].number,
   version |-> 1, payload |-> payload, failure |-> failure]

\* Fault: the outcome is delivered although it could not be persisted.
finishAttempt_errorDropped(c, op, fate) ==
  LET o == effect[c][op].outcome
      q == settleRequest(c, op, o.payload, o.failure)
  IN /\ up(c)
     /\ effect[c][op].state = "produced"
     /\ record' = sent(fate, FinishAttempt(record, q))
     /\ setEffect(c, op, [effect[c][op] EXCEPT !.state =
          IF o.failure = None THEN "ok" ELSE "failed"])
     /\ UNCHANGED <<call, runtime, suspender, executions, retried>>

\* The outcome is persisted before the Agent gets it.
finishAttempt(c, op, fate) ==
  LET o == effect[c][op].outcome
      q == settleRequest(c, op, o.payload, o.failure)
      done == fate = "answered" /\ FinishAttemptVerdict(record, q) \in {"Finish", "Replay"}
  IN /\ up(c)
     /\ effect[c][op].state = "produced"
     /\ record' = sent(fate, FinishAttempt(record, q))
     /\ setEffect(c, op, [effect[c][op] EXCEPT !.state =
          IF ~done THEN "infra" ELSE IF o.failure = None THEN "ok" ELSE "failed"])
     /\ UNCHANGED <<call, runtime, suspender, executions, retried>>

\* The error reaches the Agent, or collect closed the stream after an error of
\* its own and drops what Close returns.
markAttemptUnknown(c, op, failure, fate) ==
  LET q == settleRequest(c, op, None, failure)
  IN /\ up(c)
     /\ effect[c][op].state = "ambiguous"
     /\ record' = sent(fate, MarkAttemptUnknown(record, q))
     /\ \E state \in {"infra", "aborted"} :
          setEffect(c, op, [effect[c][op] EXCEPT !.state = state])
     /\ UNCHANGED <<call, runtime, suspender, executions, retried>>

-----------------------------------------------------------------------------
(* The end of a call: complete, suspend, release, finish, leave.           *)

complete(c) ==
  /\ at(c, "complete")
  /\ call' = [call EXCEPT ![c] =
       IF @.stop = "Suspended" THEN [@ EXCEPT !.pc = "suspending", !.ret = "Suspended"]
       ELSE IF @.stop = "Closed" THEN releasing(@, "Closed")
       ELSE IF @.stop = "Heartbeat" \/ @.cancelled \/ @.infra THEN releasing(@, "err")
       ELSE [@ EXCEPT !.pc = "finishing"]]
  /\ UNCHANGED <<record, effect, runtime, suspender, executions, retried>>

completeFinish(c, fate) ==
  LET q == [lease |-> call[c].lease, version |-> call[c].version, 
            result |-> [failed |-> call[c].failed, seen |-> call[c].seen]]
      done == fate = "answered" /\ FinishExecutionVerdict(record, q) \in {"Finish", "Replay"}
  IN /\ at(c, "finishing")
     /\ record' = sent(fate, FinishExecution(record, q))
     /\ call' = [call EXCEPT ![c] = IF done THEN returning(@, "ok") ELSE releasing(@, "err")]
     /\ UNCHANGED <<effect, runtime, suspender, executions, retried>>

suspend(c, fate) ==
  LET q == [lease |-> call[c].lease, version |-> call[c].version]
      done == fate = "answered" /\ SuspendExecutionVerdict(record, q) \in {"Suspend", "Replay"}
  IN /\ at(c, "suspending")
     /\ record' = sent(fate, SuspendExecution(record, q))
     /\ call' = [call EXCEPT ![c] =
                   IF done THEN [@ EXCEPT !.pc = "finish"]
                   ELSE [@ EXCEPT !.pc = "releasing", !.control = "err"]]
     /\ UNCHANGED <<effect, runtime, suspender, executions, retried>>

\* Fault: the error of ReleaseExecution is not reported.
release_errorDropped(c, fate) ==
  /\ at(c, "releasing")
  /\ record' = sent(fate, ReleaseExecution(record, call[c].lease))
  /\ call' = [call EXCEPT ![c].pc = "finish"]
  /\ UNCHANGED <<effect, runtime, suspender, executions, retried>>

release(c, fate) ==
  LET ref == call[c].lease
      done == /\ fate = "answered"
              /\ ReleaseExecutionVerdict(record, ref) \in {"Release", "Replay"}
              /\ releaseResponse(record, ref).reconcile = {}
  IN /\ at(c, "releasing")
     /\ record' = sent(fate, ReleaseExecution(record, ref))
     /\ call' = [call EXCEPT ![c].pc = "finish",
                             ![c].control = IF done THEN @ ELSE "err"]
     /\ UNCHANGED <<effect, runtime, suspender, executions, retried>>

\* close(active.done): from here on Suspend and Close callers are answered, and
\* nothing but the control error, the stop cause and the answer is used.
finish(c) ==
  /\ at(c, "finish")
  /\ call' = [call EXCEPT ![c] =
       [NewCall EXCEPT !.pc = "leave", !.lease = call[c].lease, !.seen = call[c].seen,
                       !.stop = call[c].stop, !.ret = call[c].ret,
                       !.control = call[c].control]]
  /\ UNCHANGED <<record, effect, runtime, suspender, executions, retried>>

\* Fault: the cleanup error of a closed call is not kept for later Close calls.
leave_errorForgotten(c) ==
  /\ at(c, "leave")
  /\ call' = [call EXCEPT ![c].pc = "returned"]
  /\ runtime' = [runtime EXCEPT ![runtimeOf[c]].active = None]
  /\ UNCHANGED <<record, effect, suspender, executions, retried>>

leave(c) ==
  /\ at(c, "leave")
  /\ call' = [call EXCEPT ![c].pc = "returned"]
  /\ runtime' = [runtime EXCEPT ![runtimeOf[c]].active = None,
                   ![runtimeOf[c]].closeErrors =
                      @ \/ (call[c].stop = "Closed" /\ call[c].control = "err")]
  /\ UNCHANGED <<record, effect, suspender, executions, retried>>

done(c) == call[c].pc \in {"leave", "returned"}

-----------------------------------------------------------------------------
(* Concurrent callers, the heartbeat and the environment.                  *)

requestSuspend(c) ==
  /\ up(c)
  /\ ~runtime[runtimeOf[c]].closed
  /\ runtime[runtimeOf[c]].active = c
  /\ call[c].stop = "none"
  /\ call' = [call EXCEPT ![c].stop = "Suspended"]
  /\ suspender' = [suspender EXCEPT ![c] = "waiting"]
  /\ UNCHANGED <<record, effect, runtime, executions, retried>>

\* Suspend returns: active.done is closed, or its own context is done.
SuspendReturns(c) ==
  /\ up(c)
  /\ suspender[c] = "waiting"
  /\ \/ done(c) /\ suspender' = [suspender EXCEPT ![c] = call[c].control]
     \/ suspender' = [suspender EXCEPT ![c] = "err"]
  /\ UNCHANGED <<record, call, effect, runtime, executions, retried>>

\* Close may be called again; only the first call stops the active execution.
Close(o) ==
  LET r == runtime[o]
  IN /\ r.alive
     /\ r.closer # "waiting"
     /\ runtime' = [runtime EXCEPT ![o].closed = TRUE, ![o].closing = r.active,
                                   ![o].prior = r.closeErrors, ![o].closer = "waiting"]
     /\ call' = [c \in ClaimIDs |->
                   IF c = r.active /\ ~r.closed /\ call[c].stop = "none"
                   THEN [call[c] EXCEPT !.stop = "Closed"] ELSE call[c]]
     /\ UNCHANGED <<record, effect, suspender, executions, retried>>

CloseReturns(o) ==
  LET r == runtime[o]
  IN /\ r.alive
     /\ r.closer = "waiting"
     /\ \/ /\ r.closing # None => done(r.closing)
           /\ runtime' = [runtime EXCEPT ![o].closer =
                IF r.prior \/ (r.closing # None /\ call[r.closing].control = "err")
                THEN "err" ELSE "nil"]
        \/ runtime' = [runtime EXCEPT ![o].closer = "err"]
     /\ UNCHANGED <<record, call, effect, suspender, executions, retried>>

\* One tick of the heartbeat goroutine, which lives while the Engine runs; when
\* the context is done as well, its select may still take the tick.
heartbeat(c, ttl, fate) ==
  LET renewed == fate = "answered" /\ RenewExecutionVerdict(record, call[c].lease) = "Renew"
  IN /\ up(c)
     /\ call[c].pc \in {"boundary", "batch"}
     /\ record' = sent(fate, RenewExecution(record, call[c].lease, ttl))
     /\ call' = [call EXCEPT ![c].stop = IF renewed \/ @ # "none" THEN @ ELSE "Heartbeat"]
     /\ UNCHANGED <<effect, runtime, suspender, executions, retried>>

CallerCancels(c) ==
  /\ up(c)
  /\ call[c].pc \notin {"ready", "finish", "leave", "returned"}
  /\ ~call[c].cancelled
  /\ call' = [call EXCEPT ![c].cancelled = TRUE]
  /\ UNCHANGED <<record, effect, runtime, suspender, executions, retried>>

\* The process dies with everything that runs in it, and its memory is gone.
Crash(o) ==
  /\ runtime[o].alive
  /\ runtime[o].active # None
  /\ runtime' = [runtime EXCEPT ![o] = [NewRuntime EXCEPT !.alive = FALSE]]
  /\ call' = [c \in ClaimIDs |-> IF runtimeOf[c] = o THEN NewCall ELSE call[c]]
  /\ effect' = [c \in ClaimIDs |->
                  IF runtimeOf[c] = o THEN [op \in Operations |-> NoEffect] ELSE effect[c]]
  /\ suspender' = [c \in ClaimIDs |-> IF runtimeOf[c] = o THEN "none" ELSE suspender[c]]
  /\ UNCHANGED <<record, executions, retried>>

\* Runtime.Reconcile: the application rules on an effect in doubt.
reconcilePayload(resolution, payload, failure) ==
  CASE resolution = "succeed" -> payload \in Payloads \ InvalidPayloads /\ failure = None
    [] resolution = "fail" -> payload \in Payloads \ InvalidPayloads /\ failure # None
    [] resolution = "retry" -> payload = None /\ failure = None

Reconcile(op, resolution, payload, failure) ==
  LET a == latest(record, op)
      q == [operation |-> op, number |-> a.number, version |-> a.version,
            resolution |-> resolution, payload |-> payload, failure |-> failure]
  IN /\ record.attempts[op] # <<>>
     /\ reconcilePayload(resolution, payload, failure)
     /\ ReconcileAttemptVerdict(record, q) = "Reconcile"
     /\ resolution = "retry" => a.number < MaxAttempts
     /\ record' = ReconcileAttempt(record, q)
     /\ retried' = IF resolution = "retry" THEN retried \cup {<<op, a.number>>} ELSE retried
     /\ UNCHANGED <<call, effect, runtime, suspender, executions>>

Tick == Advance /\ UNCHANGED <<call, effect, runtime, suspender, executions, retried>>

-----------------------------------------------------------------------------
RuntimeInit ==
  /\ Init
  /\ call = [c \in ClaimIDs |-> NewCall]
  /\ effect = [c \in ClaimIDs |-> [op \in Operations |-> NoEffect]]
  /\ runtime = [o \in Owners |-> NewRuntime]
  /\ suspender = [c \in ClaimIDs |-> "none"]
  /\ executions = [op \in Operations |-> [n \in 1..MaxAttempts |-> 0]]
  /\ retried = {}

\* The steps of the goroutine of one call.
callStep(c) ==
  \/ \E spec \in Specs, ttl \in LeaseTTLs, expired \in BOOLEAN, mismatch \in BOOLEAN,
        fate \in Fates : Claim(c, spec, ttl, expired, mismatch, fate)
  \/ ObserveBoundaryStopped(c)
  \/ \E fate \in Fates : ObserveBoundary(c, fate)
  \/ BatchReturn(c)
  \/ complete(c)
  \/ \E fate \in Fates : completeFinish(c, fate)
  \/ \E fate \in Fates : suspend(c, fate)
  \/ \E fate \in Fates : release(c, fate)
  \/ finish(c)
  \/ leave(c)

\* The steps of the goroutine of one effect.
effectStep(c, op) ==
  \/ beginEffect(c, op)
  \/ \E input \in Inputs, fate \in Fates : StartEffect(c, op, input, fate)
  \/ \E payload \in Payloads : EffectReturns(c, op, payload)
  \/ \E payload \in Payloads, failure \in Failures : EffectNotStarted(c, op, payload, failure)
  \/ EffectAmbiguous(c, op)
  \/ \E fate \in Fates : finishAttempt(c, op, fate)
  \/ \E failure \in Failures, fate \in Fates : markAttemptUnknown(c, op, failure, fate)

RuntimeNext ==
  \/ \E c \in ClaimIDs : callStep(c)
  \/ \E c \in ClaimIDs, op \in Operations : effectStep(c, op)
  \/ \E c \in ClaimIDs, mode \in {"start", "resume"} : enter(c, mode)
  \/ \E c \in Suspended : requestSuspend(c)
  \/ \E c \in Suspended : SuspendReturns(c)
  \/ \E c \in Cancelled : CallerCancels(c)
  \/ \E c \in ClaimIDs, ttl \in LeaseTTLs, fate \in Fates : heartbeat(c, ttl, fate)
  \/ \E o \in Closed : Close(o)
  \/ \E o \in Closed : CloseReturns(o)
  \/ \E o \in Owners : Crash(o)
  \/ \E op \in Operations, resolution \in {"succeed", "fail", "retry"},
        payload \in Payloads \cup {None}, failure \in Failures \cup {None} :
          Reconcile(op, resolution, payload, failure)
  \/ Tick

RuntimeSpec == RuntimeInit /\ [][RuntimeNext]_vars

\* Goroutines are scheduled, and providers and tools return in the end.
RuntimeFairness ==
  /\ \A c \in ClaimIDs : WF_vars(callStep(c))
  /\ \A c \in ClaimIDs, op \in Operations : WF_vars(effectStep(c, op))

RuntimeFairSpec == RuntimeSpec /\ RuntimeFairness

-----------------------------------------------------------------------------
(* Properties.                                                             *)

\* The state of every call, effect goroutine and Runtime has its type.
RuntimeTypeOK ==
  /\ record \in Record
  /\ call \in [ClaimIDs -> CallState]
  /\ effect \in [ClaimIDs -> [Operations -> EffectState]]
  /\ runtime \in [Owners -> RuntimeState]

\* The journal explains what engines do and what executions report.  Persist
\* before deliver: every outcome an Engine works with, in any process, zombies
\* included, is the outcome the record holds for that operation; and so is what
\* the result of a finished execution says, where a completed one has succeeded
\* in every operation of the plan.
WorksFromJournal ==
  LET journaled(seen) == \A op \in Operations : seen[op] # None => journalOutcome[op] = seen[op]
      result == record.execution.result
  IN /\ \A c \in ClaimIDs : journaled(call[c].seen)
     /\ terminal(record.execution.status) => journaled(result.seen)
     /\ record.execution.status = "completed" =>
          \A i \in DOMAIN Plan : \A op \in Plan[i] :
            result.seen[op] # None /\ result.seen[op].failure = None

\* Every attempt runs at most once in the world, and an operation runs again only
\* when the application resolved the run before it with retry.
EffectAtMostOnce ==
  \A op \in Operations : \A n \in 1..MaxAttempts :
    /\ executions[op][n] <= 1
    /\ executions[op][n] = 1 /\ n > 1 => <<op, n - 1>> \in retried

\* A call that claimed the execution and reports no cleanup error, to its
\* Suspend and Close callers, has given its lease back.
LeaseGivenBack ==
  \A c \in ClaimIDs :
    done(c) /\ call[c].control = "nil" /\ call[c].lease # NoLeaseRef =>
      record.execution.lease.token # call[c].lease.token

\* A Close that returns nil has no cleanup error of this or an earlier Close to
\* report: repeating Close cannot hide one.
CloseReportsErrors ==
  \A c \in ClaimIDs :
    call[c].stop = "Closed" /\ done(c) /\ call[c].control = "err" =>
      runtime[runtimeOf[c]].closer # "nil"

\* Progress is never lost: whoever saves a checkpoint, after whatever crashes,
\* continues from the checkpoint before it.
ProgressKept ==
  [][LET old == record.execution.checkpoint
         new == record'.execution.checkpoint
     IN old # NoCheckpoint =>
          /\ new.continuation.pos >= old.continuation.pos
          /\ \A op \in Operations : old.continuation.seen[op] # None =>
               new.continuation.seen[op] = old.continuation.seen[op]]_vars

\* Start and Resume return, whatever Suspend, Close, cancellation, lease loss
\* and lost answers do meanwhile, unless their process dies.
CallReturns ==
  \A c \in ClaimIDs : call[c].pc # "ready" ~> (call[c].pc = "returned" \/ ~up(c))

\* What docs/durable-execution.md says of Suspend: it atomically persists
\* suspended status.  A Suspend that returns nil for an execution that exists
\* and has not finished has written it.
SuspendPersists ==
  \A c \in ClaimIDs :
    suspender[c] = "nil" /\ exists(record) /\ ~terminal(record.execution.status) =>
      \E e \in record.suspends : e.lease = call[c].lease

\* What docs/durable-execution.md says of the replay decision: a succeeded or
\* failed outcome already exists.  So the runtime can hand it to the Agent.
ReplayWorks ==
  \A c \in ClaimIDs, op \in Operations : effect[c][op].state # "unreplayable"

=============================================================================
