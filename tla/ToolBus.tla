------------------------------ MODULE ToolBus ------------------------------
(***************************************************************************)
(* tool.Bus: batches of tool calls over shared concurrency limiters,       *)
(* src/tool/tool.go.                                                       *)
(*                                                                         *)
(* A batch is one ExecuteBatch.  Batches of different agents run at once   *)
(* on clones of one bus: Clone, Subset and MapDrivers share the limiters.  *)
(* A driver may be an agent that runs a batch of its own and returns after *)
(* it (parent).  A driver runs as long as it likes, and may ignore that    *)
(* its context is cancelled.                                               *)
(***************************************************************************)
EXTENDS Integers, Sequences, FiniteSets

CONSTANTS
  Batches,             \* the ExecuteBatch calls
  calls,               \* calls[b]: the tool names of the batch, in order
  parent,              \* parent[b]: the <<batch, index>> whose driver runs b, or None
  Tools,               \* tool names
  Registered,          \* those that have a driver
  Sequential,          \* those with ConcurrencySequential
  Timed,               \* those with a Timeout
  group,               \* group[t]: the limiter of tool t, or None
  capacity,            \* capacity[g]: permits of a limiter
  MaxBatchCalls,       \* limit of one batch
  BatchConcurrency,    \* DefaultBatchConcurrency
  None

Groups == DOMAIN capacity

ASSUME BusAssumption ==
  /\ calls \in [Batches -> Seq(Tools)]
  /\ Registered \subseteq Tools /\ Sequential \cup Timed \subseteq Registered
  /\ group \in [Tools -> Groups \cup {None}] /\ None \notin Groups
  /\ capacity \in [Groups -> Nat \ {0}]
  /\ \A t \in Tools \ Registered : group[t] = None
  /\ \A t \in Sequential : group[t] # None /\ capacity[group[t]] = 1
  /\ MaxBatchCalls \in Nat /\ BatchConcurrency \in Nat \ {0}
  /\ \A b \in Batches : parent[b] # None => parent[b][2] \in DOMAIN calls[parent[b][1]]

VARIABLES
  batch,    \* batch[b]: the goroutine of ExecuteBatch and its context
  call,     \* call[b][i]: the i-th call of batch b
  permits   \* permits[g]: permits taken from a limiter

vars == <<batch, call, permits>>

-----------------------------------------------------------------------------
(* State.                                                                  *)

BatchState == [pc : {"idle", "dispatch", "send", "sequential", "wait", "returned", "panicked"},
               index : Nat, cancelled : BOOLEAN]

\* verdict is results[i] or errs[i]; started tells that the driver was entered.
CallState == [pc : {"pending", "handed", "entered", "acquiring", "executing", "done"},
              verdict : {"none", "result", "error", "notExecuted"}, started : BOOLEAN]

NewBatch == [pc |-> "idle", index |-> 1, cancelled |-> FALSE]

NewCall == [pc |-> "pending", verdict |-> "none", started |-> FALSE]

at(b, pc) == batch[b].pc = pc

indices(b) == DOMAIN calls[b]

toolOf(b, i) == calls[b][i]

working(b) == {i \in indices(b) : call[b][i].pc \notin {"pending", "done"}}

workerCount(b) == IF BatchConcurrency < Len(calls[b]) THEN BatchConcurrency ELSE Len(calls[b])

requiresSequential(b) == \E i \in indices(b) : toolOf(b, i) \in Sequential

children(b, i) == {child \in Batches : parent[child] = <<b, i>>}

answered(c, verdict) == [c EXCEPT !.pc = "done", !.verdict = verdict]

\* The calls of b from index on are answered with ErrNotExecuted.
skipFrom(b, index) ==
  [i \in indices(b) |-> IF i >= index THEN answered(call[b][i], "notExecuted") ELSE call[b][i]]

-----------------------------------------------------------------------------
(* ExecuteBatch.                                                           *)

\* A batch that a driver runs begins while that driver executes.
mayBegin(b) ==
  parent[b] # None => call[parent[b][1]][parent[b][2]].pc = "executing"

ExecuteBatch(b, parallel) ==
  /\ at(b, "idle")
  /\ mayBegin(b)
  /\ batch' = [batch EXCEPT ![b].pc =
       IF Len(calls[b]) > MaxBatchCalls THEN "returned"
       ELSE IF parallel /\ ~requiresSequential(b) THEN "dispatch" ELSE "sequential"]
  /\ UNCHANGED <<call, permits>>

\* Fault: the call handed over last is answered as well.
skip_fromPrevious(b) ==
  /\ call' = [call EXCEPT ![b] = skipFrom(b, batch[b].index - 1)]
  /\ batch' = [batch EXCEPT ![b].pc = "wait"]
  /\ UNCHANGED permits

skip(b) ==
  /\ call' = [call EXCEPT ![b] = skipFrom(b, batch[b].index)]
  /\ batch' = [batch EXCEPT ![b].pc = "wait"]
  /\ UNCHANGED permits

Dispatch(b) ==
  /\ at(b, "dispatch")
  /\ IF batch[b].index > Len(calls[b])
     THEN batch' = [batch EXCEPT ![b].pc = "wait"] /\ UNCHANGED <<call, permits>>
     ELSE IF batch[b].cancelled THEN skip(b)
     ELSE batch' = [batch EXCEPT ![b].pc = "send"] /\ UNCHANGED <<call, permits>>

\* The jobs channel has no buffer: a worker that is free takes the index.
Send(b) ==
  /\ at(b, "send")
  /\ Cardinality(working(b)) < workerCount(b)
  /\ call' = [call EXCEPT ![b][batch[b].index].pc = "handed"]
  /\ batch' = [batch EXCEPT ![b].pc = "dispatch", ![b].index = @ + 1]
  /\ UNCHANGED permits

SendCancelled(b) ==
  /\ at(b, "send")
  /\ batch[b].cancelled
  /\ skip(b)

Worker(b, i) ==
  /\ call[b][i].pc = "handed"
  /\ call' = [call EXCEPT ![b][i] =
       IF batch[b].cancelled THEN answered(@, "notExecuted") ELSE [@ EXCEPT !.pc = "entered"]]
  /\ UNCHANGED <<batch, permits>>

\* Fault: a failed call does not stop the calls after it.
SequentialNext_goesOn(b) ==
  LET i == batch[b].index
  IN /\ at(b, "sequential")
     /\ working(b) = {}
     /\ IF i > Len(calls[b])
        THEN batch' = [batch EXCEPT ![b].pc = "returned"] /\ UNCHANGED <<call, permits>>
        ELSE /\ call' = [call EXCEPT ![b][i].pc = "entered"]
             /\ batch' = [batch EXCEPT ![b].index = @ + 1]
             /\ UNCHANGED permits

\* The sequential loop: the next call, or the answers of those after a failure.
SequentialNext(b) ==
  LET i == batch[b].index
  IN /\ at(b, "sequential")
     /\ working(b) = {}
     /\ IF i > 1 /\ call[b][i - 1].verdict # "result"
        THEN /\ call' = [call EXCEPT ![b] = skipFrom(b, i)]
             /\ batch' = [batch EXCEPT ![b].pc = "returned"]
             /\ UNCHANGED permits
        ELSE IF i > Len(calls[b])
        THEN batch' = [batch EXCEPT ![b].pc = "returned"] /\ UNCHANGED <<call, permits>>
        ELSE /\ call' = [call EXCEPT ![b][i].pc = "entered"]
             /\ batch' = [batch EXCEPT ![b].index = @ + 1]
             /\ UNCHANGED permits

Return(b) ==
  /\ at(b, "wait")
  /\ working(b) = {}
  /\ batch' = [batch EXCEPT ![b].pc = "returned"]
  /\ UNCHANGED <<call, permits>>

-----------------------------------------------------------------------------
(* Execute: one call.                                                      *)

\* The tool is unknown, or its arguments are rejected: a result with IsError.
Refuse(b, i) ==
  /\ call[b][i].pc = "entered"
  /\ call' = [call EXCEPT ![b][i] =
       answered(@, IF toolOf(b, i) \in Registered THEN "result" ELSE "error")]
  /\ UNCHANGED <<batch, permits>>

Accept(b, i) ==
  /\ call[b][i].pc = "entered"
  /\ toolOf(b, i) \in Registered
  /\ call' = [call EXCEPT ![b][i].pc = "acquiring"]
  /\ UNCHANGED <<batch, permits>>

\* Fault: every bus has a limiter of its own.
acquire_perBatch(b, i) ==
  LET g == group[toolOf(b, i)]
  IN /\ g # None => Cardinality({j \in indices(b) : /\ call[b][j].pc = "executing"
                                                    /\ group[toolOf(b, j)] = g}) < capacity[g]
     /\ permits' = IF g = None THEN permits ELSE [permits EXCEPT ![g] = @ + 1]

acquire(b, i) ==
  LET g == group[toolOf(b, i)]
  IN /\ g # None => permits[g] < capacity[g]
     /\ permits' = IF g = None THEN permits ELSE [permits EXCEPT ![g] = @ + 1]

Acquire(b, i) ==
  /\ call[b][i].pc = "acquiring"
  /\ acquire(b, i)
  /\ call' = [call EXCEPT ![b][i].pc = "executing", ![b][i].started = TRUE]
  /\ UNCHANGED batch

\* The context is cancelled or the tool's Timeout passes; a tool without a
\* limiter does not look.
AcquireCancelled(b, i) ==
  /\ call[b][i].pc = "acquiring"
  /\ group[toolOf(b, i)] # None
  /\ batch[b].cancelled \/ toolOf(b, i) \in Timed
  /\ call' = [call EXCEPT ![b][i] = answered(@, "notExecuted")]
  /\ UNCHANGED <<batch, permits>>

\* Fault: the permit is returned only after a success.
release_onSuccess(b, i, verdict) ==
  LET g == group[toolOf(b, i)]
  IN permits' = IF g = None \/ verdict # "result" THEN permits ELSE [permits EXCEPT ![g] = @ - 1]

release(b, i, verdict) ==
  LET g == group[toolOf(b, i)]
  IN permits' = IF g = None THEN permits ELSE [permits EXCEPT ![g] = @ - 1]

DriverReturns(b, i, verdict) ==
  /\ call[b][i].pc = "executing"
  /\ \A child \in children(b, i) : batch[child].pc \in {"idle", "returned", "panicked"}
  /\ release(b, i, verdict)
  /\ call' = [call EXCEPT ![b][i] = answered(@, verdict)]
  /\ UNCHANGED batch

\* A worker contains the panic of a driver (an error, as above); the sequential
\* loop does not, and it unwinds ExecuteBatch.
DriverPanics(b, i) ==
  /\ call[b][i].pc = "executing"
  /\ batch[b].pc = "sequential"
  /\ \A child \in children(b, i) : batch[child].pc \in {"idle", "returned", "panicked"}
  /\ release(b, i, "error")
  /\ call' = [call EXCEPT ![b][i] = answered(@, "error")]
  /\ batch' = [batch EXCEPT ![b].pc = "panicked"]

\* The context of a batch ends, and with it those of the batches its drivers run.
Cancel(b) ==
  /\ ~batch[b].cancelled
  /\ batch' = [x \in Batches |->
       IF x = b \/ (parent[x] # None /\ parent[x][1] = b)
       THEN [batch[x] EXCEPT !.cancelled = TRUE] ELSE batch[x]]
  /\ UNCHANGED <<call, permits>>

-----------------------------------------------------------------------------
Init ==
  /\ batch = [b \in Batches |-> NewBatch]
  /\ call = [b \in Batches |-> [i \in indices(b) |-> NewCall]]
  /\ permits = [g \in Groups |-> 0]

batchStep(b) ==
  \/ Dispatch(b)
  \/ Send(b)
  \/ SendCancelled(b)
  \/ SequentialNext(b)
  \/ Return(b)

callStep(b, i) ==
  \/ Worker(b, i)
  \/ Refuse(b, i)
  \/ Accept(b, i)
  \/ Acquire(b, i)
  \/ AcquireCancelled(b, i)
  \/ \E verdict \in {"result", "error"} : DriverReturns(b, i, verdict)
  \/ DriverPanics(b, i)

Next ==
  \/ \E b \in Batches, parallel \in BOOLEAN : ExecuteBatch(b, parallel)
  \/ \E b \in Batches : batchStep(b)
  \/ \E b \in Batches : \E i \in indices(b) : callStep(b, i)
  \/ \E b \in Batches : Cancel(b)

Spec == Init /\ [][Next]_vars

\* Goroutines are scheduled, and drivers return in the end.
FairSpec ==
  /\ Spec
  /\ \A b \in Batches : WF_vars(batchStep(b))
  /\ \A b \in Batches : \A i \in indices(b) : WF_vars(callStep(b, i))

-----------------------------------------------------------------------------
(* Properties.                                                             *)

\* Batches, calls and permits have their types.
TypeOK ==
  /\ batch \in [Batches -> BatchState]
  /\ \A b \in Batches : call[b] \in [indices(b) -> CallState]
  /\ permits \in [Groups -> Nat]

\* Answers are true and complete: a call that is answered with ErrNotExecuted,
\* the proof a durable runtime relies on, has not entered its driver and never
\* will; and when ExecuteBatch has returned, none of its drivers is running and
\* every call has its answer, so every tool call of the model gets a result.
AnswersTrue ==
  \A b \in Batches : \A i \in indices(b) :
    /\ call[b][i].verdict = "notExecuted" => ~call[b][i].started /\ call[b][i].pc = "done"
    /\ at(b, "returned") /\ Len(calls[b]) <= MaxBatchCalls =>
         call[b][i].verdict # "none" /\ call[b][i].pc = "done"

\* A limiter bounds the drivers of its group over all batches on all clones of
\* the bus, and no permit is lost on any path.
GroupBounded ==
  \A g \in Groups :
    LET running == {x \in {<<b, i>> : b \in Batches, i \in 1..MaxBatchCalls} :
                      /\ x[2] \in indices(x[1])
                      /\ call[x[1]][x[2]].pc = "executing"
                      /\ group[toolOf(x[1], x[2])] = g}
    IN permits[g] = Cardinality(running) /\ Cardinality(running) <= capacity[g]

\* A batch with a sequential tool runs its calls one by one in order, and stops
\* at the first that fails.
SequentialInOrder ==
  \A b \in Batches : requiresSequential(b) =>
    \A i, j \in indices(b) : i < j /\ call[b][j].started => call[b][i].verdict = "result"

\* ExecuteBatch returns: no call waits for ever for a permit or a worker.  It is
\* checked on instances in which no tool that holds a permit runs a batch with a
\* tool of the same limiter: such a tool waits for itself until its context ends.
BatchReturns ==
  \A b \in Batches : ~at(b, "idle") ~> (at(b, "returned") \/ at(b, "panicked"))

=============================================================================
