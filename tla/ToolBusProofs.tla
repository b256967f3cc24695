--------------------------- MODULE ToolBusProofs ---------------------------
(***************************************************************************)
(* Theorems about ToolBus, for every set of batches and calls, every tree  *)
(* of delegated batches and every choice of limiters: answers are true and *)
(* complete, a limiter bounds its drivers over all batches, and a batch    *)
(* with a sequential tool keeps its order.                                 *)
(*                                                                         *)
(* Batches share only the limiters, so the invariant has two parts: what   *)
(* the goroutine of a batch knows of its own calls (Coherent), and the     *)
(* account of each limiter (LimiterExact).                                 *)
(***************************************************************************)
EXTENDS ToolBus, TLAPS, FiniteSetTheorems

\* One call: answered exactly when it is done; a call answered with
\* ErrNotExecuted did not enter its driver.
CallCoherent(c) ==
  /\ c.pc = "done" <=> c.verdict # "none"
  /\ c.verdict = "notExecuted" => ~c.started
  /\ c.started => c.pc \in {"executing", "done"}

\* A batch within the limit: the calls from index on are not handed out yet;
\* Wait, the return and a panic leave none behind that still runs.
CallsFollow(b, s, c) ==
  \A i \in indices(b) :
    /\ s.pc \in {"idle", "dispatch", "send", "sequential", "panicked"} =>
         (c[i].pc = "pending" <=> s.index <= i)
    /\ s.pc = "wait" => c[i].pc # "pending"
    /\ s.pc = "returned" => c[i].pc = "done"
    /\ s.pc = "sequential" /\ i < s.index - 1 => c[i].verdict = "result"
    /\ s.pc = "panicked" /\ i < s.index => c[i].pc = "done"

\* A batch over the limit is refused before any of its calls.
CallsRefused(b, s, c) ==
  /\ s.pc \in {"idle", "returned"}
  /\ \A i \in indices(b) : c[i].pc = "pending"

\* A batch with a sequential tool.
CallsInOrder(b, s, c) ==
  /\ s.pc \notin {"dispatch", "send", "wait"}
  /\ \A i, j \in indices(b) : i < j /\ c[j].started => c[i].verdict = "result"

\* The state s of a batch agrees with the states c of its calls.
Coherent(b, s, c) ==
  /\ \A i \in indices(b) : CallCoherent(c[i])
  /\ s.index \in 1..Len(calls[b]) + 1
  /\ s.pc = "idle" => s.index = 1
  /\ s.pc = "send" => s.index <= Len(calls[b])
  /\ Len(calls[b]) <= MaxBatchCalls => CallsFollow(b, s, c)
  /\ Len(calls[b]) > MaxBatchCalls => CallsRefused(b, s, c)
  /\ requiresSequential(b) => CallsInOrder(b, s, c)

\* The types of the two variables, with the domain of each call function.
Shapes ==
  /\ batch \in [Batches -> BatchState]
  /\ call \in [Batches -> UNION {[indices(b) -> CallState] : b \in Batches}]
  /\ \A b \in Batches : call[b] \in [indices(b) -> CallState]

\* The part of the invariant about batches.
BatchInv == Shapes /\ \A b \in Batches : Coherent(b, batch[b], call[b])

\* The calls that hold a permit of g.
holders(g) ==
  {x \in {<<b, i>> : b \in Batches, i \in 1..MaxBatchCalls} :
     /\ x[2] \in indices(x[1])
     /\ call[x[1]][x[2]].pc = "executing"
     /\ group[toolOf(x[1], x[2])] = g}

\* The holders of g with x, and without x.
with(g, x) == holders(g) \cup {x}

without(g, x) == holders(g) \ {x}

\* A limiter counts the calls that hold one of its permits.
LimiterExact ==
  /\ permits \in [Groups -> Nat]
  /\ \A g \in Groups :
       /\ IsFiniteSet(holders(g))
       /\ permits[g] = Cardinality(holders(g))
       /\ permits[g] <= capacity[g]

\* The inductive invariant.
IInv == BatchInv /\ LimiterExact

-----------------------------------------------------------------------------
(* The goroutines of the batches.                                          *)

\* A step of one batch concerns only that batch: the others keep their states.
LEMMA OneBatch ==
  ASSUME BatchInv, NEW b \in Batches,
         NEW s \in BatchState, NEW c \in [indices(b) -> CallState],
         Coherent(b, s, c),
         batch' = [batch EXCEPT ![b] = s], call' = [call EXCEPT ![b] = c]
  PROVE  BatchInv'
<1>1. Shapes
  BY DEF BatchInv
<1>2. batch'[b] = s /\ call'[b] = c
  BY <1>1 DEF Shapes
<1>3. \A x \in Batches : x # b => batch'[x] = batch[x] /\ call'[x] = call[x]
  BY <1>1 DEF Shapes
<1>4. Shapes'
  <2>1. c \in UNION {[indices(x) -> CallState] : x \in Batches}
    OBVIOUS
  <2>2. \A x \in Batches : call'[x] \in [indices(x) -> CallState]
    BY <1>1, <1>2, <1>3 DEF Shapes
  <2> QED
    BY <1>1, <2>1, <2>2 DEF Shapes, indices
<1>5. \A x \in Batches : Coherent(x, batch[x], call[x])
  BY DEF BatchInv
<1>6. \A x \in Batches : Coherent(x, batch'[x], call'[x])
  BY <1>2, <1>3, <1>5
<1> QED
  BY <1>4, <1>6 DEF BatchInv, Coherent, CallsFollow, CallsRefused, CallsInOrder,
       indices, requiresSequential, toolOf

\* What a record of a batch or of a call is made of.
LEMMA Fields ==
  ASSUME Shapes, NEW b \in Batches
  PROVE  /\ indices(b) = 1..Len(calls[b]) /\ Len(calls[b]) \in Nat
         /\ batch[b] \in BatchState /\ call[b] \in [indices(b) -> CallState]
         /\ \A i \in indices(b) : call[b][i] \in CallState
BY BusAssumption DEF Shapes, indices

\* Answering a call completes its record.
LEMMA AnsweredCall ==
  ASSUME NEW c \in CallState, NEW v \in {"result", "error", "notExecuted"}
  PROVE  /\ answered(c, v) \in CallState
         /\ answered(c, v).pc = "done" /\ answered(c, v).verdict = v
         /\ answered(c, v).started = c.started
BY DEF answered, CallState

\* The record of a call whose driver is entered.
LEMMA StartedCall ==
  ASSUME NEW c \in CallState
  PROVE  LET d == [c EXCEPT !.pc = "executing", !.started = TRUE]
         IN d \in CallState /\ d.pc = "executing" /\ d.verdict = c.verdict
<1> DEFINE placed == [c EXCEPT !.pc = "executing"]
<1>1. placed \in CallState /\ placed.pc = "executing" /\ placed.verdict = c.verdict
  BY DEF CallState
<1> HIDE DEF placed
<1>2. [placed EXCEPT !.started = TRUE] \in CallState
      /\ [placed EXCEPT !.started = TRUE].pc = placed.pc
      /\ [placed EXCEPT !.started = TRUE].verdict = placed.verdict
  BY <1>1 DEF CallState
<1> QED
  BY <1>1, <1>2 DEF placed

\* The next turn of the dispatch loop.
LEMMA SentState ==
  ASSUME NEW s \in BatchState
  PROVE  LET next == [s EXCEPT !.pc = "dispatch", !.index = s.index + 1]
         IN next \in BatchState /\ next.pc = "dispatch" /\ next.index = s.index + 1
<1> DEFINE placed == [s EXCEPT !.pc = "dispatch"]
<1>1. s.index \in Nat
  BY DEF BatchState
<1>2. placed \in BatchState /\ placed.pc = "dispatch"
  BY DEF BatchState
<1>3. [placed EXCEPT !.index = s.index + 1] \in BatchState
      /\ [placed EXCEPT !.index = s.index + 1].pc = "dispatch"
      /\ [placed EXCEPT !.index = s.index + 1].index = s.index + 1
  <2> HIDE DEF placed
  <2> QED
    BY <1>1, <1>2 DEF BatchState
<1> QED
  BY <1>3

\* A call at work belongs to a batch that runs, and in a sequential batch it is
\* the one handed out last.
LEMMA AtWork ==
  ASSUME BatchInv, NEW b \in Batches, NEW i \in indices(b),
         call[b][i].pc \notin {"pending", "done"}
  PROVE  /\ Len(calls[b]) <= MaxBatchCalls
         /\ batch[b].pc \in {"dispatch", "send", "sequential", "wait"}
         /\ batch[b].pc # "wait" => i < batch[b].index
         /\ batch[b].pc = "sequential" =>
              /\ i = batch[b].index - 1
              /\ \A j \in indices(b) : j < i => call[b][j].verdict = "result"
         /\ requiresSequential(b) => batch[b].pc = "sequential"
<1>1. Shapes /\ Coherent(b, batch[b], call[b])
  BY DEF BatchInv
<1>2. MaxBatchCalls \in Nat
  BY BusAssumption
<1>3. batch[b].index \in Nat
  BY <1>1, Fields DEF BatchState
<1>4. Len(calls[b]) <= MaxBatchCalls
  BY <1>1, <1>2, Fields DEF Coherent, CallsRefused
<1>5. batch[b].pc \in {"dispatch", "send", "sequential", "wait"}
      /\ (batch[b].pc # "wait" => i < batch[b].index)
  BY <1>1, <1>3, <1>4, Fields DEF Coherent, CallsFollow, BatchState
<1>6. batch[b].pc = "sequential" => i = batch[b].index - 1
  BY <1>1, <1>3, <1>4, <1>5, Fields DEF Coherent, CallsFollow, CallCoherent
<1>7. batch[b].pc = "sequential" =>
        \A j \in indices(b) : j < i => call[b][j].verdict = "result"
  BY <1>1, <1>3, <1>4, <1>6, Fields DEF Coherent, CallsFollow
<1> QED
  BY <1>1, <1>4, <1>5, <1>6, <1>7 DEF Coherent, CallsInOrder

\* A step of one call that is at work keeps its batch coherent.
LEMMA OneCall ==
  ASSUME BatchInv, NEW b \in Batches, NEW i \in indices(b),
         call[b][i].pc \notin {"pending", "done"},
         NEW d \in CallState, CallCoherent(d), d.pc # "pending",
         batch' = batch, call' = [call EXCEPT ![b][i] = d]
  PROVE  BatchInv'
<1> DEFINE c == [call[b] EXCEPT ![i] = d]
<1>1. Shapes /\ Coherent(b, batch[b], call[b])
  BY DEF BatchInv
<1>2. batch' = [batch EXCEPT ![b] = batch[b]] /\ call' = [call EXCEPT ![b] = c]
  BY <1>1 DEF Shapes
<1>3. c \in [indices(b) -> CallState] /\ c[i] = d
      /\ \A j \in indices(b) : j # i => c[j] = call[b][j]
  BY <1>1, Fields
<1> HIDE DEF c
<1>4. Len(calls[b]) <= MaxBatchCalls /\ ~(Len(calls[b]) > MaxBatchCalls)
  BY <1>1, AtWork, Fields, BusAssumption
<1>5. CallsFollow(b, batch[b], c)
  <2> SUFFICES ASSUME NEW j \in indices(b)
               PROVE  CallsFollow(b, batch[b], c)!(j)
    BY DEF CallsFollow
  <2>1. CASE j # i
    BY <1>1, <1>3, <1>4, <2>1 DEF Coherent, CallsFollow
  <2>2. CASE j = i
    <3>1. /\ batch[b].pc \in {"dispatch", "send", "sequential", "wait"}
          /\ batch[b].pc # "wait" => i < batch[b].index
          /\ batch[b].pc = "sequential" => i = batch[b].index - 1
          /\ batch[b].index \in Nat /\ i \in Nat
      BY <1>1, AtWork, Fields DEF BatchState
    <3>2. c[j].pc # "pending"
      BY <1>3, <2>2
    <3> QED
      BY <2>2, <3>1, <3>2
  <2> QED
    BY <2>1, <2>2
<1>6. requiresSequential(b) => CallsInOrder(b, batch[b], c)
  <2> SUFFICES ASSUME requiresSequential(b) PROVE CallsInOrder(b, batch[b], c)
    OBVIOUS
  <2>1. CallsInOrder(b, batch[b], call[b]) /\ batch[b].pc = "sequential"
    BY <1>1, AtWork DEF Coherent
  <2> SUFFICES ASSUME NEW k \in indices(b), NEW j \in indices(b), k < j, c[j].started
               PROVE  c[k].verdict = "result"
    BY <2>1 DEF CallsInOrder
  <2>2. CASE j = i
    BY <1>1, <1>3, <2>1, <2>2, AtWork, Fields
  <2>3. CASE j # i
    <3>1. call[b][k].verdict = "result"
      BY <1>3, <2>1, <2>3 DEF CallsInOrder
    <3>2. call[b][k].pc = "done"
      BY <1>1, <3>1 DEF Coherent, CallCoherent
    <3> QED
      BY <1>3, <3>1, <3>2
  <2> QED
    BY <2>2, <2>3
<1>7. Coherent(b, batch[b], c)
  BY <1>1, <1>3, <1>4, <1>5, <1>6 DEF Coherent
<1> QED
  BY <1>1, <1>2, <1>3, <1>7, OneBatch, Fields

\* The step neither enters a driver nor leaves one.
SameRunning ==
  \A x \in Batches : \A j \in indices(x) :
    call'[x][j].pc = "executing" <=> call[x][j].pc = "executing"

\* ExecuteBatch accepts, refuses or queues a batch; its loop hands out the next
\* call, gives up on the rest or returns.
LEMMA BatchSteps ==
  ASSUME BatchInv, NEW b \in Batches,
         (\E parallel \in BOOLEAN : ExecuteBatch(b, parallel)) \/ batchStep(b)
  PROVE  BatchInv' /\ SameRunning
<1>1. Shapes /\ Coherent(b, batch[b], call[b])
  BY DEF BatchInv
<1>2. /\ indices(b) = 1..Len(calls[b]) /\ Len(calls[b]) \in Nat /\ MaxBatchCalls \in Nat
      /\ batch[b] \in BatchState /\ batch[b].index \in Nat
      /\ call[b] \in [indices(b) -> CallState]
      /\ \A i \in indices(b) : call[b][i] \in CallState
  BY <1>1, Fields, BusAssumption DEF BatchState
<1>3. call = [call EXCEPT ![b] = call[b]]
  BY <1>1 DEF Shapes
\* The calls from index on are answered with ErrNotExecuted.
<1>4. ASSUME batch[b].pc \in {"dispatch", "send", "sequential"},
             NEW pc \in {"wait", "returned"}, pc = "wait" => ~requiresSequential(b),
             pc = "returned" => working(b) = {},
             batch' = [batch EXCEPT ![b].pc = pc],
             call' = [call EXCEPT ![b] = skipFrom(b, batch[b].index)]
      PROVE  BatchInv' /\ SameRunning
  <2> DEFINE s == [batch[b] EXCEPT !.pc = pc]
             c == skipFrom(b, batch[b].index)
  <2>1. s \in BatchState /\ s.pc = pc /\ s.index = batch[b].index
    BY <1>2 DEF BatchState
  <2>2. batch' = [batch EXCEPT ![b] = s] /\ call' = [call EXCEPT ![b] = c]
    BY <1>1, <1>4 DEF Shapes
  <2>3. /\ c \in [indices(b) -> CallState]
        /\ \A i \in indices(b) :
             /\ batch[b].index <= i => c[i] = answered(call[b][i], "notExecuted")
             /\ ~(batch[b].index <= i) => c[i] = call[b][i]
    BY <1>2, AnsweredCall DEF skipFrom
  <2> HIDE DEF s, c
  <2>4. Len(calls[b]) <= MaxBatchCalls /\ CallsFollow(b, batch[b], call[b])
    BY <1>1, <1>2, <1>4 DEF Coherent, CallsRefused
  <2>5. \A i \in indices(b) : call[b][i].pc = "pending" <=> batch[b].index <= i
    BY <1>4, <2>4 DEF CallsFollow
  <2>6. \A i \in indices(b) : CallCoherent(call[b][i])
    BY <1>1 DEF Coherent
  <2>7. \A i \in indices(b) :
          /\ CallCoherent(c[i]) /\ c[i].pc # "pending"
          /\ c[i].started = call[b][i].started
          /\ call[b][i].verdict = "result" => c[i].verdict = "result"
    <3> SUFFICES ASSUME NEW i \in indices(b)
                 PROVE  /\ CallCoherent(c[i]) /\ c[i].pc # "pending"
                        /\ c[i].started = call[b][i].started
                        /\ call[b][i].verdict = "result" => c[i].verdict = "result"
      OBVIOUS
    <3>1. CASE batch[b].index <= i
      <4>1. ~call[b][i].started /\ call[b][i].verdict # "result"
        BY <2>5, <2>6, <3>1 DEF CallCoherent
      <4> QED
        BY <1>2, <2>3, <3>1, <4>1, AnsweredCall DEF CallCoherent
    <3>2. CASE ~(batch[b].index <= i)
      BY <2>3, <2>5, <2>6, <3>2
    <3> QED
      BY <3>1, <3>2
  <2>8. pc = "returned" => \A i \in indices(b) : c[i].pc = "done"
    <3> SUFFICES ASSUME pc = "returned", NEW i \in indices(b) PROVE c[i].pc = "done"
      OBVIOUS
    <3>1. call[b][i].pc \in {"pending", "done"}
      BY <1>4 DEF working
    <3> QED
      BY <1>2, <2>3, <2>5, <3>1, AnsweredCall
  <2>9. CallsFollow(b, s, c)
    BY <2>1, <2>7, <2>8 DEF CallsFollow
  <2>10. requiresSequential(b) => CallsInOrder(b, s, c)
    <3>1. requiresSequential(b) => CallsInOrder(b, batch[b], call[b])
      BY <1>1 DEF Coherent
    <3> QED
      BY <1>4, <2>1, <2>7, <3>1 DEF CallsInOrder
  <2>11. Coherent(b, s, c)
    BY <1>1, <1>2, <2>1, <2>4, <2>7, <2>9, <2>10 DEF Coherent
  <2>12. SameRunning
    <3>1. \A i \in indices(b) : c[i].pc = "executing" <=> call[b][i].pc = "executing"
      BY <1>2, <2>3, <2>5, AnsweredCall
    <3> QED
      BY <1>1, <2>2, <3>1 DEF SameRunning, Shapes
  <2> QED
    BY <2>1, <2>2, <2>3, <2>11, <2>12, OneBatch
\* Only the batch's own place changes.
<1>5. ASSUME NEW pc \in {"dispatch", "send", "sequential", "wait", "returned"},
             batch' = [batch EXCEPT ![b].pc = pc], call' = call,
             \/ batch[b].pc = "idle" /\ Len(calls[b]) > MaxBatchCalls /\ pc = "returned"
             \/ /\ batch[b].pc = "idle" /\ Len(calls[b]) <= MaxBatchCalls
                /\ pc = "sequential" \/ (pc = "dispatch" /\ ~requiresSequential(b))
             \/ batch[b].pc = "dispatch" /\ batch[b].index > Len(calls[b]) /\ pc = "wait"
             \/ batch[b].pc = "dispatch" /\ batch[b].index <= Len(calls[b]) /\ pc = "send"
             \/ /\ batch[b].pc = "sequential" /\ working(b) = {}
                /\ batch[b].index > Len(calls[b]) /\ pc = "returned"
             \/ batch[b].pc = "wait" /\ working(b) = {} /\ pc = "returned"
      PROVE  BatchInv' /\ SameRunning
  <2> DEFINE s == [batch[b] EXCEPT !.pc = pc]
  <2>1. s \in BatchState /\ s.pc = pc /\ s.index = batch[b].index
    BY <1>2 DEF BatchState
  <2>2. batch' = [batch EXCEPT ![b] = s] /\ call' = [call EXCEPT ![b] = call[b]]
    BY <1>1, <1>3, <1>5 DEF Shapes
  <2> HIDE DEF s
  <2>3. working(b) = {} => \A i \in indices(b) : call[b][i].pc \in {"pending", "done"}
    BY DEF working
  <2>4. Len(calls[b]) > MaxBatchCalls => CallsRefused(b, s, call[b])
    BY <1>1, <1>2, <1>5, <2>1 DEF Coherent, CallsRefused
  <2>5. Len(calls[b]) <= MaxBatchCalls => CallsFollow(b, s, call[b])
    <3> SUFFICES ASSUME Len(calls[b]) <= MaxBatchCalls, NEW i \in indices(b)
                 PROVE  CallsFollow(b, s, call[b])!(i)
      BY DEF CallsFollow
    <3>1. CallsFollow(b, batch[b], call[b])!(i) /\ (batch[b].pc = "idle" => batch[b].index = 1)
          /\ batch[b].index \in Nat /\ i \in Nat /\ i >= 1
      BY <1>1, <1>2 DEF Coherent, CallsFollow
    <3> QED
      BY <1>2, <1>5, <2>1, <2>3, <3>1
  <2>6. requiresSequential(b) => CallsInOrder(b, s, call[b])
    BY <1>1, <1>5, <2>1 DEF Coherent, CallsInOrder
  <2>7. Coherent(b, s, call[b])
    BY <1>1, <1>2, <1>5, <2>1, <2>4, <2>5, <2>6 DEF Coherent
  <2> QED
    BY <1>2, <1>5, <2>1, <2>2, <2>7, OneBatch DEF SameRunning
\* The next call is handed out.
<1>6. ASSUME NEW pc \in {"handed", "entered"}, batch[b].index \in indices(b),
             NEW s \in BatchState, s.index = batch[b].index + 1,
             \/ batch[b].pc = "send" /\ s.pc = "dispatch"
             \/ /\ batch[b].pc = "sequential" /\ s.pc = "sequential" /\ working(b) = {}
                /\ batch[b].index > 1 => call[b][batch[b].index - 1].verdict = "result",
             batch' = [batch EXCEPT ![b] = s],
             call' = [call EXCEPT ![b][batch[b].index].pc = pc]
      PROVE  BatchInv' /\ SameRunning
  <2> DEFINE n == batch[b].index
             c == [call[b] EXCEPT ![n] = [call[b][n] EXCEPT !.pc = pc]]
  <2>1. call' = [call EXCEPT ![b] = c]
    BY <1>1, <1>2, <1>6 DEF Shapes
  <2>2. /\ c \in [indices(b) -> CallState] /\ c[n].pc = pc
        /\ c[n].verdict = call[b][n].verdict /\ c[n].started = call[b][n].started
        /\ \A i \in indices(b) : i # n => c[i] = call[b][i]
    BY <1>2, <1>6 DEF CallState
  <2> HIDE DEF c
  <2>3. Len(calls[b]) <= MaxBatchCalls /\ CallsFollow(b, batch[b], call[b])
    BY <1>1, <1>2, <1>6 DEF Coherent, CallsRefused
  <2>4. \A i \in indices(b) : call[b][i].pc = "pending" <=> n <= i
    BY <1>6, <2>3 DEF CallsFollow
  <2>5. \A i \in indices(b) : CallCoherent(c[i])
    <3>1. \A i \in indices(b) : CallCoherent(call[b][i])
      BY <1>1 DEF Coherent
    <3>2. call[b][n].pc = "pending"
      BY <1>2, <1>6, <2>4
    <3> QED
      BY <1>6, <2>2, <3>1, <3>2 DEF CallCoherent
  <2>6. CallsFollow(b, s, c)
    <3> SUFFICES ASSUME NEW i \in indices(b) PROVE CallsFollow(b, s, c)!(i)
      BY DEF CallsFollow
    <3>1. c[i].pc = "pending" <=> n + 1 <= i
      BY <1>2, <1>6, <2>2, <2>4
    <3>2. batch[b].pc = "sequential" /\ i < n => c[i].verdict = "result"
      BY <1>2, <1>6, <2>2, <2>3 DEF CallsFollow
    <3> QED
      BY <1>2, <1>6, <3>1, <3>2
  <2>7. requiresSequential(b) => CallsInOrder(b, s, c)
    <3> SUFFICES ASSUME requiresSequential(b) PROVE CallsInOrder(b, s, c)
      OBVIOUS
    <3>1. CallsInOrder(b, batch[b], call[b])
      BY <1>1 DEF Coherent
    <3>2. s.pc = "sequential"
      BY <1>6, <3>1 DEF CallsInOrder
    <3>3. \A i \in indices(b) : c[i].verdict = call[b][i].verdict /\ c[i].started = call[b][i].started
      BY <2>2
    <3> QED
      BY <3>1, <3>2, <3>3 DEF CallsInOrder
  <2>8. Coherent(b, s, c)
    BY <1>1, <1>2, <1>6, <2>3, <2>5, <2>6, <2>7 DEF Coherent
  <2>9. SameRunning
    <3>1. call[b][n].pc = "pending"
      BY <1>2, <1>6, <2>4
    <3>2. \A i \in indices(b) : c[i].pc = "executing" <=> call[b][i].pc = "executing"
      BY <1>6, <2>2, <3>1
    <3> QED
      BY <1>1, <2>1, <3>2 DEF SameRunning, Shapes
  <2> QED
    BY <1>6, <2>1, <2>2, <2>8, <2>9, OneBatch
<1>7. requiresSequential(b) => batch[b].pc \notin {"dispatch", "send", "wait"}
  BY <1>1 DEF Coherent, CallsInOrder
<1>8. ASSUME NEW parallel \in BOOLEAN, ExecuteBatch(b, parallel)
      PROVE  BatchInv' /\ SameRunning
  <2> DEFINE pc == IF Len(calls[b]) > MaxBatchCalls THEN "returned"
                   ELSE IF parallel /\ ~requiresSequential(b) THEN "dispatch" ELSE "sequential"
  <2>1. batch' = [batch EXCEPT ![b].pc = pc] /\ call' = call /\ batch[b].pc = "idle"
    BY <1>8 DEF ExecuteBatch, at
  <2>2. CASE Len(calls[b]) > MaxBatchCalls
    <3>1. pc = "returned"
      BY <2>2
    <3> QED
      BY <1>5, <2>1, <2>2, <3>1
  <2>3. CASE ~(Len(calls[b]) > MaxBatchCalls) /\ parallel /\ ~requiresSequential(b)
    <3>1. pc = "dispatch" /\ Len(calls[b]) <= MaxBatchCalls
      BY <1>2, <2>3
    <3> QED
      BY <1>5, <2>1, <2>3, <3>1
  <2>4. CASE ~(Len(calls[b]) > MaxBatchCalls) /\ ~(parallel /\ ~requiresSequential(b))
    <3>1. pc = "sequential" /\ Len(calls[b]) <= MaxBatchCalls
      BY <1>2, <2>4
    <3> QED
      BY <1>5, <2>1, <2>4, <3>1
  <2> QED
    BY <2>2, <2>3, <2>4
<1>9. ASSUME skip(b), batch[b].pc \in {"dispatch", "send"}
      PROVE  BatchInv' /\ SameRunning
  BY <1>4, <1>7, <1>9 DEF skip
<1>10. CASE Dispatch(b)
  <2>1. CASE batch[b].index > Len(calls[b])
    BY <1>5, <1>10, <2>1 DEF Dispatch, at
  <2>2. CASE ~(batch[b].index > Len(calls[b])) /\ batch[b].cancelled
    BY <1>9, <1>10, <2>2 DEF Dispatch, at
  <2>3. CASE ~(batch[b].index > Len(calls[b])) /\ ~batch[b].cancelled
    BY <1>2, <1>5, <1>10, <2>3 DEF Dispatch, at
  <2> QED
    BY <2>1, <2>2, <2>3
<1>11. CASE Send(b)
  <2> DEFINE s == [batch[b] EXCEPT !.pc = "dispatch", !.index = batch[b].index + 1]
  <2>1. s \in BatchState /\ s.pc = "dispatch" /\ s.index = batch[b].index + 1
    BY <1>2, SentState
  <2>2. batch' = [batch EXCEPT ![b] = s]
    BY <1>1, <1>11 DEF Send, Shapes
  <2>3. batch[b].index \in indices(b)
    BY <1>1, <1>2, <1>11 DEF Coherent, Send, at
  <2> QED
    BY <1>6, <1>11, <2>1, <2>2, <2>3 DEF Send, at
<1>12. CASE SendCancelled(b)
  BY <1>9, <1>12 DEF SendCancelled, at
<1>13. CASE SequentialNext(b)
  <2> DEFINE n == batch[b].index
  <2>1. CASE n > 1 /\ call[b][n - 1].verdict # "result"
    BY <1>4, <1>13, <2>1 DEF SequentialNext, at
  <2>2. CASE ~(n > 1 /\ call[b][n - 1].verdict # "result") /\ n > Len(calls[b])
    BY <1>5, <1>13, <2>2 DEF SequentialNext, at
  <2>3. CASE ~(n > 1 /\ call[b][n - 1].verdict # "result") /\ ~(n > Len(calls[b]))
    <3> DEFINE s == [batch[b] EXCEPT !.index = n + 1]
    <3>1. s \in BatchState /\ s.pc = batch[b].pc /\ s.index = n + 1
      BY <1>2 DEF BatchState
    <3>2. batch' = [batch EXCEPT ![b] = s] /\ call' = [call EXCEPT ![b][n].pc = "entered"]
      BY <1>1, <1>13, <2>3 DEF SequentialNext, Shapes
    <3>3. n \in indices(b)
      BY <1>1, <1>2, <2>3 DEF Coherent
    <3> QED
      BY <1>6, <1>13, <2>3, <3>1, <3>2, <3>3 DEF SequentialNext, at
  <2> QED
    BY <2>1, <2>2, <2>3
<1>14. CASE Return(b)
  BY <1>5, <1>14 DEF Return, at
<1> QED
  BY <1>8, <1>10, <1>11, <1>12, <1>13, <1>14 DEF batchStep

\* The steps of one call: what a worker, the argument check, the limiter and
\* the driver make of it is coherent again.
LEMMA CallSteps ==
  ASSUME BatchInv, NEW b \in Batches, NEW i \in indices(b), callStep(b, i)
  PROVE  BatchInv'
<1>1. Shapes /\ Coherent(b, batch[b], call[b])
  BY DEF BatchInv
<1>2. call[b][i] \in CallState /\ CallCoherent(call[b][i])
  BY <1>1, Fields DEF Coherent
<1> DEFINE c == call[b][i]
\* The call goes on to its next place.
<1>3. ASSUME NEW pc \in {"entered", "acquiring"}, c.pc \in {"handed", "entered"},
             batch' = batch, call' = [call EXCEPT ![b][i] = [c EXCEPT !.pc = pc]]
      PROVE  BatchInv'
  <2> DEFINE d == [c EXCEPT !.pc = pc]
  <2>1. d \in CallState /\ d.pc = pc /\ d.verdict = c.verdict /\ d.started = c.started
    BY <1>2 DEF CallState
  <2>2. CallCoherent(d)
    BY <1>2, <1>3, <2>1 DEF CallCoherent
  <2> HIDE DEF d
  <2> QED
    BY <1>3, <2>1, <2>2, OneCall DEF d
\* The call is answered.
<1>4. ASSUME NEW v \in {"result", "error", "notExecuted"}, c.pc \notin {"pending", "done"},
             v = "notExecuted" => c.pc # "executing",
             batch' = batch, call' = [call EXCEPT ![b][i] = answered(c, v)]
      PROVE  BatchInv'
  <2>1. /\ answered(c, v) \in CallState /\ answered(c, v).pc = "done"
        /\ answered(c, v).verdict = v /\ answered(c, v).started = c.started
    BY <1>2, AnsweredCall
  <2>2. CallCoherent(answered(c, v))
    BY <1>2, <1>4, <2>1 DEF CallCoherent
  <2> QED
    BY <1>4, <2>1, <2>2, OneCall
<1>5. call \in [Batches -> UNION {[indices(x) -> CallState] : x \in Batches}]
      /\ call[b] \in [indices(b) -> CallState]
  BY <1>1 DEF Shapes
<1>6. CASE Worker(b, i)
  <2>1. CASE batch[b].cancelled
    <3>1. call' = [call EXCEPT ![b][i] = answered(c, "notExecuted")]
      BY <1>5, <1>6, <2>1 DEF Worker
    <3> QED
      BY <1>4, <1>6, <3>1 DEF Worker
  <2>2. CASE ~batch[b].cancelled
    <3>1. call' = [call EXCEPT ![b][i] = [c EXCEPT !.pc = "entered"]]
      BY <1>5, <1>6, <2>2 DEF Worker
    <3> QED
      BY <1>3, <1>6, <3>1 DEF Worker
  <2> QED
    BY <2>1, <2>2
<1>7. CASE Refuse(b, i)
  <2> DEFINE v == IF toolOf(b, i) \in Registered THEN "result" ELSE "error"
  <2>1. v \in {"result", "error"} /\ call' = [call EXCEPT ![b][i] = answered(c, v)]
    BY <1>5, <1>7 DEF Refuse
  <2> HIDE DEF v
  <2> QED
    BY <1>4, <1>7, <2>1 DEF Refuse
<1>8. CASE Accept(b, i)
  <2>1. call' = [call EXCEPT ![b][i] = [c EXCEPT !.pc = "acquiring"]]
    BY <1>5, <1>8 DEF Accept
  <2> QED
    BY <1>3, <1>8, <2>1 DEF Accept
<1>9. CASE Acquire(b, i)
  <2> DEFINE d == [c EXCEPT !.pc = "executing", !.started = TRUE]
  <2>1. d \in CallState /\ d.pc = "executing" /\ d.verdict = c.verdict
    BY <1>2, StartedCall
  <2>2. call' = [call EXCEPT ![b][i] = d]
    BY <1>5, <1>9 DEF Acquire
  <2>3. CallCoherent(d)
    BY <1>2, <1>9, <2>1 DEF CallCoherent, Acquire
  <2> HIDE DEF d
  <2> QED
    BY <1>9, <2>1, <2>2, <2>3, OneCall DEF Acquire
<1>10. CASE AcquireCancelled(b, i)
  <2>1. call' = [call EXCEPT ![b][i] = answered(c, "notExecuted")]
    BY <1>5, <1>10 DEF AcquireCancelled
  <2> QED
    BY <1>4, <1>10, <2>1 DEF AcquireCancelled
<1>11. ASSUME NEW v \in {"result", "error"}, DriverReturns(b, i, v)
       PROVE  BatchInv'
  <2>1. call' = [call EXCEPT ![b][i] = answered(c, v)]
    BY <1>5, <1>11 DEF DriverReturns
  <2> QED
    BY <1>4, <1>11, <2>1 DEF DriverReturns
<1>12. CASE DriverPanics(b, i)
  <2> DEFINE s == [batch[b] EXCEPT !.pc = "panicked"]
             d == [call[b] EXCEPT ![i] = answered(c, "error")]
  <2>1. batch[b] \in BatchState /\ batch[b].index \in Nat /\ batch[b].pc = "sequential"
        /\ c.pc = "executing" /\ indices(b) = 1..Len(calls[b]) /\ Len(calls[b]) \in Nat
    BY <1>1, <1>12, Fields DEF DriverPanics, BatchState
  <2>2. s \in BatchState /\ s.pc = "panicked" /\ s.index = batch[b].index
    BY <2>1 DEF BatchState
  <2>3. batch' = [batch EXCEPT ![b] = s] /\ call' = [call EXCEPT ![b] = d]
    BY <1>1, <1>5, <1>12 DEF DriverPanics, Shapes
  <2>4. answered(c, "error") \in CallState /\ answered(c, "error").pc = "done"
        /\ answered(c, "error").verdict = "error" /\ answered(c, "error").started = c.started
    BY <1>2, AnsweredCall
  <2>5. d \in [indices(b) -> CallState] /\ d[i] = answered(c, "error")
        /\ \A j \in indices(b) : j # i => d[j] = call[b][j]
    BY <1>5, <2>4
  <2> HIDE DEF s, d
  <2>6. /\ Len(calls[b]) <= MaxBatchCalls /\ ~(Len(calls[b]) > MaxBatchCalls)
        /\ i = batch[b].index - 1
        /\ \A j \in indices(b) : j < i => call[b][j].verdict = "result"
    <3>1. MaxBatchCalls \in Nat
      BY BusAssumption
    <3>2. call[b][i].pc \notin {"pending", "done"}
      BY <2>1
    <3> QED
      BY <2>1, <3>1, <3>2, AtWork
  <2>7. \A j \in indices(b) : CallCoherent(d[j])
    BY <1>1, <2>4, <2>5 DEF Coherent, CallCoherent
  <2>8. CallsFollow(b, s, d)
    <3> SUFFICES ASSUME NEW j \in indices(b) PROVE CallsFollow(b, s, d)!(j)
      BY DEF CallsFollow
    <3>1. call[b][j].pc = "pending" <=> batch[b].index <= j
      BY <1>1, <2>1, <2>6 DEF Coherent, CallsFollow
    <3>2. j < i => call[b][j].pc = "done"
      BY <1>1, <2>6 DEF Coherent, CallCoherent
    <3> QED
      BY <2>1, <2>2, <2>4, <2>5, <2>6, <3>1, <3>2
  <2>9. requiresSequential(b) => CallsInOrder(b, s, d)
    <3> SUFFICES ASSUME requiresSequential(b), NEW k \in indices(b), NEW j \in indices(b),
                        k < j, d[j].started
                 PROVE  d[k].verdict = "result"
      BY <2>2 DEF CallsInOrder
    <3>1. call[b][j].started
      BY <1>1, <1>2, <2>1, <2>4, <2>5 DEF CallCoherent
    <3>2. call[b][k].verdict = "result"
      BY <1>1, <3>1 DEF Coherent, CallsInOrder
    <3>3. k # i
      BY <1>2, <2>1, <3>2 DEF CallCoherent
    <3> QED
      BY <2>5, <3>2, <3>3
  <2>10. Coherent(b, s, d)
    BY <1>1, <2>1, <2>2, <2>6, <2>7, <2>8, <2>9 DEF Coherent
  <2> QED
    BY <2>2, <2>3, <2>5, <2>10, OneBatch
<1> QED
  BY <1>6, <1>7, <1>8, <1>9, <1>10, <1>11, <1>12 DEF callStep

\* A context that ends changes no place of a batch.
LEMMA CancelStep ==
  ASSUME BatchInv, NEW b \in Batches, Cancel(b)
  PROVE  BatchInv'
<1>1. Shapes
  BY DEF BatchInv
<1>2. ASSUME NEW x \in Batches
      PROVE  /\ batch'[x] \in BatchState
             /\ batch'[x].pc = batch[x].pc /\ batch'[x].index = batch[x].index
  <2>1. batch[x] \in BatchState
    BY <1>1, Fields
  <2>2. \/ batch'[x] = batch[x]
        \/ batch'[x] = [batch[x] EXCEPT !.cancelled = TRUE]
    BY DEF Cancel
  <2>3. [batch[x] EXCEPT !.cancelled = TRUE] \in BatchState
        /\ [batch[x] EXCEPT !.cancelled = TRUE].pc = batch[x].pc
        /\ [batch[x] EXCEPT !.cancelled = TRUE].index = batch[x].index
    BY <2>1 DEF BatchState
  <2> QED
    BY <2>1, <2>2, <2>3
<1>3. Shapes'
  BY <1>1, <1>2 DEF Shapes, Cancel, indices
<1>4. ASSUME NEW x \in Batches
      PROVE  Coherent(x, batch'[x], call'[x])
  <2>1. Coherent(x, batch[x], call[x]) /\ call' = call
    BY DEF BatchInv, Cancel
  <2>2. CallsFollow(x, batch[x], call[x]) => CallsFollow(x, batch'[x], call'[x])
    BY <1>2, <2>1 DEF CallsFollow
  <2>3. CallsRefused(x, batch[x], call[x]) => CallsRefused(x, batch'[x], call'[x])
    BY <1>2, <2>1 DEF CallsRefused
  <2>4. CallsInOrder(x, batch[x], call[x]) => CallsInOrder(x, batch'[x], call'[x])
    BY <1>2, <2>1 DEF CallsInOrder
  <2> QED
    BY <1>2, <2>1, <2>2, <2>3, <2>4 DEF Coherent
<1> QED
  BY <1>3, <1>4 DEF BatchInv, Coherent, CallsFollow, CallsRefused, CallsInOrder,
       indices, requiresSequential, toolOf

\* Every step keeps the batch part of the invariant.
LEMMA BatchStep ==
  ASSUME BatchInv, [Next]_vars
  PROVE  BatchInv'
<1>1. CASE UNCHANGED vars
  BY <1>1 DEF BatchInv, Shapes, Coherent, CallsFollow, CallsRefused, CallsInOrder,
       indices, requiresSequential, toolOf, vars
<1>2. CASE Next
  BY <1>2, BatchSteps, CallSteps, CancelStep DEF Next
<1> QED
  BY <1>1, <1>2

\* It holds at the start: no batch has begun and no call is handed out.
LEMMA BatchInit ==
  ASSUME Init
  PROVE  BatchInv
<1>1. NewBatch \in BatchState /\ NewCall \in CallState
  BY DEF NewBatch, NewCall, BatchState, CallState
<1>2. Shapes
  BY <1>1 DEF Init, Shapes
<1>3. ASSUME NEW b \in Batches
      PROVE  Coherent(b, batch[b], call[b])
  <2>1. batch[b] = NewBatch /\ \A i \in indices(b) : call[b][i] = NewCall
    BY DEF Init
  <2>2. indices(b) = 1..Len(calls[b]) /\ Len(calls[b]) \in Nat
    BY <1>2, Fields
  <2> QED
    BY <2>1, <2>2 DEF Coherent, CallCoherent, CallsFollow, CallsRefused, CallsInOrder,
         NewBatch, NewCall
<1> QED
  BY <1>2, <1>3 DEF BatchInv

-----------------------------------------------------------------------------
(* The limiters.                                                           *)

\* A step that neither enters nor leaves a driver keeps every account.
LEMMA LimitersKept ==
  ASSUME LimiterExact, SameRunning, permits' = permits
  PROVE  LimiterExact'
<1>1. ASSUME NEW g \in Groups
      PROVE  holders(g)' = holders(g)
  BY DEF holders, SameRunning, indices, toolOf
<1> QED
  BY <1>1 DEF LimiterExact, Groups

\* Steps of a call that is not in its driver and does not enter it.
LEMMA CallsKept ==
  ASSUME BatchInv, NEW b \in Batches, NEW i \in indices(b),
         call[b][i].pc # "executing",
         NEW d \in CallState, d.pc # "executing",
         call' = [call EXCEPT ![b][i] = d]
  PROVE  SameRunning
BY DEF BatchInv, Shapes, SameRunning

\* The step moves no call but the i-th of batch b.
OnlyCall(b, i) ==
  \A x \in Batches : \A j \in indices(x) :
    <<x, j>> # <<b, i>> => call'[x][j] = call[x][j]

\* The holders before and after one call enters or leaves its driver.
LEMMA HoldersChange ==
  ASSUME NEW b \in Batches, NEW i \in indices(b), i \in 1..MaxBatchCalls,
         OnlyCall(b, i), NEW g \in Groups
  PROVE  /\ group[toolOf(b, i)] # g => holders(g)' = holders(g)
         /\ group[toolOf(b, i)] = g /\ call'[b][i].pc = "executing" =>
              holders(g)' = with(g, <<b, i>>)
         /\ group[toolOf(b, i)] = g /\ call'[b][i].pc # "executing" =>
              holders(g)' = without(g, <<b, i>>)
         /\ <<b, i>> \in holders(g) <=>
              call[b][i].pc = "executing" /\ group[toolOf(b, i)] = g
<1>1. \A x \in Batches, j \in 1..MaxBatchCalls :
        /\ <<x, j>> \in holders(g) <=>
             j \in indices(x) /\ call[x][j].pc = "executing" /\ group[toolOf(x, j)] = g
        /\ <<x, j>> \in holders(g)' <=>
             j \in indices(x) /\ call'[x][j].pc = "executing" /\ group[toolOf(x, j)] = g
  BY DEF holders, indices, toolOf
<1>2. \A p \in holders(g) \cup holders(g)' :
        \E x \in Batches, j \in 1..MaxBatchCalls : p = <<x, j>>
  BY DEF holders
<1>3. \A p : p # <<b, i>> => (p \in holders(g)' <=> p \in holders(g))
  <2> SUFFICES ASSUME NEW p \in holders(g) \cup holders(g)', p # <<b, i>>
               PROVE  p \in holders(g)' <=> p \in holders(g)
    OBVIOUS
  <2>1. PICK x \in Batches, j \in 1..MaxBatchCalls : p = <<x, j>>
    BY <1>2
  <2> QED
    BY <1>1, <2>1 DEF OnlyCall
<1>4. /\ <<b, i>> \in holders(g) <=> call[b][i].pc = "executing" /\ group[toolOf(b, i)] = g
      /\ <<b, i>> \in holders(g)' <=> call'[b][i].pc = "executing" /\ group[toolOf(b, i)] = g
  BY <1>1
<1>5. group[toolOf(b, i)] # g => holders(g)' = holders(g)
  BY <1>3, <1>4
<1>6. group[toolOf(b, i)] = g /\ call'[b][i].pc = "executing" =>
        holders(g)' = with(g, <<b, i>>)
  BY <1>3, <1>4 DEF with
<1>7. group[toolOf(b, i)] = g /\ call'[b][i].pc # "executing" =>
        holders(g)' = without(g, <<b, i>>)
  BY <1>3, <1>4 DEF without
<1> QED
  BY <1>4, <1>5, <1>6, <1>7

\* Entering a driver takes the permit, leaving it in any way gives it back.
LEMMA LimiterSteps ==
  ASSUME BatchInv, LimiterExact, NEW b \in Batches, NEW i \in indices(b), callStep(b, i)
  PROVE  LimiterExact'
<1> DEFINE c == call[b][i]
           g == group[toolOf(b, i)]
<1>1. Shapes
  BY DEF BatchInv
<1>2. c \in CallState /\ toolOf(b, i) \in Tools /\ g \in Groups \cup {None} /\ None \notin Groups
  BY <1>1, Fields, BusAssumption DEF toolOf, indices
<1>3. call \in [Batches -> UNION {[indices(x) -> CallState] : x \in Batches}]
      /\ call[b] \in [indices(b) -> CallState]
  BY <1>1 DEF Shapes
<1>4. ASSUME c.pc # "executing", NEW d \in CallState, d.pc # "executing",
             permits' = permits, call' = [call EXCEPT ![b][i] = d]
      PROVE  LimiterExact'
  BY <1>4, CallsKept, LimitersKept
<1>5. ASSUME c.pc # "executing", NEW v \in {"result", "error", "notExecuted"},
             permits' = permits, call' = [call EXCEPT ![b][i] = answered(c, v)]
      PROVE  LimiterExact'
  BY <1>2, <1>4, <1>5, AnsweredCall
<1>6. ASSUME c.pc # "executing", NEW pc \in {"entered", "acquiring"},
             permits' = permits, call' = [call EXCEPT ![b][i] = [c EXCEPT !.pc = pc]]
      PROVE  LimiterExact'
  <2>1. [c EXCEPT !.pc = pc] \in CallState /\ [c EXCEPT !.pc = pc].pc # "executing"
    BY <1>2 DEF CallState
  <2> QED
    BY <1>4, <1>6, <2>1
\* The call alone moves, and it is one of the first MaxBatchCalls.
<1>7. ASSUME c.pc \in {"acquiring", "executing"}, NEW d \in CallState,
              call' = [call EXCEPT ![b][i] = d]
       PROVE  OnlyCall(b, i) /\ call'[b][i] = d /\ i \in 1..MaxBatchCalls
  <2>1. call[b][i].pc \notin {"pending", "done"}
    BY <1>7
  <2>2. i \in 1..MaxBatchCalls
    BY <1>1, <2>1, AtWork, Fields, BusAssumption
  <2> QED
    BY <1>3, <1>7, <2>2 DEF OnlyCall
\* A driver is entered.
<1>8. ASSUME c.pc = "acquiring", acquire(b, i),
             NEW d \in CallState, d.pc = "executing", call' = [call EXCEPT ![b][i] = d]
      PROVE  LimiterExact'
  <2>1. permits' \in [Groups -> Nat]
    BY <1>2, <1>8 DEF acquire, LimiterExact
  <2>2. OnlyCall(b, i) /\ call'[b][i].pc = "executing" /\ i \in 1..MaxBatchCalls
    BY <1>8, <1>7
  <2>3. ASSUME NEW h \in Groups
        PROVE  /\ IsFiniteSet(holders(h)')
               /\ permits'[h] = Cardinality(holders(h)')
               /\ permits'[h] <= capacity[h]
    <3>1. IsFiniteSet(holders(h)) /\ permits[h] = Cardinality(holders(h))
          /\ permits[h] <= capacity[h] /\ permits[h] \in Nat /\ capacity[h] \in Nat
      BY BusAssumption DEF LimiterExact
    <3>2. CASE h = g
      <4>1. permits'[h] = permits[h] + 1 /\ permits[h] < capacity[h]
        BY <1>2, <1>8, <3>2 DEF acquire, LimiterExact
      <4>2. holders(h)' = with(h, <<b, i>>) /\ <<b, i>> \notin holders(h)
        BY <1>8, <2>2, <3>2, HoldersChange
      <4>3. IsFiniteSet(holders(h) \cup {<<b, i>>})
            /\ Cardinality(holders(h) \cup {<<b, i>>}) = Cardinality(holders(h)) + 1
        BY <3>1, <4>2, FS_AddElement
      <4> QED
        BY <3>1, <4>1, <4>2, <4>3 DEF with
    <3>3. CASE h # g
      <4>1. holders(h)' = holders(h)
        BY <2>2, <3>3, HoldersChange
      <4>2. permits'[h] = permits[h]
        BY <1>2, <1>8, <3>3 DEF acquire, LimiterExact
      <4> QED
        BY <3>1, <4>1, <4>2
    <3> QED
      BY <3>2, <3>3
  <2> QED
    BY <2>1, <2>3 DEF LimiterExact, Groups
\* A driver is left, with a result, an error or a panic.
<1>9. ASSUME c.pc = "executing", NEW v \in {"result", "error"}, release(b, i, v),
             call' = [call EXCEPT ![b][i] = answered(c, v)]
      PROVE  LimiterExact'
  <2>1. OnlyCall(b, i) /\ call'[b][i].pc # "executing" /\ i \in 1..MaxBatchCalls
    <3>1. answered(c, v) \in CallState /\ answered(c, v).pc # "executing"
      BY <1>2, AnsweredCall
    <3> QED
      BY <1>9, <1>7, <3>1
  <2>2. ASSUME NEW h \in Groups
        PROVE  /\ IsFiniteSet(holders(h)')
               /\ permits'[h] = Cardinality(holders(h)')
               /\ permits'[h] <= capacity[h]
               /\ permits'[h] \in Nat
    <3>1. IsFiniteSet(holders(h)) /\ permits[h] = Cardinality(holders(h))
          /\ permits[h] <= capacity[h] /\ permits[h] \in Nat /\ capacity[h] \in Nat
      BY BusAssumption DEF LimiterExact
    <3>2. CASE h = g
      <4>1. permits'[h] = permits[h] - 1
        BY <1>2, <1>9, <3>2 DEF release, LimiterExact
      <4>2. holders(h)' = without(h, <<b, i>>) /\ <<b, i>> \in holders(h)
        BY <1>9, <2>1, <3>2, HoldersChange
      <4>3. IsFiniteSet(holders(h) \ {<<b, i>>})
            /\ Cardinality(holders(h) \ {<<b, i>>}) = Cardinality(holders(h)) - 1
        BY <3>1, <4>2, FS_RemoveElement
      <4>4. Cardinality(holders(h) \ {<<b, i>>}) \in Nat
        BY <4>3, FS_CardinalityType
      <4> QED
        BY <3>1, <4>1, <4>2, <4>3, <4>4 DEF without
    <3>3. CASE h # g
      <4>1. holders(h)' = holders(h)
        BY <2>1, <3>3, HoldersChange
      <4>2. permits'[h] = permits[h]
        BY <1>2, <1>9, <3>3 DEF release, LimiterExact
      <4> QED
        BY <3>1, <4>1, <4>2
    <3> QED
      BY <3>2, <3>3
  <2>3. permits' \in [Groups -> Nat]
    <3>1. permits' = [h \in Groups |-> permits'[h]]
      BY <1>2, <1>9 DEF release, LimiterExact
    <3> QED
      BY <2>2, <3>1
  <2> QED
    BY <2>2, <2>3 DEF LimiterExact, Groups
<1>10. CASE Worker(b, i)
  <2>1. CASE batch[b].cancelled
    <3>1. call' = [call EXCEPT ![b][i] = answered(c, "notExecuted")]
      BY <1>3, <1>10, <2>1 DEF Worker
    <3> QED
      BY <1>5, <1>10, <3>1 DEF Worker
  <2>2. CASE ~batch[b].cancelled
    <3>1. call' = [call EXCEPT ![b][i] = [c EXCEPT !.pc = "entered"]]
      BY <1>3, <1>10, <2>2 DEF Worker
    <3> QED
      BY <1>6, <1>10, <3>1 DEF Worker
  <2> QED
    BY <2>1, <2>2
<1>11. CASE Refuse(b, i)
  <2> DEFINE v == IF toolOf(b, i) \in Registered THEN "result" ELSE "error"
  <2>1. v \in {"result", "error"} /\ call' = [call EXCEPT ![b][i] = answered(c, v)]
    BY <1>3, <1>11 DEF Refuse
  <2> HIDE DEF v
  <2> QED
    BY <1>5, <1>11, <2>1 DEF Refuse
<1>12. CASE Accept(b, i)
  <2>1. call' = [call EXCEPT ![b][i] = [c EXCEPT !.pc = "acquiring"]]
    BY <1>3, <1>12 DEF Accept
  <2> QED
    BY <1>6, <1>12, <2>1 DEF Accept
<1>13. CASE Acquire(b, i)
  <2> DEFINE d == [c EXCEPT !.pc = "executing", !.started = TRUE]
  <2>1. call' = [call EXCEPT ![b][i] = d]
    BY <1>3, <1>13 DEF Acquire
  <2>2. d \in CallState /\ d.pc = "executing"
    BY <1>2, StartedCall
  <2> HIDE DEF d
  <2> QED
    BY <1>8, <1>13, <2>1, <2>2 DEF Acquire
<1>14. CASE AcquireCancelled(b, i)
  <2>1. call' = [call EXCEPT ![b][i] = answered(c, "notExecuted")]
    BY <1>3, <1>14 DEF AcquireCancelled
  <2> QED
    BY <1>5, <1>14, <2>1 DEF AcquireCancelled
<1>15. ASSUME NEW v \in {"result", "error"}, DriverReturns(b, i, v)
       PROVE  LimiterExact'
  <2>1. call' = [call EXCEPT ![b][i] = answered(c, v)]
    BY <1>3, <1>15 DEF DriverReturns
  <2> QED
    BY <1>9, <1>15, <2>1 DEF DriverReturns
<1>16. CASE DriverPanics(b, i)
  <2>1. call' = [call EXCEPT ![b][i] = answered(c, "error")]
    BY <1>3, <1>16 DEF DriverPanics
  <2> QED
    BY <1>9, <1>16, <2>1 DEF DriverPanics
<1> QED
  BY <1>10, <1>11, <1>12, <1>13, <1>14, <1>15, <1>16 DEF callStep

-----------------------------------------------------------------------------
(* The theorems.                                                           *)

\* The state of batches, calls and limiters stays coherent: IInv is inductive.
THEOREM BusInvariant == Spec => []IInv
<1>1. Init => IInv
  <2> SUFFICES ASSUME Init PROVE IInv
    OBVIOUS
  <2>1. BatchInv
    BY BatchInit
  <2>2. ASSUME NEW g \in Groups
        PROVE  holders(g) = {}
    BY DEF Init, holders, NewCall
  <2>3. LimiterExact
    <3>1. permits \in [Groups -> Nat] /\ \A g \in Groups : permits[g] = 0
      BY DEF Init
    <3>2. \A g \in Groups : 0 <= capacity[g]
      BY BusAssumption
    <3>3. IsFiniteSet({}) /\ Cardinality({}) = 0
      BY FS_EmptySet
    <3> QED
      BY <2>2, <3>1, <3>2, <3>3 DEF LimiterExact
  <2> QED
    BY <2>1, <2>3 DEF IInv
<1>2. IInv /\ [Next]_vars => IInv'
  <2> SUFFICES ASSUME BatchInv, LimiterExact, [Next]_vars PROVE IInv'
    BY DEF IInv
  <2>1. BatchInv'
    BY BatchStep
  <2>2. ASSUME UNCHANGED vars
        PROVE  LimiterExact'
    <3>1. SameRunning /\ permits' = permits
      BY <2>2 DEF vars, SameRunning
    <3> QED
      BY <3>1, LimitersKept
  <2>3. ASSUME NEW b \in Batches,
               (\E parallel \in BOOLEAN : ExecuteBatch(b, parallel)) \/ batchStep(b)
        PROVE  LimiterExact'
    <3>1. permits' = permits
      BY <2>3 DEF ExecuteBatch, batchStep, Dispatch, Send, SendCancelled, SequentialNext,
           Return, skip
    <3> QED
      BY <2>3, <3>1, BatchSteps, LimitersKept
  <2>4. ASSUME NEW b \in Batches, Cancel(b)
        PROVE  LimiterExact'
    <3>1. SameRunning /\ permits' = permits
      BY <2>4 DEF Cancel, SameRunning
    <3> QED
      BY <3>1, LimitersKept
  <2>5. LimiterExact'
    <3>1. CASE Next
      BY <2>3, <2>4, <3>1, LimiterSteps DEF Next
    <3> QED
      BY <2>2, <3>1
  <2> QED
    BY <2>1, <2>5 DEF IInv
<1> QED
  BY <1>1, <1>2, PTL DEF Spec

\* Batches, calls and permits keep the types the Go declarations give them.
THEOREM BusTypes == Spec => []TypeOK
<1>1. IInv => TypeOK
  BY DEF IInv, BatchInv, Shapes, LimiterExact, TypeOK
<1> QED
  BY <1>1, BusInvariant, PTL

\* tool.ExecuteBatch: ErrNotExecuted is only ever given to a call whose driver
\* was not entered and never will be, and a batch that has returned has an
\* answer for every call and no driver running.
THEOREM BusAnswersTrue == Spec => []AnswersTrue
<1>1. IInv => AnswersTrue
  <2> SUFFICES ASSUME BatchInv, NEW b \in Batches, NEW i \in indices(b)
               PROVE  AnswersTrue!(b)!(i)
    BY DEF IInv, AnswersTrue
  <2>1. Coherent(b, batch[b], call[b])
    BY DEF BatchInv
  <2> QED
    BY <2>1 DEF Coherent, CallCoherent, CallsFollow, at
<1> QED
  BY <1>1, BusInvariant, PTL

\* acquire and release of the limiters shared by the clones of a bus: the
\* permits taken are exactly the drivers of the group that run, over all
\* batches, and never exceed its capacity.
THEOREM BusGroupBounded == Spec => []GroupBounded
<1>1. IInv => GroupBounded
  <2> SUFFICES ASSUME LimiterExact, NEW g \in Groups
               PROVE  permits[g] = Cardinality(holders(g)) /\ Cardinality(holders(g)) <= capacity[g]
    BY DEF IInv, GroupBounded, holders
  <2> QED
    BY DEF LimiterExact
<1> QED
  BY <1>1, BusInvariant, PTL

\* A batch with a ConcurrencySequential tool runs its calls in order and stops
\* at the first failure.
THEOREM BusSequentialInOrder == Spec => []SequentialInOrder
<1>1. IInv => SequentialInOrder
  BY DEF IInv, BatchInv, Coherent, CallsInOrder, SequentialInOrder
<1> QED
  BY <1>1, BusInvariant, PTL

=============================================================================
