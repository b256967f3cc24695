---------------------- MODULE OrchestrationDriveProofs ----------------------
(***************************************************************************)
(* Theorems about OrchestrationDrive, for every set of dispatch IDs, every *)
(* scheduler and executor and every limit: the State is canonical and its  *)
(* ticks are whole, a success is final, and permits bound the work.        *)
(***************************************************************************)
EXTENDS OrchestrationDrive, TLAPS, FiniteSetTheorems

States == [tick : Nat, outcomes : Seq(Outcome)]

\* How Drive returned.
Rets == {"none", "nil", "InvalidArgument", "Cancelled", "SchedulerError", "MaxTicks",
         "DispatchError"}

Drives == [pc : DrivePCs, calls : Nat, limit : Nat, completed : Nat,
           batch : Seq(IDs), index : Nat, cancelled : BOOLEAN, batchCancelled : BOOLEAN,
           ret : Rets]

Histories == [batches : Seq(SUBSET IDs), succeeded : SUBSET IDs, calls : [IDs -> Nat],
              late : BOOLEAN]

\* The types of the variables.
Types ==
  /\ state \in States
  /\ drive \in Drives
  /\ worker \in [IDs -> WorkerStates]
  /\ records \in Seq(Execution)
  /\ permits \in Nat
  /\ history \in Histories

\* The outcomes of a State: in strict order, one for each ID, in ticks of this
\* State or of the batch that failed after it.
Canonical(s) ==
  /\ \A i, j \in DOMAIN s.outcomes : i < j =>
       /\ outcomeLess(s.outcomes[i], s.outcomes[j])
       /\ s.outcomes[i].id # s.outcomes[j].id
  /\ \A i \in DOMAIN s.outcomes : s.outcomes[i].tick <= s.tick + 1

\* The ticks that count have the batches they were proposed with.
idsOf(s, t) == {s.outcomes[i].id : i \in {j \in DOMAIN s.outcomes : s.outcomes[j].tick = t}}

Whole ==
  /\ Len(history.batches) = state.tick
  /\ \A t \in 1..state.tick : idsOf(state, t) = history.batches[t]

\* A Drive that runs started from a State whose ticks all count.
Current ==
  drive.pc # "idle" => \A i \in DOMAIN state.outcomes : state.outcomes[i].tick <= state.tick

inBatch == drive.pc \in {"launch", "acquire", "recheck", "go", "wait"}

okIDs == {records[k].id : k \in {j \in DOMAIN records : ~records[j].err}}

\* Between batches there is no goroutine, no record and no permit.
Quiet ==
  ~inBatch => /\ worker = NoWorkers /\ records = <<>> /\ permits = 0
              /\ history.succeeded = folded(state)

\* The batch that runs: its IDs are new and distinct, those before index have a
\* goroutine, those whose Executor returned have a record.
Running ==
  inBatch =>
    /\ drive.index \in 1..Len(drive.batch) + 1
    /\ drive.pc \in {"acquire", "recheck", "go"} => drive.index <= Len(drive.batch)
    /\ \A i \in DOMAIN drive.batch : drive.batch[i] \notin folded(state)
    /\ \A i, j \in DOMAIN drive.batch : i # j => drive.batch[i] # drive.batch[j]
    /\ \A id \in IDs : worker[id] # "none" <=>
         \E i \in DOMAIN drive.batch : i < drive.index /\ drive.batch[i] = id
    /\ \A id \in IDs : worker[id] \in {"cancelling", "releasing", "done"} <=>
         \E k \in DOMAIN records : records[k].id = id
    /\ \A k, l \in DOMAIN records : k # l => records[k].id # records[l].id
    /\ history.succeeded = folded(state) \cup okIDs

\* The loop gives up only for a reason: a failed dispatch or the caller.
Reasons ==
  inBatch =>
    /\ drive.batchCancelled => \E k \in DOMAIN records : records[k].err
    /\ \A id \in IDs : worker[id] = "cancelling" =>
         \E k \in DOMAIN records : records[k].err
    /\ drive.pc = "wait" => drive.index > Len(drive.batch) \/ batchDone

atWork == {id \in IDs : worker[id] \in {"running", "cancelling", "releasing"}}

\* The permits taken, and the last one: nothing is launched with it after a
\* failure.
PermitsExact ==
  /\ drive.limit > 0 =>
       /\ permits = Cardinality(atWork) + (IF drive.pc \in {"recheck", "go"} THEN 1 ELSE 0)
       /\ permits <= drive.limit
  /\ drive.limit = 0 => drive.pc \notin {"acquire", "recheck"}
  /\ drive.limit = 1 /\ drive.pc = "go" => ~drive.batchCancelled
  /\ ~history.late

\* The inductive invariant.
IInv ==
  /\ Types
  /\ Canonical(state) /\ Whole /\ Current
  /\ Quiet /\ Running /\ Reasons
  /\ PermitsExact

-----------------------------------------------------------------------------
(* Sorting.                                                                *)

\* outcomeLess is a strict order on the outcomes of different dispatches.
LEMMA OutcomeOrder ==
  ASSUME NEW a \in Outcome, NEW b \in Outcome, NEW c \in Outcome
  PROVE  /\ ~outcomeLess(a, a)
         /\ outcomeLess(a, b) => ~outcomeLess(b, a)
         /\ outcomeLess(a, b) /\ outcomeLess(b, c) => outcomeLess(a, c)
         /\ a.id # b.id => outcomeLess(a, b) \/ outcomeLess(b, a)
<1>1. /\ a.tick \in Nat /\ b.tick \in Nat /\ c.tick \in Nat
      /\ a.id \in Nat /\ b.id \in Nat /\ c.id \in Nat
  BY IDAssumption DEF Outcome
<1> QED
  BY <1>1 DEF outcomeLess

\* The rank of an outcome among the others: how many come before it.
below(S, a) == {b \in S : outcomeLess(b, a)}

rank(S, a) == Cardinality(below(S, a)) + 1

\* Outcomes with different IDs have different ranks, from 1 to their number.
LEMMA Ranks ==
  ASSUME NEW S, IsFiniteSet(S), S \subseteq Outcome,
         \A a, b \in S : a # b => a.id # b.id
  PROVE  /\ \A a \in S : rank(S, a) \in 1..Cardinality(S)
         /\ \A a, b \in S : outcomeLess(a, b) <=> rank(S, a) < rank(S, b)
<1>1. ASSUME NEW a \in S
      PROVE  /\ IsFiniteSet(below(S, a)) /\ Cardinality(below(S, a)) \in Nat
             /\ Cardinality(below(S, a)) < Cardinality(S)
             /\ Cardinality(S) \in Nat
  <2>1. below(S, a) \in SUBSET S /\ a \notin below(S, a)
    BY OutcomeOrder DEF below
  <2>2. IsFiniteSet(below(S, a)) /\ Cardinality(below(S, a)) <= Cardinality(S)
        /\ (Cardinality(S) = Cardinality(below(S, a)) => S = below(S, a))
    BY <2>1, FS_Subset
  <2>3. Cardinality(below(S, a)) \in Nat /\ Cardinality(S) \in Nat
    BY <2>2, FS_CardinalityType
  <2> QED
    BY <2>1, <2>2, <2>3
<1>2. ASSUME NEW a \in S, NEW b \in S, outcomeLess(a, b)
      PROVE  rank(S, a) < rank(S, b)
  <2>1. below(S, a) \in SUBSET below(S, b) /\ a \in below(S, b) /\ a \notin below(S, a)
    BY <1>2, OutcomeOrder DEF below
  <2>2. Cardinality(below(S, a)) <= Cardinality(below(S, b))
        /\ Cardinality(below(S, a)) # Cardinality(below(S, b))
    BY <1>1, <2>1, FS_Subset
  <2> QED
    BY <1>1, <2>2 DEF rank
<1>3. \A a \in S : rank(S, a) \in 1..Cardinality(S)
  BY <1>1 DEF rank
<1>4. ASSUME NEW a \in S, NEW b \in S, rank(S, a) < rank(S, b)
      PROVE  outcomeLess(a, b)
  <2>1. a # b
    BY <1>3, <1>4
  <2>2. outcomeLess(a, b) \/ outcomeLess(b, a)
    BY <2>1, OutcomeOrder
  <2>3. ~outcomeLess(b, a)
    BY <1>2, <1>3, <1>4
  <2> QED
    BY <2>2, <2>3
<1> QED
  BY <1>2, <1>3, <1>4

\* sort.Slice returns each of the outcomes once, in order.
LEMMA SortedOutcomes ==
  ASSUME NEW S, IsFiniteSet(S), S \subseteq Outcome,
         \A a, b \in S : a # b => a.id # b.id
  PROVE  /\ sorted(S) \in Seq(S)
         /\ \A i, j \in DOMAIN sorted(S) : i < j => outcomeLess(sorted(S)[i], sorted(S)[j])
         /\ S = {sorted(S)[i] : i \in DOMAIN sorted(S)}
<1> DEFINE n == Cardinality(S)
           f == [a \in S |-> rank(S, a)]
           inOrder(t) == \A i, j \in DOMAIN t : i < j => outcomeLess(t[i], t[j])
<1>1. n \in Nat /\ IsFiniteSet(1..n) /\ Cardinality(1..n) = n
  <2>1. n \in Nat
    BY FS_CardinalityType
  <2> QED
    BY <2>1, FS_Interval
<1>2. f \in [S -> 1..n] /\ \A a \in S : f[a] = rank(S, a)
  BY Ranks
<1>3. f \in Surjection(S, 1..n)
  <2>1. \A a, b \in S : f[a] = f[b] => a = b
    <3> SUFFICES ASSUME NEW a \in S, NEW b \in S, f[a] = f[b], a # b PROVE FALSE
      OBVIOUS
    <3>1. outcomeLess(a, b) \/ outcomeLess(b, a)
      BY OutcomeOrder
    <3>2. rank(S, a) < rank(S, b) \/ rank(S, b) < rank(S, a)
      BY <3>1, Ranks
    <3> QED
      BY <1>2, <3>2, Ranks
  <2>2. f \in Injection(S, 1..n)
    BY <1>2, <2>1 DEF Injection, IsInjective
  <2> QED
    BY <1>1, <2>2, FS_Injection
<1>4. \A k \in 1..n : \E a \in S : f[a] = k
  BY <1>3 DEF Surjection
<1> HIDE DEF f, n
<1>5. \E t \in [1..n -> S] : inOrder(t)
  <2> DEFINE t == [k \in 1..n |-> CHOOSE a \in S : f[a] = k]
  <2>1. \A k \in 1..n : t[k] \in S /\ f[t[k]] = k
    BY <1>4
  <2>2. t \in [1..n -> S]
    BY <2>1
  <2> HIDE DEF t
  <2>3. inOrder(t)
    <3> SUFFICES ASSUME NEW i \in 1..n, NEW j \in 1..n, i < j PROVE outcomeLess(t[i], t[j])
      BY <2>2
    <3>1. rank(S, t[i]) = i /\ rank(S, t[j]) = j
      BY <1>2, <2>1
    <3> QED
      BY <2>1, <3>1, Ranks
  <2> QED
    BY <2>2, <2>3
<1>6. sorted(S) \in [1..n -> S] /\ inOrder(sorted(S))
  BY <1>5 DEF sorted, n
<1>7. sorted(S) \in Seq(S) /\ DOMAIN sorted(S) = 1..n
  BY <1>1, <1>6
<1>8. S = {sorted(S)[i] : i \in DOMAIN sorted(S)}
  <2>1. \A i, j \in 1..n : sorted(S)[i] = sorted(S)[j] => i = j
    <3> SUFFICES ASSUME NEW i \in 1..n, NEW j \in 1..n, i < j PROVE sorted(S)[i] # sorted(S)[j]
      BY <1>1
    <3>1. outcomeLess(sorted(S)[i], sorted(S)[j]) /\ sorted(S)[i] \in S /\ sorted(S)[j] \in S
      BY <1>6, <1>7
    <3> QED
      BY <3>1, OutcomeOrder
  <2>2. sorted(S) \in Injection(1..n, S)
    BY <1>6, <2>1 DEF Injection, IsInjective
  <2>3. sorted(S) \in Surjection(1..n, S)
    BY <1>1, <2>2, FS_Injection DEF n
  <2> QED
    BY <1>7, <2>3 DEF Surjection
<1> QED
  BY <1>6, <1>7, <1>8

-----------------------------------------------------------------------------
(* The steps of the loop.                                                  *)

\* The fields of a drive.
LEMMA DriveFields ==
  ASSUME NEW d \in Drives
  PROVE  /\ d.pc \in DrivePCs /\ d.calls \in Nat /\ d.limit \in Nat /\ d.completed \in Nat
         /\ d.batch \in Seq(IDs) /\ d.index \in Nat
         /\ d.cancelled \in BOOLEAN /\ d.batchCancelled \in BOOLEAN /\ d.ret \in Rets
BY DEF Drives

\* goto keeps everything but the place.
LEMMA MovedDrive ==
  ASSUME NEW d \in Drives, NEW pc \in DrivePCs
  PROVE  LET e == [d EXCEPT !.pc = pc]
         IN /\ e \in Drives /\ e.pc = pc
            /\ e.limit = d.limit /\ e.batch = d.batch /\ e.index = d.index
            /\ e.cancelled = d.cancelled /\ e.batchCancelled = d.batchCancelled
BY DEF Drives

\* return keeps the batch and the limit.
LEMMA ReturnedDrive ==
  ASSUME NEW d \in Drives, NEW err \in Rets
  PROVE  LET e == [d EXCEPT !.pc = "idle", !.ret = err]
         IN /\ e \in Drives /\ e.pc = "idle"
            /\ e.limit = d.limit /\ e.batch = d.batch /\ e.index = d.index
            /\ e.cancelled = d.cancelled /\ e.batchCancelled = d.batchCancelled
<1> DEFINE m == [d EXCEPT !.pc = "idle"]
<1>1. /\ m \in Drives /\ m.pc = "idle" /\ m.limit = d.limit /\ m.batch = d.batch
      /\ m.index = d.index /\ m.cancelled = d.cancelled /\ m.batchCancelled = d.batchCancelled
  BY MovedDrive DEF DrivePCs
<1> HIDE DEF m
<1>2. LET e == [m EXCEPT !.ret = err]
      IN /\ e \in Drives /\ e.pc = m.pc
         /\ e.limit = m.limit /\ e.batch = m.batch /\ e.index = m.index
         /\ e.cancelled = m.cancelled /\ e.batchCancelled = m.batchCancelled
  BY <1>1 DEF Drives
<1> QED
  BY <1>1, <1>2 DEF m

\* A move between batches: of the loop alone, nothing else changes.
LEMMA OutsideStep ==
  ASSUME IInv, ~inBatch, drive' \in Drives, drive'.pc \in {"idle", "top", "schedule"},
         Current',
         UNCHANGED <<state, worker, records, permits, history>>
  PROVE  IInv'
<1>1. Types' /\ Canonical(state)' /\ Whole'
  BY DEF IInv, Types, Canonical, Whole, idsOf
<1>2. Running' /\ Reasons'
  BY DEF IInv, Running, Reasons, inBatch
<1>3. Quiet'
  BY DEF IInv, Quiet, inBatch, folded
<1>4. PermitsExact'
  <2>1. worker = NoWorkers /\ permits = 0
    BY DEF IInv, Quiet
  <2>2. atWork' = {}
    BY <2>1 DEF atWork, NoWorkers
  <2>3. Cardinality({}) = 0
    BY FS_EmptySet
  <2>4. drive'.limit \in Nat
    BY DriveFields
  <2> QED
    BY <2>1, <2>2, <2>3, <2>4 DEF PermitsExact, IInv
<1> QED
  BY <1>1, <1>2, <1>3, <1>4 DEF IInv

\* A move of the launch loop that starts no goroutine.
LEMMA InsideStep ==
  ASSUME IInv, inBatch, drive' \in Drives, inBatch',
         drive'.batch = drive.batch, drive'.index = drive.index, drive'.limit = drive.limit,
         drive'.batchCancelled = drive.batchCancelled,
         drive.cancelled => drive'.cancelled,
         drive'.pc \in {"acquire", "recheck", "go"} => drive.index <= Len(drive.batch),
         drive'.pc = "wait" =>
           drive.pc = "wait" \/ drive.index > Len(drive.batch) \/ batchDone,
         permits' \in Nat, PermitsExact',
         UNCHANGED <<state, worker, records, history>>
  PROVE  IInv'
<1>1. Types' /\ Canonical(state)' /\ Whole'
  BY DEF IInv, Types, Canonical, Whole, idsOf
<1>2. Current'
  BY DEF IInv, Current, inBatch
<1>3. Running'
  BY DEF IInv, Running, okIDs, folded
<1>4. Reasons'
  BY DEF IInv, Reasons, batchDone
<1>5. Quiet'
  BY DEF Quiet
<1> QED
  BY <1>1, <1>2, <1>3, <1>4, <1>5 DEF IInv

\* Drive is called: a State that validateInitialState accepts has no outcome of
\* a tick that does not count.
LEMMA CallStep ==
  ASSUME IInv, NEW limit \in Limits, Call(limit)
  PROVE  IInv'
<1>1. drive.calls + 1 \in Nat /\ limit \in Nat
  BY LimitAssumption, DriveFields DEF IInv, Types
<1>2. ~inBatch
  BY DEF Call, at, inBatch
<1> DEFINE ok == validateInitialState(state)
           pc == IF ok THEN "top" ELSE "idle"
           ret == IF ok THEN "none" ELSE "InvalidArgument"
<1>3. drive' = [pc |-> pc, calls |-> drive.calls + 1, limit |-> limit, completed |-> 0,
                batch |-> <<>>, index |-> 1, cancelled |-> FALSE, batchCancelled |-> FALSE,
                ret |-> ret]
  BY DEF Call, NewDrive
<1>4. pc \in {"idle", "top"} /\ pc \in DrivePCs /\ ret \in Rets /\ (pc = "top" => ok)
  <2>1. CASE ok
    BY <2>1 DEF DrivePCs, Rets
  <2>2. CASE ~ok
    BY <2>2 DEF DrivePCs, Rets
  <2> QED
    BY <2>1, <2>2
<1> HIDE DEF ok, pc, ret
<1>5. drive' \in Drives /\ drive'.pc = pc
  BY <1>1, <1>3, <1>4 DEF Drives
<1>6. Current'
  <2> SUFFICES ASSUME pc = "top", NEW i \in DOMAIN state.outcomes
               PROVE  state.outcomes[i].tick <= state.tick
    BY <1>4, <1>5 DEF Current, Call
  <2>1. state.outcomes[i].tick \in 1..state.tick
    BY <1>4 DEF ok, validateInitialState
  <2> QED
    BY <2>1 DEF IInv, Types, States
<1> QED
  BY <1>2, <1>4, <1>5, <1>6, OutsideStep DEF Call

\* Drive returns an error before a batch has started.
LEMMA ReturnStep ==
  ASSUME IInv, ~inBatch, NEW err \in Rets,
         drive' = [drive EXCEPT !.pc = "idle", !.ret = err],
         UNCHANGED <<state, worker, records, permits, history>>
  PROVE  IInv'
<1>1. drive' \in Drives /\ drive'.pc = "idle"
  BY ReturnedDrive DEF IInv, Types
<1> QED
  BY <1>1, OutsideStep DEF Current

\* The context is looked at before every tick.
LEMMA CheckContextStep ==
  ASSUME IInv, CheckContext
  PROVE  IInv'
<1>1. ~inBatch /\ drive.pc = "top"
  BY DEF CheckContext, at, inBatch
<1>2. CASE drive.cancelled
  <2>1. drive' = [drive EXCEPT !.pc = "idle", !.ret = "Cancelled"]
        /\ UNCHANGED <<state, worker, records, permits, history>>
    BY <1>2 DEF CheckContext, return
  <2> QED
    BY <1>1, <2>1, ReturnStep DEF Rets
<1>3. CASE ~drive.cancelled
  <2>1. drive' \in Drives /\ drive'.pc = "schedule"
    <3>1. drive' = [drive EXCEPT !.pc = "schedule"]
      BY <1>3 DEF CheckContext, goto
    <3> QED
      BY <3>1, MovedDrive DEF IInv, Types, DrivePCs
  <2>2. Current'
    BY <1>1, <2>1 DEF IInv, Current, CheckContext
  <2> QED
    BY <1>1, <2>1, <2>2, OutsideStep DEF CheckContext
<1> QED
  BY <1>2, <1>3

\* The Scheduler fails, proposes a batch that is refused or empty, or one that
\* starts the launch loop.
LEMMA ScheduleStep ==
  ASSUME IInv, SchedulerFails \/ \E dispatches \in Batches : Schedule(dispatches)
  PROVE  IInv'
<1>1. CASE SchedulerFails
  <2>1. ~inBatch
    BY <1>1 DEF SchedulerFails, at, inBatch
  <2> QED
    BY <1>1, <2>1, ReturnStep DEF SchedulerFails, return, Rets
<1>2. ASSUME NEW dispatches \in Batches, Schedule(dispatches)
      PROVE  IInv'
  <2>1. ~inBatch /\ drive.pc = "schedule"
    BY <1>2 DEF Schedule, at, inBatch
  <2>2. CASE \E err \in Rets : drive' = [drive EXCEPT !.pc = "idle", !.ret = err]
    BY <1>2, <2>1, <2>2, ReturnStep DEF Schedule
  <2>3. CASE ~\E err \in Rets : drive' = [drive EXCEPT !.pc = "idle", !.ret = err]
    <3>1. validateBatch(state, dispatches)
          /\ drive' = [drive EXCEPT !.pc = "launch", !.batch = dispatches, !.index = 1,
                                    !.batchCancelled = FALSE]
      BY <1>2, <2>3 DEF Schedule, return, Rets
    <3>2. dispatches \in Seq(IDs)
      BY DEF Batches
    <3>3. drive' = [pc |-> "launch", calls |-> drive.calls, limit |-> drive.limit,
                    completed |-> drive.completed, batch |-> dispatches, index |-> 1,
                    cancelled |-> drive.cancelled, batchCancelled |-> FALSE,
                    ret |-> drive.ret]
      BY <3>1 DEF IInv, Types, Drives
    <3>4. drive' \in Drives
      BY <3>2, <3>3, DriveFields DEF IInv, Types, Drives, DrivePCs
    <3>5. UNCHANGED <<state, worker, records, permits, history>>
      BY <1>2 DEF Schedule
    <3>6. Types' /\ Canonical(state)' /\ Whole'
      BY <3>4, <3>5 DEF IInv, Types, Canonical, Whole, idsOf
    <3>7. Current'
      BY <2>1, <3>5 DEF IInv, Current
    <3>8. Quiet'
      BY <3>3 DEF Quiet, inBatch
    <3>9. worker = NoWorkers /\ records = <<>> /\ permits = 0 /\ history.succeeded = folded(state)
      BY <2>1 DEF IInv, Quiet
    <3>10. Running'
      <4>1. Len(dispatches) \in Nat /\ DOMAIN dispatches = 1..Len(dispatches)
        BY <3>2
      <4>2. \A i \in DOMAIN dispatches : dispatches[i] \notin folded(state)
        BY <3>1 DEF validateBatch
      <4>3. \A i, j \in DOMAIN dispatches : i # j => dispatches[i] # dispatches[j]
        BY <3>1 DEF validateBatch
      <4>4. okIDs' = {} /\ folded(state)' = folded(state)
        BY <3>5, <3>9 DEF okIDs, folded
      <4>5. \A id \in IDs : worker'[id] = "none"
        BY <3>5, <3>9 DEF NoWorkers
      <4>6. drive'.batch = dispatches /\ drive'.index = 1 /\ drive'.pc = "launch"
        BY <3>3
      <4>7. DOMAIN records' = {}
        BY <3>5, <3>9
      <4> QED
        BY <3>5, <3>9, <4>1, <4>2, <4>3, <4>4, <4>5, <4>6, <4>7 DEF Running
    <3>11. Reasons'
      BY <3>3, <3>5, <3>9 DEF Reasons, NoWorkers
    <3>12. PermitsExact'
      <4>1. atWork' = {} /\ Cardinality({}) = 0
        BY <3>5, <3>9, FS_EmptySet DEF atWork, NoWorkers
      <4>2. drive'.limit \in Nat /\ drive'.pc = "launch"
        BY <3>3, <3>4, DriveFields
      <4> QED
        BY <3>5, <3>9, <4>1, <4>2 DEF PermitsExact, IInv
    <3> QED
      BY <3>6, <3>7, <3>8, <3>10, <3>11, <3>12 DEF IInv
  <2> QED
    BY <2>2, <2>3
<1> QED
  BY <1>1, <1>2

\* The dispatches at work are finitely many.
LEMMA WorkingFinite == IsFiniteSet(atWork) /\ Cardinality(atWork) \in Nat
<1>1. atWork \in SUBSET IDs
  BY DEF atWork
<1>2. IsFiniteSet(atWork)
  BY <1>1, IDAssumption, FS_Subset
<1> QED
  BY <1>2, FS_CardinalityType

\* The launch loop looks at the context, waits for a permit and looks again.
LEMMA LaunchLoopStep ==
  ASSUME IInv, Launch \/ AcquirePermit \/ AcquireCancelled \/ Recheck
  PROVE  IInv'
<1>1. /\ drive \in Drives /\ permits \in Nat /\ drive.limit \in Nat /\ drive.index \in Nat
      /\ drive.batch \in Seq(IDs) /\ Len(drive.batch) \in Nat
  BY DriveFields DEF IInv, Types
\* A move of the loop to pc.
<1>2. ASSUME NEW pc \in DrivePCs, drive' = [drive EXCEPT !.pc = pc]
      PROVE  /\ drive' \in Drives /\ drive'.pc = pc
             /\ drive'.limit = drive.limit /\ drive'.batch = drive.batch
             /\ drive'.index = drive.index /\ drive'.cancelled = drive.cancelled
             /\ drive'.batchCancelled = drive.batchCancelled
  BY <1>1, <1>2, MovedDrive
<1>3. worker' = worker => atWork' = atWork
  BY DEF atWork
<1>4. CASE Launch
  <2> DEFINE pc == IF drive.index > Len(drive.batch) \/ batchDone THEN "wait"
                   ELSE IF drive.limit = 0 THEN "go" ELSE "acquire"
  <2>1. /\ pc \in {"wait", "go", "acquire"}
        /\ pc = "wait" => drive.index > Len(drive.batch) \/ batchDone
        /\ pc # "wait" => drive.index <= Len(drive.batch) /\ ~batchDone
        /\ pc = "go" => drive.limit = 0
        /\ pc = "acquire" => drive.limit # 0
    BY <1>1
  <2>2. drive' = [drive EXCEPT !.pc = pc] /\ drive.pc = "launch"
        /\ UNCHANGED <<state, worker, records, permits, history>>
    BY <1>4 DEF Launch, goto, at
  <2> HIDE DEF pc
  <2>3. pc \in DrivePCs
    BY <2>1 DEF DrivePCs
  <2>4. /\ drive' \in Drives /\ drive'.pc = pc
        /\ drive'.limit = drive.limit /\ drive'.batch = drive.batch
        /\ drive'.index = drive.index /\ drive'.cancelled = drive.cancelled
        /\ drive'.batchCancelled = drive.batchCancelled
    BY <1>2, <2>2, <2>3
  <2>5. inBatch /\ inBatch'
    BY <2>1, <2>2, <2>4 DEF inBatch
  <2>6. PermitsExact'
    BY <1>1, <1>3, <2>1, <2>2, <2>4 DEF IInv, PermitsExact
  <2> QED
    BY <1>1, <2>1, <2>2, <2>4, <2>5, <2>6, InsideStep
<1>5. CASE AcquirePermit
  <2>1. drive' = [drive EXCEPT !.pc = "recheck"] /\ drive.pc = "acquire"
        /\ permits < drive.limit /\ permits' = permits + 1
        /\ UNCHANGED <<state, worker, records, history>>
    BY <1>5 DEF AcquirePermit, goto, at
  <2>2. /\ drive' \in Drives /\ drive'.pc = "recheck"
        /\ drive'.limit = drive.limit /\ drive'.batch = drive.batch
        /\ drive'.index = drive.index /\ drive'.cancelled = drive.cancelled
        /\ drive'.batchCancelled = drive.batchCancelled
    BY <1>2, <2>1 DEF DrivePCs
  <2>3. inBatch /\ inBatch' /\ drive.index <= Len(drive.batch)
    BY <2>1, <2>2 DEF inBatch, IInv, Running
  <2>4. PermitsExact'
    BY <1>1, <1>3, <2>1, <2>2, WorkingFinite DEF IInv, PermitsExact
  <2> QED
    BY <1>1, <2>1, <2>2, <2>3, <2>4, InsideStep
<1>6. CASE AcquireCancelled
  <2>1. drive' = [drive EXCEPT !.pc = "wait"] /\ drive.pc = "acquire"
        /\ UNCHANGED <<state, worker, records, permits, history>>
    BY <1>6 DEF AcquireCancelled, goto, at
  <2>2. batchDone
    BY <1>6 DEF AcquireCancelled
  <2>3. /\ drive' \in Drives /\ drive'.pc = "wait"
        /\ drive'.limit = drive.limit /\ drive'.batch = drive.batch
        /\ drive'.index = drive.index /\ drive'.cancelled = drive.cancelled
        /\ drive'.batchCancelled = drive.batchCancelled
    BY <1>2, <2>1 DEF DrivePCs
  <2>4. inBatch /\ inBatch'
    BY <2>1, <2>3 DEF inBatch
  <2>5. PermitsExact'
    BY <1>1, <1>3, <2>1, <2>3 DEF IInv, PermitsExact
  <2> QED
    BY <1>1, <2>1, <2>3, <2>4, <2>5, <2>2, InsideStep
<1>7. CASE Recheck
  <2>1. drive.pc = "recheck" /\ UNCHANGED <<state, worker, records, history>>
    BY <1>7 DEF Recheck, at
  <2>2. /\ drive.limit > 0 /\ permits = Cardinality(atWork) + 1 /\ permits <= drive.limit
        /\ Cardinality(atWork) \in Nat
    <3>1. drive.limit > 0 /\ permits = Cardinality(atWork) + 1 /\ permits <= drive.limit
      BY <1>1, <2>1 DEF IInv, PermitsExact
    <3> QED
      BY <3>1, WorkingFinite
  <2>3. inBatch /\ drive.index <= Len(drive.batch)
    BY <2>1 DEF inBatch, IInv, Running
  <2>4. CASE batchDone
    <3>1. drive' = [drive EXCEPT !.pc = "wait"] /\ permits' = permits - 1
      BY <1>7, <2>4 DEF Recheck, goto
    <3>2. /\ drive' \in Drives /\ drive'.pc = "wait"
          /\ drive'.limit = drive.limit /\ drive'.batch = drive.batch
          /\ drive'.index = drive.index /\ drive'.cancelled = drive.cancelled
          /\ drive'.batchCancelled = drive.batchCancelled
      BY <1>2, <3>1 DEF DrivePCs
    <3>3. inBatch'
      BY <3>2 DEF inBatch
    <3>4. PermitsExact' /\ permits' \in Nat
      BY <1>1, <1>3, <2>1, <2>2, <3>1, <3>2 DEF IInv, PermitsExact
    <3> QED
      BY <2>1, <2>3, <2>4, <3>2, <3>3, <3>4, InsideStep
  <2>5. CASE ~batchDone
    <3>1. drive' = [drive EXCEPT !.pc = "go"] /\ permits' = permits
      BY <1>7, <2>5 DEF Recheck, goto
    <3>2. /\ drive' \in Drives /\ drive'.pc = "go"
          /\ drive'.limit = drive.limit /\ drive'.batch = drive.batch
          /\ drive'.index = drive.index /\ drive'.cancelled = drive.cancelled
          /\ drive'.batchCancelled = drive.batchCancelled
      BY <1>2, <3>1 DEF DrivePCs
    <3>3. inBatch'
      BY <3>2 DEF inBatch
    <3>4. ~drive.batchCancelled
      BY <2>5 DEF batchDone
    <3>5. PermitsExact'
      BY <1>1, <1>3, <2>1, <2>2, <3>1, <3>2, <3>4 DEF IInv, PermitsExact
    <3> QED
      BY <1>1, <2>1, <2>3, <3>1, <3>2, <3>3, <3>5, InsideStep
  <2> QED
    BY <2>4, <2>5
<1> QED
  BY <1>4, <1>5, <1>6, <1>7

\* The caller's context ends.
LEMMA CallerCancelsStep ==
  ASSUME IInv, CallerCancels
  PROVE  IInv'
<1>1. drive \in Drives /\ permits \in Nat
  BY DEF IInv, Types
<1>2. /\ drive' \in Drives /\ drive'.pc = drive.pc
      /\ drive'.limit = drive.limit /\ drive'.batch = drive.batch
      /\ drive'.index = drive.index /\ drive'.cancelled
      /\ drive'.batchCancelled = drive.batchCancelled
  BY <1>1 DEF CallerCancels, Drives
<1>3. UNCHANGED <<state, worker, records, permits, history>>
  BY DEF CallerCancels
<1>4. inBatch' <=> inBatch
  BY <1>2 DEF inBatch
<1>5. CASE inBatch
  <2>1. PermitsExact'
    BY <1>2, <1>3 DEF IInv, PermitsExact, atWork
  <2>2. drive.pc \in {"acquire", "recheck", "go"} => drive.index <= Len(drive.batch)
    BY <1>5 DEF IInv, Running
  <2> QED
    BY <1>1, <1>2, <1>3, <1>4, <1>5, <2>1, <2>2, InsideStep
<1>6. CASE ~inBatch
  <2>1. Current'
    BY <1>2, <1>3 DEF IInv, Current
  <2>2. drive'.pc \in {"idle", "top", "schedule"}
    BY <1>1, <1>2, <1>6, DriveFields DEF inBatch, DrivePCs
  <2> QED
    BY <1>2, <1>3, <1>6, <2>1, <2>2, OutsideStep
<1> QED
  BY <1>5, <1>6

-----------------------------------------------------------------------------
(* The goroutines of the dispatches.                                       *)

\* The launch loop starts the goroutine of the next dispatch.
LEMMA GoStep ==
  ASSUME IInv, Go
  PROVE  IInv'
<1> DEFINE id == drive.batch[drive.index]
<1>1. /\ drive \in Drives /\ permits \in Nat /\ drive.limit \in Nat /\ drive.index \in Nat
      /\ drive.batch \in Seq(IDs) /\ Len(drive.batch) \in Nat
      /\ DOMAIN drive.batch = 1..Len(drive.batch)
      /\ worker \in [IDs -> WorkerStates] /\ history \in Histories
  BY DriveFields DEF IInv, Types
<1>2. drive.pc = "go" /\ inBatch /\ drive.index \in DOMAIN drive.batch
  <2>1. drive.pc = "go" /\ inBatch
    BY DEF Go, at, inBatch
  <2>2. drive.index \in 1..Len(drive.batch) + 1 /\ drive.index <= Len(drive.batch)
    BY <2>1 DEF IInv, Running
  <2> QED
    BY <1>1, <2>1, <2>2
<1>3. id \in IDs
  BY <1>1, <1>2
<1>4. /\ worker' = [worker EXCEPT ![id] = "running"]
      /\ drive' = [drive EXCEPT !.pc = "launch", !.index = drive.index + 1]
      /\ history' = [history EXCEPT !.calls[id] = @ + 1,
                       !.late = @ \/ (drive.batchCancelled /\ drive.limit = 1)]
      /\ state' = state /\ records' = records /\ permits' = permits
  BY DEF Go
<1>5. /\ drive' \in Drives /\ drive'.pc = "launch" /\ drive'.index = drive.index + 1
      /\ drive'.limit = drive.limit /\ drive'.batch = drive.batch
      /\ drive'.cancelled = drive.cancelled /\ drive'.batchCancelled = drive.batchCancelled
  <2> DEFINE m == [drive EXCEPT !.pc = "launch"]
  <2>1. /\ m \in Drives /\ m.pc = "launch" /\ m.limit = drive.limit /\ m.batch = drive.batch
        /\ m.index = drive.index /\ m.cancelled = drive.cancelled
        /\ m.batchCancelled = drive.batchCancelled
    BY <1>1, MovedDrive DEF DrivePCs
  <2>2. drive' = [m EXCEPT !.index = drive.index + 1]
    BY <1>4
  <2> HIDE DEF m
  <2>3. drive.index + 1 \in Nat
    BY <1>1
  <2> QED
    BY <2>1, <2>2, <2>3 DEF Drives
<1>6. ~(drive.batchCancelled /\ drive.limit = 1) /\ ~history.late
  BY <1>2 DEF IInv, PermitsExact
<1>7. /\ history' \in Histories /\ history'.batches = history.batches
      /\ history'.succeeded = history.succeeded /\ ~history'.late
  <2> DEFINE h == [history EXCEPT !.calls[id] = @ + 1]
  <2>1. /\ h \in Histories /\ h.batches = history.batches
        /\ h.succeeded = history.succeeded /\ h.late = history.late
    <3> DEFINE c == [history.calls EXCEPT ![id] = @ + 1]
    <3>1. history.calls \in [IDs -> Nat]
      BY <1>1 DEF Histories
    <3>2. c \in [IDs -> Nat]
      BY <1>3, <3>1
    <3>3. h = [history EXCEPT !.calls = c]
      BY <1>1 DEF Histories
    <3> HIDE DEF c, h
    <3> QED
      BY <1>1, <3>2, <3>3 DEF Histories
  <2>2. history' = [h EXCEPT !.late = FALSE]
    BY <1>4, <1>6
  <2> HIDE DEF h
  <2> QED
    BY <2>1, <2>2 DEF Histories
<1> HIDE DEF id
<1>8. worker[id] = "none"
  BY <1>1, <1>2, <1>3 DEF IInv, Running, id
<1>9. /\ worker' \in [IDs -> WorkerStates] /\ worker'[id] = "running"
      /\ \A x \in IDs : x # id => worker'[x] = worker[x]
  BY <1>1, <1>3, <1>4 DEF WorkerStates
<1>10. Types' /\ Canonical(state)' /\ Whole' /\ Current' /\ Quiet' /\ inBatch'
  <2>1. Types'
    BY <1>4, <1>5, <1>7, <1>9 DEF IInv, Types
  <2>2. Canonical(state)' /\ Whole'
    BY <1>4, <1>7 DEF IInv, Canonical, Whole, idsOf
  <2>3. Current' /\ Quiet' /\ inBatch'
    BY <1>2, <1>4, <1>5 DEF IInv, Current, Quiet, inBatch
  <2> QED
    BY <2>1, <2>2, <2>3
<1>11. Running'
  <2>1. ASSUME NEW x \in IDs
        PROVE  worker'[x] # "none" <=>
                 \E i \in DOMAIN drive.batch : i < drive.index + 1 /\ drive.batch[i] = x
    <3>1. worker[x] # "none" <=>
            \E i \in DOMAIN drive.batch : i < drive.index /\ drive.batch[i] = x
      BY <1>2 DEF IInv, Running
    <3> QED
      BY <1>1, <1>2, <1>8, <1>9, <3>1 DEF id
  <2>2. ASSUME NEW x \in IDs
        PROVE  worker'[x] \in {"cancelling", "releasing", "done"} <=>
                 \E k \in DOMAIN records : records[k].id = x
    <3>1. worker[x] \in {"cancelling", "releasing", "done"} <=>
            \E k \in DOMAIN records : records[k].id = x
      BY <1>2 DEF IInv, Running
    <3> QED
      BY <1>8, <1>9, <3>1
  <2>3. folded(state)' = folded(state) /\ okIDs' = okIDs
    BY <1>4 DEF folded, okIDs
  <2>4. drive'.index \in 1..Len(drive'.batch) + 1
    BY <1>1, <1>2, <1>5
  <2> QED
    BY <1>2, <1>4, <1>5, <1>7, <2>1, <2>2, <2>3, <2>4 DEF IInv, Running
<1>12. Reasons'
  <2>1. \A x \in IDs : worker'[x] = "cancelling" => worker[x] = "cancelling"
    BY <1>9
  <2> QED
    BY <1>2, <1>4, <1>5, <2>1 DEF IInv, Reasons
<1>13. PermitsExact'
  <2>1. atWork' = atWork \cup {id} /\ id \notin atWork
    BY <1>3, <1>8, <1>9 DEF atWork
  <2>2. Cardinality(atWork') = Cardinality(atWork) + 1
    BY <2>1, WorkingFinite, FS_AddElement
  <2> QED
    BY <1>1, <1>2, <1>4, <1>5, <1>7, <2>2, WorkingFinite DEF IInv, PermitsExact
<1> QED
  BY <1>10, <1>11, <1>12, <1>13 DEF IInv

\* A goroutine exists only while its batch runs.
LEMMA WorkerInBatch ==
  ASSUME IInv, NEW id \in IDs, worker[id] # "none"
  PROVE  inBatch
BY DEF IInv, Quiet, NoWorkers

\* The Executor of a dispatch returns.
LEMMA ExecuteStep ==
  ASSUME IInv, NEW id \in IDs, NEW err \in BOOLEAN, NEW result \in Results,
         Execute(id, err, result)
  PROVE  IInv'
<1> DEFINE w == IF err THEN "cancelling" ELSE "releasing"
           r == [id |-> id, err |-> err, result |-> result]
<1>1. /\ worker \in [IDs -> WorkerStates] /\ records \in Seq(Execution) /\ history \in Histories
  BY DEF IInv, Types
<1>2. worker[id] = "running" /\ inBatch
  BY WorkerInBatch DEF Execute
<1>3. /\ worker' = [worker EXCEPT ![id] = w] /\ records' = Append(records, r)
      /\ history' = (IF err THEN history ELSE [history EXCEPT !.succeeded = @ \cup {id}])
      /\ state' = state /\ drive' = drive /\ permits' = permits
  BY DEF Execute
<1>4. w \in {"cancelling", "releasing"} /\ (w = "cancelling" <=> err)
  OBVIOUS
<1>5. r \in Execution /\ r.id = id /\ r.err = err
  BY DEF Execution
<1> HIDE DEF w, r
<1>6. /\ worker' \in [IDs -> WorkerStates] /\ worker'[id] = w
      /\ \A x \in IDs : x # id => worker'[x] = worker[x]
  BY <1>1, <1>3, <1>4 DEF WorkerStates
<1>7. /\ records' \in Seq(Execution) /\ DOMAIN records' = DOMAIN records \cup {Len(records) + 1}
      /\ records'[Len(records) + 1] = r
      /\ \A k \in DOMAIN records : records'[k] = records[k]
      /\ Len(records) + 1 \notin DOMAIN records
  BY <1>1, <1>3, <1>5
<1>8. /\ history' \in Histories /\ history'.batches = history.batches
      /\ history'.late = history.late
      /\ history'.succeeded = history.succeeded \cup (IF err THEN {} ELSE {id})
  <2>1. CASE err
    BY <1>1, <1>3, <2>1 DEF Histories
  <2>2. CASE ~err
    BY <1>1, <1>3, <2>2 DEF Histories
  <2> QED
    BY <2>1, <2>2
<1>9. Types'
  BY <1>3, <1>6, <1>7, <1>8 DEF IInv, Types
<1>10. Canonical(state)' /\ Whole'
  BY <1>3, <1>8 DEF IInv, Canonical, Whole, idsOf
<1>11. Current' /\ Quiet' /\ inBatch'
  BY <1>2, <1>3 DEF IInv, Current, Quiet, inBatch
<1>12. okIDs' = okIDs \cup (IF err THEN {} ELSE {id})
  <2>1. \A x : x \in okIDs' <=> \E k \in DOMAIN records' : ~records'[k].err /\ records'[k].id = x
    BY DEF okIDs
  <2>2. \A x : x \in okIDs <=> \E k \in DOMAIN records : ~records[k].err /\ records[k].id = x
    BY DEF okIDs
  <2>3. CASE err
    <3>1. records'[Len(records) + 1].err
      BY <1>5, <1>7, <2>3
    <3>2. \A x : x \in okIDs' <=> x \in okIDs
      BY <1>7, <2>1, <2>2, <3>1
    <3> QED
      BY <2>3, <3>2
  <2>4. CASE ~err
    BY <1>5, <1>7, <2>1, <2>2, <2>4
  <2> QED
    BY <2>3, <2>4
<1>13. Running'
  <2>1. ASSUME NEW x \in IDs
        PROVE  /\ worker'[x] # "none" <=> worker[x] # "none"
               /\ worker'[x] \in {"cancelling", "releasing", "done"} <=>
                    \E k \in DOMAIN records' : records'[k].id = x
    <3>1. worker[x] \in {"cancelling", "releasing", "done"} <=>
            \E k \in DOMAIN records : records[k].id = x
      BY <1>2 DEF IInv, Running
    <3> QED
      BY <1>2, <1>4, <1>5, <1>6, <1>7, <3>1
  <2>2. \A k, l \in DOMAIN records' : k # l => records'[k].id # records'[l].id
    <3>1. \A k \in DOMAIN records : records[k].id # id
      BY <1>2 DEF IInv, Running
    <3>2. \A k, l \in DOMAIN records : k # l => records[k].id # records[l].id
      BY <1>2 DEF IInv, Running
    <3> QED
      BY <1>5, <1>7, <3>1, <3>2
  <2>3. folded(state)' = folded(state)
    BY <1>3 DEF folded
  <2>4. history'.succeeded = folded(state)' \cup okIDs'
    BY <1>2, <1>8, <1>12, <2>3 DEF IInv, Running
  <2> QED
    BY <1>2, <1>3, <2>1, <2>2, <2>3, <2>4 DEF IInv, Running
<1>14. Reasons'
  <2>1. (\E k \in DOMAIN records : records[k].err) \/ err => \E k \in DOMAIN records' : records'[k].err
    BY <1>5, <1>7
  <2>2. \A x \in IDs : worker'[x] = "cancelling" => worker[x] = "cancelling" \/ err
    BY <1>4, <1>6
  <2>3. batchDone' = batchDone
    BY <1>3 DEF batchDone
  <2> QED
    BY <1>2, <1>3, <2>1, <2>2, <2>3 DEF IInv, Reasons
<1>15. PermitsExact'
  <2>1. atWork' = atWork
    BY <1>2, <1>4, <1>6 DEF atWork
  <2> QED
    BY <1>3, <1>8, <2>1 DEF IInv, PermitsExact
<1> QED
  BY <1>9, <1>10, <1>11, <1>13, <1>14, <1>15 DEF IInv

\* A failed dispatch cancels its siblings.  With one permit it still holds it,
\* so the loop cannot be about to launch another.
LEMMA CancelBatchStep ==
  ASSUME IInv, NEW id \in IDs, CancelBatch(id)
  PROVE  IInv'
<1>1. drive \in Drives /\ worker \in [IDs -> WorkerStates] /\ permits \in Nat /\ drive.limit \in Nat
  BY DriveFields DEF IInv, Types
<1>2. worker[id] = "cancelling" /\ inBatch
  BY WorkerInBatch DEF CancelBatch
<1>3. /\ drive' \in Drives /\ drive'.pc = drive.pc /\ drive'.batchCancelled
      /\ drive'.limit = drive.limit /\ drive'.batch = drive.batch
      /\ drive'.index = drive.index /\ drive'.cancelled = drive.cancelled
  BY <1>1 DEF CancelBatch, Drives
<1>4. UNCHANGED <<state, records, permits, history>>
  BY DEF CancelBatch
<1>5. /\ worker' \in [IDs -> WorkerStates] /\ worker'[id] = "releasing"
      /\ \A x \in IDs : x # id => worker'[x] = worker[x]
  BY <1>1 DEF CancelBatch, WorkerStates
<1>6. Types' /\ Canonical(state)' /\ Whole'
  BY <1>3, <1>4, <1>5 DEF IInv, Types, Canonical, Whole, idsOf
<1>7. Current' /\ Quiet' /\ inBatch'
  BY <1>2, <1>3, <1>4 DEF IInv, Current, Quiet, inBatch
<1>8. Running'
  <2>1. \A x \in IDs :
          /\ worker'[x] # "none" <=> worker[x] # "none"
          /\ worker'[x] \in {"cancelling", "releasing", "done"} <=>
               worker[x] \in {"cancelling", "releasing", "done"}
    BY <1>2, <1>5
  <2>2. folded(state)' = folded(state) /\ okIDs' = okIDs
    BY <1>4 DEF folded, okIDs
  <2> QED
    BY <1>2, <1>3, <1>4, <2>1, <2>2 DEF IInv, Running
<1>9. Reasons'
  <2>1. \E k \in DOMAIN records : records[k].err
    BY <1>2 DEF IInv, Reasons
  <2>2. batchDone'
    BY <1>3 DEF batchDone
  <2> QED
    BY <1>4, <2>1, <2>2 DEF Reasons
<1>10. PermitsExact'
  <2>1. atWork' = atWork /\ id \in atWork
    BY <1>2, <1>5 DEF atWork
  <2>2. Cardinality(atWork) # 0
    BY <2>1, WorkingFinite, FS_EmptySet
  <2>3. ~(drive.limit = 1 /\ drive.pc = "go")
    BY <1>1, <2>2, WorkingFinite DEF IInv, PermitsExact
  <2> QED
    BY <1>1, <1>3, <1>4, <2>1, <2>3 DEF IInv, PermitsExact
<1> QED
  BY <1>6, <1>7, <1>8, <1>9, <1>10 DEF IInv

\* A goroutine gives its permit back and ends.
LEMMA ReleaseStep ==
  ASSUME IInv, NEW id \in IDs, Release(id)
  PROVE  IInv'
<1>1. drive \in Drives /\ worker \in [IDs -> WorkerStates] /\ permits \in Nat /\ drive.limit \in Nat
  BY DriveFields DEF IInv, Types
<1>2. worker[id] = "releasing" /\ inBatch
  BY WorkerInBatch DEF Release
<1>3. UNCHANGED <<state, drive, records, history>>
      /\ permits' = (IF drive.limit = 0 THEN permits ELSE permits - 1)
  BY DEF Release
<1>4. /\ worker' \in [IDs -> WorkerStates] /\ worker'[id] = "done"
      /\ \A x \in IDs : x # id => worker'[x] = worker[x]
  BY <1>1 DEF Release, WorkerStates
<1>5. PermitsExact' /\ permits' \in Nat
  <2>1. atWork' = atWork \ {id} /\ id \in atWork
    BY <1>2, <1>4 DEF atWork
  <2>2. Cardinality(atWork') = Cardinality(atWork) - 1 /\ Cardinality(atWork') \in Nat
    <3>1. IsFiniteSet(atWork \ {id}) /\ Cardinality(atWork \ {id}) = Cardinality(atWork) - 1
      BY <2>1, WorkingFinite, FS_RemoveElement
    <3> QED
      BY <2>1, <3>1, FS_CardinalityType
  <2> QED
    BY <1>1, <1>3, <2>2, WorkingFinite DEF IInv, PermitsExact
<1>6. Types' /\ Canonical(state)' /\ Whole'
  BY <1>3, <1>4, <1>5 DEF IInv, Types, Canonical, Whole, idsOf
<1>7. Current' /\ Quiet' /\ inBatch'
  BY <1>2, <1>3 DEF IInv, Current, Quiet, inBatch
<1>8. Running'
  <2>1. \A x \in IDs :
          /\ worker'[x] # "none" <=> worker[x] # "none"
          /\ worker'[x] \in {"cancelling", "releasing", "done"} <=>
               worker[x] \in {"cancelling", "releasing", "done"}
    BY <1>2, <1>4
  <2>2. folded(state)' = folded(state) /\ okIDs' = okIDs
    BY <1>3 DEF folded, okIDs
  <2> QED
    BY <1>2, <1>3, <2>1, <2>2 DEF IInv, Running
<1>9. Reasons'
  <2>1. \A x \in IDs : worker'[x] = "cancelling" => worker[x] = "cancelling"
    BY <1>4
  <2>2. batchDone' = batchDone
    BY <1>3 DEF batchDone
  <2> QED
    BY <1>2, <1>3, <2>1, <2>2 DEF IInv, Reasons
<1> QED
  BY <1>5, <1>6, <1>7, <1>8, <1>9 DEF IInv

-----------------------------------------------------------------------------
(* Folding the records.                                                    *)

\* What is folded: outcomes with distinct IDs, those of earlier ticks and those
\* of the dispatches that succeeded in this one.
LEMMA Collected ==
  ASSUME IInv, inBatch
  PROVE  LET S == collected(state, records)
         IN /\ IsFiniteSet(S) /\ S \subseteq Outcome
            /\ \A a, b \in S : a # b => a.id # b.id
            /\ \A a \in S : a.tick <= state.tick + 1
            /\ \A t \in 1..state.tick : {a.id : a \in {x \in S : x.tick = t}} = idsOf(state, t)
            /\ {a.id : a \in {x \in S : x.tick = state.tick + 1}} = okIDs
            /\ {a.id : a \in S} = folded(state) \cup okIDs
<1> DEFINE ok == {j \in DOMAIN records : ~records[j].err}
           kept == {state.outcomes[i] : i \in DOMAIN state.outcomes}
           new == {outcomeOf(state, records[i]) : i \in ok}
           S == collected(state, records)
<1>1. /\ state \in States /\ state.tick \in Nat /\ state.outcomes \in Seq(Outcome)
      /\ records \in Seq(Execution) /\ Len(records) \in Nat /\ Len(state.outcomes) \in Nat
      /\ DOMAIN records = 1..Len(records) /\ DOMAIN state.outcomes = 1..Len(state.outcomes)
  BY DEF IInv, Types, States
<1>2. S = kept \cup new
  BY DEF collected
<1>3. \A i \in ok : /\ outcomeOf(state, records[i]) \in Outcome
                    /\ outcomeOf(state, records[i]).tick = state.tick + 1
                    /\ outcomeOf(state, records[i]).id = records[i].id
  <2> SUFFICES ASSUME NEW i \in ok
               PROVE  /\ outcomeOf(state, records[i]) \in Outcome
                      /\ outcomeOf(state, records[i]).tick = state.tick + 1
                      /\ outcomeOf(state, records[i]).id = records[i].id
    OBVIOUS
  <2>1. records[i] \in Execution
    BY <1>1
  <2>2. records[i].id \in IDs /\ records[i].result \in Results
    BY <2>1 DEF Execution
  <2> QED
    BY <1>1, <2>2 DEF outcomeOf, Outcome
<1>4. \A i \in DOMAIN state.outcomes :
        state.outcomes[i] \in Outcome /\ state.outcomes[i].tick <= state.tick
        /\ state.outcomes[i].tick \in Nat
  <2>1. \A i \in DOMAIN state.outcomes : state.outcomes[i] \in Outcome
    BY <1>1
  <2>2. \A i \in DOMAIN state.outcomes : state.outcomes[i].tick \in Nat
    BY <2>1 DEF Outcome
  <2>3. \A i \in DOMAIN state.outcomes : state.outcomes[i].tick <= state.tick
    BY DEF IInv, Current, inBatch
  <2> QED
    BY <2>1, <2>2, <2>3
<1>5. \A i, j \in DOMAIN state.outcomes : i # j => state.outcomes[i].id # state.outcomes[j].id
  BY <1>1 DEF IInv, Canonical
<1>6. \A i, j \in ok : i # j => records[i].id # records[j].id
  BY DEF IInv, Running
<1>7. \A i \in ok : \A j \in DOMAIN state.outcomes : state.outcomes[j].id # records[i].id
  <2> SUFFICES ASSUME NEW i \in ok PROVE records[i].id \notin folded(state)
    BY DEF folded
  <2>1. records[i].id \in IDs
    <3>1. records[i] \in Execution
      BY <1>1
    <3> QED
      BY <3>1 DEF Execution
  <2>2. worker[records[i].id] \in {"cancelling", "releasing", "done"}
    BY <2>1 DEF IInv, Running
  <2>3. \E k \in DOMAIN drive.batch : drive.batch[k] = records[i].id
    BY <2>1, <2>2 DEF IInv, Running
  <2> QED
    BY <2>3 DEF IInv, Running
<1>8. IsFiniteSet(S)
  <2>1. IsFiniteSet(1..Len(state.outcomes)) /\ IsFiniteSet(1..Len(records))
    BY <1>1, FS_Interval
  <2>2. state.outcomes \in Surjection(1..Len(state.outcomes), kept)
    BY <1>1 DEF Surjection
  <2>3. IsFiniteSet(kept)
    BY <2>1, <2>2, FS_Surjection
  <2>4. IsFiniteSet(ok)
    <3>1. ok \in SUBSET (1..Len(records))
      BY <1>1
    <3> QED
      BY <2>1, <3>1, FS_Subset
  <2>5. [i \in ok |-> outcomeOf(state, records[i])] \in Surjection(ok, new)
    BY DEF Surjection
  <2>6. IsFiniteSet(new)
    BY <2>4, <2>5, FS_Surjection
  <2> QED
    BY <1>2, <2>3, <2>6, FS_Union
<1>9. okIDs = {records[i].id : i \in ok}
  BY DEF okIDs
<1> HIDE DEF S, ok
<1>10. \A a \in S : \/ \E i \in DOMAIN state.outcomes : a = state.outcomes[i]
                    \/ \E i \in ok : a = outcomeOf(state, records[i])
  BY <1>2
<1>11. /\ \A i \in DOMAIN state.outcomes : state.outcomes[i] \in S
       /\ \A i \in ok : outcomeOf(state, records[i]) \in S
  BY <1>2
<1>12. S \subseteq Outcome
  BY <1>3, <1>4, <1>10
<1>13. \A a, b \in S : a # b => a.id # b.id
  <2> SUFFICES ASSUME NEW a \in S, NEW b \in S, a # b PROVE a.id # b.id
    OBVIOUS
  <2>1. CASE \E i \in DOMAIN state.outcomes : a = state.outcomes[i]
    BY <1>3, <1>5, <1>7, <1>10, <2>1
  <2>2. CASE \E i \in ok : a = outcomeOf(state, records[i])
    BY <1>3, <1>6, <1>7, <1>10, <2>2
  <2> QED
    BY <1>10, <2>1, <2>2
<1>14. \A a \in S : a.tick <= state.tick + 1
  BY <1>1, <1>3, <1>4, <1>10
<1>15. ASSUME NEW t \in 1..state.tick
       PROVE  {a.id : a \in {x \in S : x.tick = t}} = idsOf(state, t)
  <2>1. \A a \in S : a.tick = t => \E i \in DOMAIN state.outcomes : a = state.outcomes[i]
    BY <1>1, <1>3, <1>10
  <2> QED
    BY <1>11, <2>1 DEF idsOf
<1>16. {a.id : a \in {x \in S : x.tick = state.tick + 1}} = okIDs
  <2>1. \A a \in S : a.tick = state.tick + 1 => \E i \in ok : a = outcomeOf(state, records[i])
    BY <1>1, <1>4, <1>10
  <2> QED
    BY <1>3, <1>9, <1>11, <2>1
<1>17. {a.id : a \in S} = folded(state) \cup okIDs
  BY <1>3, <1>9, <1>10, <1>11 DEF folded
<1> QED
  BY <1>8, <1>12, <1>13, <1>14, <1>15, <1>16, <1>17 DEF S

\* The State after the fold: canonical, the earlier ticks as they were, and in
\* the new tick the dispatches that succeeded.
LEMMA Folded ==
  ASSUME IInv, inBatch
  PROVE  LET next == fold(state, records)
         IN /\ next \in States /\ next.tick = state.tick
            /\ Canonical(next)
            /\ \A t \in 1..state.tick : idsOf(next, t) = idsOf(state, t)
            /\ idsOf(next, state.tick + 1) = okIDs
            /\ folded(next) = folded(state) \cup okIDs
<1> DEFINE S == collected(state, records)
           next == fold(state, records)
           out == sorted(S)
<1>1. /\ IsFiniteSet(S) /\ S \subseteq Outcome
      /\ \A a, b \in S : a # b => a.id # b.id
      /\ \A a \in S : a.tick <= state.tick + 1
      /\ \A t \in 1..state.tick : {a.id : a \in {x \in S : x.tick = t}} = idsOf(state, t)
      /\ {a.id : a \in {x \in S : x.tick = state.tick + 1}} = okIDs
      /\ {a.id : a \in S} = folded(state) \cup okIDs
  BY Collected
<1> HIDE DEF S
<1>2. /\ out \in Seq(S)
      /\ \A i, j \in DOMAIN out : i < j => outcomeLess(out[i], out[j])
      /\ S = {out[i] : i \in DOMAIN out}
  BY <1>1, SortedOutcomes
<1>3. next \in States /\ next.tick = state.tick /\ next.outcomes = out
  <2>1. out \in Seq(Outcome)
    BY <1>1, <1>2
  <2>2. state \in States
    BY DEF IInv, Types
  <2> QED
    BY <2>1, <2>2 DEF fold, States, S
<1> HIDE DEF next, out
<1>4. \A t : idsOf(next, t) = {a.id : a \in {x \in S : x.tick = t}}
  BY <1>2, <1>3 DEF idsOf
<1>5. folded(next) = {a.id : a \in S}
  BY <1>2, <1>3 DEF folded
<1>6. Canonical(next)
  <2>1. ASSUME NEW i \in DOMAIN out, NEW j \in DOMAIN out, i < j
        PROVE  outcomeLess(out[i], out[j]) /\ out[i].id # out[j].id
    <3>1. outcomeLess(out[i], out[j]) /\ out[i] \in S /\ out[j] \in S
      BY <1>2, <2>1
    <3>2. out[i] # out[j]
      BY <1>1, <3>1, OutcomeOrder
    <3> QED
      BY <1>1, <3>1, <3>2
  <2>2. \A i \in DOMAIN out : out[i].tick <= state.tick + 1
    BY <1>1, <1>2
  <2> QED
    BY <1>3, <2>1, <2>2 DEF Canonical
<1> QED
  BY <1>1, <1>3, <1>4, <1>5, <1>6 DEF next

\* A batch that fails nowhere and is not cancelled has an outcome for each of
\* its dispatches.
LEMMA BatchWhole ==
  ASSUME IInv, drive.pc = "wait", \A id \in IDs : worker[id] \in {"none", "done"},
         ~drive.cancelled, \A i \in DOMAIN records : ~records[i].err
  PROVE  okIDs = {drive.batch[i] : i \in DOMAIN drive.batch}
<1>1. inBatch
  BY DEF inBatch
<1>2. /\ drive.batch \in Seq(IDs) /\ DOMAIN drive.batch = 1..Len(drive.batch)
      /\ Len(drive.batch) \in Nat /\ drive.index \in Nat
      /\ \A i \in DOMAIN drive.batch : drive.batch[i] \in IDs
  BY DriveFields DEF IInv, Types
<1>3. ~batchDone
  BY <1>1 DEF IInv, Reasons, batchDone
<1>4. drive.index > Len(drive.batch)
  BY <1>1, <1>3 DEF IInv, Reasons
<1>5. ASSUME NEW id \in IDs
      PROVE  id \in okIDs <=> \E i \in DOMAIN drive.batch : drive.batch[i] = id
  <2>1. worker[id] # "none" <=>
          \E i \in DOMAIN drive.batch : i < drive.index /\ drive.batch[i] = id
    BY <1>1 DEF IInv, Running
  <2>2. worker[id] \in {"cancelling", "releasing", "done"} <=>
          \E k \in DOMAIN records : records[k].id = id
    BY <1>1 DEF IInv, Running
  <2>3. id \in okIDs <=> \E k \in DOMAIN records : records[k].id = id
    BY DEF okIDs
  <2> QED
    BY <1>2, <1>4, <2>1, <2>2, <2>3
<1>6. okIDs \subseteq IDs
  <2>1. \A k \in DOMAIN records : records[k] \in Execution
    BY DEF IInv, Types
  <2> QED
    BY <2>1 DEF okIDs, Execution
<1> QED
  BY <1>2, <1>5, <1>6

\* The batch ends: its records are folded, and the tick counts if none failed.
LEMMA WaitStep ==
  ASSUME IInv, Wait
  PROVE  IInv'
<1> DEFINE next == fold(state, records)
           failed == drive.cancelled \/ \E i \in DOMAIN records : records[i].err
           ids == {drive.batch[i] : i \in DOMAIN drive.batch}
<1>1. drive.pc = "wait" /\ inBatch
  BY DEF Wait, at, inBatch
<1>2. /\ state' = IF failed THEN next ELSE [next EXCEPT !.tick = @ + 1]
      /\ drive' = IF failed THEN [drive EXCEPT !.pc = "idle", !.ret = "DispatchError"]
                  ELSE [drive EXCEPT !.pc = "top", !.completed = @ + 1]
      /\ history' = [history EXCEPT !.batches = IF failed THEN @ ELSE Append(@, ids)]
      /\ worker' = NoWorkers /\ records' = <<>> /\ permits' = 0
  BY DEF Wait
<1>3. /\ next \in States /\ next.tick = state.tick
      /\ Canonical(next)
      /\ \A t \in 1..state.tick : idsOf(next, t) = idsOf(state, t)
      /\ idsOf(next, state.tick + 1) = okIDs
      /\ folded(next) = folded(state) \cup okIDs
  BY <1>1, Folded
<1>4. /\ drive \in Drives /\ history \in Histories /\ state.tick \in Nat
      /\ history.batches \in Seq(SUBSET IDs) /\ Len(history.batches) \in Nat
      /\ drive.batch \in Seq(IDs) /\ drive.completed \in Nat
  BY DriveFields DEF IInv, Types, Histories, States
<1>5. ~failed => okIDs = ids
  BY <1>1, BatchWhole DEF Wait
<1>6. history.succeeded = folded(state) \cup okIDs
  BY <1>1 DEF IInv, Running
<1>7. ids \in SUBSET IDs
  BY <1>4
<1> HIDE DEF next, failed, ids
<1>8. /\ drive' \in Drives /\ drive'.pc \in {"idle", "top"} /\ drive'.limit = drive.limit
      /\ drive'.pc = "idle" <=> failed
  <2>1. CASE failed
    BY <1>2, <1>4, <2>1, ReturnedDrive DEF Rets
  <2>2. CASE ~failed
    <3> DEFINE m == [drive EXCEPT !.pc = "top"]
    <3>1. m \in Drives /\ m.pc = "top" /\ m.limit = drive.limit
      BY <1>4, MovedDrive DEF DrivePCs
    <3>2. drive' = [m EXCEPT !.completed = drive.completed + 1]
      BY <1>2, <2>2
    <3> HIDE DEF m
    <3>3. drive.completed + 1 \in Nat
      BY <1>4
    <3> QED
      BY <2>2, <3>1, <3>2, <3>3 DEF Drives
  <2> QED
    BY <2>1, <2>2
<1>9. /\ state' \in States /\ state'.outcomes = next.outcomes
      /\ state'.tick = IF failed THEN state.tick ELSE state.tick + 1
  <2>1. CASE failed
    BY <1>2, <1>3, <2>1
  <2>2. CASE ~failed
    BY <1>2, <1>3, <1>4, <2>2 DEF States
  <2> QED
    BY <2>1, <2>2
<1>10. /\ history' \in Histories /\ history'.succeeded = history.succeeded
       /\ history'.late = history.late
       /\ history'.batches = IF failed THEN history.batches ELSE Append(history.batches, ids)
  <2>1. (IF failed THEN history.batches ELSE Append(history.batches, ids)) \in Seq(SUBSET IDs)
    BY <1>4, <1>7
  <2> QED
    BY <1>2, <1>4, <2>1 DEF Histories
<1>11. Types'
  BY <1>2, <1>8, <1>9, <1>10 DEF Types, NoWorkers, WorkerStates
<1>12. Canonical(state)'
  <2>1. \A i \in DOMAIN next.outcomes : next.outcomes[i].tick \in Nat
    <3>1. \A i \in DOMAIN next.outcomes : next.outcomes[i] \in Outcome
      BY <1>3 DEF States
    <3> QED
      BY <3>1 DEF Outcome
  <2> QED
    BY <1>3, <1>4, <1>9, <2>1 DEF Canonical
<1>13. Whole'
  <2>1. \A t : idsOf(state, t)' = idsOf(next, t)
    BY <1>9 DEF idsOf
  <2>2. Len(history.batches) = state.tick
        /\ \A t \in 1..state.tick : idsOf(state, t) = history.batches[t]
    BY DEF IInv, Whole
  <2>3. CASE failed
    BY <1>3, <1>9, <1>10, <2>1, <2>2, <2>3 DEF Whole
  <2>4. CASE ~failed
    <3>1. state'.tick = state.tick + 1 /\ history'.batches = Append(history.batches, ids)
      BY <1>9, <1>10, <2>4
    <3>2. Len(history'.batches) = state'.tick
      BY <1>4, <2>2, <3>1
    <3>3. ASSUME NEW t \in 1..state.tick + 1
          PROVE  idsOf(next, t) = history'.batches[t]
      <4>1. CASE t = state.tick + 1
        BY <1>3, <1>4, <1>5, <2>2, <2>4, <3>1, <4>1
      <4>2. CASE t # state.tick + 1
        <5>1. t \in 1..state.tick
          BY <1>4, <4>2
        <5> QED
          BY <1>3, <1>4, <2>2, <3>1, <5>1
      <4> QED
        BY <4>1, <4>2
    <3> QED
      BY <2>1, <3>1, <3>2, <3>3 DEF Whole
  <2> QED
    BY <2>3, <2>4
<1>14. Current'
  <2> SUFFICES ASSUME ~failed PROVE Current'
    BY <1>8 DEF Current
  <2>1. state'.tick = state.tick + 1
    BY <1>9
  <2> QED
    BY <1>3, <1>9, <2>1 DEF Current, Canonical
<1>15. ~inBatch'
  BY <1>8 DEF inBatch
<1>16. Quiet'
  <2>1. folded(state)' = folded(next)
    BY <1>9 DEF folded
  <2> QED
    BY <1>2, <1>3, <1>6, <1>10, <1>15, <2>1 DEF Quiet, NoWorkers
<1>17. PermitsExact'
  <2>1. atWork' = {} /\ Cardinality({}) = 0
    BY <1>2, FS_EmptySet DEF atWork, NoWorkers
  <2>2. drive'.limit \in Nat
    BY <1>8, DriveFields
  <2> QED
    BY <1>2, <1>8, <1>10, <2>1, <2>2 DEF IInv, PermitsExact
<1> QED
  BY <1>11, <1>12, <1>13, <1>14, <1>15, <1>16, <1>17 DEF IInv, Running, Reasons

-----------------------------------------------------------------------------
(* The theorems.                                                           *)

\* The invariant of Drive, its launch loop and its goroutines is inductive.
THEOREM DriveInvariant == Spec => []IInv
<1>1. Init => IInv
  <2> SUFFICES ASSUME Init PROVE IInv
    OBVIOUS
  <2>1. Types
    BY DEF Init, Types, States, Drives, Histories, EmptyState, NewDrive, NoWorkers, DrivePCs,
         WorkerStates, Rets
  <2>2. Canonical(state) /\ Whole /\ Current
    BY DEF Init, EmptyState, NewDrive, Canonical, Whole, Current
  <2>3. ~inBatch /\ drive.limit = 0 /\ drive.pc = "idle"
    BY DEF Init, NewDrive, inBatch
  <2>4. folded(state) = {}
    BY DEF Init, EmptyState, folded
  <2>5. Quiet /\ Running /\ Reasons /\ PermitsExact
    BY <2>3, <2>4 DEF Init, Quiet, Running, Reasons, PermitsExact
  <2> QED
    BY <2>1, <2>2, <2>5 DEF IInv
<1>2. IInv /\ [Next]_vars => IInv'
  <2> SUFFICES ASSUME IInv, [Next]_vars PROVE IInv'
    OBVIOUS
  <2>1. CASE UNCHANGED vars
    BY <2>1 DEF vars, IInv, Types, Canonical, Whole, idsOf, Current, Quiet, Running, Reasons,
         PermitsExact, inBatch, folded, okIDs, batchDone, atWork
  <2>2. ASSUME NEW limit \in Limits, Call(limit) PROVE IInv'
    BY <2>2, CallStep
  <2>3. CASE driveStep
    <3>1. CASE CheckContext
      BY <3>1, CheckContextStep
    <3>2. CASE SchedulerFails \/ \E dispatches \in Batches : Schedule(dispatches)
      BY <3>2, ScheduleStep
    <3>3. CASE Launch \/ AcquirePermit \/ AcquireCancelled \/ Recheck
      BY <3>3, LaunchLoopStep
    <3>4. CASE Go
      BY <3>4, GoStep
    <3>5. CASE Wait
      BY <3>5, WaitStep
    <3> QED
      BY <2>3, <3>1, <3>2, <3>3, <3>4, <3>5 DEF driveStep
  <2>4. ASSUME NEW id \in IDs, workerStep(id) PROVE IInv'
    <3>1. ASSUME NEW err \in BOOLEAN, NEW result \in Results, Execute(id, err, result)
          PROVE  IInv'
      BY <3>1, ExecuteStep
    <3> QED
      BY <2>4, <3>1, CancelBatchStep, ReleaseStep DEF workerStep
  <2>5. CASE CallerCancels
    BY <2>5, CallerCancelsStep
  <2> QED
    BY <2>1, <2>2, <2>3, <2>4, <2>5 DEF Next
<1> QED
  BY <1>1, <1>2, PTL DEF Spec

\* The state of the loop, of its goroutines and of the semaphore has its type.
THEOREM DriveTypes == Spec => []TypeOK
<1>1. IInv => TypeOK
  BY DriveFields DEF IInv, Types, TypeOK, States
<1> QED
  BY <1>1, DriveInvariant, PTL

\* executeBatch and Drive: whatever the order in which dispatches complete,
\* fail or are cancelled, the State has one outcome per dispatch ID in order of
\* tick and ID, and a tick that counts has exactly the batch of the Scheduler.
THEOREM DriveStateIsCanonical == Spec => []StateIsCanonical
<1>1. IInv => StateIsCanonical
  <2> SUFFICES ASSUME IInv PROVE StateIsCanonical
    OBVIOUS
  <2>1. DOMAIN state.outcomes = 1..Len(state.outcomes) /\ Len(state.outcomes) \in Nat
    BY DEF IInv, Types, States
  <2>2. \A i, j \in DOMAIN state.outcomes : i < j =>
          /\ outcomeLess(state.outcomes[i], state.outcomes[j])
          /\ state.outcomes[i].id # state.outcomes[j].id
    BY DEF IInv, Canonical
  <2>3. \A t \in 1..state.tick : idsOf(state, t) = history.batches[t]
    BY DEF IInv, Whole
  <2>4. \A i \in DOMAIN state.outcomes : i > 1 =>
          /\ outcomeLess(state.outcomes[i - 1], state.outcomes[i])
          /\ \A j \in 1..(i - 1) : state.outcomes[j].id # state.outcomes[i].id
    <3> SUFFICES ASSUME NEW i \in DOMAIN state.outcomes, i > 1
                 PROVE  /\ outcomeLess(state.outcomes[i - 1], state.outcomes[i])
                        /\ \A j \in 1..(i - 1) : state.outcomes[j].id # state.outcomes[i].id
      OBVIOUS
    <3>1. \A j \in 1..(i - 1) : j \in DOMAIN state.outcomes /\ j < i
      BY <2>1
    <3>2. i - 1 \in 1..(i - 1)
      BY <2>1
    <3> QED
      BY <2>2, <3>1, <3>2
  <2> QED
    BY <2>3, <2>4 DEF StateIsCanonical, idsOf
<1> QED
  BY <1>1, DriveInvariant, PTL

\* A dispatch that succeeded is in the State that Drive returns, with whatever
\* error, and is not executed again by this Drive or a later one.
THEOREM DriveSuccessesFinal == Spec => []SuccessesFinal
<1>1. IInv => SuccessesFinal
  <2> SUFFICES ASSUME IInv PROVE SuccessesFinal
    OBVIOUS
  <2>1. drive.pc \in {"idle", "top"} => folded(state) = history.succeeded
    BY DEF IInv, Quiet, inBatch
  <2>2. ASSUME NEW id \in IDs, worker[id] = "running"
        PROVE  id \notin history.succeeded
    <3>1. inBatch
      BY <2>2, WorkerInBatch
    <3>2. id \notin folded(state)
      BY <2>2, <3>1 DEF IInv, Running
    <3>3. id \notin okIDs
      BY <2>2, <3>1 DEF IInv, Running, okIDs
    <3> QED
      BY <3>1, <3>2, <3>3 DEF IInv, Running
  <2> QED
    BY <2>1, <2>2 DEF SuccessesFinal
<1> QED
  BY <1>1, DriveInvariant, PTL

\* The permit semaphore: never more dispatches at work than permits, none lost,
\* and with MaxConcurrency 1 nothing is launched after a failure.
THEOREM DrivePermitsBound == Spec => []PermitsBound
<1>1. IInv => PermitsBound
  <2> SUFFICES ASSUME IInv PROVE PermitsBound
    OBVIOUS
  <2>1. drive.limit \in Nat /\ permits \in Nat
    BY DriveFields DEF IInv, Types
  <2>2. /\ drive.limit > 0 =>
             /\ Cardinality(atWork) <= drive.limit
             /\ permits = Cardinality(atWork) + (IF drive.pc \in {"recheck", "go"} THEN 1 ELSE 0)
        /\ ~history.late
    BY <2>1, WorkingFinite DEF IInv, PermitsExact
  <2> QED
    BY <2>2 DEF PermitsBound, atWork
<1> QED
  BY <1>1, DriveInvariant, PTL

=============================================================================
