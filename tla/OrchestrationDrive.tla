------------------------- MODULE OrchestrationDrive -------------------------
(***************************************************************************)
(* orchestration.Drive: ticks of dispatches that run concurrently under a  *)
(* permit semaphore, src/orchestration/drive.go and scheduler.go.          *)
(*                                                                         *)
(* The launch loop, every dispatch goroutine and the caller's context are  *)
(* separate actors.  Scheduler and Executor are the application's: the     *)
(* first may propose any batch, fail or panic, the second may return any   *)
(* result or an error at any time, cancelled or not.  The caller calls     *)
(* Drive again with the State it got as InitialState.                      *)
(*                                                                         *)
(* Dispatch IDs are numbers, for the order outcomeLess compares them in.   *)
(***************************************************************************)
EXTENDS Integers, Sequences, FiniteSets

CONSTANTS
  IDs,             \* dispatch IDs
  Malformed,       \* those whose Dispatch ValidateDispatch refuses
  Results,         \* Agent results, failed ones included
  MaxTicks,        \* options.MaxTicks
  Limits,          \* values of options.MaxConcurrency; 0 for UnlimitedConcurrency
  MaxBatch,        \* bound: dispatches in a batch
  MaxDrives        \* bound: calls of Drive

ASSUME IDAssumption == IDs \subseteq Nat /\ IsFiniteSet(IDs) /\ Malformed \subseteq IDs

ASSUME LimitAssumption ==
  /\ MaxTicks \in Nat \ {0} /\ Limits \subseteq Nat
  /\ MaxBatch \in Nat /\ MaxDrives \in Nat

VARIABLES
  state,    \* State: tick and outcomes
  drive,    \* the goroutine of Drive and of its launch loop
  worker,   \* worker[id]: the goroutine of a dispatch
  records,  \* the channel of dispatchExecutions, in completion order
  permits,  \* permits taken
  history   \* what happened: batches per tick, successes, executor calls, a late launch on the only permit

vars == <<state, drive, worker, records, permits, history>>

-----------------------------------------------------------------------------
(* State.                                                                  *)

Outcome == [tick : Nat, id : IDs, result : Results]

EmptyState == [tick |-> 0, outcomes |-> <<>>]

DrivePCs == {"idle", "top", "schedule", "launch", "acquire", "recheck", "go", "wait"}

WorkerStates == {"none", "running", "cancelling", "releasing", "done"}

Execution == [id : IDs, err : BOOLEAN, result : Results]

NewDrive == [pc |-> "idle", calls |-> 0, limit |-> 0, completed |-> 0,
             batch |-> <<>>, index |-> 1, cancelled |-> FALSE, batchCancelled |-> FALSE, ret |-> "none"]

NoWorkers == [id \in IDs |-> "none"]

\* batchCtx.Err(): cancelled by the caller or by a failed dispatch.
batchDone == drive.cancelled \/ drive.batchCancelled

at(pc) == drive.pc = pc

goto(pc) == drive' = [drive EXCEPT !.pc = pc]

return(err) == drive' = [drive EXCEPT !.pc = "idle", !.ret = err]

outcomeLess(left, right) ==
  left.tick < right.tick \/ (left.tick = right.tick /\ left.id < right.id)

folded(s) == {s.outcomes[i].id : i \in DOMAIN s.outcomes}

-----------------------------------------------------------------------------
(* Drive: the initial state and the loop over ticks.                       *)

validateInitialState(s) ==
  /\ \A i \in DOMAIN s.outcomes :
       /\ s.outcomes[i].tick \in 1..s.tick
       /\ s.outcomes[i].id \notin Malformed
  /\ \A i, j \in DOMAIN s.outcomes : i # j => s.outcomes[i].id # s.outcomes[j].id
  /\ \A i \in DOMAIN s.outcomes : i > 1 => outcomeLess(s.outcomes[i - 1], s.outcomes[i])

\* The caller continues from the State it has; a refused one stays with it.
Call(limit) ==
  /\ at("idle")
  /\ drive.calls < MaxDrives
  /\ drive' = [NewDrive EXCEPT !.calls = drive.calls + 1, !.limit = limit,
                 !.pc = IF validateInitialState(state) THEN "top" ELSE "idle",
                 !.ret = IF validateInitialState(state) THEN "none" ELSE "InvalidArgument"]
  /\ UNCHANGED <<state, worker, records, permits, history>>

CheckContext ==
  /\ at("top")
  /\ IF drive.cancelled THEN return("Cancelled") ELSE goto("schedule")
  /\ UNCHANGED <<state, worker, records, permits, history>>

SchedulerFails ==
  /\ at("schedule")
  /\ return("SchedulerError")
  /\ UNCHANGED <<state, worker, records, permits, history>>

\* Fault: only the batch itself is searched for duplicates.
validateBatch_batchOnly(s, dispatches) ==
  /\ \A i \in DOMAIN dispatches : dispatches[i] \notin Malformed
  /\ \A i, j \in DOMAIN dispatches : i # j => dispatches[i] # dispatches[j]

validateBatch(s, dispatches) ==
  /\ \A i \in DOMAIN dispatches : dispatches[i] \notin Malformed \cup folded(s)
  /\ \A i, j \in DOMAIN dispatches : i # j => dispatches[i] # dispatches[j]

Schedule(dispatches) ==
  /\ at("schedule")
  /\ IF ~validateBatch(state, dispatches) THEN return("SchedulerError")
     ELSE IF dispatches = <<>> THEN return("nil")
     ELSE IF drive.completed >= MaxTicks THEN return("MaxTicks")
     ELSE drive' = [drive EXCEPT !.pc = "launch", !.batch = dispatches, !.index = 1,
                                 !.batchCancelled = FALSE]
  /\ UNCHANGED <<state, worker, records, permits, history>>

-----------------------------------------------------------------------------
(* executeBatch: the launch loop.                                          *)

Launch ==
  /\ at("launch")
  /\ goto(IF drive.index > Len(drive.batch) \/ batchDone THEN "wait"
          ELSE IF drive.limit = 0 THEN "go" ELSE "acquire")
  /\ UNCHANGED <<state, worker, records, permits, history>>

\* When both channels of the select are ready either is taken.
AcquirePermit ==
  /\ at("acquire")
  /\ permits < drive.limit
  /\ permits' = permits + 1
  /\ goto("recheck")
  /\ UNCHANGED <<state, worker, records, history>>

AcquireCancelled ==
  /\ at("acquire")
  /\ batchDone
  /\ goto("wait")
  /\ UNCHANGED <<state, worker, records, permits, history>>

\* Fault: a permit is enough to launch.
Recheck_omitted ==
  /\ at("recheck")
  /\ goto("go")
  /\ UNCHANGED <<state, worker, records, permits, history>>

Recheck ==
  /\ at("recheck")
  /\ IF batchDone THEN permits' = permits - 1 /\ goto("wait")
                  ELSE UNCHANGED permits /\ goto("go")
  /\ UNCHANGED <<state, worker, records, history>>

Go ==
  LET id == drive.batch[drive.index]
  IN /\ at("go")
     /\ worker' = [worker EXCEPT ![id] = "running"]
     /\ drive' = [drive EXCEPT !.pc = "launch", !.index = @ + 1]
     /\ history' = [history EXCEPT !.calls[id] = @ + 1, !.late = @ \/ (drive.batchCancelled /\ drive.limit = 1)]
     /\ UNCHANGED <<state, records, permits>>

-----------------------------------------------------------------------------
(* executeBatch: the goroutine of a dispatch.  A failed one cancels its    *)
(* siblings before its permit is free.                                     *)

Execute(id, err, result) ==
  /\ worker[id] = "running"
  /\ records' = Append(records, [id |-> id, err |-> err, result |-> result])
  /\ worker' = [worker EXCEPT ![id] = IF err THEN "cancelling" ELSE "releasing"]
  /\ history' = IF err THEN history ELSE [history EXCEPT !.succeeded = @ \cup {id}]
  /\ UNCHANGED <<state, drive, permits>>

CancelBatch(id) ==
  /\ worker[id] = "cancelling"
  /\ drive' = [drive EXCEPT !.batchCancelled = TRUE]
  /\ worker' = [worker EXCEPT ![id] = "releasing"]
  /\ UNCHANGED <<state, records, permits, history>>

\* Fault: the permit of a dispatch is not returned.
Release_never(id) ==
  /\ worker[id] = "releasing"
  /\ worker' = [worker EXCEPT ![id] = "done"]
  /\ UNCHANGED <<state, drive, records, permits, history>>

Release(id) ==
  /\ worker[id] = "releasing"
  /\ permits' = IF drive.limit = 0 THEN permits ELSE permits - 1
  /\ worker' = [worker EXCEPT ![id] = "done"]
  /\ UNCHANGED <<state, drive, records, history>>

-----------------------------------------------------------------------------
(* executeBatch: folding the records into the next State.                  *)

outcomeOf(s, r) == [tick |-> s.tick + 1, id |-> r.id, result |-> r.result]

\* Fault: the outcomes stay in completion order.
fold_unsorted(s, recs) ==
  LET ok == SelectSeq(recs, LAMBDA r : ~r.err)
  IN [s EXCEPT !.outcomes = @ \o [i \in DOMAIN ok |-> outcomeOf(s, ok[i])]]

\* The outcomes of the State and those of the dispatches that succeeded.  No two
\* are equal: validateBatch refuses an ID twice.
collected(s, recs) ==
  {s.outcomes[i] : i \in DOMAIN s.outcomes} \cup
  {outcomeOf(s, recs[i]) : i \in {j \in DOMAIN recs : ~recs[j].err}}

\* sort.Slice by outcomeLess.
sorted(S) ==
  CHOOSE t \in [1..Cardinality(S) -> S] :
    \A i, j \in DOMAIN t : i < j => outcomeLess(t[i], t[j])

fold(s, recs) == [s EXCEPT !.outcomes = sorted(collected(s, recs))]

\* The tick counts only when no dispatch failed and the caller's context lives.
Wait ==
  LET next == fold(state, records)
      failed == drive.cancelled \/ \E i \in DOMAIN records : records[i].err
  IN /\ at("wait")
     /\ \A id \in IDs : worker[id] \in {"none", "done"}
     /\ state' = IF failed THEN next ELSE [next EXCEPT !.tick = @ + 1]
     /\ drive' = IF failed THEN [drive EXCEPT !.pc = "idle", !.ret = "DispatchError"]
                 ELSE [drive EXCEPT !.pc = "top", !.completed = @ + 1]
     /\ history' = [history EXCEPT !.batches =
                      IF failed THEN @ ELSE Append(@, {drive.batch[i] : i \in DOMAIN drive.batch})]
     /\ worker' = NoWorkers
     /\ records' = <<>>
     /\ permits' = 0

CallerCancels ==
  /\ ~at("idle")
  /\ ~drive.cancelled
  /\ drive' = [drive EXCEPT !.cancelled = TRUE]
  /\ UNCHANGED <<state, worker, records, permits, history>>

-----------------------------------------------------------------------------
Batches == UNION {[1..n -> IDs] : n \in 0..MaxBatch}

Init ==
  /\ state = EmptyState
  /\ drive = NewDrive
  /\ worker = NoWorkers
  /\ records = <<>>
  /\ permits = 0
  /\ history = [batches |-> <<>>, succeeded |-> {}, calls |-> [id \in IDs |-> 0], late |-> FALSE]

driveStep ==
  \/ CheckContext
  \/ SchedulerFails
  \/ \E dispatches \in Batches : Schedule(dispatches)
  \/ Launch
  \/ AcquirePermit
  \/ AcquireCancelled
  \/ Recheck
  \/ Go
  \/ Wait

workerStep(id) ==
  \/ \E err \in BOOLEAN, result \in Results : Execute(id, err, result)
  \/ CancelBatch(id)
  \/ Release(id)

Next ==
  \/ \E limit \in Limits : Call(limit)
  \/ driveStep
  \/ \E id \in IDs : workerStep(id)
  \/ CallerCancels

Spec == Init /\ [][Next]_vars

\* Goroutines are scheduled, and Scheduler and Executor return in the end.
FairSpec == Spec /\ WF_vars(driveStep) /\ \A id \in IDs : WF_vars(workerStep(id))

-----------------------------------------------------------------------------
(* Properties.                                                             *)

\* The state of the loop, of its goroutines and of the semaphore has its type.
TypeOK ==
  /\ state.tick \in Nat /\ state.outcomes \in Seq(Outcome)
  /\ drive.pc \in DrivePCs /\ drive.batch \in Seq(IDs)
  /\ worker \in [IDs -> WorkerStates]
  /\ records \in Seq(Execution)
  /\ permits \in Nat

\* The State handed to the Scheduler and the caller does not depend on the
\* order in which dispatches completed: one outcome per dispatch ID, in strict
\* order of tick and ID.  A tick that counts is whole, over any number of Drive
\* calls continued from the State of the one before: its outcomes are those of
\* exactly the batch the Scheduler proposed for it.
StateIsCanonical ==
  /\ \A i \in DOMAIN state.outcomes : i > 1 =>
       /\ outcomeLess(state.outcomes[i - 1], state.outcomes[i])
       /\ \A j \in 1..(i - 1) : state.outcomes[j].id # state.outcomes[i].id
  /\ \A t \in 1..state.tick :
       {state.outcomes[i].id : i \in {j \in DOMAIN state.outcomes : state.outcomes[j].tick = t}}
         = history.batches[t]

\* A success is final: between batches and after Drive returned, with whatever
\* error, every dispatch whose Executor succeeded has its outcome, and none is
\* executed again, in this Drive or in one that continues from its State.
SuccessesFinal ==
  /\ drive.pc \in {"idle", "top"} => folded(state) = history.succeeded
  /\ \A id \in IDs : worker[id] = "running" => id \notin history.succeeded

\* Permits bound the work and none is left over: never more dispatches at work
\* than permits, and with one permit nothing is launched after a dispatch has
\* failed, since the failed goroutine cancels the batch before it returns its
\* permit.
PermitsBound ==
  LET working == {id \in IDs : worker[id] \in {"running", "cancelling", "releasing"}}
  IN /\ drive.limit > 0 =>
          /\ Cardinality(working) <= drive.limit
          /\ permits = Cardinality(working) + (IF drive.pc \in {"recheck", "go"} THEN 1 ELSE 0)
     /\ ~history.late

\* Drive returns.
DriveReturns == ~at("idle") ~> at("idle")

=============================================================================
