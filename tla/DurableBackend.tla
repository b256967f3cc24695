--------------------------- MODULE DurableBackend ---------------------------
(***************************************************************************)
(* The execution-semantic Backend of package durable: one execution record *)
(* with its lease, checkpoint, effect attempts and idempotency tables, as  *)
(* src/durable/internal/testbackend implements the contract of             *)
(* src/durable/backend.go.                                                 *)
(*                                                                         *)
(* Executions are independent (store.executions is a map and every verb    *)
(* touches one entry under store.mu), so one record is the whole state.    *)
(* Each verb is atomic.  A verb is modelled by two operators:              *)
(*   <Verb>Verdict(r, q)  what the early returns of the verb decide on      *)
(*                        request q in record r, in the code's order;      *)
(*   <Verb>(r, q)         the record after the call.                       *)
(* A refused call, and the exact replay of an answered one, leave the      *)
(* record as it is, so only the applying verdicts are steps of Next.       *)
(*                                                                         *)
(* Hashes are the values they identify.  An Input is an attempt's Kind     *)
(* together with its InputHash: the code only ever compares both.  The     *)
(* trusted clock is the lease's remaining life ttl: ExpiresAt is after now *)
(* exactly while ttl > 0.                                                  *)
(***************************************************************************)
EXTENDS Naturals, Sequences, FiniteSets

CONSTANTS
  Specs,          \* canonical hashes of the ExecutionSpecs callers submit
  Owners,         \* owner IDs
  ClaimIDs,       \* claim idempotency keys
  LeaseTTLs,      \* lease lifetimes, in clock ticks
  Operations,     \* logical effect slots ("turn:0:model", "turn:0:call:0")
  Inputs,         \* effect kind and input hash
  Payloads,       \* encoded effect outcomes
  Failures,       \* failure records
  Continuations,  \* continuations a checkpoint may hold
  Results,        \* terminal Agent results
  FailedResults,  \* those of Results whose Failure is set
  None,           \* Go's nil
  MaxToken,       \* bound: lease tokens issued
  MaxVersion,     \* bound: execution versions
  MaxSequence,    \* bound: checkpoint sequences
  MaxAttempts     \* bound: attempts of one operation

ASSUME TTLAssumption == LeaseTTLs \subseteq Nat \ {0}

ASSUME ResultAssumption == FailedResults \subseteq Results

ASSUME NoneAssumption ==
  None \notin Owners \cup ClaimIDs \cup Payloads \cup Failures
                \cup Continuations \cup Results \cup Specs

ASSUME BoundAssumption ==
  MaxToken \in Nat /\ MaxVersion \in Nat /\ MaxSequence \in Nat /\ MaxAttempts \in Nat

VARIABLE record   \* *executionRecord; status "absent" before StartExecution

-----------------------------------------------------------------------------
(* The persisted types.                                                    *)

Lease == [owner : Owners \cup {None}, claim : ClaimIDs \cup {None},
          token : Nat, ttl : Nat]
LeaseRef == [owner : Owners \cup {None}, token : Nat]

\* Token 0 is never issued: a lease with token 0 is the nil *Lease.
NoLease == [owner |-> None, claim |-> None, token |-> 0, ttl |-> 0]
NoLeaseRef == [owner |-> None, token |-> 0]

\* Sequence 0 is refused by ValidateCheckpoint: it stands for a nil checkpoint.
Checkpoint == [sequence : Nat, continuation : Continuations \cup {None}]
NoCheckpoint == [sequence |-> 0, continuation |-> None]

ExecutionStatus == {"absent", "running", "suspended", "completed", "failed"}

Execution == [specHash : Specs \cup {None}, status : ExecutionStatus,
              version : Nat, lease : Lease, checkpoint : Checkpoint,
              result : Results \cup {None}]

AttemptStatus == {"running", "succeeded", "failed", "unknown", "abandoned"}

Attempt == [number : Nat, input : Inputs, status : AttemptStatus,
            lease : LeaseRef, version : Nat,
            payload : Payloads \cup {None}, failure : Failures \cup {None}]

\* An attempt as a claim or a release reports it.
ReportedAttempt == [operation : Operations, attempt : Attempt]

ClaimResult == [execution : Execution, created : BOOLEAN,
                reconcile : SUBSET ReportedAttempt]

ClaimRecord == [mode : {"none", "start", "resume"}, owner : Owners \cup {None},
                leaseTTL : Nat, specHash : Specs \cup {None}, token : Nat,
                result : ClaimResult]

\* The releases, suspends and finishes maps: one entry per answered key.
ReleaseEntry == [lease : LeaseRef, execution : Execution,
                 reconcile : SUBSET ReportedAttempt]
SuspendEntry == [lease : LeaseRef, version : Nat, execution : Execution]
FinishEntry == [lease : LeaseRef, version : Nat, result : Results,
                execution : Execution]

Record == [execution : Execution,
           attempts : [Operations -> Seq(Attempt)],
           claims : [ClaimIDs -> ClaimRecord],
           releases : SUBSET ReleaseEntry,
           suspends : SUBSET SuspendEntry,
           finishes : SUBSET FinishEntry,
           nextToken : Nat]

NoExecution == [specHash |-> None, status |-> "absent", version |-> 0,
                lease |-> NoLease, checkpoint |-> NoCheckpoint, result |-> None]

NoClaim == [mode |-> "none", owner |-> None, leaseTTL |-> 0, specHash |-> None,
            token |-> 0,
            result |-> [execution |-> NoExecution, created |-> FALSE, reconcile |-> {}]]

NoRecord == [execution |-> NoExecution,
             attempts |-> [op \in Operations |-> <<>>],
             claims |-> [c \in ClaimIDs |-> NoClaim],
             releases |-> {}, suspends |-> {}, finishes |-> {}, nextToken |-> 0]

-----------------------------------------------------------------------------
(* Helpers shared by the verbs.                                            *)

exists(r) == r.execution.status # "absent"

terminal(status) == status \in {"completed", "failed"}

leaseMatches(lease, ref) ==
  lease.token # 0 /\ lease.owner = ref.owner /\ lease.token = ref.token

leaseActive(lease) == lease.ttl > 0

requireActiveLease(r, ref) ==
  leaseMatches(r.execution.lease, ref) /\ leaseActive(r.execution.lease)

leaseReference(lease) == [owner |-> lease.owner, token |-> lease.token]

uncertain(a) == a.status \in {"running", "unknown"}

settled(a) == a.status \in {"succeeded", "failed"}

\* Fault: an attempt already marked unknown is not counted.
hasUncertainAttempts_runningOnly(r) ==
  \E op \in Operations : \E i \in DOMAIN r.attempts[op] : r.attempts[op][i].status = "running"

hasUncertainAttempts(r) ==
  \E op \in Operations : \E i \in DOMAIN r.attempts[op] : uncertain(r.attempts[op][i])

\* Fault: an effect in doubt counts as one that never happened.
markUnknown_abandons(a) ==
  [a EXCEPT !.status = "abandoned", !.lease = NoLeaseRef, !.version = @ + 1]

markUnknown(a) ==
  [a EXCEPT !.status = "unknown", !.lease = NoLeaseRef, !.version = @ + 1]

\* The running attempts of one lease token become unknown, or all of them
\* when token is 0.
reconciles(a, token) ==
  /\ a.status = "running"
  /\ a.lease # NoLeaseRef
  /\ token = 0 \/ a.lease.token = token

reconcileRunning(attempts, token) ==
  [op \in Operations |->
     [i \in DOMAIN attempts[op] |->
        IF reconciles(attempts[op][i], token) THEN markUnknown(attempts[op][i])
                                              ELSE attempts[op][i]]]

\* Every unknown attempt, as reconcileForClaim reports them.
unknownAttempts(attempts) ==
  UNION {{[operation |-> op, attempt |-> attempts[op][i]] :
            i \in {j \in DOMAIN attempts[op] : attempts[op][j].status = "unknown"}} :
         op \in Operations}

\* attemptByNumber: the positions (at most one) that hold attempt n of op.
positions(r, op, n) == {i \in DOMAIN r.attempts[op] : r.attempts[op][i].number = n}

attemptByNumber(r, op, n) == r.attempts[op][CHOOSE i \in positions(r, op, n) : TRUE]

putAttempt(r, op, n, a) ==
  [r EXCEPT !.attempts[op] = [i \in DOMAIN @ |-> IF i \in positions(r, op, n) THEN a ELSE @[i]]]

latest(r, op) == r.attempts[op][Len(r.attempts[op])]

-----------------------------------------------------------------------------
(* Claims: StartExecution and ResumeExecution.  A request carries the mode *)
(* of the verb; resume requests carry no spec.                             *)

StartRequests == [mode : {"start"}, owner : Owners, claim : ClaimIDs,
                  leaseTTL : LeaseTTLs, specHash : Specs]

ResumeRequests == [mode : {"resume"}, owner : Owners, claim : ClaimIDs,
                   leaseTTL : LeaseTTLs, specHash : {None}]

sameClaim(prior, q) ==
  /\ prior.mode = q.mode
  /\ prior.owner = q.owner
  /\ prior.leaseTTL = q.leaseTTL
  /\ prior.specHash = q.specHash

claimVerdict(r, q) ==
  LET prior == r.claims[q.claim]
      known == prior.mode # "none"
      lease == r.execution.lease
  IN IF known /\ ~sameClaim(prior, q) THEN "Conflict"
     ELSE IF known /\ r.nextToken > prior.token THEN "LeaseLost"
     ELSE IF known /\ leaseActive(lease) /\ lease.claim = q.claim THEN "Replay"
     ELSE IF leaseActive(lease) THEN "Busy"
     ELSE "Claim"

StartExecutionVerdict(r, q) ==
  IF ~exists(r) THEN "Create"
  ELSE IF r.execution.specHash # q.specHash THEN "Conflict"
  ELSE IF terminal(r.execution.status) THEN "Terminal"
  ELSE claimVerdict(r, q)

ResumeExecutionVerdict(r, q) ==
  IF ~exists(r) THEN "NotFound"
  ELSE IF terminal(r.execution.status) THEN "Terminal"
  ELSE claimVerdict(r, q)

newLease(r, q) ==
  [owner |-> q.owner, claim |-> q.claim, token |-> r.nextToken + 1, ttl |-> q.leaseTTL]

claimRecord(r, q, result) ==
  [mode |-> q.mode, owner |-> q.owner, leaseTTL |-> q.leaseTTL,
   specHash |-> q.specHash, token |-> r.nextToken + 1, result |-> result]

create(r, q) ==
  LET execution == [NoExecution EXCEPT !.specHash = q.specHash, !.status = "running",
                                       !.version = 1, !.lease = newLease(r, q)]
      result == [execution |-> execution, created |-> TRUE, reconcile |-> {}]
  IN [r EXCEPT !.execution = execution, !.nextToken = @ + 1,
               !.claims[q.claim] = claimRecord(r, q, result)]

claim(r, q) ==
  LET attempts == reconcileRunning(r.attempts, 0)
      execution == [r.execution EXCEPT !.status = "running", !.lease = newLease(r, q)]
      result == [execution |-> execution, created |-> FALSE,
                 reconcile |-> unknownAttempts(attempts)]
  IN [r EXCEPT !.attempts = attempts, !.execution = execution, !.nextToken = @ + 1,
               !.claims[q.claim] = claimRecord(r, q, result)]

StartExecution(r, q) ==
  CASE StartExecutionVerdict(r, q) = "Create" -> create(r, q)
    [] StartExecutionVerdict(r, q) = "Claim" -> claim(r, q)
    [] OTHER -> r

ResumeExecution(r, q) ==
  IF ResumeExecutionVerdict(r, q) = "Claim" THEN claim(r, q) ELSE r

\* StartResult and ResumeResult of a call that was not refused.
claimResponse(r, q) ==
  IF terminal(r.execution.status)
  THEN [execution |-> r.execution, created |-> FALSE, reconcile |-> {}]
  ELSE (IF q.mode = "start" THEN StartExecution(r, q)
                            ELSE ResumeExecution(r, q)).claims[q.claim].result

-----------------------------------------------------------------------------
(* The lease, the checkpoint and the end of an execution.                  *)

RenewExecutionVerdict(r, ref) ==
  IF ~exists(r) THEN "NotFound"
  ELSE IF ~requireActiveLease(r, ref) THEN "LeaseLost"
  ELSE "Renew"

RenewExecution(r, ref, ttl) ==
  IF RenewExecutionVerdict(r, ref) = "Renew"
  THEN [r EXCEPT !.execution.lease.ttl = ttl] ELSE r

\* Fault: a checkpoint with a lower sequence is not refused.
SaveCheckpointVerdict_anyOrder(r, q) ==
  LET current == r.execution.checkpoint
  IN IF ~exists(r) THEN "NotFound"
     ELSE IF ~requireActiveLease(r, q.lease) THEN "LeaseLost"
     ELSE IF current # NoCheckpoint /\ current.sequence = q.checkpoint.sequence
          THEN IF current = q.checkpoint THEN "Replay" ELSE "Conflict"
     ELSE IF r.execution.version # q.version THEN "Conflict"
     ELSE "Save"

\* q : lease, version (ExpectedVersion), checkpoint
SaveCheckpointVerdict(r, q) ==
  LET current == r.execution.checkpoint
  IN IF ~exists(r) THEN "NotFound"
     ELSE IF ~requireActiveLease(r, q.lease) THEN "LeaseLost"
     ELSE IF current # NoCheckpoint /\ current.sequence = q.checkpoint.sequence
          THEN IF current = q.checkpoint THEN "Replay" ELSE "Conflict"
     ELSE IF current # NoCheckpoint /\ q.checkpoint.sequence < current.sequence THEN "Conflict"
     ELSE IF r.execution.version # q.version THEN "Conflict"
     ELSE "Save"

SaveCheckpoint(r, q) ==
  IF SaveCheckpointVerdict(r, q) = "Save"
  THEN [r EXCEPT !.execution.checkpoint = q.checkpoint, !.execution.version = @ + 1]
  ELSE r

\* Fault: the idempotency table is consulted before the token fence.
SuspendExecutionVerdict_replayFirst(r, q) ==
  IF ~exists(r) THEN "NotFound"
  ELSE IF \E e \in r.suspends : e.lease = q.lease /\ e.version = q.version THEN "Replay"
  ELSE IF ~requireActiveLease(r, q.lease) THEN "LeaseLost"
  ELSE IF r.execution.version # q.version THEN "Conflict"
  ELSE "Suspend"

\* q : lease, version
SuspendExecutionVerdict(r, q) ==
  IF ~exists(r) THEN "NotFound"
  ELSE IF r.nextToken > q.lease.token THEN "LeaseLost"
  ELSE IF \E e \in r.suspends : e.lease = q.lease /\ e.version = q.version THEN "Replay"
  ELSE IF ~requireActiveLease(r, q.lease) THEN "LeaseLost"
  ELSE IF r.execution.version # q.version THEN "Conflict"
  ELSE "Suspend"

SuspendExecution(r, q) ==
  LET execution == [r.execution EXCEPT !.status = "suspended", !.lease = NoLease,
                                       !.version = @ + 1]
      entry == [lease |-> q.lease, version |-> q.version, execution |-> execution]
  IN IF SuspendExecutionVerdict(r, q) = "Suspend"
     THEN [r EXCEPT !.attempts = reconcileRunning(@, q.lease.token),
                    !.execution = execution, !.suspends = @ \cup {entry}]
     ELSE r

\* Fault: the attempts are not inspected before the result is written.
FinishExecutionVerdict_unsettled(r, q) ==
  IF ~exists(r) THEN "NotFound"
  ELSE IF r.nextToken > q.lease.token THEN "LeaseLost"
  ELSE IF \E e \in r.finishes : /\ e.lease = q.lease
                                /\ e.version = q.version
                                /\ e.result = q.result THEN "Replay"
  ELSE IF terminal(r.execution.status) THEN "Conflict"
  ELSE IF ~requireActiveLease(r, q.lease) THEN "LeaseLost"
  ELSE IF r.execution.version # q.version THEN "Conflict"
  ELSE "Finish"

\* q : lease, version, result
FinishExecutionVerdict(r, q) ==
  IF ~exists(r) THEN "NotFound"
  ELSE IF r.nextToken > q.lease.token THEN "LeaseLost"
  ELSE IF \E e \in r.finishes : /\ e.lease = q.lease
                                /\ e.version = q.version
                                /\ e.result = q.result THEN "Replay"
  ELSE IF terminal(r.execution.status) THEN "Conflict"
  ELSE IF ~requireActiveLease(r, q.lease) THEN "LeaseLost"
  ELSE IF r.execution.version # q.version THEN "Conflict"
  ELSE IF hasUncertainAttempts(r) THEN "ReconcileRequired"
  ELSE "Finish"

FinishExecution(r, q) ==
  LET status == IF q.result \in FailedResults THEN "failed" ELSE "completed"
      execution == [r.execution EXCEPT !.status = status, !.result = q.result,
                                       !.lease = NoLease, !.version = @ + 1]
      entry == [lease |-> q.lease, version |-> q.version, result |-> q.result,
                execution |-> execution]
  IN IF FinishExecutionVerdict(r, q) = "Finish"
     THEN [r EXCEPT !.execution = execution, !.finishes = @ \cup {entry}]
     ELSE r

\* An expired lease may still be released by the owner it names.
ReleaseExecutionVerdict(r, ref) ==
  IF ~exists(r) THEN "NotFound"
  ELSE IF r.nextToken > ref.token THEN "LeaseLost"
  ELSE IF \E e \in r.releases : e.lease = ref THEN "Replay"
  ELSE IF ~leaseMatches(r.execution.lease, ref) THEN "LeaseLost"
  ELSE "Release"

\* Fault: the lease is dropped without settling its running attempts.
ReleaseExecution_attemptsKept(r, ref) ==
  LET execution == [r.execution EXCEPT !.lease = NoLease]
      entry == [lease |-> ref, execution |-> execution, reconcile |-> {}]
  IN IF ReleaseExecutionVerdict(r, ref) = "Release"
     THEN [r EXCEPT !.execution = execution, !.releases = @ \cup {entry}] ELSE r

ReleaseExecution(r, ref) ==
  LET attempts == reconcileRunning(r.attempts, ref.token)
      execution == [r.execution EXCEPT !.lease = NoLease]
      entry == [lease |-> ref, execution |-> execution,
                reconcile |-> unknownAttempts(attempts) \ unknownAttempts(r.attempts)]
  IN IF ReleaseExecutionVerdict(r, ref) = "Release"
     THEN [r EXCEPT !.attempts = attempts, !.execution = execution,
                    !.releases = @ \cup {entry}]
     ELSE r

\* The answers of a suspend, a finish and a release that were not refused.
suspendResponse(r, q) ==
  (CHOOSE e \in SuspendExecution(r, q).suspends :
     e.lease = q.lease /\ e.version = q.version).execution

finishResponse(r, q) ==
  (CHOOSE e \in FinishExecution(r, q).finishes :
     e.lease = q.lease /\ e.version = q.version /\ e.result = q.result).execution

releaseResponse(r, ref) ==
  CHOOSE e \in ReleaseExecution(r, ref).releases : e.lease = ref

-----------------------------------------------------------------------------
(* Effect attempts.                                                        *)

newAttempt(q, number) ==
  [number |-> number, input |-> q.input, status |-> "running", lease |-> q.lease,
   version |-> 1, payload |-> None, failure |-> None]

\* Fault: an effect in doubt is executed again instead of being reconciled.
StartAttemptVerdict_unknownAgain(r, q) ==
  IF ~exists(r) THEN "NotFound"
  ELSE IF ~requireActiveLease(r, q.lease) THEN "LeaseLost"
  ELSE IF r.attempts[q.operation] = <<>> THEN "First"
  ELSE IF latest(r, q.operation).input # q.input THEN "Conflict"
  ELSE IF settled(latest(r, q.operation)) THEN "Replay"
  ELSE IF latest(r, q.operation).status \in {"unknown", "abandoned"} THEN "Again"
  ELSE IF latest(r, q.operation).lease = q.lease THEN "Execute"
  ELSE "Orphaned"

\* q : lease, operation, input
StartAttemptVerdict(r, q) ==
  IF ~exists(r) THEN "NotFound"
  ELSE IF ~requireActiveLease(r, q.lease) THEN "LeaseLost"
  ELSE IF r.attempts[q.operation] = <<>> THEN "First"
  ELSE IF latest(r, q.operation).input # q.input THEN "Conflict"
  ELSE IF settled(latest(r, q.operation)) THEN "Replay"
  ELSE IF latest(r, q.operation).status = "unknown" THEN "Reconcile"
  ELSE IF latest(r, q.operation).status = "abandoned" THEN "Again"
  ELSE IF latest(r, q.operation).lease = q.lease THEN "Execute"
  ELSE "Orphaned"

StartAttempt(r, q) ==
  LET n == Len(r.attempts[q.operation])
  IN CASE StartAttemptVerdict(r, q) = "First" ->
            [r EXCEPT !.attempts[q.operation] = <<newAttempt(q, 1)>>]
       [] StartAttemptVerdict(r, q) = "Again" ->
            [r EXCEPT !.attempts[q.operation] =
                        Append(@, newAttempt(q, latest(r, q.operation).number + 1))]
       [] StartAttemptVerdict(r, q) = "Orphaned" ->
            [r EXCEPT !.attempts[q.operation][n] = markUnknown(@)]
       [] OTHER -> r

\* AttemptStart of a call that was not refused.
startAttemptResponse(r, q) ==
  [attempt |-> latest(StartAttempt(r, q), q.operation),
   decision |-> CASE StartAttemptVerdict(r, q) \in {"First", "Again", "Execute"} -> "execute"
                  [] StartAttemptVerdict(r, q) = "Replay" -> "replay"
                  [] OTHER -> "reconcile"]

\* Fault: the expected version is compared with the version after the write.
sameOutcome_offByOne(a, q) ==
  a.version = q.version /\ a.payload = q.payload /\ a.failure = q.failure

\* q : lease, operation, number, version (ExpectedAttemptVersion), payload, failure
sameOutcome(a, q) ==
  a.version = q.version + 1 /\ a.payload = q.payload /\ a.failure = q.failure

\* The checks FinishAttempt and MarkAttemptUnknown share; answered holds the
\* statuses the verb itself leaves behind.
settleVerdict(r, q, answered, apply) ==
  LET a == attemptByNumber(r, q.operation, q.number)
  IN IF ~exists(r) THEN "NotFound"
     ELSE IF ~requireActiveLease(r, q.lease) THEN "LeaseLost"
     ELSE IF positions(r, q.operation, q.number) = {} THEN "NotFound"
     ELSE IF a.status \in answered THEN IF sameOutcome(a, q) THEN "Replay" ELSE "Conflict"
     ELSE IF a.status # "running" \/ a.version # q.version \/ a.lease # q.lease
          THEN "Conflict"
     ELSE apply

FinishAttemptVerdict(r, q) == settleVerdict(r, q, {"succeeded", "failed"}, "Finish")

FinishAttempt(r, q) ==
  LET a == attemptByNumber(r, q.operation, q.number)
      done == [a EXCEPT !.status = IF q.failure # None THEN "failed" ELSE "succeeded",
                        !.lease = NoLeaseRef, !.payload = q.payload,
                        !.failure = q.failure, !.version = @ + 1]
  IN IF FinishAttemptVerdict(r, q) = "Finish"
     THEN putAttempt(r, q.operation, q.number, done) ELSE r

MarkAttemptUnknownVerdict(r, q) == settleVerdict(r, q, {"unknown"}, "Mark")

MarkAttemptUnknown(r, q) ==
  LET a == attemptByNumber(r, q.operation, q.number)
      unknown == [markUnknown(a) EXCEPT !.payload = q.payload, !.failure = q.failure]
  IN IF MarkAttemptUnknownVerdict(r, q) = "Mark"
     THEN putAttempt(r, q.operation, q.number, unknown) ELSE r

\* q : operation, number, version, resolution, payload, failure
resolvedStatus(resolution) ==
  CASE resolution = "succeed" -> "succeeded"
    [] resolution = "fail" -> "failed"
    [] resolution = "retry" -> "abandoned"

validateReconcileRequest(q) ==
  CASE q.resolution = "succeed" -> q.payload # None /\ q.failure = None
    [] q.resolution = "fail" -> q.failure # None
    [] q.resolution = "retry" -> q.payload = None /\ q.failure = None

reconcileExact(a, q) == a.status = resolvedStatus(q.resolution) /\ sameOutcome(a, q)

\* Fault: only the version is compared, not that the attempt is unknown.
ReconcileAttemptVerdict_anyStatus(r, q) ==
  LET a == attemptByNumber(r, q.operation, q.number)
  IN IF ~validateReconcileRequest(q) THEN "InvalidArgument"
     ELSE IF ~exists(r) THEN "NotFound"
     ELSE IF leaseActive(r.execution.lease) THEN "Busy"
     ELSE IF positions(r, q.operation, q.number) = {} THEN "NotFound"
     ELSE IF reconcileExact(a, q) THEN "Replay"
     ELSE IF a.version # q.version THEN "Conflict"
     ELSE "Reconcile"

ReconcileAttemptVerdict(r, q) ==
  LET a == attemptByNumber(r, q.operation, q.number)
  IN IF ~validateReconcileRequest(q) THEN "InvalidArgument"
     ELSE IF ~exists(r) THEN "NotFound"
     ELSE IF leaseActive(r.execution.lease) THEN "Busy"
     ELSE IF positions(r, q.operation, q.number) = {} THEN "NotFound"
     ELSE IF reconcileExact(a, q) THEN "Replay"
     ELSE IF a.status # "unknown" \/ a.version # q.version THEN "Conflict"
     ELSE "Reconcile"

ReconcileAttempt(r, q) ==
  LET a == attemptByNumber(r, q.operation, q.number)
      resolved == [a EXCEPT !.status = resolvedStatus(q.resolution), !.lease = NoLeaseRef,
                            !.payload = q.payload, !.failure = q.failure, !.version = @ + 1]
  IN IF ReconcileAttemptVerdict(r, q) = "Reconcile"
     THEN putAttempt(r, q.operation, q.number, resolved) ELSE r

-----------------------------------------------------------------------------
(* The environment: clients that send any request at any time, stale and   *)
(* repeated ones included, and the backend's clock.                        *)

LeaseRefs == [owner : Owners, token : 1..MaxToken]

\* An attempt is written at most three times: started, marked, reconciled.
AttemptVersions == 1..3

CheckpointRequests == [lease : LeaseRefs, version : 1..MaxVersion,
                       checkpoint : [sequence : 1..MaxSequence, continuation : Continuations]]
SuspendRequests == [lease : LeaseRefs, version : 1..MaxVersion]
FinishRequests == [lease : LeaseRefs, version : 1..MaxVersion, result : Results]
AttemptRequests == [lease : LeaseRefs, operation : Operations, input : Inputs]
SettleRequests == [lease : LeaseRefs, operation : Operations, number : 1..MaxAttempts,
                   version : AttemptVersions, payload : Payloads \cup {None},
                   failure : Failures \cup {None}]
ReconcileRequests == [operation : Operations, number : 1..MaxAttempts,
                      version : AttemptVersions, resolution : {"succeed", "fail", "retry"},
                      payload : Payloads \cup {None}, failure : Failures \cup {None}]

versionBound == record.execution.version < MaxVersion

DoCreate(q) ==
  /\ StartExecutionVerdict(record, q) = "Create"
  /\ record.nextToken < MaxToken
  /\ record' = StartExecution(record, q)

DoStart(q) ==
  /\ StartExecutionVerdict(record, q) = "Claim"
  /\ record.nextToken < MaxToken
  /\ record' = StartExecution(record, q)

DoResume(q) ==
  /\ ResumeExecutionVerdict(record, q) = "Claim"
  /\ record.nextToken < MaxToken
  /\ record' = ResumeExecution(record, q)

DoRenew(ref, ttl) ==
  /\ RenewExecutionVerdict(record, ref) = "Renew"
  /\ record' = RenewExecution(record, ref, ttl)

DoSaveCheckpoint(q) ==
  /\ SaveCheckpointVerdict(record, q) = "Save"
  /\ versionBound
  /\ record' = SaveCheckpoint(record, q)

DoSuspend(q) ==
  /\ SuspendExecutionVerdict(record, q) = "Suspend"
  /\ versionBound
  /\ record' = SuspendExecution(record, q)

DoFinish(q) ==
  /\ FinishExecutionVerdict(record, q) = "Finish"
  /\ versionBound
  /\ record' = FinishExecution(record, q)

DoRelease(ref) ==
  /\ ReleaseExecutionVerdict(record, ref) = "Release"
  /\ record' = ReleaseExecution(record, ref)

DoStartAttempt(q) ==
  /\ StartAttemptVerdict(record, q) \in {"First", "Again", "Orphaned"}
  /\ Len(record.attempts[q.operation]) < MaxAttempts
  /\ record' = StartAttempt(record, q)

DoFinishAttempt(q) ==
  /\ FinishAttemptVerdict(record, q) = "Finish"
  /\ record' = FinishAttempt(record, q)

DoMarkAttemptUnknown(q) ==
  /\ MarkAttemptUnknownVerdict(record, q) = "Mark"
  /\ record' = MarkAttemptUnknown(record, q)

DoReconcileAttempt(q) ==
  /\ ReconcileAttemptVerdict(record, q) = "Reconcile"
  /\ record' = ReconcileAttempt(record, q)

\* The trusted clock moves on (trustedNow, Advance).
Advance ==
  /\ record.execution.lease.ttl > 0
  /\ record' = [record EXCEPT !.execution.lease.ttl = @ - 1]

Init == record = NoRecord

Next ==
  \/ \E q \in StartRequests : DoCreate(q)
  \/ \E q \in StartRequests : DoStart(q)
  \/ \E q \in ResumeRequests : DoResume(q)
  \/ \E ref \in LeaseRefs, ttl \in LeaseTTLs : DoRenew(ref, ttl)
  \/ \E q \in CheckpointRequests : DoSaveCheckpoint(q)
  \/ \E q \in SuspendRequests : DoSuspend(q)
  \/ \E q \in FinishRequests : DoFinish(q)
  \/ \E ref \in LeaseRefs : DoRelease(ref)
  \/ \E q \in AttemptRequests : DoStartAttempt(q)
  \/ \E q \in SettleRequests : DoFinishAttempt(q)
  \/ \E q \in SettleRequests : DoMarkAttemptUnknown(q)
  \/ \E q \in ReconcileRequests : DoReconcileAttempt(q)
  \/ Advance

Spec == Init /\ [][Next]_record

-----------------------------------------------------------------------------
(* Properties.                                                             *)

\* The record has the types of backend.go and of testbackend's store.
TypeOK == record \in Record

\* A running attempt belongs to the lease that is held now: every path that
\* takes the lease away (a new claim, Suspend, Finish, Release) has settled it
\* or made it unknown first.  So StartAttempt never meets a running attempt of
\* another lease, and no attempt is left running with nobody to settle it.
RunningHeldByLease ==
  \A op \in Operations : \A i \in DOMAIN record.attempts[op] :
    record.attempts[op][i].status = "running" =>
      leaseMatches(record.execution.lease, record.attempts[op][i].lease)

\* Attempts of one operation are numbered consecutively and only the newest
\* can be anything but abandoned: an operation never has two live outcomes.
OnlyLatestOpen ==
  \A op \in Operations : \A i \in DOMAIN record.attempts[op] :
    /\ record.attempts[op][i].number = i
    /\ i < Len(record.attempts[op]) => record.attempts[op][i].status = "abandoned"

\* A terminal execution has its result, agrees with it, is held by nobody and
\* has no effect in doubt; no other execution has a result.
TerminalIsSettled ==
  IF terminal(record.execution.status)
  THEN /\ record.execution.result # None
       /\ (record.execution.status = "failed") = (record.execution.result \in FailedResults)
       /\ record.execution.lease = NoLease
       /\ ~hasUncertainAttempts(record)
  ELSE record.execution.result = None

\* The lease that is held carries the newest token; an execution is held only
\* while it runs, and nothing is recorded before it exists.
LeaseIsNewest ==
  /\ record.execution.lease.token # 0 =>
       /\ record.execution.lease.token = record.nextToken
       /\ record.execution.status = "running"
  /\ record.execution.lease.token = 0 => record.execution.lease = NoLease
  /\ exists(record) => record.nextToken > 0
  /\ ~exists(record) => /\ record.nextToken = 0
                        /\ record.execution.lease.token = 0
                        /\ \A op \in Operations : record.attempts[op] = <<>>

\* The inductive invariant the safety proofs rest on.
BackendInv ==
  /\ TypeOK
  /\ LeaseIsNewest
  /\ RunningHeldByLease
  /\ OnlyLatestOpen
  /\ TerminalIsSettled

\* Fencing: a lease older than the newest token is refused by every verb that
\* takes a lease, whatever else the request says, also when it repeats a call
\* that was answered before.
StaleLeaseFenced ==
  \A ref \in {l \in LeaseRefs : l.token < record.nextToken} :
    /\ RenewExecutionVerdict(record, ref) = "LeaseLost"
    /\ ReleaseExecutionVerdict(record, ref) = "LeaseLost"
    /\ \A q \in {x \in CheckpointRequests : x.lease = ref} :
         SaveCheckpointVerdict(record, q) = "LeaseLost"
    /\ \A q \in {x \in SuspendRequests : x.lease = ref} :
         SuspendExecutionVerdict(record, q) = "LeaseLost"
    /\ \A q \in {x \in FinishRequests : x.lease = ref} :
         FinishExecutionVerdict(record, q) = "LeaseLost"
    /\ \A q \in {x \in AttemptRequests : x.lease = ref} :
         StartAttemptVerdict(record, q) = "LeaseLost"
    /\ \A q \in {x \in SettleRequests : x.lease = ref} :
         /\ FinishAttemptVerdict(record, q) = "LeaseLost"
         /\ MarkAttemptUnknownVerdict(record, q) = "LeaseLost"

\* Response loss: a call that has been applied and whose answer was lost can be
\* sent again; the second call changes nothing and gets the first one's answer.
claimRetried ==
  \A q \in StartRequests \cup ResumeRequests :
    LET after == IF q.mode = "start" THEN StartExecution(record, q)
                                     ELSE ResumeExecution(record, q)
    IN after # record =>
         /\ after = IF q.mode = "start" THEN StartExecution(after, q)
                                        ELSE ResumeExecution(after, q)
         /\ claimResponse(after, q) = claimResponse(record, q)

endRetried ==
  /\ \A q \in SuspendRequests :
       LET after == SuspendExecution(record, q)
       IN after # record => /\ SuspendExecution(after, q) = after
                            /\ suspendResponse(after, q) = suspendResponse(record, q)
  /\ \A q \in FinishRequests :
       LET after == FinishExecution(record, q)
       IN after # record => /\ FinishExecution(after, q) = after
                            /\ finishResponse(after, q) = finishResponse(record, q)
  /\ \A ref \in LeaseRefs :
       LET after == ReleaseExecution(record, ref)
       IN after # record => /\ ReleaseExecution(after, ref) = after
                            /\ releaseResponse(after, ref) = releaseResponse(record, ref)

checkpointRetried ==
  \A q \in CheckpointRequests :
    LET after == SaveCheckpoint(record, q)
    IN after # record => SaveCheckpointVerdict(after, q) = "Replay"

attemptRetried ==
  /\ \A q \in AttemptRequests :
       LET after == StartAttempt(record, q)
       IN after # record => /\ StartAttempt(after, q) = after
                            /\ startAttemptResponse(after, q) = startAttemptResponse(record, q)
  /\ \A q \in SettleRequests :
       /\ FinishAttemptVerdict(record, q) = "Finish" =>
            FinishAttemptVerdict(FinishAttempt(record, q), q) = "Replay"
       /\ MarkAttemptUnknownVerdict(record, q) = "Mark" =>
            MarkAttemptUnknownVerdict(MarkAttemptUnknown(record, q), q) = "Replay"
  /\ \A q \in ReconcileRequests :
       ReconcileAttemptVerdict(record, q) = "Reconcile" =>
         ReconcileAttemptVerdict(ReconcileAttempt(record, q), q) = "Replay"

RetryIsExact == claimRetried /\ endRetried /\ checkpointRetried /\ attemptRetried

\* A settled outcome is final: no later call of anybody changes the attempt,
\* and the operation never gets another one.
OutcomeFinal ==
  [][\A op \in Operations : \A i \in DOMAIN record.attempts[op] :
       settled(record.attempts[op][i]) => record'.attempts[op] = record.attempts[op]]_record

\* No lost update: while an execution is held by one lease, its checkpoint and
\* its version move forward only, and a checkpoint only together with a version.
CheckpointForward ==
  [][/\ record'.execution.version >= record.execution.version
     /\ record'.execution.checkpoint.sequence >= record.execution.checkpoint.sequence
     /\ record'.execution.checkpoint # record.execution.checkpoint =>
          /\ record'.execution.version = record.execution.version + 1
          /\ record'.execution.checkpoint.sequence > record.execution.checkpoint.sequence
     /\ record'.nextToken >= record.nextToken]_record

-----------------------------------------------------------------------------
(* The abstract view: what the record promises about effects.              *)

Outcomes == [payload : Payloads \cup {None}, failure : Failures \cup {None}]

started(op) == record.attempts[op] # <<>>

journalOutcome ==
  [op \in Operations |->
     IF started(op) /\ settled(latest(record, op))
     THEN [payload |-> latest(record, op).payload, failure |-> latest(record, op).failure]
     ELSE None]

journalDoubt == {op \in Operations : started(op) /\ uncertain(latest(record, op))}

Journal == INSTANCE EffectJournal WITH
  outcome <- journalOutcome, doubt <- journalDoubt, final <- record.execution.result

\* The backend implements the effect journal: whatever claims, lease losses,
\* retries and reconciliations happen, an operation gets at most one outcome
\* and the execution at most one result, written when nothing is in doubt.
ImplementsJournal == Journal!Spec

=============================================================================
