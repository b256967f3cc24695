------------------------ MODULE DurableBackendProofs ------------------------
(***************************************************************************)
(* Theorems about DurableBackend, for every choice of its constants: the   *)
(* record is type correct, a running attempt is always held by the current *)
(* lease, only the newest attempt of an operation is open, a terminal      *)
(* execution has nothing in doubt, and a superseded lease is refused by    *)
(* every verb.                                                             *)
(***************************************************************************)
EXTENDS DurableBackend, TLAPS, SequenceTheorems

ClaimRequests == StartRequests \cup ResumeRequests

-----------------------------------------------------------------------------
(* The calls of the verbs with any lease, version and attempt number: what *)
(* is proved about them holds for the bounded requests of Next and for the *)
(* ones the durable runtime makes.                                         *)

CheckpointCalls == [lease : LeaseRef, version : Nat,
                    checkpoint : [sequence : Nat \ {0}, continuation : Continuations]]
SuspendCalls == [lease : LeaseRef, version : Nat]
FinishCalls == [lease : LeaseRef, version : Nat, result : Results]
AttemptCalls == [lease : LeaseRef, operation : Operations, input : Inputs]
SettleCalls == [lease : LeaseRef, operation : Operations, number : Nat, version : Nat,
                payload : Payloads \cup {None}, failure : Failures \cup {None}]
ReconcileCalls == [operation : Operations, number : Nat, version : Nat,
                   resolution : {"succeed", "fail", "retry"},
                   payload : Payloads \cup {None}, failure : Failures \cup {None}]

CallCreate(q) ==
  StartExecutionVerdict(record, q) = "Create" /\ record' = StartExecution(record, q)

CallStart(q) ==
  StartExecutionVerdict(record, q) = "Claim" /\ record' = StartExecution(record, q)

CallResume(q) ==
  ResumeExecutionVerdict(record, q) = "Claim" /\ record' = ResumeExecution(record, q)

CallRenew(ref, ttl) ==
  RenewExecutionVerdict(record, ref) = "Renew" /\ record' = RenewExecution(record, ref, ttl)

CallSaveCheckpoint(q) ==
  SaveCheckpointVerdict(record, q) = "Save" /\ record' = SaveCheckpoint(record, q)

CallSuspend(q) ==
  SuspendExecutionVerdict(record, q) = "Suspend" /\ record' = SuspendExecution(record, q)

CallFinish(q) ==
  FinishExecutionVerdict(record, q) = "Finish" /\ record' = FinishExecution(record, q)

CallRelease(ref) ==
  ReleaseExecutionVerdict(record, ref) = "Release" /\ record' = ReleaseExecution(record, ref)

CallStartAttempt(q) ==
  /\ StartAttemptVerdict(record, q) \in {"First", "Again", "Orphaned"}
  /\ record' = StartAttempt(record, q)

CallFinishAttempt(q) ==
  FinishAttemptVerdict(record, q) = "Finish" /\ record' = FinishAttempt(record, q)

CallMarkAttemptUnknown(q) ==
  MarkAttemptUnknownVerdict(record, q) = "Mark" /\ record' = MarkAttemptUnknown(record, q)

CallReconcileAttempt(q) ==
  ReconcileAttemptVerdict(record, q) = "Reconcile" /\ record' = ReconcileAttempt(record, q)

Calls ==
  \/ \E q \in StartRequests : CallCreate(q)
  \/ \E q \in StartRequests : CallStart(q)
  \/ \E q \in ResumeRequests : CallResume(q)
  \/ \E ref \in LeaseRef, ttl \in LeaseTTLs : CallRenew(ref, ttl)
  \/ \E q \in CheckpointCalls : CallSaveCheckpoint(q)
  \/ \E q \in SuspendCalls : CallSuspend(q)
  \/ \E q \in FinishCalls : CallFinish(q)
  \/ \E ref \in LeaseRef : CallRelease(ref)
  \/ \E q \in AttemptCalls : CallStartAttempt(q)
  \/ \E q \in SettleCalls : CallFinishAttempt(q)
  \/ \E q \in SettleCalls : CallMarkAttemptUnknown(q)
  \/ \E q \in ReconcileCalls : CallReconcileAttempt(q)
  \/ Advance

\* The bounded requests are calls.
LEMMA RequestsAreCalls ==
  /\ LeaseRefs \subseteq LeaseRef
  /\ CheckpointRequests \subseteq CheckpointCalls
  /\ SuspendRequests \subseteq SuspendCalls
  /\ FinishRequests \subseteq FinishCalls
  /\ AttemptRequests \subseteq AttemptCalls
  /\ SettleRequests \subseteq SettleCalls
  /\ ReconcileRequests \subseteq ReconcileCalls
<1>1. LeaseRefs \subseteq LeaseRef
  BY BoundAssumption DEF LeaseRefs, LeaseRef
<1>2. CheckpointRequests \subseteq CheckpointCalls
  BY <1>1, BoundAssumption DEF CheckpointRequests, CheckpointCalls
<1>3. /\ SuspendRequests \subseteq SuspendCalls
      /\ FinishRequests \subseteq FinishCalls
      /\ AttemptRequests \subseteq AttemptCalls
  BY <1>1, BoundAssumption DEF SuspendRequests, SuspendCalls, FinishRequests, FinishCalls,
                               AttemptRequests, AttemptCalls
<1>4. SettleRequests \subseteq SettleCalls
  BY <1>1, BoundAssumption DEF SettleRequests, SettleCalls, AttemptVersions
<1>5. ReconcileRequests \subseteq ReconcileCalls
  BY BoundAssumption DEF ReconcileRequests, ReconcileCalls, AttemptVersions
<1> QED BY <1>1, <1>2, <1>3, <1>4, <1>5

\* So every step of the specification is a call.
LEMMA NextCalls == Next => Calls
BY RequestsAreCalls DEF Next, Calls, DoCreate, CallCreate, DoStart, CallStart, DoResume,
   CallResume, DoRenew, CallRenew, DoSaveCheckpoint, CallSaveCheckpoint, DoSuspend,
   CallSuspend, DoFinish, CallFinish, DoRelease, CallRelease, DoStartAttempt,
   CallStartAttempt, DoFinishAttempt, CallFinishAttempt, DoMarkAttemptUnknown,
   CallMarkAttemptUnknown, DoReconcileAttempt, CallReconcileAttempt

-----------------------------------------------------------------------------
(* Types of the values the verbs build.                                    *)

\* The fields of a record have the types the store declares.
LEMMA RecordFields ==
  ASSUME NEW r \in Record
  PROVE  /\ r.execution \in Execution
         /\ r.attempts \in [Operations -> Seq(Attempt)]
         /\ r.claims \in [ClaimIDs -> ClaimRecord]
         /\ r.releases \in SUBSET ReleaseEntry
         /\ r.suspends \in SUBSET SuspendEntry
         /\ r.finishes \in SUBSET FinishEntry
         /\ r.nextToken \in Nat /\ r.nextToken + 1 \in Nat
BY DEF Record

\* Likewise for an execution.
LEMMA ExecutionFields ==
  ASSUME NEW e \in Execution
  PROVE  /\ e.status \in ExecutionStatus
         /\ e.version \in Nat /\ e.version + 1 \in Nat
         /\ e.lease \in Lease
         /\ e.lease.token \in Nat /\ e.lease.ttl \in Nat
         /\ e.checkpoint \in Checkpoint
         /\ e.result \in Results \cup {None}
<1>1. e.status \in ExecutionStatus /\ e.version \in Nat /\ e.lease \in Lease
        /\ e.checkpoint \in Checkpoint /\ e.result \in Results \cup {None}
  BY DEF Execution
<1>2. e.lease.token \in Nat /\ e.lease.ttl \in Nat
  BY <1>1 DEF Lease
<1> QED BY <1>1, <1>2

\* Likewise for an attempt.
LEMMA AttemptFields ==
  ASSUME NEW a \in Attempt
  PROVE  /\ a.number \in Nat /\ a.number + 1 \in Nat
         /\ a.version \in Nat /\ a.version + 1 \in Nat
         /\ a.status \in AttemptStatus
         /\ a.lease \in LeaseRef
BY DEF Attempt

\* The statuses and the null records are values of their types.
LEMMA NullTypes ==
  /\ NoLease \in Lease
  /\ NoLeaseRef \in LeaseRef
  /\ NoCheckpoint \in Checkpoint
  /\ NoExecution \in Execution
  /\ {"absent", "running", "suspended", "completed", "failed"} = ExecutionStatus
  /\ {"running", "succeeded", "failed", "unknown", "abandoned"} = AttemptStatus
<1>1. NoLease \in Lease
  BY DEF NoLease, Lease
<1>2. NoLeaseRef \in LeaseRef
  BY DEF NoLeaseRef, LeaseRef
<1>3. NoCheckpoint \in Checkpoint
  BY DEF NoCheckpoint, Checkpoint
<1>4. NoExecution \in Execution
  BY <1>1, <1>3 DEF NoExecution, Execution, ExecutionStatus
<1> QED BY <1>1, <1>2, <1>3, <1>4 DEF ExecutionStatus, AttemptStatus

\* A request to claim carries typed fields.
LEMMA ClaimRequestFields ==
  ASSUME NEW q \in ClaimRequests
  PROVE  /\ q.mode \in {"none", "start", "resume"} /\ q.owner \in Owners
         /\ q.claim \in ClaimIDs /\ q.leaseTTL \in Nat
         /\ q.specHash \in Specs \cup {None}
<1>1. CASE q \in StartRequests
  BY <1>1, TTLAssumption DEF StartRequests
<1>2. CASE q \in ResumeRequests
  BY <1>2, TTLAssumption DEF ResumeRequests
<1> QED BY <1>1, <1>2 DEF ClaimRequests

\* The lease a claim issues.
LEMMA NewLeaseType ==
  ASSUME NEW r \in Record, NEW q \in ClaimRequests
  PROVE  newLease(r, q) \in Lease
BY RecordFields, ClaimRequestFields DEF newLease, Lease

\* Making an attempt unknown keeps it an attempt.
LEMMA MarkUnknownType ==
  ASSUME NEW a \in Attempt
  PROVE  markUnknown(a) \in Attempt
BY AttemptFields, NullTypes DEF markUnknown, Attempt, AttemptStatus

\* Marking the running attempts keeps the attempt lists and their lengths.
LEMMA ReconcileRunningType ==
  ASSUME NEW attempts \in [Operations -> Seq(Attempt)], NEW token
  PROVE  /\ reconcileRunning(attempts, token) \in [Operations -> Seq(Attempt)]
         /\ \A op \in Operations :
              /\ Len(reconcileRunning(attempts, token)[op]) = Len(attempts[op])
              /\ DOMAIN reconcileRunning(attempts, token)[op] = DOMAIN attempts[op]
              /\ \A i \in DOMAIN attempts[op] :
                   reconcileRunning(attempts, token)[op][i] =
                     IF reconciles(attempts[op][i], token)
                     THEN markUnknown(attempts[op][i]) ELSE attempts[op][i]
<1>1. ASSUME NEW op \in Operations
      PROVE  /\ reconcileRunning(attempts, token)[op] \in Seq(Attempt)
             /\ Len(reconcileRunning(attempts, token)[op]) = Len(attempts[op])
             /\ DOMAIN reconcileRunning(attempts, token)[op] = DOMAIN attempts[op]
             /\ \A i \in DOMAIN attempts[op] :
                   reconcileRunning(attempts, token)[op][i] =
                     IF reconciles(attempts[op][i], token)
                     THEN markUnknown(attempts[op][i]) ELSE attempts[op][i]
  <2> DEFINE f == reconcileRunning(attempts, token)[op]
  <2>1. f = [i \in DOMAIN attempts[op] |->
        IF reconciles(attempts[op][i], token) THEN markUnknown(attempts[op][i])
                                              ELSE attempts[op][i]]
    BY DEF reconcileRunning
  <2>2. DOMAIN attempts[op] = 1..Len(attempts[op]) /\ Len(attempts[op]) \in Nat
    OBVIOUS
  <2>3. \A i \in 1..Len(attempts[op]) : f[i] \in Attempt
    BY <2>1, <2>2, MarkUnknownType
  <2> QED BY <2>1, <2>2, <2>3
<1> QED BY <1>1 DEF reconcileRunning

\* The attempts a claim reports.
LEMMA UnknownAttemptsType ==
  ASSUME NEW attempts \in [Operations -> Seq(Attempt)]
  PROVE  unknownAttempts(attempts) \in SUBSET ReportedAttempt
BY DEF unknownAttempts, ReportedAttempt

\* A claim on an existing execution yields a typed record.
LEMMA ClaimType ==
  ASSUME NEW r \in Record, NEW q \in ClaimRequests
  PROVE  claim(r, q) \in Record
<1> DEFINE attempts == reconcileRunning(r.attempts, 0)
           execution == [r.execution EXCEPT !.status = "running", !.lease = newLease(r, q)]
           result == [execution |-> execution, created |-> FALSE,
                      reconcile |-> unknownAttempts(attempts)]
<1>1. attempts \in [Operations -> Seq(Attempt)]
  BY RecordFields, ReconcileRunningType
<1>2. execution \in Execution
  BY RecordFields, NewLeaseType DEF Execution, ExecutionStatus
<1>3. result \in ClaimResult
  BY <1>1, <1>2, UnknownAttemptsType DEF ClaimResult
<1>4. claimRecord(r, q, result) \in ClaimRecord
  BY <1>3, ClaimRequestFields, RecordFields DEF claimRecord, ClaimRecord
<1>5. claim(r, q) = [r EXCEPT !.attempts = attempts, !.execution = execution,
                              !.nextToken = @ + 1,
                              !.claims[q.claim] = claimRecord(r, q, result)]
  BY DEF claim
<1> HIDE DEF attempts, execution, result
<1>6. [r.claims EXCEPT ![q.claim] = claimRecord(r, q, result)] \in [ClaimIDs -> ClaimRecord]
  BY <1>4, RecordFields
<1> QED BY <1>1, <1>2, <1>5, <1>6, RecordFields DEF Record

\* Creating an execution yields a typed record.
LEMMA CreateType ==
  ASSUME NEW r \in Record, NEW q \in ClaimRequests
  PROVE  create(r, q) \in Record
<1> DEFINE execution == [NoExecution EXCEPT !.specHash = q.specHash, !.status = "running",
                                            !.version = 1, !.lease = newLease(r, q)]
           result == [execution |-> execution, created |-> TRUE, reconcile |-> {}]
<1>1. execution \in Execution
  BY NullTypes, NewLeaseType, ClaimRequestFields DEF Execution, ExecutionStatus
<1>2. result \in ClaimResult
  BY <1>1 DEF ClaimResult
<1>3. claimRecord(r, q, result) \in ClaimRecord
  BY <1>2, ClaimRequestFields, RecordFields DEF claimRecord, ClaimRecord
<1>4. create(r, q) = [r EXCEPT !.execution = execution, !.nextToken = @ + 1,
                               !.claims[q.claim] = claimRecord(r, q, result)]
  BY DEF create
<1> HIDE DEF execution, result
<1>5. [r.claims EXCEPT ![q.claim] = claimRecord(r, q, result)] \in [ClaimIDs -> ClaimRecord]
  BY <1>3, RecordFields
<1> QED BY <1>1, <1>4, <1>5, RecordFields DEF Record

\* Changing the remaining life of the lease (Renew, and the clock).
LEMMA TTLType ==
  ASSUME NEW r \in Record, NEW ttl \in Nat
  PROVE  [r EXCEPT !.execution.lease.ttl = ttl] \in Record
<1>1. [r.execution.lease EXCEPT !.ttl = ttl] \in Lease
  BY RecordFields, ExecutionFields DEF Lease
<1>2. [r.execution EXCEPT !.lease = [r.execution.lease EXCEPT !.ttl = ttl]] \in Execution
  BY <1>1, RecordFields DEF Execution
<1>3. [r EXCEPT !.execution.lease.ttl = ttl]
        = [r EXCEPT !.execution =
             [r.execution EXCEPT !.lease = [r.execution.lease EXCEPT !.ttl = ttl]]]
  OBVIOUS
<1> QED BY <1>2, <1>3, RecordFields DEF Record

\* Replacing the checkpoint.
LEMMA SaveCheckpointType ==
  ASSUME NEW r \in Record, NEW q \in CheckpointCalls
  PROVE  SaveCheckpoint(r, q) \in Record
<1> DEFINE e == [r.execution EXCEPT !.checkpoint = q.checkpoint,
                                    !.version = r.execution.version + 1]
<1>1. q.checkpoint \in Checkpoint
  BY BoundAssumption DEF CheckpointCalls, Checkpoint
<1>2. e \in Execution
  BY <1>1, RecordFields, ExecutionFields DEF Execution
<1>3. [r EXCEPT !.execution.checkpoint = q.checkpoint, !.execution.version = @ + 1]
        = [r EXCEPT !.execution = e]
  BY RecordFields DEF Record, Execution
<1>4. [r EXCEPT !.execution = e] \in Record
  BY <1>2, RecordFields DEF Record
<1> QED BY <1>3, <1>4 DEF SaveCheckpoint

\* Suspending.
LEMMA SuspendType ==
  ASSUME NEW r \in Record, NEW q \in SuspendCalls
  PROVE  SuspendExecution(r, q) \in Record
<1> DEFINE e == [r.execution EXCEPT !.status = "suspended", !.lease = NoLease,
                                    !.version = @ + 1]
           entry == [lease |-> q.lease, version |-> q.version, execution |-> e]
           after == [r EXCEPT !.attempts = reconcileRunning(@, q.lease.token),
                              !.execution = e, !.suspends = @ \cup {entry}]
<1>1. e \in Execution
  BY RecordFields, ExecutionFields, NullTypes DEF Execution, ExecutionStatus
<1>2. entry \in SuspendEntry
  BY <1>1, BoundAssumption DEF SuspendEntry, SuspendCalls, LeaseRef
<1>3. reconcileRunning(r.attempts, q.lease.token) \in [Operations -> Seq(Attempt)]
  BY RecordFields, ReconcileRunningType
<1>4. SuspendExecution(r, q) = r \/ SuspendExecution(r, q) = after
  BY DEF SuspendExecution
<1> HIDE DEF e, entry
<1>5. after \in Record
  BY <1>1, <1>2, <1>3, RecordFields DEF Record
<1> QED BY <1>4, <1>5

\* Committing a terminal result.
LEMMA FinishType ==
  ASSUME NEW r \in Record, NEW q \in FinishCalls
  PROVE  FinishExecution(r, q) \in Record
<1> DEFINE status == IF q.result \in FailedResults THEN "failed" ELSE "completed"
           e == [r.execution EXCEPT !.status = status, !.result = q.result,
                                    !.lease = NoLease, !.version = @ + 1]
           entry == [lease |-> q.lease, version |-> q.version, result |-> q.result,
                     execution |-> e]
           after == [r EXCEPT !.execution = e, !.finishes = @ \cup {entry}]
<1>0. status \in ExecutionStatus /\ q.result \in Results
  BY DEF ExecutionStatus, FinishCalls
<1>1. e \in Execution
  <2> HIDE DEF status
  <2> QED BY <1>0, RecordFields, ExecutionFields, NullTypes DEF Execution
<1>2. entry \in FinishEntry
  <2> HIDE DEF e
  <2> QED BY <1>1, BoundAssumption DEF FinishEntry, FinishCalls, LeaseRef
<1>3. FinishExecution(r, q) = r \/ FinishExecution(r, q) = after
  BY DEF FinishExecution
<1> HIDE DEF e, entry
<1>4. after \in Record
  BY <1>1, <1>2, RecordFields DEF Record
<1> QED BY <1>3, <1>4

\* Releasing the lease.
LEMMA ReleaseType ==
  ASSUME NEW r \in Record, NEW ref \in LeaseRef
  PROVE  ReleaseExecution(r, ref) \in Record
<1> DEFINE attempts == reconcileRunning(r.attempts, ref.token)
           e == [r.execution EXCEPT !.lease = NoLease]
           entry == [lease |-> ref, execution |-> e,
                     reconcile |-> unknownAttempts(attempts) \ unknownAttempts(r.attempts)]
           after == [r EXCEPT !.attempts = attempts, !.execution = e,
                              !.releases = @ \cup {entry}]
<1>1. e \in Execution
  BY RecordFields, NullTypes DEF Execution
<1>2. attempts \in [Operations -> Seq(Attempt)]
  BY RecordFields, ReconcileRunningType
<1>3. ref \in LeaseRef
  BY BoundAssumption DEF LeaseRef
<1>4. ReleaseExecution(r, ref) = r \/ ReleaseExecution(r, ref) = after
  BY DEF ReleaseExecution
<1>5. unknownAttempts(attempts) \ unknownAttempts(r.attempts) \in SUBSET ReportedAttempt
  BY <1>2, UnknownAttemptsType
<1> HIDE DEF e, attempts
<1>6. entry \in ReleaseEntry
  BY <1>1, <1>3, <1>5 DEF ReleaseEntry
<1> HIDE DEF entry
<1>7. after \in Record
  BY <1>1, <1>2, <1>6, RecordFields DEF Record
<1> QED BY <1>4, <1>7

\* A non-empty attempt list has a typed newest element.
LEMMA LatestType ==
  ASSUME NEW r \in Record, NEW op \in Operations, r.attempts[op] # <<>>
  PROVE  /\ Len(r.attempts[op]) \in DOMAIN r.attempts[op]
         /\ latest(r, op) \in Attempt
BY RecordFields DEF latest

\* The attempt found by number is one of the operation's attempts.
LEMMA AttemptByNumberType ==
  ASSUME NEW r \in Record, NEW op \in Operations, NEW n, positions(r, op, n) # {}
  PROVE  \E i \in DOMAIN r.attempts[op] :
           /\ i \in positions(r, op, n)
           /\ attemptByNumber(r, op, n) = r.attempts[op][i]
           /\ attemptByNumber(r, op, n) \in Attempt
<1> DEFINE i == CHOOSE j \in positions(r, op, n) : TRUE
<1>1. i \in positions(r, op, n)
  OBVIOUS
<1>2. i \in DOMAIN r.attempts[op]
  BY <1>1 DEF positions
<1>3. attemptByNumber(r, op, n) = r.attempts[op][i]
  BY DEF attemptByNumber
<1> HIDE DEF i
<1> QED BY <1>1, <1>2, <1>3, RecordFields

\* Writing one attempt back.
LEMMA PutAttemptType ==
  ASSUME NEW r \in Record, NEW op \in Operations, NEW n, NEW a \in Attempt
  PROVE  /\ putAttempt(r, op, n, a) \in Record
         /\ putAttempt(r, op, n, a) = [r EXCEPT !.attempts = putAttempt(r, op, n, a).attempts]
         /\ \A o \in Operations :
              /\ o # op => putAttempt(r, op, n, a).attempts[o] = r.attempts[o]
              /\ Len(putAttempt(r, op, n, a).attempts[o]) = Len(r.attempts[o])
              /\ DOMAIN putAttempt(r, op, n, a).attempts[o] = DOMAIN r.attempts[o]
         /\ \A i \in DOMAIN r.attempts[op] :
              putAttempt(r, op, n, a).attempts[op][i] =
                IF i \in positions(r, op, n) THEN a ELSE r.attempts[op][i]
<1> DEFINE s == [i \in DOMAIN r.attempts[op] |->
                   IF i \in positions(r, op, n) THEN a ELSE r.attempts[op][i]]
           atts == [r.attempts EXCEPT ![op] = s]
<1>1. r.attempts[op] \in Seq(Attempt)
  BY RecordFields
<1>2. /\ s \in Seq(Attempt)
      /\ Len(s) = Len(r.attempts[op])
      /\ DOMAIN s = DOMAIN r.attempts[op]
  <2>1. DOMAIN r.attempts[op] = 1..Len(r.attempts[op]) /\ Len(r.attempts[op]) \in Nat
    BY <1>1
  <2>2. \A i \in 1..Len(r.attempts[op]) : s[i] \in Attempt
    BY <1>1, <2>1
  <2>3. s = [i \in 1..Len(r.attempts[op]) |-> s[i]]
    BY <2>1
  <2> HIDE DEF s
  <2> QED BY <2>1, <2>2, <2>3
<1>3. putAttempt(r, op, n, a) = [r EXCEPT !.attempts = atts]
  BY RecordFields DEF putAttempt
<1>4. \A i \in DOMAIN r.attempts[op] :
        s[i] = IF i \in positions(r, op, n) THEN a ELSE r.attempts[op][i]
  OBVIOUS
<1> HIDE DEF s
<1>5. atts \in [Operations -> Seq(Attempt)]
  BY <1>2, RecordFields
<1>6. atts[op] = s /\ \A o \in Operations : o # op => atts[o] = r.attempts[o]
  BY RecordFields
<1> HIDE DEF atts
<1>7. [r EXCEPT !.attempts = atts] \in Record /\ [r EXCEPT !.attempts = atts].attempts = atts
  BY <1>5, RecordFields DEF Record
<1>8. putAttempt(r, op, n, a).attempts = atts
  BY <1>3, <1>7
<1>9. \A o \in Operations : /\ o # op => atts[o] = r.attempts[o]
                            /\ Len(atts[o]) = Len(r.attempts[o])
                            /\ DOMAIN atts[o] = DOMAIN r.attempts[o]
  BY <1>2, <1>6
<1>10. \A i \in DOMAIN r.attempts[op] :
         atts[op][i] = IF i \in positions(r, op, n) THEN a ELSE r.attempts[op][i]
  BY <1>4, <1>6
<1> QED BY <1>3, <1>7, <1>8, <1>9, <1>10

\* What a FinishAttempt, a MarkAttemptUnknown or a ReconcileAttempt that
\* applies has found, and what it writes.
LEMMA SettleVerdictFacts ==
  ASSUME NEW r \in Record, NEW q \in SettleCalls, NEW answered, NEW apply,
         settleVerdict(r, q, answered, apply) = apply,
         apply \notin {"NotFound", "LeaseLost", "Replay", "Conflict"}
  PROVE  /\ exists(r)
         /\ requireActiveLease(r, q.lease)
         /\ positions(r, q.operation, q.number) # {}
         /\ attemptByNumber(r, q.operation, q.number).status = "running"
BY DEF settleVerdict

\* FinishAttempt keeps the record well typed.
LEMMA FinishAttemptType ==
  ASSUME NEW r \in Record, NEW q \in SettleCalls
  PROVE  FinishAttempt(r, q) \in Record
<1> DEFINE a == attemptByNumber(r, q.operation, q.number)
           status == IF q.failure # None THEN "failed" ELSE "succeeded"
           done == [a EXCEPT !.status = status,
                        !.lease = NoLeaseRef, !.payload = q.payload,
                        !.failure = q.failure, !.version = @ + 1]
<1>1. CASE FinishAttemptVerdict(r, q) # "Finish"
  BY <1>1 DEF FinishAttempt
<1>2. CASE FinishAttemptVerdict(r, q) = "Finish"
  <2>1. /\ q.operation \in Operations
        /\ q.payload \in Payloads \cup {None} /\ q.failure \in Failures \cup {None}
    BY DEF SettleCalls
  <2>2. positions(r, q.operation, q.number) # {}
    BY <1>2, SettleVerdictFacts DEF FinishAttemptVerdict
  <2>3. a \in Attempt
    BY <2>1, <2>2, AttemptByNumberType
  <2>4. status \in AttemptStatus
    BY DEF AttemptStatus
  <2>5. FinishAttempt(r, q) = putAttempt(r, q.operation, q.number, done)
    BY <1>2 DEF FinishAttempt
  <2> HIDE DEF a, status
  <2>6. done \in Attempt
    BY <2>1, <2>3, <2>4, AttemptFields, NullTypes DEF Attempt
  <2> QED BY <2>1, <2>5, <2>6, PutAttemptType
<1> QED BY <1>1, <1>2

\* MarkAttemptUnknown keeps the record well typed.
LEMMA MarkAttemptUnknownType ==
  ASSUME NEW r \in Record, NEW q \in SettleCalls
  PROVE  MarkAttemptUnknown(r, q) \in Record
<1> DEFINE a == attemptByNumber(r, q.operation, q.number)
           unknown == [markUnknown(a) EXCEPT !.payload = q.payload, !.failure = q.failure]
<1>1. CASE MarkAttemptUnknownVerdict(r, q) # "Mark"
  BY <1>1 DEF MarkAttemptUnknown
<1>2. CASE MarkAttemptUnknownVerdict(r, q) = "Mark"
  <2>1. /\ q.operation \in Operations
        /\ q.payload \in Payloads \cup {None} /\ q.failure \in Failures \cup {None}
    BY DEF SettleCalls
  <2>2. positions(r, q.operation, q.number) # {}
    BY <1>2, SettleVerdictFacts DEF MarkAttemptUnknownVerdict
  <2>3. a \in Attempt
    BY <2>1, <2>2, AttemptByNumberType
  <2>4. MarkAttemptUnknown(r, q) = putAttempt(r, q.operation, q.number, unknown)
    BY <1>2 DEF MarkAttemptUnknown
  <2> HIDE DEF a
  <2>5. unknown \in Attempt
    BY <2>1, <2>3, MarkUnknownType DEF Attempt
  <2> QED BY <2>1, <2>4, <2>5, PutAttemptType
<1> QED BY <1>1, <1>2

\* ReconcileAttempt applies only to an attempt that is unknown.
LEMMA ReconcileVerdictFacts ==
  ASSUME NEW r \in Record, NEW q \in ReconcileCalls,
         ReconcileAttemptVerdict(r, q) = "Reconcile"
  PROVE  /\ exists(r)
         /\ ~leaseActive(r.execution.lease)
         /\ positions(r, q.operation, q.number) # {}
         /\ attemptByNumber(r, q.operation, q.number).status = "unknown"
BY DEF ReconcileAttemptVerdict

\* ReconcileAttempt keeps the record well typed.
LEMMA ReconcileAttemptType ==
  ASSUME NEW r \in Record, NEW q \in ReconcileCalls
  PROVE  ReconcileAttempt(r, q) \in Record
<1> DEFINE a == attemptByNumber(r, q.operation, q.number)
           resolved == [a EXCEPT !.status = resolvedStatus(q.resolution), !.lease = NoLeaseRef,
                            !.payload = q.payload, !.failure = q.failure, !.version = @ + 1]
<1>1. CASE ReconcileAttemptVerdict(r, q) # "Reconcile"
  BY <1>1 DEF ReconcileAttempt
<1>2. CASE ReconcileAttemptVerdict(r, q) = "Reconcile"
  <2>1. /\ q.operation \in Operations /\ q.resolution \in {"succeed", "fail", "retry"}
        /\ q.payload \in Payloads \cup {None} /\ q.failure \in Failures \cup {None}
    BY DEF ReconcileCalls
  <2>2. positions(r, q.operation, q.number) # {}
    BY <1>2, ReconcileVerdictFacts
  <2>3. a \in Attempt
    BY <2>1, <2>2, AttemptByNumberType
  <2>4. resolvedStatus(q.resolution) \in AttemptStatus
    BY <2>1 DEF resolvedStatus, AttemptStatus
  <2>5. ReconcileAttempt(r, q) = putAttempt(r, q.operation, q.number, resolved)
    BY <1>2 DEF ReconcileAttempt
  <2> HIDE DEF a
  <2>6. resolved \in Attempt
    BY <2>1, <2>3, <2>4, AttemptFields, NullTypes DEF Attempt
  <2> QED BY <2>1, <2>5, <2>6, PutAttemptType
<1> QED BY <1>1, <1>2

\* The attempt StartAttempt opens is well typed.
LEMMA NewAttemptType ==
  ASSUME NEW q \in AttemptCalls, NEW n \in Nat
  PROVE  newAttempt(q, n) \in Attempt
<1>1. q.lease \in LeaseRef /\ q.input \in Inputs
  BY BoundAssumption DEF AttemptCalls, LeaseRef
<1> QED BY <1>1, NullTypes DEF newAttempt, Attempt, AttemptStatus

\* Starting an attempt: the first, one more after an abandoned one, or the
\* newest made unknown; nothing but the operation's list changes.
LEMMA StartAttemptShape ==
  ASSUME NEW r \in Record, NEW q \in AttemptCalls,
         StartAttemptVerdict(r, q) \in {"First", "Again", "Orphaned"}
  PROVE  /\ q.operation \in Operations
         /\ requireActiveLease(r, q.lease)
         /\ \E s \in Seq(Attempt) :
              /\ StartAttempt(r, q) =
                   [r EXCEPT !.attempts = [r.attempts EXCEPT ![q.operation] = s]]
              /\ \/ /\ r.attempts[q.operation] = <<>>
                    /\ s = <<newAttempt(q, 1)>>
                 \/ /\ r.attempts[q.operation] # <<>>
                    /\ latest(r, q.operation).status = "abandoned"
                    /\ s = Append(r.attempts[q.operation],
                                  newAttempt(q, latest(r, q.operation).number + 1))
                 \/ /\ r.attempts[q.operation] # <<>>
                    /\ latest(r, q.operation).status = "running"
                    /\ latest(r, q.operation).lease # q.lease
                    /\ s = [r.attempts[q.operation] EXCEPT
                              ![Len(r.attempts[q.operation])] =
                                markUnknown(latest(r, q.operation))]
<1>1. q.operation \in Operations
  BY DEF AttemptCalls
<1>2. requireActiveLease(r, q.lease)
  BY DEF StartAttemptVerdict
<1>3. r.attempts[q.operation] \in Seq(Attempt)
  BY <1>1, RecordFields
<1>4. CASE StartAttemptVerdict(r, q) = "First"
  <2>1. r.attempts[q.operation] = <<>>
    BY <1>4 DEF StartAttemptVerdict
  <2>2. StartAttempt(r, q) = [r EXCEPT !.attempts[q.operation] = <<newAttempt(q, 1)>>]
    BY <1>4 DEF StartAttempt
  <2>3. <<newAttempt(q, 1)>> \in Seq(Attempt)
    BY NewAttemptType
  <2>4. StartAttempt(r, q) =
          [r EXCEPT !.attempts = [r.attempts EXCEPT ![q.operation] = <<newAttempt(q, 1)>>]]
    BY <2>2
  <2> QED BY <1>1, <1>2, <2>1, <2>3, <2>4
<1>5. CASE StartAttemptVerdict(r, q) = "Again"
  <2> DEFINE s == Append(r.attempts[q.operation],
                         newAttempt(q, latest(r, q.operation).number + 1))
  <2>1. r.attempts[q.operation] # <<>> /\ latest(r, q.operation).status = "abandoned"
    BY <1>5 DEF StartAttemptVerdict
  <2>2. newAttempt(q, latest(r, q.operation).number + 1) \in Attempt
    BY <1>1, <2>1, LatestType, AttemptFields, NewAttemptType
  <2>3. s \in Seq(Attempt)
    BY <1>3, <2>2
  <2>4. StartAttempt(r, q) = [r EXCEPT !.attempts = [r.attempts EXCEPT ![q.operation] = s]]
    BY <1>5 DEF StartAttempt
  <2> QED BY <1>1, <1>2, <2>1, <2>3, <2>4
<1>6. CASE StartAttemptVerdict(r, q) = "Orphaned"
  <2> DEFINE n == Len(r.attempts[q.operation])
             s == [r.attempts[q.operation] EXCEPT ![n] = markUnknown(latest(r, q.operation))]
  <2>1. r.attempts[q.operation] # <<>>
    BY <1>6 DEF StartAttemptVerdict
  <2>2. latest(r, q.operation) \in Attempt /\ n \in DOMAIN r.attempts[q.operation]
    BY <1>1, <2>1, LatestType
  <2>3. latest(r, q.operation).status = "running" /\ latest(r, q.operation).lease # q.lease
    BY <1>6, <2>2, AttemptFields DEF StartAttemptVerdict, settled, AttemptStatus
  <2>4. s \in Seq(Attempt)
    BY <1>3, <2>2, MarkUnknownType, ExceptSeq
  <2>5. StartAttempt(r, q) = [r EXCEPT !.attempts = [r.attempts EXCEPT ![q.operation] = s]]
    BY <1>6 DEF StartAttempt, latest
  <2> QED BY <1>1, <1>2, <2>1, <2>3, <2>4, <2>5
<1> QED BY <1>4, <1>5, <1>6

\* StartAttempt keeps the record well typed.
LEMMA StartAttemptType ==
  ASSUME NEW r \in Record, NEW q \in AttemptCalls,
         StartAttemptVerdict(r, q) \in {"First", "Again", "Orphaned"}
  PROVE  StartAttempt(r, q) \in Record
<1>1. PICK s \in Seq(Attempt) :
        StartAttempt(r, q) = [r EXCEPT !.attempts = [r.attempts EXCEPT ![q.operation] = s]]
  BY StartAttemptShape
<1>2. [r.attempts EXCEPT ![q.operation] = s] \in [Operations -> Seq(Attempt)]
  BY RecordFields
<1> QED BY <1>1, <1>2, RecordFields DEF Record

-----------------------------------------------------------------------------
(* Type correctness.                                                       *)

\* The absent record is well typed.
LEMMA NoRecordType == NoRecord \in Record
<1>1. NoClaim \in ClaimRecord
  BY NullTypes DEF NoClaim, ClaimRecord, ClaimResult
<1> QED BY <1>1, NullTypes DEF NoRecord, Record

-----------------------------------------------------------------------------
(* The inductive invariant.                                                *)

\* Marking every running attempt unknown leaves nothing running, moves no
\* attempt and makes no attempt certain or uncertain.
LEMMA ReconcileRunningKeeps ==
  ASSUME NEW attempts \in [Operations -> Seq(Attempt)], NEW token \in Nat,
         \A op \in Operations : \A i \in DOMAIN attempts[op] :
           attempts[op][i].status = "running" =>
             attempts[op][i].lease.token # 0 /\ (token = 0 \/ attempts[op][i].lease.token = token)
  PROVE  \A op \in Operations : \A i \in DOMAIN attempts[op] :
           LET a == attempts[op][i]
               b == reconcileRunning(attempts, token)[op][i]
           IN /\ b.number = a.number
              /\ b.status = IF a.status = "running" THEN "unknown" ELSE a.status
              /\ uncertain(b) <=> uncertain(a)
<1> SUFFICES ASSUME NEW op \in Operations, NEW i \in DOMAIN attempts[op]
             PROVE  LET a == attempts[op][i]
                        b == reconcileRunning(attempts, token)[op][i]
                    IN /\ b.number = a.number
                       /\ b.status = IF a.status = "running" THEN "unknown" ELSE a.status
                       /\ uncertain(b) <=> uncertain(a)
  OBVIOUS
<1> DEFINE a == attempts[op][i]
           b == reconcileRunning(attempts, token)[op][i]
<1>1. a \in Attempt
  OBVIOUS
<1>2. b = IF reconciles(a, token) THEN markUnknown(a) ELSE a
  BY ReconcileRunningType
<1>3. reconciles(a, token) <=> a.status = "running"
  BY <1>1, AttemptFields DEF reconciles, NoLeaseRef
<1>4. markUnknown(a).number = a.number /\ markUnknown(a).status = "unknown"
  BY <1>1 DEF markUnknown, Attempt
<1> HIDE DEF a, b
<1> QED BY <1>2, <1>3, <1>4 DEF uncertain, a, b

\* Every lease-taking verb needs a running attempt's lease to be the held one.
LEMMA RunningLease ==
  ASSUME BackendInv, NEW op \in Operations, NEW i \in DOMAIN record.attempts[op],
         record.attempts[op][i].status = "running"
  PROVE  /\ record.attempts[op][i].lease.token = record.execution.lease.token
         /\ record.attempts[op][i].lease.token # 0
BY DEF BackendInv, RunningHeldByLease, leaseMatches

\* Steps that only mark the running attempts unknown: nothing is left running
\* and the order of the attempts stays.
LEMMA MarkAllKeeps ==
  ASSUME BackendInv, NEW token \in Nat,
         token = 0 \/ token = record.execution.lease.token,
         record'.attempts = reconcileRunning(record.attempts, token)
  PROVE  /\ RunningHeldByLease'
         /\ OnlyLatestOpen'
         /\ hasUncertainAttempts(record)' <=> hasUncertainAttempts(record)
<1>1. record.attempts \in [Operations -> Seq(Attempt)]
  BY RecordFields DEF BackendInv, TypeOK
<1>2. \A op \in Operations : \A i \in DOMAIN record.attempts[op] :
        record.attempts[op][i].status = "running" =>
          /\ record.attempts[op][i].lease.token # 0
          /\ token = 0 \/ record.attempts[op][i].lease.token = token
  BY RunningLease
<1>3. \A op \in Operations :
        /\ Len(record'.attempts[op]) = Len(record.attempts[op])
        /\ DOMAIN record'.attempts[op] = DOMAIN record.attempts[op]
  BY <1>1, ReconcileRunningType
<1>4. \A op \in Operations : \A i \in DOMAIN record.attempts[op] :
        /\ record'.attempts[op][i].number = record.attempts[op][i].number
        /\ record'.attempts[op][i].status =
             IF record.attempts[op][i].status = "running" THEN "unknown"
             ELSE record.attempts[op][i].status
        /\ uncertain(record'.attempts[op][i]) <=> uncertain(record.attempts[op][i])
  <2> DEFINE after == reconcileRunning(record.attempts, token)
  <2>1. \A op \in Operations : \A i \in DOMAIN record.attempts[op] :
          /\ after[op][i].number = record.attempts[op][i].number
          /\ after[op][i].status =
               IF record.attempts[op][i].status = "running" THEN "unknown"
               ELSE record.attempts[op][i].status
          /\ uncertain(after[op][i]) <=> uncertain(record.attempts[op][i])
    BY <1>1, <1>2, ReconcileRunningKeeps
  <2> HIDE DEF after
  <2>2. record'.attempts = after
    BY DEF after
  <2> QED BY <2>1, <2>2
<1>5. RunningHeldByLease'
  BY <1>3, <1>4 DEF RunningHeldByLease
<1>6. OnlyLatestOpen'
  BY <1>3, <1>4 DEF OnlyLatestOpen, BackendInv
<1>7. hasUncertainAttempts(record)' <=> hasUncertainAttempts(record)
  BY <1>3, <1>4 DEF hasUncertainAttempts
<1> QED BY <1>5, <1>6, <1>7

\* Create and claim.
LEMMA ClaimStep ==
  ASSUME BackendInv, NEW q \in ClaimRequests, record' = claim(record, q),
         exists(record), ~terminal(record.execution.status)
  PROVE  BackendInv'
<1>0. record \in Record
  BY DEF BackendInv, TypeOK
<1>1. TypeOK'
  BY <1>0, ClaimType DEF TypeOK
<1>2. /\ record'.attempts = reconcileRunning(record.attempts, 0)
      /\ record'.execution = [record.execution EXCEPT !.status = "running",
                                                      !.lease = newLease(record, q)]
      /\ record'.nextToken = record.nextToken + 1
  BY <1>0 DEF claim, Record
<1>3. /\ record'.execution.lease.token = record.nextToken + 1
      /\ record'.execution.status = "running"
      /\ record'.execution.result = record.execution.result
  BY <1>0, <1>2, RecordFields DEF newLease, Execution
<1>4. RunningHeldByLease' /\ OnlyLatestOpen'
  BY <1>2, MarkAllKeeps
<1>5. LeaseIsNewest'
  BY <1>0, <1>2, <1>3, RecordFields DEF LeaseIsNewest, exists
<1>6. TerminalIsSettled'
  BY <1>3 DEF TerminalIsSettled, terminal, BackendInv
<1> QED BY <1>1, <1>4, <1>5, <1>6 DEF BackendInv

\* The first StartExecution establishes the invariant for a held record.
LEMMA CreateStep ==
  ASSUME BackendInv, NEW q \in ClaimRequests, record' = create(record, q), ~exists(record)
  PROVE  BackendInv'
<1>0. record \in Record
  BY DEF BackendInv, TypeOK
<1>1. TypeOK'
  BY <1>0, CreateType DEF TypeOK
<1>2. /\ record'.attempts = record.attempts
      /\ record'.execution.lease.token = record.nextToken + 1
      /\ record'.execution.status = "running"
      /\ record'.execution.result = None
      /\ record'.nextToken = record.nextToken + 1
  <2> DEFINE e == [NoExecution EXCEPT !.specHash = q.specHash, !.status = "running",
                                      !.version = 1, !.lease = newLease(record, q)]
  <2>1. /\ record'.attempts = record.attempts
        /\ record'.execution = e
        /\ record'.nextToken = record.nextToken + 1
    <3> HIDE DEF e
    <3> QED BY <1>0 DEF create, Record, e
  <2>2. e.lease = newLease(record, q) /\ e.status = "running" /\ e.result = None
    BY DEF NoExecution
  <2> QED BY <2>1, <2>2 DEF newLease
<1>3. \A op \in Operations : record.attempts[op] = <<>>
  BY DEF BackendInv, LeaseIsNewest
<1>4. RunningHeldByLease' /\ OnlyLatestOpen'
  BY <1>2, <1>3 DEF RunningHeldByLease, OnlyLatestOpen
<1>5. LeaseIsNewest'
  BY <1>0, <1>2, RecordFields DEF LeaseIsNewest, exists
<1>6. TerminalIsSettled'
  BY <1>2 DEF TerminalIsSettled, terminal
<1> QED BY <1>1, <1>4, <1>5, <1>6 DEF BackendInv

\* Steps that leave the attempts and the identity of the lease alone: Renew,
\* the clock and SaveCheckpoint.
LEMMA SameLeaseStep ==
  ASSUME BackendInv, record' \in Record,
         record'.attempts = record.attempts,
         record'.nextToken = record.nextToken,
         record'.execution.status = record.execution.status,
         record'.execution.result = record.execution.result,
         record'.execution.lease.owner = record.execution.lease.owner,
         record'.execution.lease.token = record.execution.lease.token,
         record.execution.lease.token # 0
  PROVE  BackendInv'
<1>1. RunningHeldByLease' /\ OnlyLatestOpen'
  BY DEF BackendInv, RunningHeldByLease, OnlyLatestOpen, leaseMatches
<1>2. LeaseIsNewest'
  BY DEF BackendInv, LeaseIsNewest, exists
<1>3. record.execution.status = "running"
  BY DEF BackendInv, LeaseIsNewest
<1>4. TerminalIsSettled'
  BY <1>3 DEF BackendInv, TerminalIsSettled, terminal
<1> QED BY <1>1, <1>2, <1>4 DEF BackendInv, TypeOK

\* Suspend and Release: the lease goes, its running attempts become unknown.
LEMMA DropLeaseStep ==
  ASSUME BackendInv, record' \in Record, NEW token \in Nat,
         token = record.execution.lease.token, token # 0,
         record'.attempts = reconcileRunning(record.attempts, token),
         record'.nextToken = record.nextToken,
         record'.execution.status \in {"running", "suspended"},
         record'.execution.result = record.execution.result,
         record'.execution.lease = NoLease
  PROVE  BackendInv'
<1>1. RunningHeldByLease' /\ OnlyLatestOpen'
  BY MarkAllKeeps
<1>2. record.execution.status = "running"
  BY DEF BackendInv, LeaseIsNewest
<1>3. record'.execution.lease.token = 0
  BY DEF NoLease
<1>4. LeaseIsNewest'
  BY <1>2, <1>3 DEF BackendInv, LeaseIsNewest, exists
<1>5. TerminalIsSettled'
  BY <1>2 DEF BackendInv, TerminalIsSettled, terminal
<1> QED BY <1>1, <1>4, <1>5 DEF BackendInv, TypeOK

\* Finish: nothing was in doubt, so nothing is.
LEMMA FinishStep ==
  ASSUME BackendInv, NEW q \in FinishCalls,
         FinishExecutionVerdict(record, q) = "Finish",
         record' = FinishExecution(record, q)
  PROVE  BackendInv'
<1>0. record \in Record
  BY DEF BackendInv, TypeOK
<1>1. TypeOK'
  BY <1>0, FinishType DEF TypeOK
<1>2. exists(record) /\ ~hasUncertainAttempts(record)
  BY DEF FinishExecutionVerdict
<1>3. /\ record'.attempts = record.attempts
      /\ record'.nextToken = record.nextToken
      /\ record'.execution.lease = NoLease
      /\ record'.execution.result = q.result
      /\ record'.execution.status = IF q.result \in FailedResults THEN "failed" ELSE "completed"
  <2> DEFINE status == IF q.result \in FailedResults THEN "failed" ELSE "completed"
             e == [record.execution EXCEPT !.status = status, !.result = q.result,
                                           !.lease = NoLease, !.version = @ + 1]
  <2>1. /\ record'.attempts = record.attempts
        /\ record'.nextToken = record.nextToken
        /\ record'.execution = e
    <3> HIDE DEF e
    <3> QED BY <1>0 DEF FinishExecution, Record, e
  <2>2. e.lease = NoLease /\ e.result = q.result /\ e.status = status
    <3> HIDE DEF status
    <3> QED BY <1>0, RecordFields DEF Execution
  <2> QED BY <2>1, <2>2
<1>4. \A op \in Operations : \A i \in DOMAIN record.attempts[op] :
        record.attempts[op][i].status \notin {"running", "unknown"}
  BY <1>2 DEF hasUncertainAttempts, uncertain
<1>5. RunningHeldByLease' /\ OnlyLatestOpen'
  BY <1>3, <1>4 DEF BackendInv, RunningHeldByLease, OnlyLatestOpen
<1>6. record'.execution.lease.token = 0
  BY <1>3 DEF NoLease
<1>7. LeaseIsNewest'
  BY <1>2, <1>3, <1>6 DEF BackendInv, LeaseIsNewest, exists
<1>8. q.result # None
  BY NoneAssumption DEF FinishCalls
<1>9. ~hasUncertainAttempts(record)'
  BY <1>2, <1>3 DEF hasUncertainAttempts
<1>10. TerminalIsSettled'
  BY <1>3, <1>8, <1>9 DEF TerminalIsSettled, terminal
<1> QED BY <1>1, <1>5, <1>7, <1>10 DEF BackendInv

\* FinishAttempt, MarkAttemptUnknown and ReconcileAttempt: an uncertain attempt
\* is the newest of its operation, and its replacement runs no more.
LEMMA PutStep ==
  ASSUME BackendInv, NEW op \in Operations, NEW n, NEW b \in Attempt,
         positions(record, op, n) # {},
         uncertain(attemptByNumber(record, op, n)),
         b.number = attemptByNumber(record, op, n).number,
         b.status # "running",
         record' = putAttempt(record, op, n, b)
  PROVE  BackendInv'
<1> DEFINE old == record.attempts[op]
<1>0. record \in Record
  BY DEF BackendInv, TypeOK
<1>1. PICK k \in DOMAIN old : /\ k \in positions(record, op, n)
                              /\ attemptByNumber(record, op, n) = old[k]
  BY <1>0, AttemptByNumberType
<1>2. /\ TypeOK'
      /\ record' = [record EXCEPT !.attempts = record'.attempts]
      /\ \A o \in Operations :
           /\ o # op => record'.attempts[o] = record.attempts[o]
           /\ Len(record'.attempts[o]) = Len(record.attempts[o])
           /\ DOMAIN record'.attempts[o] = DOMAIN record.attempts[o]
      /\ \A i \in DOMAIN old :
           record'.attempts[op][i] = IF i \in positions(record, op, n) THEN b ELSE old[i]
  BY <1>0, PutAttemptType DEF TypeOK
<1>3. record'.execution = record.execution /\ record'.nextToken = record.nextToken
  BY <1>0, <1>2 DEF Record
<1>4. \A i \in DOMAIN old : i \in positions(record, op, n) => i = k
  BY <1>1 DEF positions, BackendInv, OnlyLatestOpen
<1>5. b.number = k /\ ~(k < Len(old))
  BY <1>1 DEF BackendInv, OnlyLatestOpen, uncertain
<1>6. OnlyLatestOpen'
  BY <1>2, <1>4, <1>5 DEF BackendInv, OnlyLatestOpen
<1>7. RunningHeldByLease'
  BY <1>2, <1>3 DEF BackendInv, RunningHeldByLease
<1>8. hasUncertainAttempts(record)
  BY <1>1 DEF hasUncertainAttempts
<1>9. TerminalIsSettled'
  BY <1>3, <1>8 DEF BackendInv, TerminalIsSettled
<1>10. old # <<>>
  BY <1>1
<1>11. LeaseIsNewest'
  BY <1>3, <1>10 DEF BackendInv, LeaseIsNewest, exists
<1> QED BY <1>2, <1>6, <1>7, <1>9, <1>11 DEF BackendInv

\* A lease reference is its owner and its token.
LEMMA LeaseRefEqual ==
  ASSUME NEW x \in LeaseRef, NEW y \in LeaseRef, x.owner = y.owner, x.token = y.token
  PROVE  x = y
<1>1. x = [owner |-> x.owner, token |-> x.token]
  BY DEF LeaseRef
<1>2. y = [owner |-> y.owner, token |-> y.token]
  BY DEF LeaseRef
<1> QED BY <1>1, <1>2

\* StartAttempt: the new attempt runs under the lease that is held.
LEMMA StartAttemptStep ==
  ASSUME BackendInv, NEW q \in AttemptCalls,
         StartAttemptVerdict(record, q) \in {"First", "Again", "Orphaned"},
         record' = StartAttempt(record, q)
  PROVE  BackendInv' /\ StartAttemptVerdict(record, q) # "Orphaned"
<1> DEFINE op == q.operation
           old == record.attempts[op]
<1>0. record \in Record
  BY DEF BackendInv, TypeOK
<1>1. TypeOK'
  BY <1>0, StartAttemptType DEF TypeOK
<1>2. op \in Operations /\ requireActiveLease(record, q.lease)
  BY <1>0, StartAttemptShape
<1>3. old \in Seq(Attempt)
  BY <1>0, <1>2, RecordFields
<1>4. PICK s \in Seq(Attempt) :
        /\ record' = [record EXCEPT !.attempts = [record.attempts EXCEPT ![op] = s]]
        /\ \/ old = <<>> /\ s = <<newAttempt(q, 1)>>
           \/ /\ old # <<>> /\ latest(record, op).status = "abandoned"
              /\ s = Append(old, newAttempt(q, latest(record, op).number + 1))
           \/ /\ old # <<>> /\ latest(record, op).status = "running"
              /\ latest(record, op).lease # q.lease
  BY <1>0, StartAttemptShape
<1>5. /\ record'.execution = record.execution /\ record'.nextToken = record.nextToken
      /\ record'.attempts[op] = s
      /\ \A o \in Operations : o # op => record'.attempts[o] = record.attempts[o]
  BY <1>0, <1>2, <1>4, RecordFields DEF Record
<1>6. old # <<>> => /\ Len(old) \in DOMAIN old
                    /\ latest(record, op) = old[Len(old)]
                    /\ latest(record, op).number = Len(old)
                    /\ latest(record, op) \in Attempt
  BY <1>0, <1>2, LatestType DEF latest, BackendInv, OnlyLatestOpen
<1>7. ~(old # <<>> /\ latest(record, op).status = "running"
                   /\ latest(record, op).lease # q.lease)
  <2> SUFFICES ASSUME old # <<>>, latest(record, op).status = "running"
               PROVE  latest(record, op).lease = q.lease
    OBVIOUS
  <2>1. leaseMatches(record.execution.lease, latest(record, op).lease)
    BY <1>2, <1>6 DEF BackendInv, RunningHeldByLease
  <2>2. leaseMatches(record.execution.lease, q.lease)
    BY <1>2 DEF requireActiveLease
  <2>3. latest(record, op).lease \in LeaseRef
    BY <1>6, AttemptFields
  <2>4. q.lease \in LeaseRef
    BY BoundAssumption DEF AttemptCalls, LeaseRef
  <2>5. /\ latest(record, op).lease.owner = q.lease.owner
        /\ latest(record, op).lease.token = q.lease.token
    BY <2>1, <2>2 DEF leaseMatches
  <2> QED BY <2>3, <2>4, <2>5, LeaseRefEqual
<1>8. PICK a : /\ a = newAttempt(q, Len(old) + 1)
               /\ s = Append(old, a)
               /\ old # <<>> => latest(record, op).status = "abandoned"
  <2>1. CASE old = <<>>
    <3>1. s = <<newAttempt(q, 1)>> /\ Len(old) = 0
      BY <2>1, <1>4
    <3>2. Append(old, newAttempt(q, 1)) = <<newAttempt(q, 1)>>
      BY <2>1
    <3> QED BY <2>1, <3>1, <3>2
  <2>2. CASE old # <<>>
    BY <2>2, <1>4, <1>6, <1>7
  <2> QED BY <2>1, <2>2
<1>9. a.number = Len(old) + 1 /\ a.status = "running" /\ a.lease = q.lease
  BY <1>8 DEF newAttempt
<1>10. /\ Len(s) = Len(old) + 1
       /\ DOMAIN s = 1..(Len(old) + 1)
       /\ \A i \in DOMAIN old : s[i] = old[i]
       /\ s[Len(old) + 1] = a
       /\ DOMAIN old = 1..Len(old)
       /\ Len(old) \in Nat
  BY <1>3, <1>8
<1>11. \A i \in DOMAIN old : old[i].number = i /\ old[i].status = "abandoned"
  BY <1>2, <1>6, <1>8, <1>10 DEF BackendInv, OnlyLatestOpen
<1>12. OnlyLatestOpen'
  <2> SUFFICES ASSUME NEW o \in Operations, NEW i \in DOMAIN record'.attempts[o]
               PROVE  /\ record'.attempts[o][i].number = i
                      /\ i < Len(record'.attempts[o]) =>
                           record'.attempts[o][i].status = "abandoned"
    BY DEF OnlyLatestOpen
  <2>1. CASE o # op
    BY <2>1, <1>5 DEF BackendInv, OnlyLatestOpen
  <2>2. CASE o = op
    <3> HIDE DEF op, old
    <3>1. record'.attempts[o] = s /\ (i \in DOMAIN old \/ i = Len(old) + 1)
      BY <2>2, <1>5, <1>10
    <3> QED BY <3>1, <1>9, <1>10, <1>11
  <2> QED BY <2>1, <2>2
<1>13. RunningHeldByLease'
  <2> SUFFICES ASSUME NEW o \in Operations, NEW i \in DOMAIN record'.attempts[o],
                      record'.attempts[o][i].status = "running"
               PROVE  leaseMatches(record'.execution.lease, record'.attempts[o][i].lease)
    BY DEF RunningHeldByLease
  <2>1. CASE o # op
    BY <2>1, <1>5 DEF BackendInv, RunningHeldByLease
  <2>2. CASE o = op
    <3> HIDE DEF op, old
    <3>1. record'.attempts[o] = s /\ (i \in DOMAIN old \/ i = Len(old) + 1)
      BY <2>2, <1>5, <1>10
    <3>2. record'.attempts[o][i].lease = q.lease
      BY <3>1, <1>9, <1>10, <1>11
    <3> QED BY <3>2, <1>2, <1>5 DEF requireActiveLease
  <2> QED BY <2>1, <2>2
<1>14. record.execution.lease.token # 0
  BY <1>2 DEF requireActiveLease, leaseMatches
<1>15. LeaseIsNewest' /\ TerminalIsSettled'
  BY <1>5, <1>14 DEF BackendInv, LeaseIsNewest, TerminalIsSettled, terminal, exists
<1>16. StartAttemptVerdict(record, q) # "Orphaned"
  BY <1>6, <1>7, AttemptFields DEF StartAttemptVerdict, settled, AttemptStatus
<1> QED BY <1>1, <1>12, <1>13, <1>15, <1>16 DEF BackendInv

\* What a renew or a tick changes.
LEMMA TTLFields ==
  ASSUME NEW r \in Record, NEW ttl
  PROVE  LET s == [r EXCEPT !.execution.lease.ttl = ttl]
         IN /\ s.attempts = r.attempts /\ s.nextToken = r.nextToken
            /\ s.execution.status = r.execution.status
            /\ s.execution.result = r.execution.result
            /\ s.execution.lease.owner = r.execution.lease.owner
            /\ s.execution.lease.token = r.execution.lease.token
<1> DEFINE l == [r.execution.lease EXCEPT !.ttl = ttl]
           e == [r.execution EXCEPT !.lease = l]
           s == [r EXCEPT !.execution.lease.ttl = ttl]
<1>1. l.owner = r.execution.lease.owner /\ l.token = r.execution.lease.token
  BY RecordFields, ExecutionFields DEF Lease
<1>2. s.execution = e /\ s.attempts = r.attempts /\ s.nextToken = r.nextToken
  BY DEF Record
<1>3. e.lease = l /\ e.status = r.execution.status /\ e.result = r.execution.result
  BY RecordFields DEF Execution
<1> QED BY <1>1, <1>2, <1>3

\* Every step of every client, and of the clock, keeps the invariant.
LEMMA BackendInvStep == BackendInv /\ [Calls]_record => BackendInv'
<1> SUFFICES ASSUME BackendInv, [Calls]_record
             PROVE  BackendInv'
  OBVIOUS
<1>0. record \in Record
  BY DEF BackendInv, TypeOK
<1>1. ASSUME NEW q \in StartRequests, CallCreate(q) PROVE BackendInv'
  <2>1. ~exists(record) /\ record' = create(record, q)
    BY <1>1 DEF CallCreate, StartExecutionVerdict, StartExecution, claimVerdict
  <2> QED BY <2>1, CreateStep DEF ClaimRequests
<1>2. ASSUME NEW q \in StartRequests, CallStart(q) PROVE BackendInv'
  <2>1. /\ exists(record) /\ ~terminal(record.execution.status)
        /\ record' = claim(record, q)
    BY <1>2 DEF CallStart, StartExecutionVerdict, StartExecution, claimVerdict
  <2> QED BY <2>1, ClaimStep DEF ClaimRequests
<1>3. ASSUME NEW q \in ResumeRequests, CallResume(q) PROVE BackendInv'
  <2>1. /\ exists(record) /\ ~terminal(record.execution.status)
        /\ record' = claim(record, q)
    BY <1>3 DEF CallResume, ResumeExecutionVerdict, ResumeExecution, claimVerdict
  <2> QED BY <2>1, ClaimStep DEF ClaimRequests
<1>4. ASSUME NEW ref \in LeaseRef, NEW ttl \in LeaseTTLs, CallRenew(ref, ttl)
      PROVE  BackendInv'
  <2>1. /\ record' = [record EXCEPT !.execution.lease.ttl = ttl]
        /\ record.execution.lease.token # 0
    BY <1>4 DEF CallRenew, RenewExecution, RenewExecutionVerdict, requireActiveLease, leaseMatches
  <2>2. record' \in Record
    BY <1>0, <2>1, TTLType, TTLAssumption
  <2> QED BY <1>0, <2>1, <2>2, TTLFields, SameLeaseStep
<1>5. ASSUME NEW q \in CheckpointCalls, CallSaveCheckpoint(q) PROVE BackendInv'
  <2>1. /\ record' = [record EXCEPT !.execution.checkpoint = q.checkpoint,
                                    !.execution.version = @ + 1]
        /\ record' \in Record
    BY <1>0, <1>5, SaveCheckpointType DEF CallSaveCheckpoint, SaveCheckpoint
  <2>2. record.execution.lease.token # 0
    BY <1>5 DEF CallSaveCheckpoint, SaveCheckpointVerdict, requireActiveLease, leaseMatches
  <2>3. /\ record'.attempts = record.attempts /\ record'.nextToken = record.nextToken
        /\ record'.execution.status = record.execution.status
        /\ record'.execution.result = record.execution.result
        /\ record'.execution.lease = record.execution.lease
    BY <1>0, <2>1, RecordFields DEF Record, Execution
  <2> QED BY <2>1, <2>2, <2>3, SameLeaseStep
<1>6. ASSUME NEW q \in SuspendCalls, CallSuspend(q) PROVE BackendInv'
  <2> DEFINE e == [record.execution EXCEPT !.status = "suspended", !.lease = NoLease,
                                           !.version = @ + 1]
  <2>1. record' \in Record
    BY <1>0, <1>6, SuspendType DEF CallSuspend
  <2>2. /\ record.execution.lease.token # 0
        /\ q.lease.token = record.execution.lease.token
    BY <1>6 DEF CallSuspend, SuspendExecutionVerdict, requireActiveLease, leaseMatches
  <2>3. /\ record'.attempts = reconcileRunning(record.attempts, q.lease.token)
        /\ record'.nextToken = record.nextToken
        /\ record'.execution = e
    BY <1>0, <1>6 DEF CallSuspend, SuspendExecution, Record
  <2>4. e.status = "suspended" /\ e.lease = NoLease /\ e.result = record.execution.result
    BY <1>0, RecordFields DEF Execution
  <2>5. record.execution.lease.token \in Nat
    BY <1>0, RecordFields, ExecutionFields
  <2> HIDE DEF e
  <2> QED BY <2>1, <2>2, <2>3, <2>4, <2>5, DropLeaseStep
<1>7. ASSUME NEW q \in FinishCalls, CallFinish(q) PROVE BackendInv'
  BY <1>7, FinishStep DEF CallFinish
<1>8. ASSUME NEW ref \in LeaseRef, CallRelease(ref) PROVE BackendInv'
  <2> DEFINE e == [record.execution EXCEPT !.lease = NoLease]
  <2>1. record' \in Record
    BY <1>0, <1>8, ReleaseType DEF CallRelease
  <2>2. /\ record.execution.lease.token # 0
        /\ ref.token = record.execution.lease.token
    BY <1>8 DEF CallRelease, ReleaseExecutionVerdict, leaseMatches
  <2>3. /\ record'.attempts = reconcileRunning(record.attempts, ref.token)
        /\ record'.nextToken = record.nextToken
        /\ record'.execution = e
    BY <1>0, <1>8 DEF CallRelease, ReleaseExecution, Record
  <2>4. /\ e.status = record.execution.status /\ e.lease = NoLease
        /\ e.result = record.execution.result
    BY <1>0, RecordFields DEF Execution
  <2>5. record.execution.lease.token \in Nat
    BY <1>0, RecordFields, ExecutionFields
  <2>6. record.execution.status = "running"
    BY <2>2 DEF BackendInv, LeaseIsNewest
  <2> HIDE DEF e
  <2> QED BY <2>1, <2>2, <2>3, <2>4, <2>5, <2>6, DropLeaseStep
<1>9. ASSUME NEW q \in AttemptCalls, CallStartAttempt(q) PROVE BackendInv'
  BY <1>9, StartAttemptStep DEF CallStartAttempt
<1>10. ASSUME NEW q \in SettleCalls, CallFinishAttempt(q) PROVE BackendInv'
  <2> DEFINE a == attemptByNumber(record, q.operation, q.number)
             status == IF q.failure # None THEN "failed" ELSE "succeeded"
             b == [a EXCEPT !.status = status, !.lease = NoLeaseRef, !.payload = q.payload,
                            !.failure = q.failure, !.version = @ + 1]
  <2>1. /\ positions(record, q.operation, q.number) # {} /\ a.status = "running"
    BY <1>0, <1>10, SettleVerdictFacts DEF CallFinishAttempt, FinishAttemptVerdict
  <2>2. /\ q.operation \in Operations
        /\ q.payload \in Payloads \cup {None} /\ q.failure \in Failures \cup {None}
    BY DEF SettleCalls
  <2>3. record' = putAttempt(record, q.operation, q.number, b)
    BY <1>10 DEF CallFinishAttempt, FinishAttempt
  <2>4. a \in Attempt
    BY <1>0, <2>1, <2>2, AttemptByNumberType
  <2>5. status \in AttemptStatus /\ status # "running"
    BY DEF AttemptStatus
  <2>6. b \in Attempt /\ b.number = a.number /\ b.status = status
    <3> HIDE DEF a, status
    <3> QED BY <2>2, <2>4, <2>5, AttemptFields, NullTypes DEF Attempt
  <2>7. uncertain(a)
    BY <2>1 DEF uncertain
  <2> HIDE DEF b, status
  <2> QED BY <2>1, <2>2, <2>3, <2>5, <2>6, <2>7, PutStep
<1>11. ASSUME NEW q \in SettleCalls, CallMarkAttemptUnknown(q) PROVE BackendInv'
  <2> DEFINE a == attemptByNumber(record, q.operation, q.number)
             b == [markUnknown(a) EXCEPT !.payload = q.payload, !.failure = q.failure]
  <2>1. positions(record, q.operation, q.number) # {} /\ a.status = "running"
    BY <1>0, <1>11, SettleVerdictFacts DEF CallMarkAttemptUnknown, MarkAttemptUnknownVerdict
  <2>2. /\ q.operation \in Operations
        /\ q.payload \in Payloads \cup {None} /\ q.failure \in Failures \cup {None}
    BY DEF SettleCalls
  <2>3. record' = putAttempt(record, q.operation, q.number, b)
    BY <1>11 DEF CallMarkAttemptUnknown, MarkAttemptUnknown
  <2>4. a \in Attempt /\ markUnknown(a) \in Attempt
    BY <1>0, <2>1, <2>2, AttemptByNumberType, MarkUnknownType
  <2>5. markUnknown(a).number = a.number /\ markUnknown(a).status = "unknown"
    <3> HIDE DEF a
    <3> QED BY <2>4 DEF markUnknown, Attempt
  <2>6. b \in Attempt /\ b.number = a.number /\ b.status = "unknown"
    <3> HIDE DEF a
    <3> QED BY <2>2, <2>4, <2>5 DEF Attempt
  <2>7. uncertain(a)
    BY <2>1 DEF uncertain
  <2> HIDE DEF b
  <2> QED BY <2>1, <2>2, <2>3, <2>6, <2>7, PutStep
<1>12. ASSUME NEW q \in ReconcileCalls, CallReconcileAttempt(q) PROVE BackendInv'
  <2> DEFINE a == attemptByNumber(record, q.operation, q.number)
             status == resolvedStatus(q.resolution)
             b == [a EXCEPT !.status = status, !.lease = NoLeaseRef,
                            !.payload = q.payload, !.failure = q.failure, !.version = @ + 1]
  <2>1. positions(record, q.operation, q.number) # {} /\ a.status = "unknown"
    BY <1>0, <1>12, ReconcileVerdictFacts DEF CallReconcileAttempt
  <2>2. /\ q.operation \in Operations /\ q.resolution \in {"succeed", "fail", "retry"}
        /\ q.payload \in Payloads \cup {None} /\ q.failure \in Failures \cup {None}
    BY DEF ReconcileCalls
  <2>3. record' = putAttempt(record, q.operation, q.number, b)
    BY <1>12 DEF CallReconcileAttempt, ReconcileAttempt
  <2>4. a \in Attempt
    BY <1>0, <2>1, <2>2, AttemptByNumberType
  <2>5. status \in AttemptStatus /\ status # "running"
    BY <2>2 DEF AttemptStatus, resolvedStatus
  <2>6. b \in Attempt /\ b.number = a.number /\ b.status = status
    <3> HIDE DEF a, status
    <3> QED BY <2>2, <2>4, <2>5, AttemptFields, NullTypes DEF Attempt
  <2>7. uncertain(a)
    BY <2>1 DEF uncertain
  <2> HIDE DEF b, status
  <2> QED BY <2>1, <2>2, <2>3, <2>5, <2>6, <2>7, PutStep
<1>13. CASE Advance
  <2>1. record.execution.lease.ttl - 1 \in Nat /\ record.execution.lease.ttl > 0
    BY <1>0, <1>13, RecordFields, ExecutionFields DEF Advance
  <2>2. record' = [record EXCEPT !.execution.lease.ttl = record.execution.lease.ttl - 1]
    BY <1>13 DEF Advance
  <2>3. record.execution.lease.token # 0
    BY <2>1 DEF BackendInv, LeaseIsNewest, NoLease
  <2>4. record' \in Record
    BY <1>0, <2>1, <2>2, TTLType
  <2> QED BY <1>0, <2>2, <2>3, <2>4, TTLFields, SameLeaseStep
<1>14. CASE UNCHANGED record
  BY <1>14 DEF BackendInv, TypeOK, LeaseIsNewest, RunningHeldByLease, OnlyLatestOpen,
               TerminalIsSettled, exists, terminal, hasUncertainAttempts
<1> QED BY <1>1, <1>2, <1>3, <1>4, <1>5, <1>6, <1>7, <1>8, <1>9, <1>10, <1>11, <1>12,
           <1>13, <1>14 DEF Calls

-----------------------------------------------------------------------------
(* The theorems.                                                           *)

\* Before the first StartExecution nothing is recorded.
LEMMA BackendInvInit == Init => BackendInv
<1> SUFFICES ASSUME Init PROVE BackendInv
  OBVIOUS
<1>1. TypeOK
  BY NoRecordType DEF Init, TypeOK
<1>2. /\ record.execution = NoExecution /\ record.nextToken = 0
      /\ \A op \in Operations : record.attempts[op] = <<>>
  BY DEF Init, NoRecord
<1>3. \A op \in Operations : DOMAIN record.attempts[op] = {}
  BY <1>2
<1>4. /\ record.execution.status = "absent" /\ record.execution.lease = NoLease
      /\ record.execution.lease.token = 0 /\ record.execution.result = None
  BY <1>2 DEF NoExecution, NoLease
<1> QED BY <1>1, <1>2, <1>3, <1>4 DEF BackendInv, LeaseIsNewest, RunningHeldByLease,
           OnlyLatestOpen, TerminalIsSettled, exists, terminal

\* The inductive invariant holds in every reachable record.
THEOREM Safety == Spec => []BackendInv
<1>1. Init => BackendInv
  BY BackendInvInit
<1>2. BackendInv /\ [Next]_record => BackendInv'
  BY BackendInvStep, NextCalls
<1> QED BY <1>1, <1>2, PTL DEF Spec

\* The backend record keeps its type whatever requests arrive: the verbs of
\* testbackend never store a value outside the declared types.
THEOREM TypeCorrect == Spec => []TypeOK
<1>1. BackendInv => TypeOK
  BY DEF BackendInv
<1> QED BY <1>1, Safety, PTL

\* No attempt is left running by a lease that is gone (execution.go and
\* attempt.go settle it or mark it unknown on every path).
THEOREM RunningHeldByLeaseHolds == Spec => []RunningHeldByLease
<1>1. BackendInv => RunningHeldByLease
  BY DEF BackendInv
<1> QED BY <1>1, Safety, PTL

\* StartAttempt opens a new attempt only when the last one was abandoned.
THEOREM OnlyLatestOpenHolds == Spec => []OnlyLatestOpen
<1>1. BackendInv => OnlyLatestOpen
  BY DEF BackendInv
<1> QED BY <1>1, Safety, PTL

\* FinishExecution leaves nothing in doubt and nothing held behind.
THEOREM TerminalIsSettledHolds == Spec => []TerminalIsSettled
<1>1. BackendInv => TerminalIsSettled
  BY DEF BackendInv
<1> QED BY <1>1, Safety, PTL

\* A lease that is not the newest matches no lease the record can hold.
LEMMA StaleMismatch ==
  ASSUME BackendInv, NEW ref \in LeaseRefs, ref.token < record.nextToken
  PROVE  exists(record) /\ ~requireActiveLease(record, ref)
<1>1. record \in Record
  BY DEF BackendInv, TypeOK
<1>2. record.nextToken \in Nat /\ ref.token \in Nat
  BY <1>1, RecordFields DEF LeaseRefs
<1>3. exists(record)
  BY <1>2 DEF BackendInv, LeaseIsNewest, exists
<1>4. record.execution.lease.token # ref.token \/ record.execution.lease.token = 0
  BY <1>2 DEF BackendInv, LeaseIsNewest
<1> QED BY <1>3, <1>4 DEF requireActiveLease, leaseMatches

\* Every verb refuses a lease that is not the newest one.
THEOREM StaleLeaseFencedHolds == Spec => []StaleLeaseFenced
<1>1. BackendInv => StaleLeaseFenced
  <2> SUFFICES ASSUME BackendInv, NEW ref \in LeaseRefs, ref.token < record.nextToken
               PROVE  /\ RenewExecutionVerdict(record, ref) = "LeaseLost"
                      /\ ReleaseExecutionVerdict(record, ref) = "LeaseLost"
                      /\ \A q \in {x \in CheckpointRequests : x.lease = ref} :
                           SaveCheckpointVerdict(record, q) = "LeaseLost"
                      /\ \A q \in {x \in SuspendRequests : x.lease = ref} :
                           SuspendExecutionVerdict(record, q) = "LeaseLost"
                      /\ \A q \in {x \in FinishRequests : x.lease = ref} :
                           FinishExecutionVerdict(record, q) = "LeaseLost"
                      /\ \A q \in {x \in AttemptRequests : x.lease = ref} :
                           StartAttemptVerdict(record, q) = "LeaseLost"
                      /\ \A q \in {x \in SettleRequests : x.lease = ref} :
                           /\ FinishAttemptVerdict(record, q) = "LeaseLost"
                           /\ MarkAttemptUnknownVerdict(record, q) = "LeaseLost"
    BY DEF StaleLeaseFenced
  <2>1. exists(record) /\ ~requireActiveLease(record, ref)
    BY StaleMismatch
  <2>2. record.nextToken > ref.token
    <3>1. record.nextToken \in Nat /\ ref.token \in Nat
      BY RecordFields DEF LeaseRefs, BackendInv, TypeOK
    <3> QED BY <3>1
  <2>3. RenewExecutionVerdict(record, ref) = "LeaseLost"
    BY <2>1 DEF RenewExecutionVerdict
  <2>4. ReleaseExecutionVerdict(record, ref) = "LeaseLost"
    BY <2>1, <2>2 DEF ReleaseExecutionVerdict
  <2>5. ASSUME NEW q, q.lease = ref
        PROVE  /\ SaveCheckpointVerdict(record, q) = "LeaseLost"
               /\ SuspendExecutionVerdict(record, q) = "LeaseLost"
               /\ FinishExecutionVerdict(record, q) = "LeaseLost"
    BY <2>1, <2>2, <2>5 DEF SaveCheckpointVerdict, SuspendExecutionVerdict,
                            FinishExecutionVerdict
  <2>6. ASSUME NEW q, q.lease = ref
        PROVE  /\ StartAttemptVerdict(record, q) = "LeaseLost"
               /\ FinishAttemptVerdict(record, q) = "LeaseLost"
               /\ MarkAttemptUnknownVerdict(record, q) = "LeaseLost"
    BY <2>1, <2>6 DEF StartAttemptVerdict, FinishAttemptVerdict,
                      MarkAttemptUnknownVerdict, settleVerdict
  <2> QED BY <2>3, <2>4, <2>5, <2>6
<1> QED BY <1>1, Safety, PTL

-----------------------------------------------------------------------------
(* Settled outcomes are final.                                             *)

\* A settled attempt is the newest of its operation, so nothing of the
\* operation is in doubt any more.
LEMMA SettledIsLatest ==
  ASSUME BackendInv, NEW op \in Operations, NEW i \in DOMAIN record.attempts[op],
         settled(record.attempts[op][i])
  PROVE  /\ latest(record, op) = record.attempts[op][i]
         /\ \A j \in DOMAIN record.attempts[op] : ~uncertain(record.attempts[op][j])
<1> DEFINE atts == record.attempts[op]
<1>1. atts \in Seq(Attempt)
  BY RecordFields DEF BackendInv, TypeOK
<1>2. DOMAIN atts = 1..Len(atts) /\ Len(atts) \in Nat
  BY <1>1
<1>3. \A j \in DOMAIN atts : j < Len(atts) => atts[j].status = "abandoned"
  BY DEF BackendInv, OnlyLatestOpen
<1>4. i = Len(atts)
  BY <1>2, <1>3 DEF settled
<1>5. \A j \in DOMAIN atts : j = i \/ atts[j].status = "abandoned"
  BY <1>2, <1>3, <1>4
<1> QED BY <1>4, <1>5 DEF latest, settled, uncertain

\* Marking the running attempts unknown leaves an operation without any alone.
LEMMA ReconcileIdle ==
  ASSUME NEW attempts \in [Operations -> Seq(Attempt)], NEW token \in Nat,
         NEW op \in Operations,
         \A j \in DOMAIN attempts[op] : ~uncertain(attempts[op][j])
  PROVE  reconcileRunning(attempts, token)[op] = attempts[op]
<1> DEFINE atts == attempts[op]
           after == [j \in DOMAIN atts |->
                       IF reconciles(atts[j], token) THEN markUnknown(atts[j]) ELSE atts[j]]
<1>1. \A j \in DOMAIN atts : ~reconciles(atts[j], token)
  BY DEF uncertain, reconciles
<1>2. after = [j \in DOMAIN atts |-> atts[j]]
  BY <1>1
<1>3. atts = [j \in DOMAIN atts |-> atts[j]]
  <2>1. atts \in Seq(Attempt)
    OBVIOUS
  <2> HIDE DEF atts
  <2> QED BY <2>1
<1> QED BY <1>2, <1>3 DEF reconcileRunning

\* No step touches the attempts of an operation that has an outcome.
LEMMA OutcomeFinalStep ==
  ASSUME BackendInv, [Calls]_record, NEW op \in Operations,
         NEW i \in DOMAIN record.attempts[op], settled(record.attempts[op][i])
  PROVE  record'.attempts[op] = record.attempts[op]
<1> DEFINE Same == record'.attempts[op] = record.attempts[op]
<1>0. record \in Record /\ record.attempts \in [Operations -> Seq(Attempt)]
  BY RecordFields DEF BackendInv, TypeOK
<1>a. record.attempts[op] # <<>> /\ exists(record)
  <2>1. record.attempts[op] # <<>>
    OBVIOUS
  <2> QED BY <2>1 DEF BackendInv, LeaseIsNewest, exists
<1>b. /\ latest(record, op) = record.attempts[op][i]
      /\ \A j \in DOMAIN record.attempts[op] : ~uncertain(record.attempts[op][j])
  BY SettledIsLatest
<1>c. \A token \in Nat : reconcileRunning(record.attempts, token)[op] = record.attempts[op]
  BY <1>0, <1>b, ReconcileIdle
<1>d. ASSUME NEW q \in SettleCalls \cup ReconcileCalls, NEW b,
             positions(record, q.operation, q.number) # {},
             uncertain(attemptByNumber(record, q.operation, q.number)),
             b \in Attempt,
             record' = putAttempt(record, q.operation, q.number, b)
      PROVE  Same
  <2>1. q.operation \in Operations
    BY DEF SettleCalls, ReconcileCalls
  <2>2. attemptByNumber(record, q.operation, q.number)
          \in {record.attempts[q.operation][j] : j \in DOMAIN record.attempts[q.operation]}
    BY <1>0, <1>d, <2>1, AttemptByNumberType
  <2>3. q.operation # op
    BY <1>b, <1>d, <2>2
  <2> QED BY <1>0, <1>d, <2>1, <2>3, PutAttemptType
<1>1. ASSUME NEW q \in StartRequests, CallCreate(q) PROVE Same
  BY <1>1, <1>a DEF CallCreate, StartExecutionVerdict, claimVerdict
<1>2. ASSUME NEW q \in StartRequests, CallStart(q) PROVE Same
  <2>1. record' = claim(record, q)
    BY <1>2 DEF CallStart, StartExecution
  <2> QED BY <1>0, <1>c, <2>1 DEF claim, Record
<1>3. ASSUME NEW q \in ResumeRequests, CallResume(q) PROVE Same
  <2>1. record' = claim(record, q)
    BY <1>3 DEF CallResume, ResumeExecution
  <2> QED BY <1>0, <1>c, <2>1 DEF claim, Record
<1>4. ASSUME NEW ref \in LeaseRef, NEW ttl \in LeaseTTLs, CallRenew(ref, ttl) PROVE Same
  BY <1>0, <1>4 DEF CallRenew, RenewExecution, Record
<1>5. ASSUME NEW q \in CheckpointCalls, CallSaveCheckpoint(q) PROVE Same
  BY <1>0, <1>5 DEF CallSaveCheckpoint, SaveCheckpoint, Record
<1>6. ASSUME NEW q \in SuspendCalls, CallSuspend(q) PROVE Same
  <2>1. q.lease.token \in Nat
    BY DEF SuspendCalls, LeaseRef
  <2>2. record'.attempts = reconcileRunning(record.attempts, q.lease.token)
    BY <1>0, <1>6 DEF CallSuspend, SuspendExecution, Record
  <2> QED BY <1>c, <2>1, <2>2
<1>7. ASSUME NEW q \in FinishCalls, CallFinish(q) PROVE Same
  BY <1>0, <1>7 DEF CallFinish, FinishExecution, Record
<1>8. ASSUME NEW ref \in LeaseRef, CallRelease(ref) PROVE Same
  <2>1. ref.token \in Nat
    BY DEF LeaseRef
  <2>2. record'.attempts = reconcileRunning(record.attempts, ref.token)
    BY <1>0, <1>8 DEF CallRelease, ReleaseExecution, Record
  <2> QED BY <1>c, <2>1, <2>2
<1>9. ASSUME NEW q \in AttemptCalls, CallStartAttempt(q) PROVE Same
  <2>1. q.operation \in Operations
    BY DEF AttemptCalls
  <2>2. q.operation # op
    BY <1>9, <1>a, <1>b DEF CallStartAttempt, StartAttemptVerdict
  <2>3. /\ StartAttemptVerdict(record, q) \in {"First", "Again", "Orphaned"}
        /\ record' = StartAttempt(record, q)
    BY <1>9 DEF CallStartAttempt
  <2>4. PICK s \in Seq(Attempt) : StartAttempt(record, q) =
               [record EXCEPT !.attempts = [record.attempts EXCEPT ![q.operation] = s]]
    BY <1>0, <2>3, StartAttemptShape
  <2> QED BY <1>0, <2>1, <2>2, <2>3, <2>4 DEF Record
<1>10. ASSUME NEW q \in SettleCalls, CallFinishAttempt(q) PROVE Same
  <2> DEFINE a == attemptByNumber(record, q.operation, q.number)
             status == IF q.failure # None THEN "failed" ELSE "succeeded"
             b == [a EXCEPT !.status = status, !.lease = NoLeaseRef, !.payload = q.payload,
                            !.failure = q.failure, !.version = @ + 1]
  <2>1. positions(record, q.operation, q.number) # {} /\ a.status = "running"
    BY <1>0, <1>10, SettleVerdictFacts DEF CallFinishAttempt, FinishAttemptVerdict
  <2>2. /\ q.operation \in Operations
        /\ q.payload \in Payloads \cup {None} /\ q.failure \in Failures \cup {None}
    BY DEF SettleCalls
  <2>3. record' = putAttempt(record, q.operation, q.number, b)
    BY <1>10 DEF CallFinishAttempt, FinishAttempt
  <2>4. a \in Attempt
    BY <1>0, <2>1, <2>2, AttemptByNumberType
  <2>5. status \in AttemptStatus
    BY DEF AttemptStatus
  <2>6. b \in Attempt
    <3> HIDE DEF a, status
    <3> QED BY <2>2, <2>4, <2>5, AttemptFields, NullTypes DEF Attempt
  <2>7. uncertain(a)
    BY <2>1 DEF uncertain
  <2> HIDE DEF b, status
  <2> QED BY <1>d, <2>1, <2>3, <2>6, <2>7
<1>11. ASSUME NEW q \in SettleCalls, CallMarkAttemptUnknown(q) PROVE Same
  <2> DEFINE a == attemptByNumber(record, q.operation, q.number)
             b == [markUnknown(a) EXCEPT !.payload = q.payload, !.failure = q.failure]
  <2>1. positions(record, q.operation, q.number) # {} /\ a.status = "running"
    BY <1>0, <1>11, SettleVerdictFacts DEF CallMarkAttemptUnknown, MarkAttemptUnknownVerdict
  <2>2. /\ q.operation \in Operations
        /\ q.payload \in Payloads \cup {None} /\ q.failure \in Failures \cup {None}
    BY DEF SettleCalls
  <2>3. record' = putAttempt(record, q.operation, q.number, b)
    BY <1>11 DEF CallMarkAttemptUnknown, MarkAttemptUnknown
  <2>4. a \in Attempt /\ markUnknown(a) \in Attempt
    BY <1>0, <2>1, <2>2, AttemptByNumberType, MarkUnknownType
  <2>6. b \in Attempt
    <3> HIDE DEF a
    <3> QED BY <2>2, <2>4 DEF Attempt
  <2>7. uncertain(a)
    BY <2>1 DEF uncertain
  <2> HIDE DEF b
  <2> QED BY <1>d, <2>1, <2>3, <2>6, <2>7
<1>12. ASSUME NEW q \in ReconcileCalls, CallReconcileAttempt(q) PROVE Same
  <2> DEFINE a == attemptByNumber(record, q.operation, q.number)
             status == resolvedStatus(q.resolution)
             b == [a EXCEPT !.status = status, !.lease = NoLeaseRef,
                            !.payload = q.payload, !.failure = q.failure, !.version = @ + 1]
  <2>1. positions(record, q.operation, q.number) # {} /\ a.status = "unknown"
    BY <1>0, <1>12, ReconcileVerdictFacts DEF CallReconcileAttempt
  <2>2. /\ q.operation \in Operations /\ q.resolution \in {"succeed", "fail", "retry"}
        /\ q.payload \in Payloads \cup {None} /\ q.failure \in Failures \cup {None}
    BY DEF ReconcileCalls
  <2>3. record' = putAttempt(record, q.operation, q.number, b)
    BY <1>12 DEF CallReconcileAttempt, ReconcileAttempt
  <2>4. a \in Attempt
    BY <1>0, <2>1, <2>2, AttemptByNumberType
  <2>5. status \in AttemptStatus
    BY <2>2 DEF AttemptStatus, resolvedStatus
  <2>6. b \in Attempt
    <3> HIDE DEF a, status
    <3> QED BY <2>2, <2>4, <2>5, AttemptFields, NullTypes DEF Attempt
  <2>7. uncertain(a)
    BY <2>1 DEF uncertain
  <2> HIDE DEF b, status
  <2> QED BY <1>d, <2>1, <2>3, <2>6, <2>7
<1>13. CASE Advance
  BY <1>0, <1>13 DEF Advance, Record
<1>14. CASE UNCHANGED record
  BY <1>14
<1> QED BY <1>1, <1>2, <1>3, <1>4, <1>5, <1>6, <1>7, <1>8, <1>9, <1>10, <1>11, <1>12,
           <1>13, <1>14 DEF Calls

\* A settled effect outcome is never overwritten, replaced or run again by any
\* verb, whatever lease, retry or reconciliation comes later.
THEOREM OutcomeFinalHolds == Spec => OutcomeFinal
<1> DEFINE Final == \A op \in Operations : \A i \in DOMAIN record.attempts[op] :
             settled(record.attempts[op][i]) => record'.attempts[op] = record.attempts[op]
<1>1. BackendInv /\ [Next]_record => [Final]_record
  BY OutcomeFinalStep, NextCalls
<1> QED BY <1>1, Safety, PTL DEF Spec, OutcomeFinal
=============================================================================
