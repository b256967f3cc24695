------------------------ MODULE DurableRuntimeProofs ------------------------
(***************************************************************************)
(* Theorems about DurableRuntime, for any number of runtimes, calls,       *)
(* operations and batches, and any crashes, lost and unsent answers: an    *)
(* effect runs at most once, engines work from the journal only, progress  *)
(* is never lost, leases are given back and Close reports every error.     *)
(***************************************************************************)
EXTENDS DurableRuntime, DurableJournalProofs

-----------------------------------------------------------------------------
(* The inductive invariant.                                                *)

tokenOf(c) == call[c].lease.token

Fresh == {"ready", "entered"}

Busy == {"boundary", "batch"}

Ending == {"finish", "leave", "returned"}

\* No running attempt of op belongs to lease token t.
NotRunning(r, op, t) ==
  \A i \in DOMAIN r.attempts[op] :
    r.attempts[op][i].status = "running" => r.attempts[op][i].lease.token # t

\* The outcomes in seen are the ones the record holds.
Journaled(r, seen) ==
  \A op \in Operations : seen[op] # None => outcomeIn(r, op) = seen[op]

\* Every operation of the batches before n has succeeded.
Succeeded(n, seen) ==
  \A i \in DOMAIN Plan : i < n =>
    \A op \in Plan[i] : seen[op] # None /\ seen[op].failure = None

\* The types, with those of the waiting callers and of the world.
Types ==
  /\ call \in [ClaimIDs -> CallState]
  /\ effect \in [ClaimIDs -> [Operations -> EffectState]]
  /\ runtime \in [Owners -> RuntimeState]
  /\ suspender \in [ClaimIDs -> {"none", "waiting", "nil", "err"}]
  /\ executions \in [Operations -> [1..MaxAttempts -> Nat]]

\* A lease token belongs to one call for ever, and a call that has not claimed
\* has none.
Tokens ==
  /\ \A c \in ClaimIDs :
       /\ tokenOf(c) <= record.nextToken
       /\ tokenOf(c) = 0 => call[c].lease = NoLeaseRef
       /\ call[c].pc \in Fresh => tokenOf(c) = 0
       /\ call[c].pc \in Busy => tokenOf(c) # 0
  /\ \A c, d \in ClaimIDs : c # d /\ tokenOf(c) = tokenOf(d) => tokenOf(c) = 0

\* What the claims table says of the leases it answered with.
Claimed ==
  /\ \A i \in ClaimIDs :
       /\ record.claims[i].token <= record.nextToken
       /\ record.claims[i].mode = "none" => record.claims[i].token = 0
       /\ record.claims[i].mode # "none" =>
            /\ record.claims[i].token # 0
            /\ record.claims[i].result.execution.lease.token = record.claims[i].token
            /\ record.claims[i].result.execution.status = "running"
  /\ \A i, j \in ClaimIDs :
       i # j /\ record.claims[i].token = record.claims[j].token => record.claims[i].token = 0

\* Nobody has worked under lease token t.
Unused(t) ==
  /\ \A c \in ClaimIDs : tokenOf(c) # t
  /\ \A op \in Operations : NotRunning(record, op, t)

\* A claim whose answer was lost may have been granted, but nobody used its
\* lease; the claim ID of a call that has not claimed is new.
Pending ==
  /\ \A o \in Owners :
       runtime[o].pending # None =>
         /\ runtimeOf[runtime[o].pending] = o
         /\ record.claims[runtime[o].pending].mode # "none" =>
              Unused(record.claims[runtime[o].pending].token)
  /\ \A c \in ClaimIDs : up(c) /\ call[c].pc \in Fresh =>
       /\ record.claims[c].mode = "none"
       /\ \A o \in Owners : runtime[o].pending # c

\* An effect runs inside the batch of its call, one that has not started has no
\* running attempt under the lease of its call, and what it delivers is the
\* outcome the record holds.
EffectOf(c, op) ==
  LET e == effect[c][op]
  IN /\ e.state # "idle" => call[c].pc = "batch" /\ op \in Plan[call[c].pos]
     /\ call[c].pc \in Busy /\ e.state \in {"idle", "begun"} =>
          NotRunning(record, op, tokenOf(c))
     /\ e.state = "produced" => e.outcome # None
     /\ e.state \in {"ok", "failed"} => e.outcome # None /\ outcomeIn(record, op) = e.outcome
     /\ e.state = "ok" => e.outcome.failure = None

\* An effect that may run is the only one with its attempt, which has not run.
GrantOf(c, op) ==
  LET e == effect[c][op]
  IN e.state = "granted" =>
       /\ e.number \in 1..Len(record.attempts[op])
       /\ e.number <= MaxAttempts => executions[op][e.number] = 0
       /\ \A d \in ClaimIDs :
            effect[d][op].state = "granted" /\ effect[d][op].number = e.number => d = c

Effects == \A c \in ClaimIDs, op \in Operations : EffectOf(c, op) /\ GrantOf(c, op)

\* What ran was an attempt of the record, and what was abandoned was retried.
Worked ==
  \A op \in Operations :
    /\ \A n \in 1..MaxAttempts :
         /\ executions[op][n] \in {0, 1}
         /\ executions[op][n] = 1 => n <= Len(record.attempts[op])
    /\ \A i \in DOMAIN record.attempts[op] :
         record.attempts[op][i].status = "abandoned" => <<op, i>> \in retried

\* A checkpoint that an Engine can continue from.
Sound(r, k) ==
  k # NoCheckpoint =>
    /\ k.continuation \in EngineContinuations
    /\ Journaled(r, k.continuation.seen)
    /\ Succeeded(k.continuation.pos, k.continuation.seen)

\* A result that says what happened.
Told(r) ==
  terminal(r.execution.status) =>
    /\ r.execution.result \in EngineResults
    /\ Journaled(r, r.execution.result.seen)
    /\ r.execution.status = "completed" => Succeeded(Len(Plan) + 1, r.execution.result.seen)

\* The claim answered under i: its checkpoint is current while its version is.
Answered(r, i) ==
  LET e == r.claims[i].result.execution
  IN /\ Sound(r, e.checkpoint)
     /\ e.version <= r.execution.version
     /\ r.claims[i].mode # "none" /\ e.version = r.execution.version =>
          e.checkpoint = r.execution.checkpoint

Saved ==
  /\ Sound(record, record.execution.checkpoint)
  /\ \A i \in ClaimIDs : Answered(record, i)
  /\ Told(record)

\* State s of a call continues checkpoint k.
Continues(s, k) ==
  k # NoCheckpoint =>
    /\ s.pos >= k.continuation.pos
    /\ \A op \in Operations : k.continuation.seen[op] # None =>
         s.seen[op] = k.continuation.seen[op]

\* What the Engine of a call in state s has done.
Works(r, s) ==
  /\ Journaled(r, s.seen)
  /\ s.pc \in Busy =>
       /\ s.pos \in 1..(Len(Plan) + 1)
       /\ s.pc = "batch" => s.pos <= Len(Plan)
       /\ Succeeded(s.pos, s.seen)
       /\ s.version <= r.execution.version
       /\ s.version = r.execution.version => Continues(s, r.execution.checkpoint)
  /\ s.pc \in Fresh \cup Busy => ~s.failed /\ ~s.infra
  /\ s.pc \in {"complete", "finishing"} /\ ~s.failed /\ ~s.infra =>
       Succeeded(Len(Plan) + 1, s.seen)
  /\ s.pc = "finishing" => ~s.infra

Working == \A c \in ClaimIDs : Works(record, call[c])

\* A lease that is gone.
Dropped(r, ref) ==
  /\ ref.token # 0
  /\ ref.token <= r.nextToken
  /\ r.execution.lease.token # ref.token

\* A call that ends without an error has given its lease back.
GaveBack(r, s) ==
  s.pc \in Ending /\ s.control = "nil" /\ s.lease.token # 0 =>
    r.execution.lease.token # s.lease.token

\* So has every call the idempotency tables answer.
Ended ==
  /\ \A e \in record.suspends : Dropped(record, e.lease)
  /\ \A e \in record.finishes : Dropped(record, e.lease)
  /\ \A e \in record.releases : Dropped(record, e.lease)
  /\ \A c \in ClaimIDs : GaveBack(record, call[c])

\* What the Closes of runtime r know of the call c they stopped, in state s.
Stopped(r, c, s) ==
  s.stop = "Closed" =>
    /\ r.closed
    /\ s.pc # "ready"
    /\ s.pc = "returned" /\ s.control = "err" => r.closeErrors
    /\ r.closer = "waiting" =>
         \/ r.closing = c
         \/ s.pc = "returned" /\ (s.control = "err" => r.prior)
    /\ r.closer = "nil" => s.pc \in {"leave", "returned"} /\ s.control # "err"

\* The active map, and the calls that were stopped.
Sessions ==
  /\ \A o \in Owners : runtime[o].active # None =>
       /\ runtimeOf[runtime[o].active] = o
       /\ call[runtime[o].active].pc \notin {"ready", "returned"}
  /\ \A c \in ClaimIDs : call[c].pc \notin {"ready", "returned"} =>
       runtime[runtimeOf[c]].active = c
  /\ \A c \in ClaimIDs : Stopped(runtime[runtimeOf[c]], c, call[c])

IInv ==
  /\ BackendInv
  /\ NothingSaved
  /\ Types
  /\ Tokens
  /\ Claimed
  /\ Pending
  /\ Effects
  /\ Worked
  /\ Saved
  /\ Working
  /\ Ended
  /\ Sessions

-----------------------------------------------------------------------------
(* What a call of the Backend does to the record r, leaving s.             *)

\* The claims are kept, and the lease is or is dropped.
SameClaims(r, s) ==
  /\ s.claims = r.claims
  /\ s.nextToken = r.nextToken
  /\ s.execution.lease.token \in {r.execution.lease.token, 0}

\* No attempt begins to run.
NoNewRun(r, s) ==
  \A op \in Operations :
    /\ DOMAIN s.attempts[op] = DOMAIN r.attempts[op]
    /\ Len(s.attempts[op]) = Len(r.attempts[op])
    /\ \A i \in DOMAIN s.attempts[op] :
         s.attempts[op][i].status = "running" => s.attempts[op][i] = r.attempts[op][i]

\* No attempt is abandoned.
NoneAbandoned(r, s) ==
  \A op \in Operations : \A i \in DOMAIN s.attempts[op] :
    s.attempts[op][i].status = "abandoned" =>
      i \in DOMAIN r.attempts[op] /\ r.attempts[op][i].status = "abandoned"

\* A new entry of the idempotency tables drops the lease it names.
Entered(r, s, entry) ==
  /\ entry.lease.token = r.execution.lease.token
  /\ entry.lease.token # 0
  /\ s.execution.lease.token = 0

Tabled(r, s) ==
  /\ \A entry \in s.suspends : entry \in r.suspends \/ Entered(r, s, entry)
  /\ \A entry \in s.finishes : entry \in r.finishes \/ Entered(r, s, entry)
  /\ \A entry \in s.releases : entry \in r.releases \/ Entered(r, s, entry)

\* No result is written.
NoResult(r, s) ==
  terminal(s.execution.status) =>
    /\ s.execution.status = r.execution.status
    /\ s.execution.result = r.execution.result

SameCheckpoint(r, s) == s.execution.checkpoint = r.execution.checkpoint

\* The quiet calls: nothing but the lease, the status and the attempts that run
\* may change.
Quiet(r, s) ==
  /\ SameClaims(r, s)
  /\ NoNewRun(r, s)
  /\ NoneAbandoned(r, s)
  /\ Tabled(r, s)

LEMMA QuietSame ==
  ASSUME NEW r, NEW s, s = r
  PROVE  Quiet(r, s) /\ NoResult(r, s) /\ SameCheckpoint(r, s)
BY DEF Quiet, SameClaims, NoNewRun, NoneAbandoned, Tabled, NoResult, SameCheckpoint

\* Attempts that stay are neither run nor abandoned.
LEMMA AttemptsStay ==
  ASSUME NEW r, NEW s, s.attempts = r.attempts
  PROVE  NoNewRun(r, s) /\ NoneAbandoned(r, s)
BY DEF NoNewRun, NoneAbandoned

LEMMA TablesStay ==
  ASSUME NEW r, NEW s, s.suspends = r.suspends, s.finishes = r.finishes,
         s.releases = r.releases
  PROVE  Tabled(r, s)
BY DEF Tabled

\* Making the running attempts unknown.
LEMMA MarkingIsQuiet ==
  ASSUME NEW r \in Record, NEW s, NEW token, s.attempts = reconcileRunning(r.attempts, token)
  PROVE  NoNewRun(r, s) /\ NoneAbandoned(r, s)
<1> SUFFICES ASSUME NEW op \in Operations
             PROVE  /\ DOMAIN s.attempts[op] = DOMAIN r.attempts[op]
                    /\ Len(s.attempts[op]) = Len(r.attempts[op])
                    /\ \A i \in DOMAIN s.attempts[op] :
                         /\ s.attempts[op][i].status = "running" =>
                              s.attempts[op][i] = r.attempts[op][i]
                         /\ s.attempts[op][i].status = "abandoned" =>
                              i \in DOMAIN r.attempts[op] /\ r.attempts[op][i].status = "abandoned"
  BY DEF NoNewRun, NoneAbandoned
<1>1. /\ DOMAIN s.attempts[op] = DOMAIN r.attempts[op]
      /\ Len(s.attempts[op]) = Len(r.attempts[op])
      /\ \A i \in DOMAIN r.attempts[op] :
           s.attempts[op][i] = IF reconciles(r.attempts[op][i], token)
                               THEN markUnknown(r.attempts[op][i]) ELSE r.attempts[op][i]
  BY RecordFields, ReconcileRunningType
<1>2. ASSUME NEW i \in DOMAIN r.attempts[op]
      PROVE  markUnknown(r.attempts[op][i]).status = "unknown"
  <2>1. r.attempts[op][i] \in Attempt
    BY RecordFields
  <2> QED BY <2>1 DEF markUnknown, Attempt
<1> QED BY <1>1, <1>2

\* Writing one attempt back.
LEMMA PutIsQuiet ==
  ASSUME NEW r \in Record, NEW op \in Operations, NEW n, NEW b \in Attempt,
         b.status # "running", NEW s, s = putAttempt(r, op, n, b)
  PROVE  /\ SameClaims(r, s) /\ NoNewRun(r, s) /\ Tabled(r, s)
         /\ NoResult(r, s) /\ SameCheckpoint(r, s)
         /\ b.status # "abandoned" => NoneAbandoned(r, s)
<1>1. /\ s = [r EXCEPT !.attempts = s.attempts]
      /\ \A o \in Operations :
           /\ o # op => s.attempts[o] = r.attempts[o]
           /\ Len(s.attempts[o]) = Len(r.attempts[o])
           /\ DOMAIN s.attempts[o] = DOMAIN r.attempts[o]
      /\ \A i \in DOMAIN r.attempts[op] :
           s.attempts[op][i] = IF i \in positions(r, op, n) THEN b ELSE r.attempts[op][i]
  BY PutAttemptType
<1>2. /\ s.execution = r.execution /\ s.claims = r.claims /\ s.nextToken = r.nextToken
      /\ s.suspends = r.suspends /\ s.finishes = r.finishes /\ s.releases = r.releases
  BY <1>1 DEF Record
<1>3. SameClaims(r, s) /\ Tabled(r, s) /\ NoResult(r, s) /\ SameCheckpoint(r, s)
  BY <1>2, TablesStay DEF SameClaims, NoResult, SameCheckpoint
<1>4. NoNewRun(r, s)
  BY <1>1 DEF NoNewRun
<1>5. b.status # "abandoned" => NoneAbandoned(r, s)
  BY <1>1 DEF NoneAbandoned
<1> QED BY <1>3, <1>4, <1>5

\* The clock and a renewal.
LEMMA TTLIsQuiet ==
  ASSUME NEW r \in Record, NEW ttl, NEW s, s = [r EXCEPT !.execution.lease.ttl = ttl]
  PROVE  Quiet(r, s) /\ NoResult(r, s) /\ SameCheckpoint(r, s)
<1>1. /\ s.execution = [r.execution EXCEPT !.lease.ttl = ttl]
      /\ s.attempts = r.attempts /\ s.claims = r.claims /\ s.nextToken = r.nextToken
      /\ s.suspends = r.suspends /\ s.finishes = r.finishes /\ s.releases = r.releases
  BY DEF Record
<1>2. /\ s.execution.lease.token = r.execution.lease.token
      /\ s.execution.status = r.execution.status
      /\ s.execution.result = r.execution.result
      /\ s.execution.checkpoint = r.execution.checkpoint
  <2>1. s.execution.checkpoint = r.execution.checkpoint
    BY <1>1, RecordFields DEF Execution
  <2> QED BY <2>1, TTLFields
<1> QED BY <1>1, <1>2, AttemptsStay, TablesStay
        DEF Quiet, SameClaims, NoResult, SameCheckpoint

LEMMA RenewIsQuiet ==
  ASSUME NEW r \in Record, NEW ref, NEW ttl
  PROVE  /\ Quiet(r, RenewExecution(r, ref, ttl)) /\ NoResult(r, RenewExecution(r, ref, ttl))
         /\ SameCheckpoint(r, RenewExecution(r, ref, ttl))
BY TTLIsQuiet, QuietSame DEF RenewExecution

LEMMA SaveIsQuiet ==
  ASSUME NEW r \in Record, NEW q
  PROVE  /\ Quiet(r, SaveCheckpoint(r, q)) /\ NoResult(r, SaveCheckpoint(r, q))
         /\ SameCheckpoint(r, SaveCheckpoint(r, q))
              \/ SaveCheckpoint(r, q).execution.checkpoint = q.checkpoint
<1> DEFINE s == [r EXCEPT !.execution.checkpoint = q.checkpoint, !.execution.version = @ + 1]
<1>1. /\ s.execution = [r.execution EXCEPT !.checkpoint = q.checkpoint, !.version = @ + 1]
      /\ s.attempts = r.attempts /\ s.claims = r.claims /\ s.nextToken = r.nextToken
      /\ s.suspends = r.suspends /\ s.finishes = r.finishes /\ s.releases = r.releases
  BY DEF Record
<1>2. /\ s.execution.lease = r.execution.lease
      /\ s.execution.status = r.execution.status
      /\ s.execution.result = r.execution.result
      /\ s.execution.checkpoint = q.checkpoint
  <2> DEFINE e == [r.execution EXCEPT !.checkpoint = q.checkpoint, !.version = @ + 1]
  <2>1. /\ e.lease = r.execution.lease /\ e.status = r.execution.status
        /\ e.result = r.execution.result /\ e.checkpoint = q.checkpoint
    BY RecordFields DEF Execution
  <2>2. s.execution = e
    BY <1>1
  <2> HIDE DEF s, e
  <2> QED BY <2>1, <2>2
<1>3. SaveCheckpoint(r, q) = s \/ SaveCheckpoint(r, q) = r
  BY DEF SaveCheckpoint
<1> HIDE DEF s
<1>4. Quiet(r, s) /\ NoResult(r, s)
  BY <1>1, <1>2, AttemptsStay, TablesStay DEF Quiet, SameClaims, NoResult
<1> QED BY <1>2, <1>3, <1>4, QuietSame

LEMMA SuspendIsQuiet ==
  ASSUME NEW r \in Record, NEW q
  PROVE  /\ Quiet(r, SuspendExecution(r, q)) /\ NoResult(r, SuspendExecution(r, q))
         /\ SameCheckpoint(r, SuspendExecution(r, q))
         /\ SuspendExecutionVerdict(r, q) = "Suspend" =>
              /\ SuspendExecution(r, q).execution.lease.token = 0
              /\ q.lease.token = r.execution.lease.token
<1> DEFINE e == [r.execution EXCEPT !.status = "suspended", !.lease = NoLease,
                                    !.version = @ + 1]
           entry == [lease |-> q.lease, version |-> q.version, execution |-> e]
           s == [r EXCEPT !.attempts = reconcileRunning(@, q.lease.token),
                          !.execution = e, !.suspends = @ \cup {entry}]
<1> SUFFICES ASSUME SuspendExecutionVerdict(r, q) = "Suspend"
             PROVE  /\ Quiet(r, s) /\ NoResult(r, s) /\ SameCheckpoint(r, s)
                    /\ s.execution.lease.token = 0
                    /\ q.lease.token = r.execution.lease.token
  BY QuietSame DEF SuspendExecution
<1>1. r.execution.lease.token # 0 /\ q.lease.token = r.execution.lease.token
  BY DEF SuspendExecutionVerdict, requireActiveLease, leaseMatches
<1>2. /\ e.lease.token = 0 /\ e.status = "suspended"
      /\ e.checkpoint = r.execution.checkpoint
  BY RecordFields DEF Execution, NoLease
<1>3. entry.lease = q.lease
  OBVIOUS
<1> HIDE DEF e, entry
<1>4. /\ s.execution = e /\ s.attempts = reconcileRunning(r.attempts, q.lease.token)
      /\ s.claims = r.claims /\ s.nextToken = r.nextToken
      /\ s.suspends = r.suspends \cup {entry}
      /\ s.finishes = r.finishes /\ s.releases = r.releases
  BY DEF Record
<1> HIDE DEF s
<1>5. NoNewRun(r, s) /\ NoneAbandoned(r, s)
  BY <1>4, MarkingIsQuiet
<1>6. Tabled(r, s)
  BY <1>1, <1>2, <1>3, <1>4 DEF Tabled, Entered
<1> QED BY <1>1, <1>2, <1>4, <1>5, <1>6
        DEF Quiet, SameClaims, NoResult, SameCheckpoint, terminal

LEMMA ReleaseIsQuiet ==
  ASSUME NEW r \in Record, NEW ref
  PROVE  /\ Quiet(r, ReleaseExecution(r, ref)) /\ NoResult(r, ReleaseExecution(r, ref))
         /\ SameCheckpoint(r, ReleaseExecution(r, ref))
         /\ ReleaseExecutionVerdict(r, ref) = "Release" =>
              /\ ReleaseExecution(r, ref).execution.lease.token = 0
              /\ ref.token = r.execution.lease.token
<1> DEFINE e == [r.execution EXCEPT !.lease = NoLease]
           entry == [lease |-> ref, execution |-> e,
                     reconcile |-> unknownAttempts(reconcileRunning(r.attempts, ref.token))
                                     \ unknownAttempts(r.attempts)]
           s == [r EXCEPT !.attempts = reconcileRunning(r.attempts, ref.token),
                          !.execution = e, !.releases = @ \cup {entry}]
<1> SUFFICES ASSUME ReleaseExecutionVerdict(r, ref) = "Release"
             PROVE  /\ Quiet(r, s) /\ NoResult(r, s) /\ SameCheckpoint(r, s)
                    /\ s.execution.lease.token = 0
                    /\ ref.token = r.execution.lease.token
  BY QuietSame DEF ReleaseExecution
<1>1. r.execution.lease.token # 0 /\ ref.token = r.execution.lease.token
  BY DEF ReleaseExecutionVerdict, leaseMatches
<1>2. /\ e.lease.token = 0 /\ e.status = r.execution.status
      /\ e.result = r.execution.result
      /\ e.checkpoint = r.execution.checkpoint
  BY RecordFields DEF Execution, NoLease
<1>3. entry.lease = ref
  OBVIOUS
<1> HIDE DEF e, entry
<1>4. /\ s.execution = e /\ s.attempts = reconcileRunning(r.attempts, ref.token)
      /\ s.claims = r.claims /\ s.nextToken = r.nextToken
      /\ s.releases = r.releases \cup {entry}
      /\ s.finishes = r.finishes /\ s.suspends = r.suspends
  BY DEF Record
<1> HIDE DEF s
<1>5. NoNewRun(r, s) /\ NoneAbandoned(r, s)
  BY <1>4, MarkingIsQuiet
<1>6. Tabled(r, s)
  BY <1>1, <1>2, <1>3, <1>4 DEF Tabled, Entered
<1> QED BY <1>1, <1>2, <1>4, <1>5, <1>6
        DEF Quiet, SameClaims, NoResult, SameCheckpoint

LEMMA FinishIsQuiet ==
  ASSUME NEW r \in Record, NEW q
  PROVE  /\ Quiet(r, FinishExecution(r, q)) /\ SameCheckpoint(r, FinishExecution(r, q))
         /\ FinishExecutionVerdict(r, q) # "Finish" => FinishExecution(r, q) = r
         /\ FinishExecutionVerdict(r, q) = "Finish" =>
              /\ FinishExecution(r, q).execution.lease.token = 0
              /\ q.lease.token = r.execution.lease.token
              /\ FinishExecution(r, q).attempts = r.attempts
              /\ FinishExecution(r, q).execution.result = q.result
              /\ FinishExecution(r, q).execution.status =
                   IF q.result \in FailedResults THEN "failed" ELSE "completed"
<1> DEFINE status == IF q.result \in FailedResults THEN "failed" ELSE "completed"
           e == [r.execution EXCEPT !.status = status, !.result = q.result,
                                    !.lease = NoLease, !.version = @ + 1]
           entry == [lease |-> q.lease, version |-> q.version, result |-> q.result,
                     execution |-> e]
           s == [r EXCEPT !.execution = e, !.finishes = @ \cup {entry}]
<1>0. FinishExecutionVerdict(r, q) # "Finish" => FinishExecution(r, q) = r
  BY DEF FinishExecution
<1> SUFFICES ASSUME FinishExecutionVerdict(r, q) = "Finish"
             PROVE  /\ Quiet(r, s) /\ SameCheckpoint(r, s)
                    /\ s.execution.lease.token = 0
                    /\ q.lease.token = r.execution.lease.token
                    /\ s.attempts = r.attempts
                    /\ s.execution.result = q.result
                    /\ s.execution.status = status
  BY <1>0, QuietSame DEF FinishExecution
<1>1. r.execution.lease.token # 0 /\ q.lease.token = r.execution.lease.token
  BY DEF FinishExecutionVerdict, requireActiveLease, leaseMatches
<1>2. /\ e.lease.token = 0 /\ e.status = status /\ e.result = q.result
      /\ e.checkpoint = r.execution.checkpoint
  <2> HIDE DEF status
  <2> QED BY RecordFields DEF Execution, NoLease
<1>3. entry.lease = q.lease
  OBVIOUS
<1> HIDE DEF status, e, entry
<1>4. /\ s.execution = e /\ s.attempts = r.attempts
      /\ s.claims = r.claims /\ s.nextToken = r.nextToken
      /\ s.finishes = r.finishes \cup {entry}
      /\ s.releases = r.releases /\ s.suspends = r.suspends
  BY DEF Record
<1> HIDE DEF s
<1>5. NoNewRun(r, s) /\ NoneAbandoned(r, s)
  BY <1>4, AttemptsStay
<1>6. Tabled(r, s)
  BY <1>1, <1>2, <1>3, <1>4 DEF Tabled, Entered
<1> QED BY <1>1, <1>2, <1>4, <1>5, <1>6
        DEF Quiet, SameClaims, SameCheckpoint

\* FinishAttempt, and the outcome it leaves behind.
LEMMA FinishAttemptIsQuiet ==
  ASSUME BackendInv, NEW q \in SettleCalls, NEW s, s = FinishAttempt(record, q)
  PROVE  /\ Quiet(record, s) /\ NoResult(record, s) /\ SameCheckpoint(record, s)
         /\ FinishAttemptVerdict(record, q) \in {"Finish", "Replay"} =>
              outcomeIn(s, q.operation) = [payload |-> q.payload, failure |-> q.failure]
<1> DEFINE op == q.operation
           n == q.number
<1>0. record \in Record /\ op \in Operations
  BY DEF BackendInv, TypeOK, SettleCalls
<1>1. CASE FinishAttemptVerdict(record, q) = "Finish"
  <2>1. PICK b \in Attempt :
          /\ s = putAttempt(record, op, n, b)
          /\ b.number = attemptByNumber(record, op, n).number
          /\ b.status \in {"succeeded", "failed"}
          /\ sameOutcome(b, q)
    BY <1>0, <1>1, FinishAttemptWrites
  <2>2. positions(record, op, n) # {} /\ uncertain(attemptByNumber(record, op, n))
    BY <1>0, <1>1, FinishAttemptWrites
  <2>3. s.attempts[op] # <<>> /\ latest(s, op) = b
    BY <1>0, <2>1, <2>2, PutFacts
  <2>4. outcomeIn(s, op) = [payload |-> q.payload, failure |-> q.failure]
    BY <2>1, <2>3 DEF outcomeIn, settled, sameOutcome
  <2>5. Quiet(record, s) /\ NoResult(record, s) /\ SameCheckpoint(record, s)
    BY <1>0, <2>1, PutIsQuiet DEF Quiet
  <2> QED BY <2>4, <2>5
<1>2. CASE FinishAttemptVerdict(record, q) # "Finish"
  <2>1. s = record
    BY <1>2 DEF FinishAttempt
  <2>2. ASSUME FinishAttemptVerdict(record, q) = "Replay"
        PROVE  outcomeIn(s, op) = [payload |-> q.payload, failure |-> q.failure]
    <3> DEFINE a == attemptByNumber(record, op, n)
    <3>1. /\ positions(record, op, n) # {} /\ a.status \in {"succeeded", "failed"}
          /\ sameOutcome(a, q)
      BY <2>2 DEF FinishAttemptVerdict, settleVerdict
    <3>2. PICK i \in DOMAIN record.attempts[op] : a = record.attempts[op][i]
      BY <1>0, <3>1, AttemptByNumberType
    <3>3. settled(record.attempts[op][i])
      BY <3>1, <3>2 DEF settled
    <3>4. latest(record, op) = a
      BY <1>0, <3>2, <3>3, SettledIsLatest
    <3>5. record.attempts[op] # <<>>
      BY <3>2
    <3> QED BY <2>1, <3>1, <3>4, <3>5 DEF outcomeIn, settled, sameOutcome
  <2> QED BY <1>2, <2>1, <2>2, QuietSame
<1> QED BY <1>1, <1>2

LEMMA MarkAttemptUnknownIsQuiet ==
  ASSUME BackendInv, NEW q \in SettleCalls, NEW s, s = MarkAttemptUnknown(record, q)
  PROVE  Quiet(record, s) /\ NoResult(record, s) /\ SameCheckpoint(record, s)
<1>0. record \in Record /\ q.operation \in Operations
  BY DEF BackendInv, TypeOK, SettleCalls
<1>1. CASE MarkAttemptUnknownVerdict(record, q) = "Mark"
  <2>1. PICK b \in Attempt :
          /\ s = putAttempt(record, q.operation, q.number, b)
          /\ b.status = "unknown"
    BY <1>0, <1>1, MarkAttemptUnknownWrites
  <2> QED BY <1>0, <2>1, PutIsQuiet DEF Quiet
<1>2. CASE MarkAttemptUnknownVerdict(record, q) # "Mark"
  BY <1>2, QuietSame DEF MarkAttemptUnknown
<1> QED BY <1>1, <1>2

\* A reconciliation abandons the attempt it names only when it says retry.
LEMMA ReconcileIsQuiet ==
  ASSUME BackendInv, NEW q \in ReconcileCalls,
         ReconcileAttemptVerdict(record, q) = "Reconcile",
         NEW s, s = ReconcileAttempt(record, q)
  PROVE  /\ SameClaims(record, s) /\ NoNewRun(record, s) /\ Tabled(record, s)
         /\ NoResult(record, s) /\ SameCheckpoint(record, s)
         /\ \A op \in Operations : \A i \in DOMAIN s.attempts[op] :
              s.attempts[op][i].status = "abandoned" =>
                \/ record.attempts[op][i].status = "abandoned"
                \/ q.resolution = "retry" /\ op = q.operation /\ i = q.number
<1>0. record \in Record /\ q.operation \in Operations
  BY DEF BackendInv, TypeOK, ReconcileCalls
<1>1. PICK b \in Attempt :
        /\ s = putAttempt(record, q.operation, q.number, b)
        /\ b.status = resolvedStatus(q.resolution)
        /\ b.status \in {"succeeded", "failed", "abandoned"}
  BY <1>0, ReconcileAttemptWrites
<1>2. /\ SameClaims(record, s) /\ NoNewRun(record, s) /\ Tabled(record, s)
      /\ NoResult(record, s) /\ SameCheckpoint(record, s)
  BY <1>0, <1>1, PutIsQuiet
<1>3. b.status = "abandoned" => q.resolution = "retry"
  BY <1>1 DEF resolvedStatus, ReconcileCalls
<1>4. \A op \in Operations : \A i \in DOMAIN s.attempts[op] :
        s.attempts[op][i].status = "abandoned" =>
          \/ record.attempts[op][i].status = "abandoned"
          \/ b.status = "abandoned" /\ op = q.operation /\ i \in positions(record, q.operation, q.number)
  BY <1>0, <1>1, PutAttemptType
<1>5. \A i \in positions(record, q.operation, q.number) : i = q.number
  BY <1>0 DEF positions, BackendInv, OnlyLatestOpen
<1> QED BY <1>2, <1>3, <1>4, <1>5

\* StartAttempt opens an attempt, under the lease of the request, of an
\* operation that has none but abandoned ones.
LEMMA StartAttemptOpens ==
  ASSUME BackendInv, NEW q \in AttemptCalls, NEW s, s = StartAttempt(record, q),
         StartAttemptVerdict(record, q) \in {"First", "Again"}
  PROVE  LET op == q.operation
             old == record.attempts[op]
             a == newAttempt(q, Len(old) + 1)
         IN /\ op \in Operations /\ old \in Seq(Attempt)
            /\ SameClaims(record, s) /\ Tabled(record, s)
            /\ NoResult(record, s) /\ SameCheckpoint(record, s)
            /\ requireActiveLease(record, q.lease)
            /\ \A o \in Operations : o # op => s.attempts[o] = record.attempts[o]
            /\ s.attempts[op] = Append(old, a)
            /\ latest(s, op) = a
            /\ \A i \in DOMAIN old : old[i].status = "abandoned"
<1> DEFINE op == q.operation
           old == record.attempts[op]
           a == newAttempt(q, Len(old) + 1)
<1>0. record \in Record /\ op \in Operations /\ requireActiveLease(record, q.lease)
  BY StartAttemptShape DEF BackendInv, TypeOK, AttemptCalls
<1>1. old \in Seq(Attempt)
  BY <1>0, RecordFields
<1>2. PICK x \in Seq(Attempt) :
        /\ s = [record EXCEPT !.attempts = [record.attempts EXCEPT ![op] = x]]
        /\ \/ old = <<>> /\ x = <<newAttempt(q, 1)>>
           \/ /\ old # <<>> /\ latest(record, op).status = "abandoned"
              /\ x = Append(old, newAttempt(q, latest(record, op).number + 1))
           \/ /\ old # <<>> /\ latest(record, op).status = "running"
              /\ latest(record, op).lease # q.lease
  BY <1>0, StartAttemptShape
<1>3. /\ s.execution = record.execution /\ s.nextToken = record.nextToken
      /\ s.claims = record.claims
      /\ s.suspends = record.suspends /\ s.finishes = record.finishes
      /\ s.releases = record.releases
      /\ s.attempts[op] = x
      /\ \A o \in Operations : o # op => s.attempts[o] = record.attempts[o]
  BY <1>0, <1>2, RecordFields DEF Record
<1>4. old # <<>> => latest(record, op).status # "running"
  <2>1. ASSUME old # <<>>, latest(record, op).status = "running" PROVE FALSE
    BY <2>1 DEF StartAttemptVerdict, settled
  <2> QED BY <2>1
<1>5. old # <<>> => /\ Len(old) \in DOMAIN old
                    /\ latest(record, op) = old[Len(old)]
                    /\ latest(record, op).number = Len(old)
  BY <1>0, LatestType DEF latest, BackendInv, OnlyLatestOpen
<1>6. x = Append(old, a) /\ (old # <<>> => latest(record, op).status = "abandoned")
  <2>1. CASE old = <<>>
    <3>1. Append(old, newAttempt(q, 1)) = <<newAttempt(q, 1)>> /\ Len(old) = 0
      BY <2>1
    <3> QED BY <1>2, <2>1, <3>1
  <2>2. CASE old # <<>>
    BY <1>2, <1>4, <1>5, <2>2
  <2> QED BY <2>1, <2>2
<1>7. \A i \in DOMAIN old : old[i].status = "abandoned"
  <2> SUFFICES ASSUME NEW i \in DOMAIN old PROVE old[i].status = "abandoned"
    OBVIOUS
  <2>1. old # <<>> /\ i \in 1..Len(old) /\ Len(old) \in Nat
    BY <1>1
  <2>2. CASE i = Len(old)
    BY <1>5, <1>6, <2>1, <2>2
  <2>3. CASE i < Len(old)
    BY <1>0, <2>3 DEF BackendInv, OnlyLatestOpen
  <2> QED BY <2>1, <2>2, <2>3
<1>8. latest(s, op) = a
  <2> HIDE DEF a
  <2>1. Len(Append(old, a)) = Len(old) + 1 /\ Append(old, a)[Len(old) + 1] = a
    BY <1>1
  <2> QED BY <1>3, <1>6, <2>1 DEF latest
<1>9. SameClaims(record, s) /\ Tabled(record, s) /\ NoResult(record, s) /\ SameCheckpoint(record, s)
  BY <1>3, TablesStay DEF SameClaims, NoResult, SameCheckpoint
<1> QED BY <1>0, <1>1, <1>3, <1>6, <1>7, <1>8, <1>9

LEMMA StartAttemptOtherwise ==
  ASSUME BackendInv, NEW q \in AttemptCalls,
         StartAttemptVerdict(record, q) \notin {"First", "Again"}
  PROVE  StartAttempt(record, q) = record
BY NeverOrphaned DEF StartAttempt

-----------------------------------------------------------------------------
(* The calls the runtimes make are calls of the Backend.                   *)

\* What every call of the Backend keeps.
Onward(r, s) ==
  /\ s.nextToken >= r.nextToken
  /\ s.execution.version >= r.execution.version
  /\ s.execution.checkpoint # r.execution.checkpoint =>
       s.execution.version > r.execution.version
  /\ \A op \in Operations :
       outcomeIn(r, op) # None => outcomeIn(s, op) = outcomeIn(r, op)

LEMMA RecordStep ==
  ASSUME BackendInv, NothingSaved, [Calls]_record
  PROVE  BackendInv' /\ NothingSaved' /\ Onward(record, record')
<1>0. BackendInv'
  BY BackendInvStep
<1>1. /\ record \in Record /\ record' \in Record
      /\ record.execution.version \in Nat /\ record'.execution.version \in Nat
      /\ record.nextToken \in Nat /\ record'.nextToken \in Nat
  BY <1>0, RecordFields, ExecutionFields DEF BackendInv, TypeOK
<1>2. ASSUME NEW op \in Operations, outcomeIn(record, op) # None
      PROVE  outcomeIn(record', op) = outcomeIn(record, op)
  <2>1. record.attempts[op] # <<>> /\ settled(latest(record, op))
    BY <1>2 DEF outcomeIn
  <2>2. /\ Len(record.attempts[op]) \in DOMAIN record.attempts[op]
        /\ latest(record, op) = record.attempts[op][Len(record.attempts[op])]
    BY <1>1, <2>1, LatestType DEF latest
  <2>3. record'.attempts[op] = record.attempts[op]
    BY <2>1, <2>2, OutcomeFinalStep
  <2> QED BY <2>3 DEF outcomeIn, latest
<1>3. CASE Calls
  <2>1. Forward /\ exists(record')
    BY <1>3, ForwardStep
  <2>2. NothingSaved'
    BY <2>1 DEF NothingSaved
  <2> QED BY <1>0, <1>1, <1>2, <2>1, <2>2 DEF Onward, Forward
<1>4. CASE record' = record
  BY <1>0, <1>1, <1>2, <1>4 DEF NothingSaved, Onward, exists
<1> QED BY <1>3, <1>4

\* The fields of the state of a call.
LEMMA CallFields ==
  ASSUME NEW s \in CallState
  PROVE  /\ s.pc \in CallPCs /\ s.mode \in {"start", "resume"}
         /\ s.lease \in LeaseRef /\ s.lease.token \in Nat
         /\ s.version \in Nat /\ s.sequence \in Nat /\ s.pos \in Nat
         /\ s.seen \in Seen /\ s.stop \in StopCauses
         /\ s.cancelled \in BOOLEAN /\ s.infra \in BOOLEAN /\ s.failed \in BOOLEAN
         /\ s.ret \in {"none", "ok", "Suspended", "Closed", "err"}
         /\ s.control \in {"nil", "err"}
<1>1. /\ s.pc \in CallPCs /\ s.mode \in {"start", "resume"}
      /\ s.lease \in LeaseRef
      /\ s.version \in Nat /\ s.sequence \in Nat /\ s.pos \in Nat
      /\ s.seen \in Seen /\ s.stop \in StopCauses
      /\ s.cancelled \in BOOLEAN /\ s.infra \in BOOLEAN /\ s.failed \in BOOLEAN
      /\ s.ret \in {"none", "ok", "Suspended", "Closed", "err"}
      /\ s.control \in {"nil", "err"}
  BY DEF CallState
<1>2. s.lease.token \in Nat
  BY <1>1 DEF LeaseRef
<1> QED BY <1>1, <1>2

LEMMA EffectFields ==
  ASSUME NEW e \in EffectState
  PROVE  /\ e.state \in {"idle", "begun", "granted", "produced", "ambiguous", "ok",
                         "failed", "aborted", "infra", "unreplayable"}
         /\ e.number \in Nat /\ e.outcome \in Outcomes \cup {None}
BY DEF EffectState

\* The counters of the record.
LEMMA RecordCounters ==
  ASSUME BackendInv
  PROVE  /\ record \in Record
         /\ record.nextToken \in Nat
         /\ record.execution.lease.token \in Nat
         /\ record.execution.lease.token <= record.nextToken
         /\ record.execution.version \in Nat
<1>1. /\ record \in Record /\ record.nextToken \in Nat /\ record.execution \in Execution
  BY RecordFields DEF BackendInv, TypeOK
<1>2. record.execution.lease.token \in Nat /\ record.execution.version \in Nat
  BY <1>1, ExecutionFields
<1> QED BY <1>1, <1>2 DEF BackendInv, LeaseIsNewest

LEMMA RenewCall ==
  ASSUME BackendInv, Types, NEW c \in ClaimIDs, NEW ttl \in LeaseTTLs, NEW fate,
         record' = sent(fate, RenewExecution(record, call[c].lease, ttl))
  PROVE  /\ [Calls]_record
         /\ Quiet(record, record') /\ NoResult(record, record')
         /\ SameCheckpoint(record, record')
<1>1. call[c].lease \in LeaseRef /\ record \in Record
  BY CallFields DEF Types, BackendInv, TypeOK
<1>2. record' = record \/ record' = RenewExecution(record, call[c].lease, ttl)
  BY DEF sent
<1>3. RenewExecution(record, call[c].lease, ttl) # record =>
        RenewExecutionVerdict(record, call[c].lease) = "Renew"
  BY DEF RenewExecution
<1>4. [Calls]_record
  BY <1>1, <1>2, <1>3 DEF Calls, CallRenew
<1> QED BY <1>1, <1>2, <1>4, RenewIsQuiet, QuietSame

\* The Engine's position is a continuation.
LEMMA BoundaryRequestType ==
  ASSUME Types, NEW c \in ClaimIDs, call[c].pos \in 1..(Len(Plan) + 1)
  PROVE  /\ boundaryRequest(c) \in CheckpointCalls
         /\ [pos |-> call[c].pos, seen |-> call[c].seen] \in EngineContinuations
<1> DEFINE k == [pos |-> call[c].pos, seen |-> call[c].seen]
<1>1. call[c].lease \in LeaseRef /\ call[c].version \in Nat /\ call[c].sequence \in Nat
      /\ call[c].seen \in Seen
  BY CallFields DEF Types
<1>2. k \in EngineContinuations
  BY <1>1 DEF EngineContinuations
<1>3. k \in Continuations
  BY <1>2, EngineAssumption
<1>4. call[c].sequence + 1 \in Nat \ {0}
  BY <1>1
<1> HIDE DEF k
<1>5. [lease |-> call[c].lease, version |-> call[c].version,
       checkpoint |-> [sequence |-> call[c].sequence + 1, continuation |-> k]]
        \in CheckpointCalls
  BY <1>1, <1>3, <1>4 DEF CheckpointCalls
<1> QED BY <1>2, <1>5 DEF boundaryRequest, k

LEMMA SaveCall ==
  ASSUME BackendInv, Types, NEW c \in ClaimIDs, NEW fate,
         call[c].pos \in 1..(Len(Plan) + 1),
         record' = sent(fate, SaveCheckpoint(record, boundaryRequest(c)))
  PROVE  /\ [Calls]_record
         /\ Quiet(record, record') /\ NoResult(record, record')
         /\ \/ SameCheckpoint(record, record')
            \/ record'.execution.checkpoint = boundaryRequest(c).checkpoint
<1> DEFINE q == boundaryRequest(c)
<1>1. q \in CheckpointCalls /\ record \in Record
  BY BoundaryRequestType DEF BackendInv, TypeOK
<1> HIDE DEF q
<1>2. record' = record \/ record' = SaveCheckpoint(record, q)
  BY DEF sent, q
<1>3. SaveCheckpoint(record, q) # record => SaveCheckpointVerdict(record, q) = "Save"
  BY DEF SaveCheckpoint
<1>4. [Calls]_record
  BY <1>1, <1>2, <1>3 DEF Calls, CallSaveCheckpoint
<1>5. /\ Quiet(record, record') /\ NoResult(record, record')
      /\ SameCheckpoint(record, record') \/ record'.execution.checkpoint = q.checkpoint
  BY <1>1, <1>2, SaveIsQuiet, QuietSame
<1> QED BY <1>4, <1>5 DEF q

LEMMA SuspendCall ==
  ASSUME BackendInv, Types, NEW c \in ClaimIDs, NEW fate, NEW q,
         q = [lease |-> call[c].lease, version |-> call[c].version],
         record' = sent(fate, SuspendExecution(record, q))
  PROVE  /\ [Calls]_record
         /\ Quiet(record, record') /\ NoResult(record, record')
         /\ SameCheckpoint(record, record')
<1>1. q \in SuspendCalls /\ record \in Record
  BY CallFields DEF Types, SuspendCalls, BackendInv, TypeOK
<1>2. record' = record \/ record' = SuspendExecution(record, q)
  BY DEF sent
<1>3. SuspendExecution(record, q) # record => SuspendExecutionVerdict(record, q) = "Suspend"
  BY DEF SuspendExecution
<1>4. [Calls]_record
  BY <1>1, <1>2, <1>3 DEF Calls, CallSuspend
<1> QED BY <1>1, <1>2, <1>4, SuspendIsQuiet, QuietSame

LEMMA FinishCall ==
  ASSUME BackendInv, Types, NEW c \in ClaimIDs, NEW fate, NEW q,
         q = [lease |-> call[c].lease, version |-> call[c].version,
              result |-> [failed |-> call[c].failed, seen |-> call[c].seen]],
         record' = sent(fate, FinishExecution(record, q))
  PROVE  /\ [Calls]_record
         /\ q.result \in EngineResults
         /\ Quiet(record, record') /\ SameCheckpoint(record, record')
<1>0. /\ call[c].lease \in LeaseRef /\ call[c].version \in Nat
      /\ call[c].failed \in BOOLEAN /\ call[c].seen \in Seen
  BY CallFields DEF Types
<1>1. q.result \in EngineResults /\ record \in Record
  BY <1>0 DEF EngineResults, BackendInv, TypeOK
<1>2. q \in FinishCalls
  BY <1>0, <1>1, EngineAssumption DEF FinishCalls
<1>3. record' = record \/ record' = FinishExecution(record, q)
  BY DEF sent
<1>4. FinishExecution(record, q) # record => FinishExecutionVerdict(record, q) = "Finish"
  BY DEF FinishExecution
<1>5. [Calls]_record
  BY <1>2, <1>3, <1>4 DEF Calls, CallFinish
<1> QED BY <1>1, <1>3, <1>5, FinishIsQuiet, QuietSame

LEMMA ReleaseCall ==
  ASSUME BackendInv, Types, NEW c \in ClaimIDs, NEW fate,
         record' = sent(fate, ReleaseExecution(record, call[c].lease))
  PROVE  /\ [Calls]_record
         /\ Quiet(record, record') /\ NoResult(record, record')
         /\ SameCheckpoint(record, record')
<1>1. call[c].lease \in LeaseRef /\ record \in Record
  BY CallFields DEF Types, BackendInv, TypeOK
<1>2. record' = record \/ record' = ReleaseExecution(record, call[c].lease)
  BY DEF sent
<1>3. ReleaseExecution(record, call[c].lease) # record =>
        ReleaseExecutionVerdict(record, call[c].lease) = "Release"
  BY DEF ReleaseExecution
<1>4. [Calls]_record
  BY <1>1, <1>2, <1>3 DEF Calls, CallRelease
<1> QED BY <1>1, <1>2, <1>4, ReleaseIsQuiet, QuietSame

LEMMA AdvanceCall ==
  ASSUME BackendInv, Advance
  PROVE  /\ [Calls]_record
         /\ Quiet(record, record') /\ NoResult(record, record')
         /\ SameCheckpoint(record, record')
BY TTLIsQuiet DEF Advance, Calls, BackendInv, TypeOK

LEMMA StartAttemptCall ==
  ASSUME BackendInv, Types, NEW c \in ClaimIDs, NEW op \in Operations,
         NEW input \in Inputs, NEW fate, NEW q,
         q = [lease |-> call[c].lease, operation |-> op, input |-> input],
         record' = sent(fate, StartAttempt(record, q))
  PROVE  [Calls]_record /\ q \in AttemptCalls
<1>1. q \in AttemptCalls
  BY CallFields DEF Types, AttemptCalls
<1>2. record' = record \/ record' = StartAttempt(record, q)
  BY DEF sent
<1>3. StartAttempt(record, q) # record => StartAttemptVerdict(record, q) \in {"First", "Again"}
  BY <1>1, StartAttemptOtherwise
<1> QED BY <1>1, <1>2, <1>3 DEF Calls, CallStartAttempt

LEMMA SettleRequestType ==
  ASSUME Types, NEW c \in ClaimIDs, NEW op \in Operations,
         NEW payload \in Payloads \cup {None}, NEW failure \in Failures \cup {None}
  PROVE  settleRequest(c, op, payload, failure) \in SettleCalls
<1>1. call[c].lease \in LeaseRef /\ effect[c][op].number \in Nat
  BY CallFields, EffectFields DEF Types
<1> QED BY <1>1 DEF settleRequest, SettleCalls

LEMMA FinishAttemptCall ==
  ASSUME BackendInv, NEW q \in SettleCalls, NEW fate,
         record' = sent(fate, FinishAttempt(record, q))
  PROVE  /\ [Calls]_record
         /\ Quiet(record, record') /\ NoResult(record, record')
         /\ SameCheckpoint(record, record')
<1>2. record' = record \/ record' = FinishAttempt(record, q)
  BY DEF sent
<1>3. FinishAttempt(record, q) # record => FinishAttemptVerdict(record, q) = "Finish"
  BY DEF FinishAttempt
<1>4. [Calls]_record
  BY <1>2, <1>3 DEF Calls, CallFinishAttempt
<1> QED BY <1>2, <1>4, FinishAttemptIsQuiet, QuietSame

LEMMA MarkAttemptUnknownCall ==
  ASSUME BackendInv, NEW q \in SettleCalls, NEW fate,
         record' = sent(fate, MarkAttemptUnknown(record, q))
  PROVE  /\ [Calls]_record
         /\ Quiet(record, record') /\ NoResult(record, record')
         /\ SameCheckpoint(record, record')
<1>2. record' = record \/ record' = MarkAttemptUnknown(record, q)
  BY DEF sent
<1>3. MarkAttemptUnknown(record, q) # record => MarkAttemptUnknownVerdict(record, q) = "Mark"
  BY DEF MarkAttemptUnknown
<1>4. [Calls]_record
  BY <1>2, <1>3 DEF Calls, CallMarkAttemptUnknown
<1> QED BY <1>2, <1>4, MarkAttemptUnknownIsQuiet, QuietSame

\* What claiming leaves behind: nothing runs, and the new lease is the newest.
NewClaim(q) ==
  /\ record'.nextToken = record.nextToken + 1
  /\ \A i \in ClaimIDs : i # q.claim => record'.claims[i] = record.claims[i]
  /\ record'.claims[q.claim].mode # "none"
  /\ record'.claims[q.claim].token = record.nextToken + 1
  /\ record'.claims[q.claim].result.execution = record'.execution
  /\ record'.execution.lease.token = record.nextToken + 1
  /\ record'.execution.status = "running"
  /\ \A op \in Operations :
       /\ DOMAIN record'.attempts[op] = DOMAIN record.attempts[op]
       /\ Len(record'.attempts[op]) = Len(record.attempts[op])
       /\ \A i \in DOMAIN record'.attempts[op] : record'.attempts[op][i].status # "running"
  /\ NoneAbandoned(record, record')
  /\ record'.suspends = record.suspends
  /\ record'.finishes = record.finishes
  /\ record'.releases = record.releases

LEMMA ClaimIsNew ==
  ASSUME BackendInv, NEW q \in ClaimRequests, record' = claim(record, q)
  PROVE  NewClaim(q)
<1> DEFINE attempts == reconcileRunning(record.attempts, 0)
           e == [record.execution EXCEPT !.status = "running", !.lease = newLease(record, q)]
           result == [execution |-> e, created |-> FALSE,
                      reconcile |-> unknownAttempts(attempts)]
           k == claimRecord(record, q, result)
<1>0. record \in Record /\ q.claim \in ClaimIDs /\ q.mode # "none"
  BY DEF BackendInv, TypeOK, ClaimRequests, StartRequests, ResumeRequests
<1>1. e.status = "running" /\ e.lease.token = record.nextToken + 1
  BY <1>0, RecordFields DEF Execution, newLease
<1>2. k.mode = q.mode /\ k.token = record.nextToken + 1 /\ k.result.execution = e
  BY DEF claimRecord
<1>3. record' = [record EXCEPT !.attempts = attempts, !.execution = e, !.nextToken = @ + 1,
                               !.claims[q.claim] = k]
  BY DEF claim
<1> HIDE DEF e, k, attempts
<1>4. /\ record'.attempts = attempts /\ record'.execution = e
      /\ record'.nextToken = record.nextToken + 1
      /\ record'.claims = [record.claims EXCEPT ![q.claim] = k]
      /\ record'.suspends = record.suspends /\ record'.finishes = record.finishes
      /\ record'.releases = record.releases
  BY <1>0, <1>3 DEF Record
<1>5. /\ record'.claims[q.claim] = k
      /\ \A i \in ClaimIDs : i # q.claim => record'.claims[i] = record.claims[i]
  BY <1>0, <1>4, RecordFields
<1>6. NoNewRun(record, record') /\ NoneAbandoned(record, record')
  BY <1>0, <1>4, MarkingIsQuiet DEF attempts
<1>7. ASSUME NEW op \in Operations, NEW i \in DOMAIN record'.attempts[op]
      PROVE  record'.attempts[op][i].status # "running"
  <2>1. i \in DOMAIN record.attempts[op]
    BY <1>6, <1>7 DEF NoNewRun
  <2>2. \A o \in Operations : \A j \in DOMAIN record.attempts[o] :
          record.attempts[o][j].status = "running" => record.attempts[o][j].lease.token # 0
    BY RunningLease
  <2>3. record.attempts \in [Operations -> Seq(Attempt)]
    BY <1>0, RecordFields
  <2>4. reconcileRunning(record.attempts, 0)[op][i].status =
          IF record.attempts[op][i].status = "running" THEN "unknown"
                                                      ELSE record.attempts[op][i].status
    BY <2>1, <2>2, <2>3, ReconcileRunningKeeps
  <2> QED BY <1>4, <2>4 DEF attempts
<1> QED BY <1>0, <1>1, <1>2, <1>4, <1>5, <1>6, <1>7 DEF NewClaim, NoNewRun

LEMMA CreateIsNew ==
  ASSUME BackendInv, NEW q \in ClaimRequests, record' = create(record, q), ~exists(record)
  PROVE  NewClaim(q)
<1> DEFINE e == [NoExecution EXCEPT !.specHash = q.specHash, !.status = "running",
                                    !.version = 1, !.lease = newLease(record, q)]
           result == [execution |-> e, created |-> TRUE, reconcile |-> {}]
           k == claimRecord(record, q, result)
<1>0. record \in Record /\ q.claim \in ClaimIDs /\ q.mode # "none"
  BY DEF BackendInv, TypeOK, ClaimRequests, StartRequests, ResumeRequests
<1>1. e.status = "running" /\ e.lease.token = record.nextToken + 1
  BY DEF NoExecution, newLease
<1>2. k.mode = q.mode /\ k.token = record.nextToken + 1 /\ k.result.execution = e
  BY DEF claimRecord
<1>3. record' = [record EXCEPT !.execution = e, !.nextToken = @ + 1, !.claims[q.claim] = k]
  BY DEF create
<1> HIDE DEF e, k
<1>4. /\ record'.attempts = record.attempts /\ record'.execution = e
      /\ record'.nextToken = record.nextToken + 1
      /\ record'.claims = [record.claims EXCEPT ![q.claim] = k]
      /\ record'.suspends = record.suspends /\ record'.finishes = record.finishes
      /\ record'.releases = record.releases
  BY <1>0, <1>3 DEF Record
<1>5. /\ record'.claims[q.claim] = k
      /\ \A i \in ClaimIDs : i # q.claim => record'.claims[i] = record.claims[i]
  BY <1>0, <1>4, RecordFields
<1>6. \A op \in Operations : record.attempts[op] = <<>>
  BY DEF BackendInv, LeaseIsNewest
<1>7. NoneAbandoned(record, record')
  BY <1>4, AttemptsStay
<1> QED BY <1>0, <1>1, <1>2, <1>4, <1>5, <1>6, <1>7 DEF NewClaim

-----------------------------------------------------------------------------
(* How the parts of the invariant survive a step.                          *)

\* The calls that only move on: the lease and what was seen stay, and what the
\* Engine did is kept or forgotten.
Calm(s, t) ==
  /\ t.lease = s.lease
  /\ t.seen = s.seen
  /\ \/ /\ t.pc = s.pc /\ t.pos = s.pos /\ t.version = s.version
        /\ t.failed = s.failed /\ t.infra = s.infra
     \/ s.pc = "ready" /\ t.pc = "entered" /\ t.failed = s.failed /\ t.infra = s.infra
     \/ s.pc = "boundary" /\ t.pc = "complete" /\ t.infra
     \/ /\ s.pc = "complete" /\ t.pc = "finishing" /\ ~s.infra
        /\ t.failed = s.failed /\ t.infra = s.infra
     \/ /\ s.pc \notin Fresh \cup Busy
        /\ t.pc \in {"suspending", "releasing", "finish", "leave", "returned"}

LEMMA TokensStay ==
  ASSUME Tokens, Types, BackendInv, BackendInv', record'.nextToken >= record.nextToken,
         \A c \in ClaimIDs :
           /\ call'[c].lease = call[c].lease
           /\ call'[c].pc \in Fresh => call[c].pc \in Fresh
           /\ call'[c].pc \in Busy => call[c].pc \in Busy
  PROVE  Tokens'
<1>1. \A c \in ClaimIDs : tokenOf(c) \in Nat /\ tokenOf(c)' = tokenOf(c)
  BY CallFields DEF Types, tokenOf
<1>2. record.nextToken \in Nat /\ record'.nextToken \in Nat
  BY RecordFields DEF BackendInv, TypeOK
<1> QED BY <1>1, <1>2 DEF Tokens

LEMMA ClaimedStays ==
  ASSUME Claimed, SameClaims(record, record')
  PROVE  Claimed'
BY DEF Claimed, SameClaims

\* A running attempt was running, or belongs to a call.
RunsOwned ==
  \A op \in Operations : \A i \in DOMAIN record'.attempts[op] :
    record'.attempts[op][i].status = "running" =>
      \/ i \in DOMAIN record.attempts[op] /\ record'.attempts[op][i] = record.attempts[op][i]
      \/ \E c \in ClaimIDs : record'.attempts[op][i].lease.token = tokenOf(c)

LEMMA NoNewRunOwned ==
  ASSUME NoNewRun(record, record')
  PROVE  RunsOwned
BY DEF NoNewRun, RunsOwned

LEMMA NotRunningStays ==
  ASSUME NoNewRun(record, record'), NEW op \in Operations, NEW t, NotRunning(record, op, t)
  PROVE  NotRunning(record', op, t)
BY DEF NoNewRun, NotRunning

LEMMA PendingStays ==
  ASSUME Pending, Claimed, SameClaims(record, record'), RunsOwned,
         runtime' \in [Owners -> RuntimeState], RuntimeOfAssumption,
         \A c \in ClaimIDs :
           /\ tokenOf(c)' \in {tokenOf(c), 0}
           /\ (up(c) /\ call[c].pc \in Fresh)' => up(c) /\ call[c].pc \in Fresh,
         \A o \in Owners : runtime'[o].pending \in {runtime[o].pending, None}
  PROVE  Pending'
<1>1. record'.claims = record.claims
  BY DEF SameClaims
<1>2. ASSUME NEW o \in Owners, runtime'[o].pending # None
      PROVE  /\ runtimeOf[runtime'[o].pending] = o
             /\ record'.claims[runtime'[o].pending].mode # "none" =>
                  Unused(record.claims[runtime[o].pending].token)'
  <2> DEFINE p == runtime[o].pending
             t == record.claims[p].token
  <2>1. runtime'[o].pending = p /\ p # None
    BY <1>2
  <2>2. p \in ClaimIDs
    BY <2>1 DEF RuntimeState
  <2>3. /\ runtimeOf[p] = o
        /\ record.claims[p].mode # "none" => Unused(t)
    BY <2>1 DEF Pending
  <2>4. ASSUME record.claims[p].mode # "none" PROVE Unused(t)'
    <3>1. Unused(t) /\ t # 0
      BY <2>2, <2>3, <2>4 DEF Claimed
    <3>2. record'.claims[p].token = t
      BY <1>1
    <3> HIDE DEF t
    <3>3. \A c \in ClaimIDs : tokenOf(c)' # t
      BY <3>1 DEF Unused
    <3>4. \A op \in Operations : NotRunning(record', op, t)
      BY <3>1 DEF Unused, NotRunning, RunsOwned
    <3> QED BY <1>1, <2>1, <3>2, <3>3, <3>4 DEF Unused, t
  <2> QED BY <1>1, <2>1, <2>3, <2>4
<1>3. ASSUME NEW c \in ClaimIDs, up(c)' /\ call'[c].pc \in Fresh
      PROVE  /\ record'.claims[c].mode = "none"
             /\ \A o \in Owners : runtime'[o].pending # c
  <2>1. up(c) /\ call[c].pc \in Fresh
    BY <1>3
  <2>2. /\ record.claims[c].mode = "none"
        /\ \A o \in Owners : runtime[o].pending # c
    BY <2>1 DEF Pending
  <2>3. c # None
    BY NoneAssumption
  <2> QED BY <1>1, <2>2, <2>3
<1> QED BY <1>1, <1>2, <1>3 DEF Pending

\* An effect whose goroutine does not move.
LEMMA EffectOfStays ==
  ASSUME NEW c \in ClaimIDs, NEW op \in Operations, EffectOf(c, op),
         effect'[c][op] = effect[c][op], Onward(record, record'),
         call[c].pc = "batch" => call'[c].pc = "batch" /\ call'[c].pos = call[c].pos,
         \/ /\ call'[c].pc \in Busy => call[c].pc \in Busy /\ tokenOf(c)' = tokenOf(c)
            /\ NotRunning(record, op, tokenOf(c)) => NotRunning(record', op, tokenOf(c))
         \/ NotRunning(record', op, tokenOf(c)')
  PROVE  EffectOf(c, op)'
<1> DEFINE e == effect[c][op]
<1>1. e.state # "idle" => call'[c].pc = "batch" /\ op \in Plan[call'[c].pos]
  BY DEF EffectOf
<1>2. call'[c].pc \in Busy /\ e.state \in {"idle", "begun"} =>
        NotRunning(record', op, tokenOf(c)')
  BY DEF EffectOf
<1>3. /\ e.state = "produced" => e.outcome # None
      /\ e.state \in {"ok", "failed"} => e.outcome # None /\ outcomeIn(record', op) = e.outcome
      /\ e.state = "ok" => e.outcome.failure = None
  BY DEF EffectOf, Onward
<1> QED BY <1>1, <1>2, <1>3 DEF EffectOf

LEMMA GrantOfStays ==
  ASSUME NEW c \in ClaimIDs, NEW op \in Operations, GrantOf(c, op),
         record \in Record, record' \in Record,
         effect'[c][op] = effect[c][op],
         Len(record'.attempts[op]) >= Len(record.attempts[op]),
         effect[c][op].state = "granted" /\ effect[c][op].number <= MaxAttempts =>
           executions'[op][effect[c][op].number] = executions[op][effect[c][op].number],
         effect[c][op].state = "granted" =>
           \A d \in ClaimIDs :
             effect'[d][op].state = "granted" =>
               \/ effect'[d][op] = effect[d][op]
               \/ effect'[d][op].number # effect[c][op].number
  PROVE  GrantOf(c, op)'
<1> DEFINE e == effect[c][op]
<1>1. Len(record.attempts[op]) \in Nat /\ Len(record'.attempts[op]) \in Nat
  BY RecordFields
<1> SUFFICES ASSUME e.state = "granted"
             PROVE  /\ e.number \in 1..Len(record'.attempts[op])
                    /\ e.number <= MaxAttempts => executions'[op][e.number] = 0
                    /\ \A d \in ClaimIDs :
                         effect'[d][op].state = "granted" /\ effect'[d][op].number = e.number
                           => d = c
  BY DEF GrantOf
<1>2. /\ e.number \in 1..Len(record.attempts[op])
      /\ e.number <= MaxAttempts => executions[op][e.number] = 0
      /\ \A d \in ClaimIDs :
           effect[d][op].state = "granted" /\ effect[d][op].number = e.number => d = c
  BY DEF GrantOf
<1>3. e.number \in 1..Len(record'.attempts[op])
  BY <1>1, <1>2
<1> QED BY <1>2, <1>3

\* No effect moves and nothing begins to run under a lease of a call at work.
LEMMA EffectsStay ==
  ASSUME Effects, record \in Record, record' \in Record,
         effect' = effect, executions' = executions, Onward(record, record'),
         \A op \in Operations : Len(record'.attempts[op]) = Len(record.attempts[op]),
         \A c \in ClaimIDs :
           /\ call[c].pc = "batch" => call'[c].pc = "batch" /\ call'[c].pos = call[c].pos
           /\ \/ /\ call'[c].pc \in Busy => call[c].pc \in Busy /\ tokenOf(c)' = tokenOf(c)
                 /\ \A op \in Operations :
                      NotRunning(record, op, tokenOf(c)) => NotRunning(record', op, tokenOf(c))
              \/ \A op \in Operations : NotRunning(record', op, tokenOf(c)')
  PROVE  Effects'
<1> SUFFICES ASSUME NEW c \in ClaimIDs, NEW op \in Operations
             PROVE  EffectOf(c, op)' /\ GrantOf(c, op)'
  BY DEF Effects
<1>1. EffectOf(c, op) /\ GrantOf(c, op)
  BY DEF Effects
<1>2. EffectOf(c, op)'
  BY <1>1, EffectOfStays
<1>3. Len(record'.attempts[op]) >= Len(record.attempts[op])
  <2>1. Len(record.attempts[op]) \in Nat
    BY RecordFields
  <2> QED BY <2>1
<1>4. GrantOf(c, op)'
  BY <1>1, <1>3, GrantOfStays
<1> QED BY <1>2, <1>4

LEMMA WorkedStays ==
  ASSUME Worked, record \in Record, record' \in Record, executions' = executions,
         \A op \in Operations :
           /\ Len(record'.attempts[op]) >= Len(record.attempts[op])
           /\ \A i \in DOMAIN record'.attempts[op] :
                record'.attempts[op][i].status = "abandoned" =>
                  \/ /\ i \in DOMAIN record.attempts[op]
                     /\ record.attempts[op][i].status = "abandoned"
                  \/ <<op, i>> \in retried',
         retried \subseteq retried'
  PROVE  Worked'
<1> SUFFICES ASSUME NEW op \in Operations
             PROVE  /\ \A n \in 1..MaxAttempts :
                         /\ executions'[op][n] \in {0, 1}
                         /\ executions'[op][n] = 1 => n <= Len(record'.attempts[op])
                    /\ \A i \in DOMAIN record'.attempts[op] :
                         record'.attempts[op][i].status = "abandoned" => <<op, i>> \in retried'
  BY DEF Worked
<1>1. Len(record.attempts[op]) \in Nat /\ Len(record'.attempts[op]) \in Nat
  BY RecordFields
<1>2. \A n \in 1..MaxAttempts :
        /\ executions[op][n] \in {0, 1}
        /\ executions[op][n] = 1 => n <= Len(record.attempts[op])
  BY DEF Worked
<1>3. \A n \in 1..MaxAttempts : n \in Int
  BY BoundAssumption
<1>4. \A i \in DOMAIN record.attempts[op] :
        record.attempts[op][i].status = "abandoned" => <<op, i>> \in retried
  BY DEF Worked
<1>5. \A n \in 1..MaxAttempts :
        /\ executions'[op][n] \in {0, 1}
        /\ executions'[op][n] = 1 => n <= Len(record'.attempts[op])
  BY <1>1, <1>2, <1>3
<1>6. \A i \in DOMAIN record'.attempts[op] :
        record'.attempts[op][i].status = "abandoned" => <<op, i>> \in retried'
  BY <1>4
<1> QED BY <1>5, <1>6

LEMMA JournaledStays ==
  ASSUME Onward(record, record'), NEW seen, Journaled(record, seen)
  PROVE  Journaled(record', seen)
BY DEF Onward, Journaled

LEMMA SoundStays ==
  ASSUME Onward(record, record'), NEW k, Sound(record, k)
  PROVE  Sound(record', k)
BY JournaledStays DEF Sound

\* The execution a claim was answered with.
LEMMA AnsweredType ==
  ASSUME record \in Record, NEW i \in ClaimIDs
  PROVE  /\ record.claims[i].result.execution \in Execution
         /\ record.claims[i].result.execution.version \in Nat
         /\ record.claims[i].token \in Nat
<1>1. record.claims[i] \in ClaimRecord
  BY RecordFields
<1>2. record.claims[i].result \in ClaimResult /\ record.claims[i].token \in Nat
  BY <1>1 DEF ClaimRecord
<1>3. record.claims[i].result.execution \in Execution
  BY <1>2 DEF ClaimResult
<1> QED BY <1>2, <1>3, ExecutionFields

LEMMA AnsweredStays ==
  ASSUME record \in Record, record' \in Record, Onward(record, record'),
         NEW i \in ClaimIDs, Answered(record, i), record'.claims[i] = record.claims[i]
  PROVE  Answered(record', i)
<1> DEFINE e == record.claims[i].result.execution
<1>1. /\ e.version \in Nat /\ record.execution.version \in Nat
      /\ record'.execution.version \in Nat
  BY AnsweredType, RecordFields, ExecutionFields
<1>2. Sound(record', e.checkpoint)
  BY SoundStays DEF Answered
<1>3. e.version <= record'.execution.version
  BY <1>1 DEF Answered, Onward
<1>4. record.claims[i].mode # "none" /\ e.version = record'.execution.version =>
        e.checkpoint = record'.execution.checkpoint
  BY <1>1 DEF Answered, Onward
<1> QED BY <1>2, <1>3, <1>4 DEF Answered

LEMMA ToldStays ==
  ASSUME Onward(record, record'), Told(record), NoResult(record, record')
  PROVE  Told(record')
BY JournaledStays DEF Told, NoResult, terminal

LEMMA SavedStays ==
  ASSUME Saved, record \in Record, record' \in Record, Onward(record, record'),
         SameClaims(record, record'),
         SameCheckpoint(record, record') \/ Sound(record', record'.execution.checkpoint),
         NoResult(record, record') \/ Told(record')
  PROVE  Saved'
<1>1. Sound(record', record'.execution.checkpoint)
  BY SoundStays DEF Saved, SameCheckpoint
<1>2. \A i \in ClaimIDs : Answered(record', i)
  BY AnsweredStays DEF Saved, SameClaims
<1>3. Told(record')
  BY ToldStays DEF Saved
<1> QED BY <1>1, <1>2, <1>3 DEF Saved

LEMMA WorksStays ==
  ASSUME record \in Record, record' \in Record, Onward(record, record'),
         NEW s, NEW t, s.version \in Nat, Works(record, s), Calm(s, t)
  PROVE  Works(record', t)
<1>0. record.execution.version \in Nat /\ record'.execution.version \in Nat
  BY RecordFields, ExecutionFields
<1>1. Journaled(record', t.seen)
  BY JournaledStays DEF Works, Calm
<1>2. ASSUME t.pc \in Busy
      PROVE  /\ t.pos \in 1..(Len(Plan) + 1)
             /\ t.pc = "batch" => t.pos <= Len(Plan)
             /\ Succeeded(t.pos, t.seen)
             /\ t.version <= record'.execution.version
             /\ t.version = record'.execution.version =>
                  Continues(t, record'.execution.checkpoint)
             /\ ~t.failed /\ ~t.infra
  <2>1. /\ s.pc = t.pc /\ s.pos = t.pos /\ s.version = t.version /\ s.seen = t.seen
        /\ s.failed = t.failed /\ s.infra = t.infra
    BY <1>2 DEF Calm, Busy
  <2>2. /\ t.pos \in 1..(Len(Plan) + 1)
        /\ t.pc = "batch" => t.pos <= Len(Plan)
        /\ Succeeded(t.pos, t.seen)
        /\ t.version <= record.execution.version
        /\ t.version = record.execution.version =>
             Continues(s, record.execution.checkpoint)
        /\ ~t.failed /\ ~t.infra
    BY <1>2, <2>1 DEF Works
  <2>3. t.version <= record'.execution.version
    BY <1>0, <2>1, <2>2 DEF Onward
  <2>4. t.version = record'.execution.version => Continues(s, record'.execution.checkpoint)
    BY <1>0, <2>1, <2>2 DEF Onward
  <2>5. t.version = record'.execution.version => Continues(t, record'.execution.checkpoint)
    BY <2>1, <2>4 DEF Continues
  <2> QED BY <2>2, <2>3, <2>5
<1>3. t.pc \in Fresh => ~t.failed /\ ~t.infra
  BY DEF Works, Calm, Fresh, Busy
<1>4. t.pc \in {"complete", "finishing"} /\ ~t.failed /\ ~t.infra =>
        Succeeded(Len(Plan) + 1, t.seen)
  BY DEF Works, Calm, Fresh, Busy
<1>5. t.pc = "finishing" => ~t.infra
  BY DEF Works, Calm, Fresh, Busy
<1> QED BY <1>1, <1>2, <1>3, <1>4, <1>5 DEF Works

LEMMA CalmSame == ASSUME NEW s, NEW t, t = s PROVE Calm(s, t)
BY DEF Calm

\* The idempotency tables still name dropped leases.
LEMMA DroppedStays ==
  ASSUME BackendInv, BackendInv', NEW ref, ref.token \in Nat, Dropped(record, ref),
         record'.nextToken >= record.nextToken,
         \/ record'.execution.lease.token \in {record.execution.lease.token, 0}
         \/ record'.execution.lease.token > record.nextToken
  PROVE  Dropped(record', ref)
<1>1. /\ record.nextToken \in Nat /\ record'.nextToken \in Nat
      /\ record'.execution.lease.token \in Nat
  BY RecordFields, ExecutionFields DEF BackendInv, TypeOK
<1> QED BY <1>1 DEF Dropped

LEMMA EntryTypes ==
  ASSUME record \in Record
  PROVE  /\ \A e \in record.suspends : e.lease.token \in Nat
         /\ \A e \in record.finishes : e.lease.token \in Nat
         /\ \A e \in record.releases : e.lease.token \in Nat
<1>1. \A e \in record.suspends : e.lease \in LeaseRef
  BY RecordFields DEF SuspendEntry
<1>2. \A e \in record.finishes : e.lease \in LeaseRef
  BY RecordFields DEF FinishEntry
<1>3. \A e \in record.releases : e.lease \in LeaseRef
  BY RecordFields DEF ReleaseEntry
<1> QED BY <1>1, <1>2, <1>3 DEF LeaseRef

LEMMA EnteredDropped ==
  ASSUME BackendInv, SameClaims(record, record'), NEW entry, Entered(record, record', entry)
  PROVE  Dropped(record', entry.lease)
BY RecordCounters DEF Entered, Dropped, SameClaims, BackendInv, LeaseIsNewest

LEMMA EndedStays ==
  ASSUME Ended, BackendInv, BackendInv', SameClaims(record, record'), Tabled(record, record'),
         \A c \in ClaimIDs : GaveBack(record', call'[c])
  PROVE  Ended'
<1>1. /\ record \in Record /\ record' \in Record
      /\ record'.nextToken >= record.nextToken
      /\ record'.execution.lease.token \in {record.execution.lease.token, 0}
  BY RecordFields DEF BackendInv, TypeOK, SameClaims
<1>2. \A e \in record'.suspends : Dropped(record', e.lease)
  <2> TAKE e \in record'.suspends
  <2>1. CASE e \in record.suspends
    <3>1. Dropped(record, e.lease) /\ e.lease.token \in Nat
      BY <1>1, <2>1, EntryTypes DEF Ended
    <3> QED BY <1>1, <3>1, DroppedStays
  <2>2. CASE Entered(record, record', e)
    BY <2>2, EnteredDropped
  <2> QED BY <2>1, <2>2 DEF Tabled
<1>3. \A e \in record'.finishes : Dropped(record', e.lease)
  <2> TAKE e \in record'.finishes
  <2>1. CASE e \in record.finishes
    <3>1. Dropped(record, e.lease) /\ e.lease.token \in Nat
      BY <1>1, <2>1, EntryTypes DEF Ended
    <3> QED BY <1>1, <3>1, DroppedStays
  <2>2. CASE Entered(record, record', e)
    BY <2>2, EnteredDropped
  <2> QED BY <2>1, <2>2 DEF Tabled
<1>4. \A e \in record'.releases : Dropped(record', e.lease)
  <2> TAKE e \in record'.releases
  <2>1. CASE e \in record.releases
    <3>1. Dropped(record, e.lease) /\ e.lease.token \in Nat
      BY <1>1, <2>1, EntryTypes DEF Ended
    <3> QED BY <1>1, <3>1, DroppedStays
  <2>2. CASE Entered(record, record', e)
    BY <2>2, EnteredDropped
  <2> QED BY <2>1, <2>2 DEF Tabled
<1> QED BY <1>2, <1>3, <1>4 DEF Ended

\* A call that has ended, or does not end now.
LEMMA GaveBackStays ==
  ASSUME SameClaims(record, record'), NEW s, NEW t, GaveBack(record, s),
         t.lease = s.lease,
         t.pc \in Ending /\ t.control = "nil" => s.pc \in Ending /\ s.control = "nil"
  PROVE  GaveBack(record', t)
BY DEF SameClaims, GaveBack

\* The active map stays, and nobody stops or finishes a call.
SessionCalm(s, t) ==
  /\ t.stop = "Closed" => s.stop = "Closed"
  /\ s.pc \in {"ready", "returned"} \/ t.pc \in {"ready", "returned"} => t.pc = s.pc
  /\ s.pc \in {"leave", "returned"} => t.pc = s.pc /\ t.control = s.control

LEMMA SessionsStay ==
  ASSUME Sessions, Types, runtime' = runtime,
         \A c \in ClaimIDs : SessionCalm(call[c], call'[c])
  PROVE  Sessions'
<1>1. ASSUME NEW o \in Owners, runtime[o].active # None
      PROVE  /\ runtimeOf[runtime[o].active] = o
             /\ call'[runtime[o].active].pc \notin {"ready", "returned"}
  <2>1. runtime[o].active \in ClaimIDs
    BY <1>1 DEF Types, RuntimeState
  <2> QED BY <1>1, <2>1 DEF Sessions, SessionCalm
<1>2. ASSUME NEW c \in ClaimIDs, call'[c].pc \notin {"ready", "returned"}
      PROVE  runtime[runtimeOf[c]].active = c
  BY <1>2 DEF Sessions, SessionCalm
<1>3. ASSUME NEW c \in ClaimIDs
      PROVE  Stopped(runtime[runtimeOf[c]], c, call'[c])
  <2>1. Stopped(runtime[runtimeOf[c]], c, call[c])
    BY DEF Sessions
  <2> QED BY <2>1 DEF SessionCalm, Stopped
<1> QED BY <1>1, <1>2, <1>3 DEF Sessions

-----------------------------------------------------------------------------
(* The states of a call.                                                   *)

\* t is s but for the place, the answers and the causes to stop.
Alike(s, t) ==
  /\ t.lease = s.lease /\ t.seen = s.seen
  /\ t.pos = s.pos /\ t.version = s.version
  /\ t.failed = s.failed

LEMMA PcMoves ==
  ASSUME NEW s \in CallState, NEW pc \in CallPCs, NEW t, t = [s EXCEPT !.pc = pc]
  PROVE  /\ t \in CallState /\ Alike(s, t) /\ t.pc = pc
         /\ t.infra = s.infra /\ t.stop = s.stop /\ t.control = s.control
BY CallFields DEF CallState, Alike

Rets == {"none", "ok", "Suspended", "Closed", "err"}

LEMMA ReleasingMoves ==
  ASSUME NEW s \in CallState, NEW ret \in Rets
  PROVE  /\ releasing(s, ret) \in CallState /\ Alike(s, releasing(s, ret))
         /\ releasing(s, ret).pc = "releasing" /\ releasing(s, ret).infra = s.infra
         /\ releasing(s, ret).stop = s.stop /\ releasing(s, ret).control = s.control
BY CallFields DEF CallState, Alike, CallPCs, releasing, Rets

LEMMA ReturningMoves ==
  ASSUME NEW s \in CallState, NEW ret \in Rets
  PROVE  /\ returning(s, ret) \in CallState /\ Alike(s, returning(s, ret))
         /\ returning(s, ret).pc = "finish" /\ returning(s, ret).infra = s.infra
         /\ returning(s, ret).stop = s.stop /\ returning(s, ret).control = s.control
BY CallFields DEF CallState, Alike, CallPCs, returning, Rets

LEMMA StopMoves ==
  ASSUME NEW s \in CallState, NEW stop \in StopCauses, NEW t, t = [s EXCEPT !.stop = stop]
  PROVE  /\ t \in CallState /\ Alike(s, t) /\ t.pc = s.pc
         /\ t.infra = s.infra /\ t.stop = stop /\ t.control = s.control
BY CallFields DEF CallState, Alike

LEMMA CancelMoves ==
  ASSUME NEW s \in CallState, NEW t, t = [s EXCEPT !.cancelled = TRUE]
  PROVE  /\ t \in CallState /\ Alike(s, t) /\ t.pc = s.pc
         /\ t.infra = s.infra /\ t.stop = s.stop /\ t.control = s.control
BY CallFields DEF CallState, Alike

LEMMA EngineFailsMoves ==
  ASSUME NEW s \in CallState, NEW t, t = engineFails(s)
  PROVE  /\ t \in CallState /\ Alike(s, t) /\ t.pc = "complete"
         /\ t.infra = TRUE /\ t.stop = s.stop /\ t.control = s.control
BY CallFields DEF CallState, Alike, engineFails, CallPCs

\* A step in which no effect moves and nothing begins to run: what is left to
\* show of it.
LEMMA CallStep ==
  ASSUME IInv, Types', [Calls]_record, SameClaims(record, record'),
         NoNewRun(record, record'), Tabled(record, record'),
         effect' = effect, executions' = executions,
         \A o \in Owners : /\ runtime'[o].pending = runtime[o].pending
                           /\ runtime'[o].alive = runtime[o].alive,
         \A c \in ClaimIDs :
           /\ call'[c].lease = call[c].lease
           /\ call'[c].pc \in Fresh => call[c].pc \in Fresh
           /\ call'[c].pc \in Busy => call[c].pc \in Busy
           /\ call[c].pc = "batch" => call'[c].pc = "batch" /\ call'[c].pos = call[c].pos
           /\ GaveBack(record', call'[c]),
         Worked', Saved', Working', Sessions'
  PROVE  IInv'
<1>0. /\ BackendInv /\ NothingSaved /\ Types /\ Tokens /\ Claimed /\ Pending
      /\ Effects /\ Ended
  BY DEF IInv
<1>1. BackendInv' /\ NothingSaved' /\ Onward(record, record')
  BY <1>0, RecordStep
<1>3. record \in Record /\ record' \in Record /\ record'.nextToken >= record.nextToken
  BY <1>0, <1>1 DEF BackendInv, TypeOK, Onward
<1>4. \A c \in ClaimIDs : tokenOf(c)' = tokenOf(c)
  BY DEF tokenOf
<1>5. Tokens'
  BY <1>0, <1>1, <1>3, TokensStay
<1>6. Claimed'
  BY <1>0, ClaimedStays
<1>7. Pending'
  <2>1. RunsOwned
    BY NoNewRunOwned
  <2>2. runtime' \in [Owners -> RuntimeState]
    BY DEF Types
  <2>3. \A c \in ClaimIDs : (up(c) /\ call[c].pc \in Fresh)' => up(c) /\ call[c].pc \in Fresh
    BY RuntimeOfAssumption DEF up
  <2> QED BY <1>0, <1>4, <2>1, <2>2, <2>3, RuntimeOfAssumption, PendingStays
<1>8. Effects'
  <2>1. \A op \in Operations : Len(record'.attempts[op]) = Len(record.attempts[op])
    BY DEF NoNewRun
  <2>2. \A c \in ClaimIDs, op \in Operations :
          NotRunning(record, op, tokenOf(c)) => NotRunning(record', op, tokenOf(c))
    BY NotRunningStays
  <2> QED BY <1>0, <1>1, <1>3, <1>4, <2>1, <2>2, EffectsStay
<1>12. Ended'
  BY <1>0, <1>1, EndedStays
<1> QED BY <1>1, <1>5, <1>6, <1>7, <1>8, <1>12 DEF IInv

\* Attempts that are not abandoned leave what ran alone.
LEMMA WorkedQuiet ==
  ASSUME Worked, record \in Record, record' \in Record, executions' = executions,
         retried' = retried, NoNewRun(record, record'), NoneAbandoned(record, record')
  PROVE  Worked'
<1>1. \A op \in Operations :
        /\ Len(record'.attempts[op]) >= Len(record.attempts[op])
        /\ \A i \in DOMAIN record'.attempts[op] :
             record'.attempts[op][i].status = "abandoned" =>
               /\ i \in DOMAIN record.attempts[op]
               /\ record.attempts[op][i].status = "abandoned"
  BY RecordFields DEF NoNewRun, NoneAbandoned
<1> QED BY <1>1, WorkedStays

\* A step in which the calls move on, no effect moves and the record is quiet.
LEMMA CalmStep ==
  ASSUME IInv, Types', [Calls]_record, Quiet(record, record'),
         SameCheckpoint(record, record'), NoResult(record, record') \/ Told(record'),
         effect' = effect, executions' = executions, retried' = retried,
         \A o \in Owners : /\ runtime'[o].pending = runtime[o].pending
                           /\ runtime'[o].alive = runtime[o].alive,
         \A c \in ClaimIDs : Calm(call[c], call'[c]) /\ GaveBack(record', call'[c]),
         Sessions'
  PROVE  IInv'
<1>0. /\ BackendInv /\ NothingSaved /\ Types /\ Worked /\ Saved /\ Working
  BY DEF IInv
<1>1. BackendInv' /\ Onward(record, record')
  BY <1>0, RecordStep
<1>2. /\ SameClaims(record, record') /\ NoNewRun(record, record')
      /\ NoneAbandoned(record, record') /\ Tabled(record, record')
  BY DEF Quiet
<1>3. record \in Record /\ record' \in Record
  BY <1>0, <1>1 DEF BackendInv, TypeOK
<1>4. ASSUME NEW c \in ClaimIDs
      PROVE  /\ call'[c].lease = call[c].lease
             /\ call'[c].pc \in Fresh => call[c].pc \in Fresh
             /\ call'[c].pc \in Busy => call[c].pc \in Busy
             /\ call[c].pc = "batch" => call'[c].pc = "batch" /\ call'[c].pos = call[c].pos
             /\ GaveBack(record', call'[c])
  BY DEF Calm, Fresh, Busy
<1>9. Worked'
  BY <1>0, <1>2, <1>3, WorkedQuiet
<1>10. Saved'
  BY <1>0, <1>1, <1>2, <1>3, SavedStays
<1>11. Working'
  <2> SUFFICES ASSUME NEW c \in ClaimIDs PROVE Works(record', call'[c])
    BY DEF Working
  <2>1. call[c].version \in Nat /\ Works(record, call[c])
    BY <1>0, CallFields DEF Types, Working
  <2> QED BY <1>1, <1>3, <2>1, WorksStays
<1> QED BY <1>2, <1>4, <1>9, <1>10, <1>11, CallStep

\* One call moves, to state t.
LEMMA OneMoves ==
  ASSUME Types, NEW c \in ClaimIDs, NEW t \in CallState, call' = [call EXCEPT ![c] = t]
  PROVE  /\ call' \in [ClaimIDs -> CallState]
         /\ call'[c] = t
         /\ \A d \in ClaimIDs : d # c => call'[d] = call[d]
BY DEF Types

\* One call moves on and nothing else moves but the record.
LEMMA CalmCall ==
  ASSUME IInv, NEW c \in ClaimIDs, NEW t \in CallState, call' = [call EXCEPT ![c] = t],
         [Calls]_record, Quiet(record, record'),
         SameCheckpoint(record, record'), NoResult(record, record') \/ Told(record'),
         effect' = effect, runtime' = runtime, executions' = executions, retried' = retried,
         suspender' \in [ClaimIDs -> {"none", "waiting", "nil", "err"}],
         Calm(call[c], t), SessionCalm(call[c], t), GaveBack(record', t)
  PROVE  IInv'
<1>1. Types /\ Sessions /\ Ended
  BY DEF IInv
<1>2. /\ call' \in [ClaimIDs -> CallState]
      /\ call'[c] = t
      /\ \A d \in ClaimIDs : d # c => call'[d] = call[d]
  BY <1>1, OneMoves
<1>3. Types'
  BY <1>1, <1>2 DEF Types
<1>4. \A d \in ClaimIDs : Calm(call[d], call'[d])
  BY <1>2, CalmSame
<1>5. \A d \in ClaimIDs : SessionCalm(call[d], call'[d])
  BY <1>2 DEF SessionCalm
<1>6. \A d \in ClaimIDs : GaveBack(record', call'[d])
  <2> TAKE d \in ClaimIDs
  <2>1. CASE d = c
    BY <1>2, <2>1
  <2>2. CASE d # c
    BY <1>1, <1>2, <2>2, GaveBackStays DEF Ended, Quiet
  <2> QED BY <2>1, <2>2
<1>7. Sessions'
  BY <1>1, <1>5, SessionsStay
<1> QED BY <1>3, <1>4, <1>6, <1>7, CalmStep

-----------------------------------------------------------------------------
(* Every action keeps the invariant: first the calm ones.                  *)

\* Alike states are calm when the place stays.
LEMMA AlikeCalm ==
  ASSUME NEW s, NEW t, Alike(s, t), t.pc = s.pc, t.infra = s.infra
  PROVE  Calm(s, t)
BY DEF Alike, Calm

LEMMA heartbeatStep ==
  ASSUME IInv, NEW c \in ClaimIDs, NEW ttl \in LeaseTTLs, NEW fate, heartbeat(c, ttl, fate)
  PROVE  IInv'
<1> DEFINE s == call[c]
<1>0. BackendInv /\ Types /\ s \in CallState /\ GaveBack(record, s)
  BY DEF IInv, Types, Ended
<1>1. PICK stop \in StopCauses : /\ call' = [call EXCEPT ![c] = [s EXCEPT !.stop = stop]]
                                 /\ stop = "Closed" => s.stop = "Closed"
  <2> DEFINE renewed == fate = "answered" /\ RenewExecutionVerdict(record, s.lease) = "Renew"
             stop == IF renewed \/ s.stop # "none" THEN s.stop ELSE "Heartbeat"
  <2>1. call' = [call EXCEPT ![c] = [s EXCEPT !.stop = stop]]
    BY <1>0 DEF heartbeat, Types
  <2>2. stop \in StopCauses /\ (stop = "Closed" => s.stop = "Closed")
    BY <1>0, CallFields DEF StopCauses
  <2> HIDE DEF stop
  <2> QED BY <2>1, <2>2
<1>2. record' = sent(fate, RenewExecution(record, s.lease, ttl))
  BY DEF heartbeat
<1> DEFINE t == [s EXCEPT !.stop = stop]
<1>3. /\ t \in CallState /\ Alike(s, t) /\ t.pc = s.pc
      /\ t.infra = s.infra /\ t.stop = stop /\ t.control = s.control
  BY <1>0, StopMoves
<1> HIDE DEF t
<1>4. /\ [Calls]_record /\ Quiet(record, record') /\ NoResult(record, record')
      /\ SameCheckpoint(record, record')
  BY <1>0, <1>2, RenewCall
<1>5. Calm(s, t) /\ SessionCalm(s, t)
  BY <1>1, <1>3, AlikeCalm DEF SessionCalm
<1>6. GaveBack(record', t)
  BY <1>0, <1>3, <1>4, GaveBackStays DEF Quiet, Alike
<1>7. /\ effect' = effect /\ runtime' = runtime /\ executions' = executions
      /\ retried' = retried /\ suspender' = suspender
  BY DEF heartbeat
<1> QED BY <1>0, <1>1, <1>3, <1>4, <1>5, <1>6, <1>7, CalmCall DEF Types, t

LEMMA CallerCancelsStep ==
  ASSUME IInv, NEW c \in ClaimIDs, CallerCancels(c)
  PROVE  IInv'
<1> DEFINE s == call[c]
<1>0. BackendInv /\ Types /\ s \in CallState /\ GaveBack(record, s)
  BY DEF IInv, Types, Ended
<1>1. call' = [call EXCEPT ![c] = [s EXCEPT !.cancelled = TRUE]]
  BY <1>0 DEF CallerCancels, Types
<1> DEFINE t == [s EXCEPT !.cancelled = TRUE]
<1>2. /\ t \in CallState /\ Alike(s, t) /\ t.pc = s.pc
      /\ t.infra = s.infra /\ t.stop = s.stop /\ t.control = s.control
  BY <1>0, CancelMoves
<1> HIDE DEF t
<1>3. /\ record' = record /\ effect' = effect /\ runtime' = runtime
      /\ executions' = executions /\ retried' = retried /\ suspender' = suspender
  BY DEF CallerCancels
<1>4. /\ [Calls]_record /\ Quiet(record, record') /\ NoResult(record, record')
      /\ SameCheckpoint(record, record')
  BY <1>3, QuietSame
<1>5. Calm(s, t) /\ SessionCalm(s, t)
  BY <1>1, <1>2, AlikeCalm DEF SessionCalm
<1>6. GaveBack(record', t)
  BY <1>0, <1>2, <1>4, GaveBackStays DEF Quiet, Alike
<1> QED BY <1>0, <1>1, <1>2, <1>3, <1>4, <1>5, <1>6, CalmCall DEF Types, t

LEMMA requestSuspendStep ==
  ASSUME IInv, NEW c \in ClaimIDs, requestSuspend(c)
  PROVE  IInv'
<1> DEFINE s == call[c]
<1>0. BackendInv /\ Types /\ s \in CallState /\ GaveBack(record, s)
  BY DEF IInv, Types, Ended
<1>1. call' = [call EXCEPT ![c] = [s EXCEPT !.stop = "Suspended"]]
  BY <1>0 DEF requestSuspend, Types
<1> DEFINE t == [s EXCEPT !.stop = "Suspended"]
<1>2. /\ t \in CallState /\ Alike(s, t) /\ t.pc = s.pc
      /\ t.infra = s.infra /\ t.stop = "Suspended" /\ t.control = s.control
  BY <1>0, StopMoves DEF StopCauses
<1> HIDE DEF t
<1>3. /\ record' = record /\ effect' = effect /\ runtime' = runtime
      /\ executions' = executions /\ retried' = retried
      /\ suspender' = [suspender EXCEPT ![c] = "waiting"]
  BY DEF requestSuspend
<1>4. /\ [Calls]_record /\ Quiet(record, record') /\ NoResult(record, record')
      /\ SameCheckpoint(record, record')
  BY <1>3, QuietSame
<1>5. Calm(s, t) /\ SessionCalm(s, t)
  BY <1>1, <1>2, AlikeCalm DEF SessionCalm
<1>6. GaveBack(record', t)
  BY <1>0, <1>2, <1>4, GaveBackStays DEF Quiet, Alike
<1>7. suspender' \in [ClaimIDs -> {"none", "waiting", "nil", "err"}]
  BY <1>0, <1>3 DEF Types
<1> QED BY <1>1, <1>2, <1>3, <1>4, <1>5, <1>6, <1>7, CalmCall DEF t

\* Nothing of a call moves.
LEMMA StillStep ==
  ASSUME IInv, call' = call, effect' = effect, runtime' = runtime,
         executions' = executions, retried' = retried,
         suspender' \in [ClaimIDs -> {"none", "waiting", "nil", "err"}],
         [Calls]_record, Quiet(record, record'), NoResult(record, record'),
         SameCheckpoint(record, record')
  PROVE  IInv'
<1>1. Types /\ Sessions /\ Ended
  BY DEF IInv
<1>2. Types'
  BY <1>1 DEF Types
<1>3. \A c \in ClaimIDs : Calm(call[c], call'[c]) /\ GaveBack(record', call'[c])
  BY <1>1, CalmSame, GaveBackStays DEF Ended, Quiet
<1>4. Sessions'
  BY <1>1, SessionsStay DEF SessionCalm
<1> QED BY <1>2, <1>3, <1>4, CalmStep

LEMMA SuspendReturnsStep ==
  ASSUME IInv, NEW c \in ClaimIDs, SuspendReturns(c)
  PROVE  IInv'
<1>1. Types /\ call[c].control \in {"nil", "err"}
  BY CallFields DEF IInv, Types
<1>2. suspender' \in [ClaimIDs -> {"none", "waiting", "nil", "err"}]
  BY <1>1 DEF SuspendReturns, Types
<1>3. /\ record' = record /\ call' = call /\ effect' = effect /\ runtime' = runtime
      /\ executions' = executions /\ retried' = retried
  BY DEF SuspendReturns
<1> QED BY <1>2, <1>3, StillStep, QuietSame

LEMMA TickStep ==
  ASSUME IInv, Tick
  PROVE  IInv'
<1>1. /\ Advance /\ call' = call /\ effect' = effect /\ runtime' = runtime
      /\ executions' = executions /\ retried' = retried /\ suspender' = suspender
  BY DEF Tick
<1>2. BackendInv /\ Types
  BY DEF IInv
<1> QED BY <1>1, <1>2, StillStep, AdvanceCall DEF Types

LEMMA StutterStep ==
  ASSUME IInv, UNCHANGED vars
  PROVE  IInv'
<1>1. /\ record' = record /\ call' = call /\ effect' = effect /\ runtime' = runtime
      /\ executions' = executions /\ retried' = retried /\ suspender' = suspender
  BY DEF vars
<1>2. Types
  BY DEF IInv
<1> QED BY <1>1, <1>2, StillStep, QuietSame DEF Types

LEMMA ObserveBoundaryStoppedStep ==
  ASSUME IInv, NEW c \in ClaimIDs, ObserveBoundaryStopped(c)
  PROVE  IInv'
<1> DEFINE s == call[c]
           t == engineFails(s)
<1>0. BackendInv /\ Types /\ s \in CallState /\ s.pc = "boundary"
  BY DEF IInv, Types, ObserveBoundaryStopped, at
<1>1. call' = [call EXCEPT ![c] = t]
  BY <1>0 DEF ObserveBoundaryStopped, Types
<1>2. /\ t \in CallState /\ Alike(s, t) /\ t.pc = "complete"
      /\ t.infra = TRUE /\ t.stop = s.stop /\ t.control = s.control
  BY <1>0, EngineFailsMoves
<1> HIDE DEF t
<1>3. /\ record' = record /\ effect' = effect /\ runtime' = runtime
      /\ executions' = executions /\ retried' = retried /\ suspender' = suspender
  BY DEF ObserveBoundaryStopped
<1>4. /\ [Calls]_record /\ Quiet(record, record') /\ NoResult(record, record')
      /\ SameCheckpoint(record, record')
  BY <1>3, QuietSame
<1>5. Calm(s, t) /\ SessionCalm(s, t) /\ GaveBack(record', t)
  BY <1>0, <1>2 DEF Alike, Calm, SessionCalm, GaveBack, Ending
<1> QED BY <1>0, <1>1, <1>2, <1>3, <1>4, <1>5, CalmCall DEF Types

LEMMA completeStep ==
  ASSUME IInv, NEW c \in ClaimIDs, complete(c)
  PROVE  IInv'
<1> DEFINE s == call[c]
<1>0. BackendInv /\ Types /\ s \in CallState /\ s.pc = "complete"
  BY DEF IInv, Types, complete, at
<1>1. PICK t \in CallState :
        /\ call' = [call EXCEPT ![c] = t]
        /\ Alike(s, t) /\ t.infra = s.infra /\ t.stop = s.stop
        /\ \/ t.pc \in {"suspending", "releasing"}
           \/ t.pc = "finishing" /\ ~s.infra
  <2> DEFINE t1 == [s EXCEPT !.pc = "suspending", !.ret = "Suspended"]
             t2 == releasing(s, "Closed")
             t3 == releasing(s, "err")
             t4 == [s EXCEPT !.pc = "finishing"]
  <2>1. /\ t1 \in CallState /\ Alike(s, t1) /\ t1.infra = s.infra /\ t1.stop = s.stop
        /\ t1.pc = "suspending"
    BY <1>0, CallFields DEF CallState, Alike, CallPCs
  <2>2. /\ t2 \in CallState /\ Alike(s, t2) /\ t2.infra = s.infra /\ t2.stop = s.stop
        /\ t2.pc = "releasing"
    BY <1>0, ReleasingMoves DEF Rets
  <2>3. /\ t3 \in CallState /\ Alike(s, t3) /\ t3.infra = s.infra /\ t3.stop = s.stop
        /\ t3.pc = "releasing"
    BY <1>0, ReleasingMoves DEF Rets
  <2>4. /\ t4 \in CallState /\ Alike(s, t4) /\ t4.infra = s.infra /\ t4.stop = s.stop
        /\ t4.pc = "finishing"
    BY <1>0, PcMoves DEF CallPCs
  <2>5. \/ call' = [call EXCEPT ![c] = t1]
        \/ call' = [call EXCEPT ![c] = t2]
        \/ call' = [call EXCEPT ![c] = t3]
        \/ call' = [call EXCEPT ![c] = t4] /\ ~s.infra
    BY <1>0 DEF complete, Types
  <2> HIDE DEF t1, t2, t3, t4
  <2> QED BY <2>1, <2>2, <2>3, <2>4, <2>5
<1>3. /\ record' = record /\ effect' = effect /\ runtime' = runtime
      /\ executions' = executions /\ retried' = retried /\ suspender' = suspender
  BY DEF complete
<1>4. /\ [Calls]_record /\ Quiet(record, record') /\ NoResult(record, record')
      /\ SameCheckpoint(record, record')
  BY <1>3, QuietSame
<1>5. Calm(s, t) /\ SessionCalm(s, t) /\ GaveBack(record', t)
  BY <1>0, <1>1 DEF Alike, Calm, SessionCalm, GaveBack, Ending, Fresh, Busy
<1> QED BY <1>0, <1>1, <1>3, <1>4, <1>5, CalmCall DEF Types

LEMMA completeFinishStep ==
  ASSUME IInv, NEW c \in ClaimIDs, NEW fate, completeFinish(c, fate)
  PROVE  IInv'
<1> DEFINE s == call[c]
           q == [lease |-> s.lease, version |-> s.version,
                 result |-> [failed |-> s.failed, seen |-> s.seen]]
           applied == /\ fate = "answered"
                      /\ FinishExecutionVerdict(record, q) \in {"Finish", "Replay"}
           t == IF applied THEN returning(s, "ok") ELSE releasing(s, "err")
<1>0. /\ BackendInv /\ NothingSaved /\ Types /\ Ended /\ s \in CallState /\ s.pc = "finishing"
      /\ Works(record, s) /\ record \in Record
  BY DEF IInv, Types, completeFinish, at, Working, BackendInv, TypeOK
<1>1. /\ record' = sent(fate, FinishExecution(record, q))
      /\ call' = [call EXCEPT ![c] = t]
      /\ effect' = effect /\ runtime' = runtime
      /\ executions' = executions /\ retried' = retried /\ suspender' = suspender
  BY <1>0 DEF completeFinish, Types
<1>2. /\ t \in CallState /\ Alike(s, t) /\ t.stop = s.stop
      /\ t.pc = IF applied THEN "finish" ELSE "releasing"
  <2> HIDE DEF applied
  <2>1. CASE applied
    BY <1>0, <2>1, ReturningMoves DEF Rets
  <2>2. CASE ~applied
    BY <1>0, <2>2, ReleasingMoves DEF Rets
  <2> QED BY <2>1, <2>2
<1>3. /\ [Calls]_record /\ q.result \in EngineResults
      /\ Quiet(record, record') /\ SameCheckpoint(record, record')
  BY <1>0, <1>1, FinishCall
<1>4. Onward(record, record')
  BY <1>0, <1>3, RecordStep
<1>q. q.lease = s.lease /\ q.result.failed = s.failed /\ q.result.seen = s.seen
  OBVIOUS
<1> HIDE DEF t, q
<1>5. NoResult(record, record') \/ Told(record')
  <2>1. CASE record' = record
    BY <2>1, QuietSame
  <2>2. CASE record' # record
    <3>1. /\ record' = FinishExecution(record, q)
          /\ FinishExecutionVerdict(record, q) = "Finish"
      BY <1>1, <2>2 DEF sent, FinishExecution
    <3>2. /\ record'.execution.result = q.result
          /\ record'.execution.status =
               IF q.result \in FailedResults THEN "failed" ELSE "completed"
      BY <1>0, <3>1, FinishIsQuiet
    <3>3. Journaled(record', q.result.seen)
      BY <1>0, <1>4, <1>q, JournaledStays DEF Works
    <3>4. q.result \notin FailedResults => Succeeded(Len(Plan) + 1, q.result.seen)
      BY <1>0, <1>3, <1>q, EngineAssumption DEF Works
    <3> QED BY <1>3, <3>2, <3>3, <3>4 DEF Told
  <2> QED BY <2>1, <2>2
<1>6. Calm(s, t) /\ SessionCalm(s, t)
  BY <1>0, <1>2 DEF Alike, Calm, SessionCalm, Fresh, Busy
<1>7. GaveBack(record', t)
  <2> SUFFICES ASSUME applied, s.lease.token # 0
               PROVE  record'.execution.lease.token # s.lease.token
    BY <1>2 DEF GaveBack, Ending, Alike
  <2>1. record' = FinishExecution(record, q)
    BY <1>1 DEF sent
  <2>2. CASE FinishExecutionVerdict(record, q) = "Finish"
    BY <1>0, <2>1, <2>2, FinishIsQuiet
  <2>3. CASE FinishExecutionVerdict(record, q) = "Replay"
    <3>1. PICK e \in record.finishes : e.lease = q.lease
      BY <2>3 DEF FinishExecutionVerdict
    <3>2. Dropped(record, s.lease)
      BY <1>0, <1>q, <3>1 DEF Ended
    <3>3. record' = record
      BY <2>1, <2>3 DEF FinishExecution
    <3> QED BY <3>2, <3>3 DEF Dropped
  <2> QED BY <2>2, <2>3
<1> QED BY <1>0, <1>1, <1>2, <1>3, <1>5, <1>6, <1>7, CalmCall DEF Types

LEMMA suspendStep ==
  ASSUME IInv, NEW c \in ClaimIDs, NEW fate, suspend(c, fate)
  PROVE  IInv'
<1> DEFINE s == call[c]
           q == [lease |-> s.lease, version |-> s.version]
           applied == /\ fate = "answered"
                      /\ SuspendExecutionVerdict(record, q) \in {"Suspend", "Replay"}
           t == IF applied THEN [s EXCEPT !.pc = "finish"]
                        ELSE [s EXCEPT !.pc = "releasing", !.control = "err"]
<1>0. /\ BackendInv /\ Types /\ Ended /\ s \in CallState /\ s.pc = "suspending"
      /\ record \in Record
  BY DEF IInv, Types, suspend, at, BackendInv, TypeOK
<1>1. /\ record' = sent(fate, SuspendExecution(record, q))
      /\ call' = [call EXCEPT ![c] = t]
      /\ effect' = effect /\ runtime' = runtime
      /\ executions' = executions /\ retried' = retried /\ suspender' = suspender
  BY <1>0 DEF suspend, Types
<1>2. /\ t \in CallState /\ Alike(s, t) /\ t.stop = s.stop
      /\ t.pc = IF applied THEN "finish" ELSE "releasing"
  <2> HIDE DEF applied
  <2>1. CASE applied
    BY <1>0, <2>1, PcMoves DEF CallPCs
  <2>2. CASE ~applied
    BY <1>0, <2>2, CallFields DEF CallState, Alike, CallPCs
  <2> QED BY <2>1, <2>2
<1>3. /\ [Calls]_record /\ Quiet(record, record') /\ NoResult(record, record')
      /\ SameCheckpoint(record, record')
  BY <1>0, <1>1, SuspendCall
<1>q. q.lease = s.lease
  OBVIOUS
<1> HIDE DEF t, q
<1>6. Calm(s, t) /\ SessionCalm(s, t)
  BY <1>0, <1>2 DEF Alike, Calm, SessionCalm, Fresh, Busy
<1>7. GaveBack(record', t)
  <2> SUFFICES ASSUME applied, s.lease.token # 0
               PROVE  record'.execution.lease.token # s.lease.token
    BY <1>2 DEF GaveBack, Ending, Alike
  <2>1. record' = SuspendExecution(record, q)
    BY <1>1 DEF sent
  <2>2. CASE SuspendExecutionVerdict(record, q) = "Suspend"
    BY <1>0, <2>1, <2>2, SuspendIsQuiet
  <2>3. CASE SuspendExecutionVerdict(record, q) = "Replay"
    <3>1. PICK e \in record.suspends : e.lease = q.lease
      BY <2>3 DEF SuspendExecutionVerdict
    <3>2. Dropped(record, s.lease)
      BY <1>0, <1>q, <3>1 DEF Ended
    <3>3. record' = record
      BY <2>1, <2>3 DEF SuspendExecution
    <3> QED BY <3>2, <3>3 DEF Dropped
  <2> QED BY <2>2, <2>3
<1> QED BY <1>0, <1>1, <1>2, <1>3, <1>6, <1>7, CalmCall DEF Types

LEMMA releaseStep ==
  ASSUME IInv, NEW c \in ClaimIDs, NEW fate, release(c, fate)
  PROVE  IInv'
<1> DEFINE s == call[c]
           ref == s.lease
           applied == /\ fate = "answered"
                      /\ ReleaseExecutionVerdict(record, ref) \in {"Release", "Replay"}
                      /\ releaseResponse(record, ref).reconcile = {}
           control == IF applied THEN s.control ELSE "err"
           t == [s EXCEPT !.pc = "finish", !.control = control]
<1>0. /\ BackendInv /\ Types /\ Ended /\ s \in CallState /\ s.pc = "releasing"
      /\ record \in Record
  BY DEF IInv, Types, release, at, BackendInv, TypeOK
<1>1. /\ record' = sent(fate, ReleaseExecution(record, ref))
      /\ call' = [call EXCEPT ![c] = t]
      /\ effect' = effect /\ runtime' = runtime
      /\ executions' = executions /\ retried' = retried /\ suspender' = suspender
  BY <1>0 DEF release, Types
<1>2. /\ t \in CallState /\ Alike(s, t) /\ t.stop = s.stop
      /\ t.pc = "finish" /\ t.control = control
  <2>1. control \in {"nil", "err"}
    BY <1>0, CallFields
  <2> HIDE DEF control
  <2> QED BY <1>0, <2>1, CallFields DEF CallState, Alike, CallPCs
<1>3. /\ [Calls]_record /\ Quiet(record, record') /\ NoResult(record, record')
      /\ SameCheckpoint(record, record')
  BY <1>0, <1>1, ReleaseCall
<1>4. t.control = "nil" => applied
  BY <1>2
<1> HIDE DEF t, control
<1>6. Calm(s, t) /\ SessionCalm(s, t)
  BY <1>0, <1>2 DEF Alike, Calm, SessionCalm, Fresh, Busy
<1>7. GaveBack(record', t)
  <2> SUFFICES ASSUME applied, s.lease.token # 0
               PROVE  record'.execution.lease.token # s.lease.token
    BY <1>2, <1>4 DEF GaveBack, Ending, Alike
  <2>1. record' = ReleaseExecution(record, ref)
    BY <1>1 DEF sent
  <2>2. CASE ReleaseExecutionVerdict(record, ref) = "Release"
    BY <1>0, <2>1, <2>2, ReleaseIsQuiet
  <2>3. CASE ReleaseExecutionVerdict(record, ref) = "Replay"
    <3>1. PICK e \in record.releases : e.lease = ref
      BY <2>3 DEF ReleaseExecutionVerdict
    <3>2. Dropped(record, s.lease)
      BY <1>0, <3>1 DEF Ended
    <3>3. record' = record
      BY <2>1, <2>3 DEF ReleaseExecution
    <3> QED BY <3>2, <3>3 DEF Dropped
  <2> QED BY <2>2, <2>3
<1> QED BY <1>0, <1>1, <1>2, <1>3, <1>6, <1>7, CalmCall DEF Types

\* The state of a call before anything happened to it.
LEMMA NewCallType ==
  /\ NewCall \in CallState
  /\ NewCall.pc = "ready" /\ NewCall.lease = NoLeaseRef /\ NewCall.seen = NothingSeen
  /\ NewCall.stop = "none" /\ NewCall.failed = FALSE /\ NewCall.infra = FALSE
<1>1. NothingSeen \in Seen
  BY DEF NothingSeen, Seen
<1> QED BY <1>1, NullTypes DEF NewCall, CallState, CallPCs, StopCauses

LEMMA finishStep ==
  ASSUME IInv, NEW c \in ClaimIDs, finish(c)
  PROVE  IInv'
<1> DEFINE s == call[c]
           t == [NewCall EXCEPT !.pc = "leave", !.lease = s.lease, !.seen = s.seen,
                                !.stop = s.stop, !.ret = s.ret, !.control = s.control]
<1>0. /\ BackendInv /\ Types /\ Ended /\ s \in CallState /\ s.pc = "finish"
      /\ GaveBack(record, s)
  BY DEF IInv, Types, finish, at, Ended
<1>1. /\ call' = [call EXCEPT ![c] = t]
      /\ record' = record /\ effect' = effect /\ runtime' = runtime
      /\ executions' = executions /\ retried' = retried /\ suspender' = suspender
  BY <1>0 DEF finish, Types
<1>2. /\ t \in CallState /\ t.lease = s.lease /\ t.seen = s.seen /\ t.stop = s.stop
      /\ t.pc = "leave" /\ t.control = s.control
  BY <1>0, CallFields, NewCallType DEF CallState, CallPCs
<1>3. /\ [Calls]_record /\ Quiet(record, record') /\ NoResult(record, record')
      /\ SameCheckpoint(record, record')
  BY <1>1, QuietSame
<1> HIDE DEF t
<1>6. Calm(s, t) /\ SessionCalm(s, t)
  BY <1>0, <1>2 DEF Calm, SessionCalm, Fresh, Busy
<1>7. GaveBack(record', t)
  BY <1>0, <1>1, <1>2 DEF GaveBack, Ending
<1> QED BY <1>0, <1>1, <1>2, <1>3, <1>6, <1>7, CalmCall DEF Types

LEMMA RuntimeFields ==
  ASSUME NEW r \in RuntimeState
  PROVE  /\ r.alive \in BOOLEAN /\ r.active \in ClaimIDs \cup {None}
         /\ r.pending \in ClaimIDs \cup {None} /\ r.pendingMode \in {"start", "resume"}
         /\ r.closed \in BOOLEAN /\ r.closeErrors \in BOOLEAN
         /\ r.closing \in ClaimIDs \cup {None} /\ r.prior \in BOOLEAN
         /\ r.closer \in {"none", "waiting", "nil", "err"}
BY DEF RuntimeState

\* One runtime moves, to state x.
LEMMA OneRuntimeMoves ==
  ASSUME Types, NEW o \in Owners, NEW x \in RuntimeState,
         runtime' = [runtime EXCEPT ![o] = x]
  PROVE  /\ runtime' \in [Owners -> RuntimeState]
         /\ runtime'[o] = x
         /\ \A p \in Owners : p # o => runtime'[p] = runtime[p]
BY DEF Types

LEMMA enterStep ==
  ASSUME IInv, NEW c \in ClaimIDs, NEW mode \in {"start", "resume"}, enter(c, mode)
  PROVE  IInv'
<1> DEFINE s == call[c]
           t == [s EXCEPT !.pc = "entered", !.mode = mode]
           o == runtimeOf[c]
           r == runtime[o]
           x == [r EXCEPT !.active = c]
<1>0. /\ BackendInv /\ Types /\ Ended /\ Sessions /\ s \in CallState /\ s.pc = "ready"
      /\ o \in Owners /\ r \in RuntimeState /\ r.active = None /\ ~r.closed
  BY RuntimeOfAssumption DEF IInv, Types, enter
<1>1. /\ call' = [call EXCEPT ![c] = t]
      /\ runtime' = [runtime EXCEPT ![o] = x]
      /\ record' = record /\ effect' = effect
      /\ executions' = executions /\ retried' = retried /\ suspender' = suspender
  BY <1>0 DEF enter, Types
<1>2. /\ t \in CallState /\ Alike(s, t) /\ t.stop = s.stop /\ t.infra = s.infra
      /\ t.pc = "entered" /\ t.control = s.control
  BY <1>0, CallFields DEF CallState, CallPCs, Alike
<1>3. /\ x \in RuntimeState /\ x.active = c /\ x.pending = r.pending /\ x.alive = r.alive
      /\ x.closed = r.closed /\ x.closer = r.closer /\ x.closing = r.closing
      /\ x.prior = r.prior /\ x.closeErrors = r.closeErrors
  BY <1>0, RuntimeFields DEF RuntimeState
<1> HIDE DEF t, x
<1>4. /\ call' \in [ClaimIDs -> CallState]
      /\ call'[c] = t
      /\ \A d \in ClaimIDs : d # c => call'[d] = call[d]
  BY <1>0, <1>1, <1>2, OneMoves
<1>5. /\ runtime' \in [Owners -> RuntimeState]
      /\ runtime'[o] = x
      /\ \A p \in Owners : p # o => runtime'[p] = runtime[p]
  BY <1>0, <1>1, <1>3, OneRuntimeMoves
<1>6. Types'
  BY <1>0, <1>1, <1>4, <1>5 DEF Types
<1>7. \A d \in ClaimIDs : Calm(call[d], call'[d])
  <2>1. Calm(s, t)
    BY <1>0, <1>2 DEF Calm, Alike
  <2> QED BY <1>4, <2>1, CalmSame
<1>8. \A d \in ClaimIDs : GaveBack(record', call'[d])
  BY <1>0, <1>1, <1>2, <1>4 DEF Ended, GaveBack, Ending
<1>9. Sessions'
  <2>1. ASSUME NEW p \in Owners, runtime'[p].active # None
        PROVE  /\ runtimeOf[runtime'[p].active] = p
               /\ call'[runtime'[p].active].pc \notin {"ready", "returned"}
    <3>1. CASE p = o
      BY <1>2, <1>3, <1>4, <1>5, <3>1
    <3>2. CASE p # o
      <4>1. runtime[p].active \in ClaimIDs /\ runtime[p].active # c
        BY <1>0, <1>5, <2>1, <3>2, RuntimeFields DEF Sessions, Types
      <4> QED BY <1>0, <1>4, <1>5, <2>1, <3>2, <4>1 DEF Sessions
    <3> QED BY <3>1, <3>2
  <2>2. ASSUME NEW d \in ClaimIDs, call'[d].pc \notin {"ready", "returned"}
        PROVE  runtime'[runtimeOf[d]].active = d
    <3>1. CASE d = c
      BY <1>3, <1>5, <3>1
    <3>2. CASE d # c
      <4>1. runtime[runtimeOf[d]].active = d /\ d # None /\ runtimeOf[d] \in Owners
        BY <1>0, <1>4, <2>2, <3>2, NoneAssumption, RuntimeOfAssumption DEF Sessions
      <4> QED BY <1>0, <1>5, <4>1
    <3> QED BY <3>1, <3>2
  <2>3. ASSUME NEW d \in ClaimIDs
        PROVE  Stopped(runtime'[runtimeOf[d]], d, call'[d])
    <3>1. Stopped(runtime[runtimeOf[d]], d, call[d]) /\ runtimeOf[d] \in Owners
      BY <1>0, RuntimeOfAssumption DEF Sessions
    <3>2. CASE d = c
      BY <1>0, <1>2, <1>4, <3>1, <3>2 DEF Stopped
    <3>3. CASE d # c
      BY <1>3, <1>4, <1>5, <3>1, <3>3 DEF Stopped
    <3> QED BY <3>2, <3>3
  <2> QED BY <2>1, <2>2, <2>3 DEF Sessions
<1> QED BY <1>1, <1>3, <1>5, <1>6, <1>7, <1>8, <1>9, QuietSame, CalmStep

LEMMA leaveStep ==
  ASSUME IInv, NEW c \in ClaimIDs, leave(c)
  PROVE  IInv'
<1> DEFINE s == call[c]
           t == [s EXCEPT !.pc = "returned"]
           o == runtimeOf[c]
           r == runtime[o]
           errors == r.closeErrors \/ (s.stop = "Closed" /\ s.control = "err")
           x == [r EXCEPT !.active = None, !.closeErrors = errors]
<1>0. /\ BackendInv /\ Types /\ Ended /\ Sessions /\ s \in CallState /\ s.pc = "leave"
      /\ o \in Owners /\ r \in RuntimeState
  BY RuntimeOfAssumption DEF IInv, Types, leave, at
<1>1. /\ call' = [call EXCEPT ![c] = t]
      /\ runtime' = [runtime EXCEPT ![o] = x]
      /\ record' = record /\ effect' = effect
      /\ executions' = executions /\ retried' = retried /\ suspender' = suspender
  BY <1>0 DEF leave, Types
<1>2. /\ t \in CallState /\ Alike(s, t) /\ t.stop = s.stop /\ t.infra = s.infra
      /\ t.pc = "returned" /\ t.control = s.control
  BY <1>0, PcMoves DEF CallPCs
<1>3. /\ x \in RuntimeState /\ x.active = None /\ x.pending = r.pending /\ x.alive = r.alive
      /\ x.closed = r.closed /\ x.closer = r.closer /\ x.closing = r.closing
      /\ x.prior = r.prior /\ x.closeErrors = errors
  <2>1. errors \in BOOLEAN
    BY <1>0, RuntimeFields
  <2> HIDE DEF errors
  <2> QED BY <1>0, <2>1, RuntimeFields DEF RuntimeState
<1> HIDE DEF t, x
<1>4. /\ call' \in [ClaimIDs -> CallState]
      /\ call'[c] = t
      /\ \A d \in ClaimIDs : d # c => call'[d] = call[d]
  BY <1>0, <1>1, <1>2, OneMoves
<1>5. /\ runtime' \in [Owners -> RuntimeState]
      /\ runtime'[o] = x
      /\ \A p \in Owners : p # o => runtime'[p] = runtime[p]
  BY <1>0, <1>1, <1>3, OneRuntimeMoves
<1>6. Types'
  BY <1>0, <1>1, <1>4, <1>5 DEF Types
<1>7. \A d \in ClaimIDs : Calm(call[d], call'[d])
  <2>1. Calm(s, t)
    BY <1>0, <1>2 DEF Calm, Alike, Fresh, Busy
  <2> QED BY <1>4, <2>1, CalmSame
<1>8. \A d \in ClaimIDs : GaveBack(record', call'[d])
  BY <1>0, <1>1, <1>2, <1>4 DEF Ended, GaveBack, Ending, Alike
<1>9. Sessions'
  <2>0. r.active = c
    BY <1>0 DEF Sessions
  <2>1. ASSUME NEW p \in Owners, runtime'[p].active # None
        PROVE  /\ runtimeOf[runtime'[p].active] = p
               /\ call'[runtime'[p].active].pc \notin {"ready", "returned"}
    <3>1. p # o
      BY <1>3, <1>5, <2>1
    <3>2. runtime[p].active \in ClaimIDs /\ runtime[p].active # c
      BY <1>0, <1>5, <2>1, <3>1, RuntimeFields DEF Sessions, Types
    <3> QED BY <1>0, <1>4, <1>5, <2>1, <3>1, <3>2 DEF Sessions
  <2>2. ASSUME NEW d \in ClaimIDs, call'[d].pc \notin {"ready", "returned"}
        PROVE  runtime'[runtimeOf[d]].active = d
    <3>1. d # c
      BY <1>2, <1>4, <2>2
    <3>2. runtime[runtimeOf[d]].active = d /\ runtimeOf[d] \in Owners
      BY <1>0, <1>4, <2>2, <3>1, RuntimeOfAssumption DEF Sessions
    <3> QED BY <1>5, <2>0, <3>1, <3>2
  <2>3. ASSUME NEW d \in ClaimIDs
        PROVE  Stopped(runtime'[runtimeOf[d]], d, call'[d])
    <3>1. Stopped(runtime[runtimeOf[d]], d, call[d]) /\ runtimeOf[d] \in Owners
      BY <1>0, RuntimeOfAssumption DEF Sessions
    <3>2. CASE d = c
      BY <1>0, <1>2, <1>3, <1>4, <1>5, <3>1, <3>2 DEF Stopped
    <3>3. CASE d # c
      BY <1>3, <1>4, <1>5, <3>1, <3>3 DEF Stopped
    <3> QED BY <3>2, <3>3
  <2> QED BY <2>1, <2>2, <2>3 DEF Sessions
<1> QED BY <1>1, <1>3, <1>5, <1>6, <1>7, <1>8, <1>9, QuietSame, CalmStep

LEMMA CloseStep ==
  ASSUME IInv, NEW o \in Owners, Close(o)
  PROVE  IInv'
<1> DEFINE r == runtime[o]
           x == [r EXCEPT !.closed = TRUE, !.closing = r.active, !.prior = r.closeErrors,
                          !.closer = "waiting"]
           stops(c) == c = r.active /\ ~r.closed /\ call[c].stop = "none"
<1>0. /\ BackendInv /\ Types /\ Ended /\ Sessions /\ r \in RuntimeState
  BY DEF IInv, Types
<1>1. /\ runtime' = [runtime EXCEPT ![o] = x]
      /\ call' = [c \in ClaimIDs |-> IF stops(c) THEN [call[c] EXCEPT !.stop = "Closed"]
                                                 ELSE call[c]]
      /\ record' = record /\ effect' = effect
      /\ executions' = executions /\ retried' = retried /\ suspender' = suspender
  BY <1>0 DEF Close, Types
<1>2. ASSUME NEW c \in ClaimIDs
      PROVE  /\ call'[c] \in CallState /\ Alike(call[c], call'[c])
             /\ call'[c].pc = call[c].pc /\ call'[c].infra = call[c].infra
             /\ call'[c].control = call[c].control
             /\ call'[c].stop = "Closed" => call[c].stop = "Closed" \/ c = r.active
  <2>1. call[c] \in CallState
    BY <1>0 DEF Types
  <2>2. CASE stops(c)
    <3> DEFINE t == [call[c] EXCEPT !.stop = "Closed"]
    <3>1. t \in CallState /\ Alike(call[c], t) /\ t.pc = call[c].pc
          /\ t.infra = call[c].infra /\ t.control = call[c].control
      BY <2>1, StopMoves DEF StopCauses
    <3>2. call'[c] = t
      BY <1>1, <2>2
    <3> HIDE DEF t
    <3> QED BY <2>2, <3>1, <3>2
  <2>3. CASE ~stops(c)
    <3>1. call'[c] = call[c]
      BY <1>1, <2>3
    <3> QED BY <2>1, <3>1 DEF Alike
  <2> QED BY <2>2, <2>3
<1>3. /\ x \in RuntimeState /\ x.active = r.active /\ x.pending = r.pending
      /\ x.alive = r.alive /\ x.closed = TRUE /\ x.closer = "waiting"
      /\ x.closing = r.active /\ x.prior = r.closeErrors /\ x.closeErrors = r.closeErrors
  BY <1>0, RuntimeFields DEF RuntimeState
<1>c. call' \in [ClaimIDs -> CallState]
  BY <1>1, <1>2
<1> HIDE DEF x
<1>5. /\ runtime' \in [Owners -> RuntimeState]
      /\ runtime'[o] = x
      /\ \A p \in Owners : p # o => runtime'[p] = runtime[p]
  BY <1>0, <1>1, <1>3, OneRuntimeMoves
<1>6. Types'
  BY <1>0, <1>1, <1>5, <1>c DEF Types
<1>7. \A d \in ClaimIDs : Calm(call[d], call'[d])
  BY <1>2, AlikeCalm
<1>8. \A d \in ClaimIDs : GaveBack(record', call'[d])
  BY <1>0, <1>1, <1>2 DEF Ended, GaveBack, Alike
<1>9. Sessions'
  <2>1. ASSUME NEW p \in Owners, runtime'[p].active # None
        PROVE  /\ runtimeOf[runtime'[p].active] = p
               /\ call'[runtime'[p].active].pc \notin {"ready", "returned"}
    <3>1. runtime'[p].active = runtime[p].active /\ runtime[p].active \in ClaimIDs
      BY <1>0, <1>3, <1>5, <2>1, RuntimeFields DEF Types
    <3> QED BY <1>0, <1>2, <2>1, <3>1 DEF Sessions
  <2>2. ASSUME NEW d \in ClaimIDs, call'[d].pc \notin {"ready", "returned"}
        PROVE  runtime'[runtimeOf[d]].active = d
    <3>1. runtime[runtimeOf[d]].active = d /\ runtimeOf[d] \in Owners
      BY <1>0, <1>2, <2>2, RuntimeOfAssumption DEF Sessions
    <3> QED BY <1>3, <1>5, <3>1
  <2>3. ASSUME NEW d \in ClaimIDs
        PROVE  Stopped(runtime'[runtimeOf[d]], d, call'[d])
    <3>1. Stopped(runtime[runtimeOf[d]], d, call[d]) /\ runtimeOf[d] \in Owners
      BY <1>0, RuntimeOfAssumption DEF Sessions
    <3>2. CASE runtimeOf[d] = o
      <4> SUFFICES ASSUME call'[d].stop = "Closed"
                   PROVE  Stopped(x, d, call'[d])
        BY <1>5, <3>2 DEF Stopped
      <4>1. CASE d = r.active
        <5>1. call[d].pc \notin {"ready", "returned"}
          BY <1>0, <4>1, NoneAssumption DEF Sessions
        <5> QED BY <1>2, <1>3, <4>1, <5>1 DEF Stopped
      <4>2. CASE d # r.active
        <5>1. call[d].stop = "Closed" /\ call[d].pc = "returned"
          BY <1>0, <1>2, <3>1, <3>2, <4>2 DEF Sessions, Stopped
        <5> QED BY <1>2, <1>3, <3>1, <3>2, <5>1 DEF Stopped
      <4> QED BY <4>1, <4>2
    <3>3. CASE runtimeOf[d] # o
      <4>1. d # r.active
        BY <1>0, <3>3, NoneAssumption DEF Sessions
      <4>2. call'[d] = call[d]
        BY <1>1, <4>1
      <4> QED BY <1>5, <3>1, <3>3, <4>2
    <3> QED BY <3>2, <3>3
  <2> QED BY <2>1, <2>2, <2>3 DEF Sessions
<1>10. \A p \in Owners : /\ runtime'[p].pending = runtime[p].pending
                         /\ runtime'[p].alive = runtime[p].alive
  BY <1>3, <1>5
<1> QED BY <1>1, <1>6, <1>7, <1>8, <1>9, <1>10, QuietSame, CalmStep

LEMMA CloseReturnsStep ==
  ASSUME IInv, NEW o \in Owners, CloseReturns(o)
  PROVE  IInv'
<1> DEFINE r == runtime[o]
<1>0. /\ BackendInv /\ Types /\ Ended /\ Sessions /\ r \in RuntimeState /\ r.closer = "waiting"
  BY DEF IInv, Types, CloseReturns
<1>1. PICK closer \in {"nil", "err"} :
        /\ runtime' = [runtime EXCEPT ![o] = [r EXCEPT !.closer = closer]]
        /\ closer = "nil" => /\ r.closing # None => done(r.closing)
                             /\ ~r.prior
                             /\ r.closing # None => call[r.closing].control # "err"
  <2> DEFINE value == IF r.prior \/ (r.closing # None /\ call[r.closing].control = "err")
                      THEN "err" ELSE "nil"
  <2>1. \/ /\ r.closing # None => done(r.closing)
           /\ runtime' = [runtime EXCEPT ![o] = [r EXCEPT !.closer = value]]
        \/ runtime' = [runtime EXCEPT ![o] = [r EXCEPT !.closer = "err"]]
    BY <1>0 DEF CloseReturns, Types
  <2>2. /\ value \in {"nil", "err"}
        /\ value = "nil" => /\ ~r.prior
                            /\ r.closing # None => call[r.closing].control # "err"
    OBVIOUS
  <2> HIDE DEF value
  <2> QED BY <2>1, <2>2
<1>2. /\ record' = record /\ call' = call /\ effect' = effect
      /\ executions' = executions /\ retried' = retried /\ suspender' = suspender
  BY DEF CloseReturns
<1> DEFINE x == [r EXCEPT !.closer = closer]
<1>3. /\ x \in RuntimeState /\ x.active = r.active /\ x.pending = r.pending
      /\ x.alive = r.alive /\ x.closed = r.closed /\ x.closer = closer
      /\ x.closing = r.closing /\ x.prior = r.prior /\ x.closeErrors = r.closeErrors
  BY <1>0, RuntimeFields DEF RuntimeState
<1> HIDE DEF x
<1>5. /\ runtime' \in [Owners -> RuntimeState]
      /\ runtime'[o] = x
      /\ \A p \in Owners : p # o => runtime'[p] = runtime[p]
  BY <1>0, <1>1, <1>3, OneRuntimeMoves DEF x
<1>6. Types'
  BY <1>0, <1>2, <1>5 DEF Types
<1>7. \A d \in ClaimIDs : Calm(call[d], call'[d]) /\ GaveBack(record', call'[d])
  BY <1>0, <1>2, CalmSame DEF Ended
<1>9. Sessions'
  <2>1. \A p \in Owners : runtime'[p].active = runtime[p].active
    BY <1>3, <1>5
  <2>3. ASSUME NEW d \in ClaimIDs
        PROVE  Stopped(runtime'[runtimeOf[d]], d, call[d])
    <3>1. Stopped(runtime[runtimeOf[d]], d, call[d]) /\ runtimeOf[d] \in Owners /\ d # None
      BY <1>0, RuntimeOfAssumption, NoneAssumption DEF Sessions
    <3>2. CASE runtimeOf[d] = o
      BY <1>0, <1>1, <1>3, <1>5, <3>1, <3>2 DEF Stopped, done
    <3>3. CASE runtimeOf[d] # o
      BY <1>5, <3>1, <3>3
    <3> QED BY <3>2, <3>3
  <2> QED BY <1>0, <1>2, <2>1, <2>3, RuntimeOfAssumption DEF Sessions
<1>10. \A p \in Owners : /\ runtime'[p].pending = runtime[p].pending
                         /\ runtime'[p].alive = runtime[p].alive
  BY <1>3, <1>5
<1> QED BY <1>2, <1>6, <1>7, <1>9, <1>10, QuietSame, CalmStep

-----------------------------------------------------------------------------
(* The boundary: what is saved is what was seen.                           *)

LEMMA ObserveBoundaryStep ==
  ASSUME IInv, NEW c \in ClaimIDs, NEW fate, ObserveBoundary(c, fate)
  PROVE  IInv'
<1> DEFINE s == call[c]
           q == boundaryRequest(c)
           saved == /\ fate = "answered"
                    /\ SaveCheckpointVerdict(record, q) \in {"Save", "Replay"}
           version == SaveCheckpoint(record, q).execution.version
           pc == IF s.pos > Len(Plan) THEN "complete" ELSE "batch"
           moved == [s EXCEPT !.version = version, !.sequence = @ + 1, !.pc = pc]
           t == IF saved THEN moved ELSE engineFails(s)
<1>0. /\ BackendInv /\ NothingSaved /\ Types /\ Ended /\ Sessions /\ Saved /\ Working /\ Worked
      /\ s \in CallState /\ s.pc = "boundary" /\ Works(record, s) /\ record \in Record
  BY DEF IInv, Types, ObserveBoundary, at, Working, BackendInv, TypeOK
<1>1. /\ record' = sent(fate, SaveCheckpoint(record, q))
      /\ call' = [call EXCEPT ![c] = t]
      /\ effect' = effect /\ runtime' = runtime
      /\ executions' = executions /\ retried' = retried /\ suspender' = suspender
  BY <1>0 DEF ObserveBoundary, Types
<1>2. /\ s.pos \in 1..(Len(Plan) + 1) /\ Succeeded(s.pos, s.seen) /\ Journaled(record, s.seen)
      /\ ~s.failed /\ ~s.infra /\ Len(Plan) \in Nat
  BY <1>0, PlanAssumption DEF Works, Busy
<1>3. /\ [Calls]_record /\ Quiet(record, record') /\ NoResult(record, record')
      /\ SameCheckpoint(record, record') \/ record'.execution.checkpoint = q.checkpoint
  BY <1>0, <1>1, <1>2, SaveCall
<1>4. BackendInv' /\ Onward(record, record') /\ record' \in Record
  BY <1>0, <1>3, RecordStep DEF BackendInv, TypeOK
<1>5. /\ q.checkpoint.continuation = [pos |-> s.pos, seen |-> s.seen]
      /\ q.checkpoint.continuation \in EngineContinuations
      /\ q \in CheckpointCalls
  BY <1>0, <1>2, BoundaryRequestType DEF boundaryRequest
<1> HIDE DEF q
<1>6. /\ version \in Nat /\ (pc = "complete" \/ pc = "batch")
      /\ pc = "complete" => s.pos = Len(Plan) + 1
      /\ pc = "batch" => s.pos <= Len(Plan)
  <2>1. version \in Nat
    BY <1>0, <1>5, SaveCheckpointType, RecordFields, ExecutionFields
  <2> QED BY <1>2, <2>1
<1>7. /\ moved \in CallState /\ moved.pc = pc /\ moved.version = version
      /\ moved.pos = s.pos /\ moved.seen = s.seen /\ moved.lease = s.lease
      /\ moved.failed = s.failed /\ moved.infra = s.infra /\ moved.stop = s.stop
  <2> HIDE DEF version, pc
  <2>1. pc \in CallPCs /\ s.sequence + 1 \in Nat
    BY <1>0, <1>6, CallFields DEF CallPCs
  <2> QED BY <1>0, <1>6, <2>1, CallFields DEF CallState
<1>8. /\ engineFails(s) \in CallState /\ Alike(s, engineFails(s))
      /\ engineFails(s).pc = "complete" /\ engineFails(s).infra = TRUE
      /\ engineFails(s).stop = s.stop
  BY <1>0, EngineFailsMoves
<1> HIDE DEF moved
<1>9. /\ t \in CallState /\ t.lease = s.lease /\ t.stop = s.stop
      /\ t.pc \in {"complete", "batch"}
  BY <1>6, <1>7, <1>8 DEF Alike
<1>10. Works(record', t)
  <2>1. CASE ~saved
    <3>1. Calm(s, engineFails(s)) /\ s.version \in Nat
      BY <1>0, <1>8, CallFields DEF Calm, Alike
    <3> QED BY <1>0, <1>4, <2>1, <3>1, WorksStays
  <2>2. CASE saved
    <3>1. record' = SaveCheckpoint(record, q)
      BY <1>1, <2>2 DEF sent
    <3>2. record'.execution.checkpoint = q.checkpoint
      <4>1. CASE SaveCheckpointVerdict(record, q) = "Save"
        <5>1. record' = [record EXCEPT !.execution.checkpoint = q.checkpoint,
                                       !.execution.version = @ + 1]
          BY <3>1, <4>1 DEF SaveCheckpoint
        <5> QED BY <1>0, <5>1, RecordFields DEF Record, Execution
      <4>2. CASE SaveCheckpointVerdict(record, q) = "Replay"
        BY <3>1, <4>2 DEF SaveCheckpoint, SaveCheckpointVerdict
      <4> QED BY <2>2, <4>1, <4>2
    <3>3. Continues(moved, record'.execution.checkpoint)
      BY <1>2, <1>5, <1>7, <3>2 DEF Continues
    <3>4. moved.version = record'.execution.version /\ record'.execution.version \in Nat
      BY <1>6, <1>7, <3>1
    <3>5. Journaled(record', moved.seen)
      BY <1>2, <1>4, <1>7, JournaledStays
    <3> HIDE DEF pc, version
    <3>6. Works(record', moved)
      BY <1>2, <1>6, <1>7, <3>3, <3>4, <3>5 DEF Works, Busy, Fresh
    <3> QED BY <2>2, <3>6
  <2> QED BY <2>1, <2>2
<1> HIDE DEF t
<1>11. /\ call' \in [ClaimIDs -> CallState]
       /\ call'[c] = t
       /\ \A d \in ClaimIDs : d # c => call'[d] = call[d]
  BY <1>0, <1>1, <1>9, OneMoves
<1>12. Types'
  BY <1>0, <1>1, <1>11 DEF Types
<1>13. Working'
  <2> SUFFICES ASSUME NEW d \in ClaimIDs, d # c PROVE Works(record', call[d])
    BY <1>10, <1>11 DEF Working
  <2>1. call[d].version \in Nat /\ Works(record, call[d])
    BY <1>0, CallFields DEF Types, Working
  <2> QED BY <1>0, <1>4, <2>1, CalmSame, WorksStays
<1>14. Saved'
  <2>1. Journaled(record', s.seen)
    BY <1>2, <1>4, JournaledStays
  <2>2. record'.execution.checkpoint = q.checkpoint => Sound(record', record'.execution.checkpoint)
    BY <1>2, <1>5, <2>1 DEF Sound
  <2> QED BY <1>0, <1>3, <1>4, <2>2, SavedStays DEF Quiet
<1>15. \A d \in ClaimIDs : GaveBack(record', call'[d])
  <2> TAKE d \in ClaimIDs
  <2>1. CASE d = c
    BY <1>9, <1>11, <2>1 DEF GaveBack, Ending
  <2>2. CASE d # c
    BY <1>0, <1>3, <1>11, <2>2, GaveBackStays DEF Ended, Quiet
  <2> QED BY <2>1, <2>2
<1>16. Sessions'
  <2>1. \A d \in ClaimIDs : SessionCalm(call[d], call'[d])
    BY <1>0, <1>9, <1>11 DEF SessionCalm
  <2> QED BY <1>0, <1>1, <2>1, SessionsStay
<1>17. Worked'
  BY <1>0, <1>1, <1>3, <1>4, WorkedQuiet DEF Quiet
<1>18. \A d \in ClaimIDs :
         /\ call'[d].lease = call[d].lease
         /\ call'[d].pc \in Fresh => call[d].pc \in Fresh
         /\ call'[d].pc \in Busy => call[d].pc \in Busy
         /\ call[d].pc = "batch" => call'[d].pc = "batch" /\ call'[d].pos = call[d].pos
  BY <1>0, <1>9, <1>11 DEF Fresh, Busy
<1> QED BY <1>1, <1>3, <1>12, <1>13, <1>14, <1>15, <1>16, <1>17, <1>18, CallStep DEF Quiet

-----------------------------------------------------------------------------
(* The application reconciles, and processes crash.                        *)

LEMMA ReconcileStep ==
  ASSUME IInv, NEW op \in Operations, NEW resolution \in {"succeed", "fail", "retry"},
         NEW payload \in Payloads \cup {None}, NEW failure \in Failures \cup {None},
         Reconcile(op, resolution, payload, failure)
  PROVE  IInv'
<1> DEFINE a == latest(record, op)
           q == [operation |-> op, number |-> a.number, version |-> a.version,
                 resolution |-> resolution, payload |-> payload, failure |-> failure]
<1>0. /\ BackendInv /\ NothingSaved /\ Types /\ Ended /\ Sessions /\ Saved /\ Working /\ Worked
      /\ record \in Record
  BY DEF IInv, BackendInv, TypeOK
<1>1. /\ record.attempts[op] # <<>>
      /\ ReconcileAttemptVerdict(record, q) = "Reconcile"
      /\ record' = ReconcileAttempt(record, q)
      /\ retried' = IF resolution = "retry" THEN retried \cup {<<op, a.number>>} ELSE retried
      /\ call' = call /\ effect' = effect /\ runtime' = runtime
      /\ suspender' = suspender /\ executions' = executions
  BY DEF Reconcile
<1>2. q \in ReconcileCalls
  <2>1. a \in Attempt
    BY <1>0, <1>1, LatestType
  <2> QED BY <2>1, AttemptFields DEF ReconcileCalls
<1>3. /\ q.operation = op /\ q.number = a.number /\ q.resolution = resolution
  OBVIOUS
<1> HIDE DEF q
<1>4. [Calls]_record
  BY <1>1, <1>2 DEF Calls, CallReconcileAttempt
<1>5. /\ SameClaims(record, record') /\ NoNewRun(record, record') /\ Tabled(record, record')
      /\ NoResult(record, record') /\ SameCheckpoint(record, record')
      /\ \A o \in Operations : \A i \in DOMAIN record'.attempts[o] :
           record'.attempts[o][i].status = "abandoned" =>
             \/ record.attempts[o][i].status = "abandoned"
             \/ q.resolution = "retry" /\ o = q.operation /\ i = q.number
  BY <1>0, <1>1, <1>2, ReconcileIsQuiet
<1>6. BackendInv' /\ Onward(record, record') /\ record' \in Record
  BY <1>0, <1>4, RecordStep DEF BackendInv, TypeOK
<1>7. Types'
  BY <1>0, <1>1 DEF Types
<1>8. Worked'
  <2>1. ASSUME NEW o \in Operations
        PROVE  /\ Len(record'.attempts[o]) >= Len(record.attempts[o])
               /\ \A i \in DOMAIN record'.attempts[o] :
                    record'.attempts[o][i].status = "abandoned" =>
                      \/ /\ i \in DOMAIN record.attempts[o]
                         /\ record.attempts[o][i].status = "abandoned"
                      \/ <<o, i>> \in retried'
    <3>1. /\ Len(record'.attempts[o]) = Len(record.attempts[o]) /\ Len(record.attempts[o]) \in Nat
          /\ DOMAIN record'.attempts[o] = DOMAIN record.attempts[o]
      BY <1>0, <1>5, RecordFields DEF NoNewRun
    <3> QED BY <1>1, <1>3, <1>5, <3>1
  <2>2. retried \subseteq retried'
    BY <1>1
  <2> QED BY <1>0, <1>1, <1>6, <2>1, <2>2, WorkedStays
<1>9. Saved'
  BY <1>0, <1>5, <1>6, SavedStays
<1>10. Working'
  <2> SUFFICES ASSUME NEW c \in ClaimIDs PROVE Works(record', call'[c])
    BY DEF Working
  <2>1. call[c].version \in Nat /\ Works(record, call[c])
    BY <1>0, CallFields DEF Types, Working
  <2> QED BY <1>0, <1>1, <1>6, <2>1, CalmSame, WorksStays
<1>11. Sessions'
  <2>1. \A c \in ClaimIDs : SessionCalm(call[c], call'[c])
    BY <1>1 DEF SessionCalm
  <2> QED BY <1>0, <1>1, <2>1, SessionsStay
<1>12. \A c \in ClaimIDs : GaveBack(record', call'[c])
  BY <1>0, <1>1, <1>5, GaveBackStays DEF Ended
<1> QED BY <1>1, <1>4, <1>5, <1>7, <1>8, <1>9, <1>10, <1>11, <1>12, CallStep

LEMMA NewRuntimeType ==
  /\ [NewRuntime EXCEPT !.alive = FALSE] \in RuntimeState
  /\ [NewRuntime EXCEPT !.alive = FALSE].alive = FALSE
  /\ [NewRuntime EXCEPT !.alive = FALSE].active = None
  /\ [NewRuntime EXCEPT !.alive = FALSE].pending = None
BY DEF NewRuntime, RuntimeState

LEMMA NoEffectType ==
  /\ NoEffect \in EffectState /\ NoEffect.state = "idle"
  /\ NoEffect.number = 0 /\ NoEffect.outcome = None
BY DEF NoEffect, EffectState

\* The calls of a process that dies forget everything, and its lease is left
\* for the record to fence.
LEMMA CrashStep ==
  ASSUME IInv, NEW o \in Owners, Crash(o)
  PROVE  IInv'
<1> DEFINE x == [NewRuntime EXCEPT !.alive = FALSE]
<1>0. /\ BackendInv /\ NothingSaved /\ Types /\ Tokens /\ Claimed /\ Pending /\ Effects
      /\ Worked /\ Saved /\ Working /\ Ended /\ Sessions /\ record \in Record
  BY DEF IInv, BackendInv, TypeOK
<1>1. /\ runtime' = [runtime EXCEPT ![o] = x]
      /\ call' = [c \in ClaimIDs |-> IF runtimeOf[c] = o THEN NewCall ELSE call[c]]
      /\ effect' = [c \in ClaimIDs |->
                     IF runtimeOf[c] = o THEN [op \in Operations |-> NoEffect] ELSE effect[c]]
      /\ suspender' = [c \in ClaimIDs |-> IF runtimeOf[c] = o THEN "none" ELSE suspender[c]]
      /\ record' = record /\ executions' = executions /\ retried' = retried
  BY DEF Crash
<1>2. x \in RuntimeState /\ x.alive = FALSE /\ x.active = None /\ x.pending = None
  BY NewRuntimeType
<1> HIDE DEF x
<1>3. /\ runtime' \in [Owners -> RuntimeState]
      /\ runtime'[o] = x
      /\ \A p \in Owners : p # o => runtime'[p] = runtime[p]
  BY <1>0, <1>1, <1>2, OneRuntimeMoves
<1>4. /\ call' \in [ClaimIDs -> CallState]
      /\ \A c \in ClaimIDs : call'[c] = IF runtimeOf[c] = o THEN NewCall ELSE call[c]
  BY <1>0, <1>1, NewCallType DEF Types
<1>5. /\ effect' \in [ClaimIDs -> [Operations -> EffectState]]
      /\ \A c \in ClaimIDs, op \in Operations :
           effect'[c][op] = IF runtimeOf[c] = o THEN NoEffect ELSE effect[c][op]
  BY <1>0, <1>1, NoEffectType DEF Types
<1>6. Types'
  BY <1>0, <1>1, <1>3, <1>4, <1>5 DEF Types
<1>7. NewCall.lease.token = 0 /\ NewCall.lease = NoLeaseRef /\ NewCall.pc = "ready"
  BY NewCallType DEF NoLeaseRef
<1>8. BackendInv' /\ NothingSaved' /\ Onward(record, record')
  BY <1>0, <1>1, RecordStep
<1>9. \A c \in ClaimIDs : tokenOf(c)' = IF runtimeOf[c] = o THEN 0 ELSE tokenOf(c)
  BY <1>4, <1>7 DEF tokenOf
<1>10. Tokens'
  <2>1. \A c \in ClaimIDs : tokenOf(c) \in Nat /\ 0 <= record.nextToken
    BY <1>0, CallFields, RecordFields DEF Types, tokenOf
  <2> QED BY <1>0, <1>1, <1>4, <1>7, <1>9, <2>1 DEF Tokens, Fresh, Busy
<1>11. Claimed'
  BY <1>0, <1>1, QuietSame, ClaimedStays DEF Quiet
<1>12. Pending'
  <2>1. RunsOwned /\ SameClaims(record, record')
    BY <1>1, QuietSame, NoNewRunOwned DEF Quiet
  <2>2. \A c \in ClaimIDs : (up(c) /\ call[c].pc \in Fresh)' => up(c) /\ call[c].pc \in Fresh
    BY <1>2, <1>3, <1>4, RuntimeOfAssumption DEF up
  <2>3. \A p \in Owners : runtime'[p].pending \in {runtime[p].pending, None}
    BY <1>2, <1>3
  <2> QED BY <1>0, <1>3, <1>9, <2>1, <2>2, <2>3, RuntimeOfAssumption, PendingStays
<1>13. Effects'
  <2> SUFFICES ASSUME NEW c \in ClaimIDs, NEW op \in Operations
               PROVE  (EffectOf(c, op) /\ GrantOf(c, op))'
    BY DEF Effects
  <2>1. EffectOf(c, op) /\ GrantOf(c, op)
    BY <1>0 DEF Effects
  <2>2. CASE runtimeOf[c] = o
    BY <1>4, <1>5, <1>7, <2>2, NoEffectType DEF EffectOf, GrantOf, Busy
  <2>3. CASE runtimeOf[c] # o
    <3>1. effect'[c][op] = effect[c][op] /\ call'[c] = call[c] /\ tokenOf(c)' = tokenOf(c)
      BY <1>4, <1>5, <1>9, <2>3
    <3>2. EffectOf(c, op)'
      BY <1>1, <1>8, <2>1, <3>1, EffectOfStays
    <3>3. \A d \in ClaimIDs :
            effect'[d][op].state = "granted" => effect'[d][op] = effect[d][op]
      BY <1>5, NoEffectType
    <3>4. Len(record'.attempts[op]) >= Len(record.attempts[op])
      BY <1>0, <1>1, RecordFields
    <3>5. GrantOf(c, op)'
      BY <1>0, <1>1, <2>1, <3>1, <3>3, <3>4, GrantOfStays
    <3> QED BY <3>2, <3>5
  <2> QED BY <2>2, <2>3
<1>14. Worked'
  BY <1>0, <1>1, QuietSame, WorkedQuiet DEF Quiet
<1>15. Saved'
  BY <1>0, <1>1, <1>8, QuietSame, SavedStays DEF Quiet
<1>16. Working'
  <2> SUFFICES ASSUME NEW c \in ClaimIDs PROVE Works(record', call'[c])
    BY DEF Working
  <2>1. Works(record, call[c])
    BY <1>0 DEF Working
  <2>2. Works(record, NewCall)
    BY NewCallType DEF Works, Journaled, NothingSeen, Busy
  <2> QED BY <1>1, <1>4, <2>1, <2>2
<1>17. Ended'
  <2>1. \A c \in ClaimIDs : GaveBack(record', call'[c])
    BY <1>0, <1>1, <1>4, <1>7 DEF Ended, GaveBack
  <2> QED BY <1>0, <1>1, <1>8, <2>1, QuietSame, EndedStays DEF Quiet
<1>18. Sessions'
  <2>1. \A p \in Owners : runtime'[p].active # None =>
          p # o /\ runtime'[p] = runtime[p] /\ runtimeOf[runtime[p].active] = p
                /\ runtime[p].active \in ClaimIDs
    BY <1>0, <1>2, <1>3, RuntimeFields DEF Sessions, Types
  <2>2. \A c \in ClaimIDs : Stopped(runtime'[runtimeOf[c]], c, call'[c])
    BY <1>0, <1>3, <1>4, NewCallType, RuntimeOfAssumption DEF Sessions, Stopped
  <2>3. \A c \in ClaimIDs : call'[c].pc \notin {"ready", "returned"} =>
          runtime'[runtimeOf[c]].active = c
    BY <1>0, <1>3, <1>4, <1>7, RuntimeOfAssumption DEF Sessions
  <2>4. \A p \in Owners : runtime'[p].active # None =>
          /\ runtimeOf[runtime'[p].active] = p
          /\ call'[runtime'[p].active].pc \notin {"ready", "returned"}
    BY <1>0, <1>4, <2>1 DEF Sessions
  <2> QED BY <2>2, <2>3, <2>4 DEF Sessions
<1> QED BY <1>6, <1>8, <1>10, <1>11, <1>12, <1>13, <1>14, <1>15, <1>16, <1>17, <1>18 DEF IInv

-----------------------------------------------------------------------------
(* The effects.                                                            *)

\* One effect moves, to state e.
LEMMA OneEffectMoves ==
  ASSUME Types, NEW c \in ClaimIDs, NEW op \in Operations, NEW e \in EffectState,
         setEffect(c, op, e)
  PROVE  /\ effect' \in [ClaimIDs -> [Operations -> EffectState]]
         /\ effect'[c][op] = e
         /\ \A d \in ClaimIDs, p \in Operations :
              d # c \/ p # op => effect'[d][p] = effect[d][p]
BY DEF setEffect, Types

LEMMA EffectStep ==
  ASSUME IInv, NEW c \in ClaimIDs, NEW op \in Operations, NEW e \in EffectState,
         setEffect(c, op, e), call' = call, runtime' = runtime, suspender' = suspender,
         executions' \in [Operations -> [1..MaxAttempts -> Nat]],
         [Calls]_record, SameClaims(record, record'), Tabled(record, record'),
         NoResult(record, record'), SameCheckpoint(record, record'), RunsOwned,
         \A p \in Operations : Len(record'.attempts[p]) >= Len(record.attempts[p]),
         \A d \in ClaimIDs, p \in Operations : d # c \/ p # op =>
           /\ NotRunning(record, p, tokenOf(d)) => NotRunning(record', p, tokenOf(d))
           /\ effect[d][p].state = "granted" /\ effect[d][p].number <= MaxAttempts =>
                executions'[p][effect[d][p].number] = executions[p][effect[d][p].number],
         e.state = "granted" =>
           \A d \in ClaimIDs : d # c /\ effect[d][op].state = "granted" =>
             effect[d][op].number # e.number,
         EffectOf(c, op)', GrantOf(c, op)', Worked'
  PROVE  IInv'
<1>0. /\ BackendInv /\ NothingSaved /\ Types /\ Tokens /\ Claimed /\ Pending /\ Effects
      /\ Worked /\ Saved /\ Working /\ Ended /\ Sessions /\ record \in Record
  BY DEF IInv, BackendInv, TypeOK
<1>1. BackendInv' /\ NothingSaved' /\ Onward(record, record') /\ record' \in Record
  BY <1>0, RecordStep DEF BackendInv, TypeOK
<1>2. /\ effect' \in [ClaimIDs -> [Operations -> EffectState]]
      /\ effect'[c][op] = e
      /\ \A d \in ClaimIDs, p \in Operations :
           d # c \/ p # op => effect'[d][p] = effect[d][p]
  BY <1>0, OneEffectMoves
<1>3. Types'
  BY <1>0, <1>2 DEF Types
<1>4. \A d \in ClaimIDs : tokenOf(d)' = tokenOf(d)
  BY DEF tokenOf
<1>5. Tokens'
  BY <1>0, <1>1, TokensStay DEF Onward
<1>6. Claimed'
  BY <1>0, ClaimedStays
<1>7. Pending'
  <2>1. \A d \in ClaimIDs : (up(d) /\ call[d].pc \in Fresh)' => up(d) /\ call[d].pc \in Fresh
    BY DEF up
  <2>2. runtime' \in [Owners -> RuntimeState]
    BY <1>0 DEF Types
  <2> QED BY <1>0, <1>4, <2>1, <2>2, RuntimeOfAssumption, PendingStays
<1>8. Effects'
  <2> SUFFICES ASSUME NEW d \in ClaimIDs, NEW p \in Operations, d # c \/ p # op
               PROVE  EffectOf(d, p)' /\ GrantOf(d, p)'
    BY DEF Effects
  <2>1. EffectOf(d, p) /\ GrantOf(d, p) /\ effect'[d][p] = effect[d][p]
    BY <1>0, <1>2 DEF Effects
  <2>2. EffectOf(d, p)'
    BY <1>1, <1>4, <2>1, EffectOfStays
  <2>3. ASSUME effect[d][p].state = "granted", NEW b \in ClaimIDs,
               effect'[b][p].state = "granted"
        PROVE  \/ effect'[b][p] = effect[b][p]
               \/ effect'[b][p].number # effect[d][p].number
    <3>1. CASE b # c \/ p # op
      BY <1>2, <3>1
    <3>2. CASE b = c /\ p = op
      BY <1>2, <2>3, <3>2
    <3> QED BY <3>1, <3>2
  <2>4. GrantOf(d, p)'
    BY <1>0, <1>1, <2>1, <2>3, GrantOfStays
  <2> QED BY <2>2, <2>4
<1>9. Saved'
  BY <1>0, <1>1, SavedStays
<1>10. Working'
  <2> SUFFICES ASSUME NEW d \in ClaimIDs PROVE Works(record', call'[d])
    BY DEF Working
  <2>1. call[d].version \in Nat /\ Works(record, call[d])
    BY <1>0, CallFields DEF Types, Working
  <2> QED BY <1>0, <1>1, <2>1, CalmSame, WorksStays
<1>11. Sessions'
  <2>1. \A d \in ClaimIDs : SessionCalm(call[d], call'[d])
    BY DEF SessionCalm
  <2> QED BY <1>0, <2>1, SessionsStay
<1>12. Ended'
  <2>1. \A d \in ClaimIDs : GaveBack(record', call'[d])
    BY <1>0, GaveBackStays DEF Ended
  <2> QED BY <1>0, <1>1, <2>1, EndedStays
<1> QED BY <1>1, <1>3, <1>5, <1>6, <1>7, <1>8, <1>9, <1>10, <1>11, <1>12 DEF IInv

\* One effect moves, without a grant, and no attempt begins to run.
LEMMA QuietEffect ==
  ASSUME IInv, NEW c \in ClaimIDs, NEW op \in Operations, NEW e \in EffectState,
         setEffect(c, op, e), call' = call, runtime' = runtime, suspender' = suspender,
         retried' = retried, executions' = executions,
         [Calls]_record, Quiet(record, record'), NoResult(record, record'),
         SameCheckpoint(record, record'), e.state # "granted", EffectOf(c, op)'
  PROVE  IInv'
<1>0. BackendInv /\ NothingSaved /\ Types /\ Worked /\ record \in Record
  BY DEF IInv, BackendInv, TypeOK
<1>1. BackendInv' /\ Onward(record, record') /\ record' \in Record
  BY <1>0, RecordStep DEF BackendInv, TypeOK
<1>2. /\ SameClaims(record, record') /\ NoNewRun(record, record')
      /\ NoneAbandoned(record, record') /\ Tabled(record, record')
  BY DEF Quiet
<1>3. RunsOwned
  BY <1>2, NoNewRunOwned
<1>4. \A p \in Operations : Len(record'.attempts[p]) >= Len(record.attempts[p])
  BY <1>0, <1>2, RecordFields DEF NoNewRun
<1>5. \A d \in ClaimIDs, p \in Operations :
        NotRunning(record, p, tokenOf(d)) => NotRunning(record', p, tokenOf(d))
  BY <1>2, NotRunningStays
<1>6. Worked'
  BY <1>0, <1>1, <1>2, WorkedQuiet
<1>7. effect'[c][op] = e
  BY <1>0, OneEffectMoves
<1>8. GrantOf(c, op)'
  BY <1>7 DEF GrantOf
<1>9. executions' \in [Operations -> [1..MaxAttempts -> Nat]]
  BY <1>0 DEF Types
<1> QED BY <1>2, <1>3, <1>4, <1>5, <1>6, <1>8, <1>9, EffectStep

LEMMA beginEffectStep ==
  ASSUME IInv, NEW c \in ClaimIDs, NEW op \in Operations, beginEffect(c, op)
  PROVE  IInv'
<1> DEFINE state == IF call[c].stop # "none" \/ call[c].cancelled THEN "infra" ELSE "begun"
           e == [NoEffect EXCEPT !.state = state]
<1>0. /\ call[c].pc = "batch" /\ op \in Plan[call[c].pos] /\ effect[c][op].state = "idle"
      /\ setEffect(c, op, e) /\ record' = record /\ call' = call /\ runtime' = runtime
      /\ suspender' = suspender /\ executions' = executions /\ retried' = retried
  BY DEF beginEffect, at
<1>1. Types /\ EffectOf(c, op) /\ NotRunning(record, op, tokenOf(c)) /\ state \in {"infra", "begun"}
  BY <1>0 DEF IInv, Effects, EffectOf, Busy
<1> HIDE DEF state
<1>2. e \in EffectState /\ e.state = state
  BY <1>1 DEF NoEffect, EffectState
<1> HIDE DEF e
<1>3. effect'[c][op] = e
  BY <1>0, <1>1, <1>2, OneEffectMoves
<1>4. EffectOf(c, op)'
  BY <1>0, <1>1, <1>2, <1>3 DEF EffectOf, tokenOf
<1>5. Quiet(record, record') /\ NoResult(record, record') /\ SameCheckpoint(record, record')
  BY <1>0, QuietSame
<1> QED BY <1>0, <1>1, <1>2, <1>4, <1>5, QuietEffect

\* One more of what is counted.
LEMMA Counted ==
  ASSUME NEW g \in [1..MaxAttempts -> Nat], NEW n \in Nat
  PROVE  /\ [g EXCEPT ![n] = @ + 1] \in [1..MaxAttempts -> Nat]
         /\ \A m \in 1..MaxAttempts :
              [g EXCEPT ![n] = @ + 1][m] = IF m = n THEN g[m] + 1 ELSE g[m]
<1>1. CASE n \in 1..MaxAttempts
  BY <1>1
<1>2. CASE n \notin 1..MaxAttempts
  <2>1. \A m \in 1..MaxAttempts : m # n /\ g[m] \in Nat
    BY <1>2
  <2> QED BY <2>1
<1> QED BY <1>1, <1>2

\* An effect that was granted an attempt runs it: for the first time.
LEMMA RunEffect ==
  ASSUME IInv, NEW c \in ClaimIDs, NEW op \in Operations, NEW e \in EffectState,
         setEffect(c, op, e), effect[c][op].state = "granted",
         ran(op, effect[c][op].number),
         record' = record, call' = call, runtime' = runtime, suspender' = suspender,
         retried' = retried, e.state \notin {"granted", "idle", "begun", "ok", "failed"},
         e.state = "produced" => e.outcome # None
  PROVE  IInv'
<1> DEFINE n == effect[c][op].number
<1>0. /\ BackendInv /\ Types /\ Worked /\ Effects /\ record \in Record
      /\ EffectOf(c, op) /\ GrantOf(c, op)
  BY DEF IInv, BackendInv, TypeOK, Effects
<1>1. /\ n \in 1..Len(record.attempts[op])
      /\ n <= MaxAttempts => executions[op][n] = 0
      /\ \A d \in ClaimIDs :
           effect[d][op].state = "granted" /\ effect[d][op].number = n => d = c
      /\ call[c].pc = "batch" /\ op \in Plan[call[c].pos]
  BY <1>0 DEF GrantOf, EffectOf
<1>2. Len(record.attempts[op]) \in Nat /\ n \in Nat
  BY <1>0, <1>1, RecordFields
<1> HIDE DEF n
<1>3. executions' = [executions EXCEPT ![op][n] = @ + 1]
  BY DEF ran, n
<1>4. /\ executions \in [Operations -> [1..MaxAttempts -> Nat]]
      /\ executions' \in [Operations -> [1..MaxAttempts -> Nat]]
      /\ \A p \in Operations : \A m \in 1..MaxAttempts :
           /\ p # op \/ m # n => executions'[p][m] = executions[p][m]
           /\ p = op /\ m = n => executions'[p][m] = executions[p][m] + 1
  <2> DEFINE f == [executions[op] EXCEPT ![n] = @ + 1]
  <2>1. executions \in [Operations -> [1..MaxAttempts -> Nat]]
    BY <1>0 DEF Types
  <2>2. executions[op] \in [1..MaxAttempts -> Nat]
    BY <2>1
  <2>3. /\ f \in [1..MaxAttempts -> Nat]
        /\ \A m \in 1..MaxAttempts : f[m] = IF m = n THEN executions[op][m] + 1
                                                      ELSE executions[op][m]
    BY <1>2, <2>2, Counted
  <2>4. executions' = [executions EXCEPT ![op] = f]
    BY <1>3
  <2> HIDE DEF f
  <2> QED BY <2>1, <2>3, <2>4
<1>5. effect'[c][op] = e
  BY <1>0, OneEffectMoves
<1>6. EffectOf(c, op)' /\ GrantOf(c, op)'
  BY <1>1, <1>5 DEF EffectOf, GrantOf
<1>7. Quiet(record, record') /\ NoResult(record, record') /\ SameCheckpoint(record, record')
  BY QuietSame
<1>8. SameClaims(record, record') /\ Tabled(record, record') /\ RunsOwned
  BY <1>7, NoNewRunOwned DEF Quiet
<1>9. \A p \in Operations : Len(record'.attempts[p]) >= Len(record.attempts[p])
  BY <1>0, RecordFields
<1>10. ASSUME NEW d \in ClaimIDs, NEW p \in Operations, d # c \/ p # op,
              effect[d][p].state = "granted", effect[d][p].number <= MaxAttempts
       PROVE  executions'[p][effect[d][p].number] = executions[p][effect[d][p].number]
  <2>1. effect[d][p].number \in 1..Len(record.attempts[p]) /\ Len(record.attempts[p]) \in Nat
    BY <1>0, <1>10, RecordFields DEF Effects, GrantOf
  <2>2. effect[d][p].number \in 1..MaxAttempts
    BY <1>10, <2>1, BoundAssumption
  <2>3. p # op \/ effect[d][p].number # n
    BY <1>1, <1>10
  <2> QED BY <1>4, <2>2, <2>3
<1>11. Worked'
  <2>1. ASSUME NEW p \in Operations, NEW m \in 1..MaxAttempts
        PROVE  /\ executions'[p][m] \in {0, 1}
               /\ executions'[p][m] = 1 => m <= Len(record'.attempts[p])
    <3>1. /\ executions[p][m] \in {0, 1}
          /\ executions[p][m] = 1 => m <= Len(record.attempts[p])
      BY <1>0 DEF Worked
    <3>2. CASE p # op \/ m # n
      BY <1>4, <3>1, <3>2
    <3>3. CASE p = op /\ m = n
      <4>1. executions[p][m] = 0 /\ executions'[p][m] = 1
        BY <1>1, <1>2, <1>4, <3>3, BoundAssumption
      <4> QED BY <1>1, <1>2, <3>3, <4>1
    <3> QED BY <3>2, <3>3
  <2> QED BY <1>0, <2>1 DEF Worked
<1> QED BY <1>4, <1>6, <1>7, <1>8, <1>9, <1>10, <1>11, EffectStep

LEMMA EffectReturnsStep ==
  ASSUME IInv, NEW c \in ClaimIDs, NEW op \in Operations, NEW payload \in Payloads,
         EffectReturns(c, op, payload)
  PROVE  IInv'
<1>0. Types /\ effect[c][op] \in EffectState
  BY DEF IInv, Types
<1>1. PICK failure \in Failures \cup {None} :
        setEffect(c, op, [effect[c][op] EXCEPT !.state = "produced",
                            !.outcome = [payload |-> payload, failure |-> failure]])
  BY DEF EffectReturns
<1> DEFINE o == [payload |-> payload, failure |-> failure]
           e == [effect[c][op] EXCEPT !.state = "produced", !.outcome = o]
<1>2. o \in Outcomes /\ o # None /\ setEffect(c, op, e)
  BY <1>1, EngineAssumption DEF Outcomes
<1> HIDE DEF o
<1>3. e \in EffectState /\ e.state = "produced" /\ e.outcome = o
  BY <1>0, <1>2, EffectFields DEF EffectState
<1>4. /\ effect[c][op].state = "granted" /\ ran(op, effect[c][op].number)
      /\ record' = record /\ call' = call /\ runtime' = runtime /\ suspender' = suspender
      /\ retried' = retried
  BY DEF EffectReturns
<1> HIDE DEF e
<1> QED BY <1>2, <1>3, <1>4, RunEffect

LEMMA EffectAmbiguousStep ==
  ASSUME IInv, NEW c \in ClaimIDs, NEW op \in Operations, EffectAmbiguous(c, op)
  PROVE  IInv'
<1> DEFINE e == [effect[c][op] EXCEPT !.state = "ambiguous"]
<1>0. Types /\ effect[c][op] \in EffectState
  BY DEF IInv, Types
<1>1. e \in EffectState /\ e.state = "ambiguous"
  BY <1>0, EffectFields DEF EffectState
<1>2. /\ effect[c][op].state = "granted" /\ ran(op, effect[c][op].number) /\ setEffect(c, op, e)
      /\ record' = record /\ call' = call /\ runtime' = runtime /\ suspender' = suspender
      /\ retried' = retried
  BY DEF EffectAmbiguous
<1> HIDE DEF e
<1> QED BY <1>1, <1>2, RunEffect

LEMMA EffectNotStartedStep ==
  ASSUME IInv, NEW c \in ClaimIDs, NEW op \in Operations, NEW payload \in Payloads,
         NEW failure \in Failures, EffectNotStarted(c, op, payload, failure)
  PROVE  IInv'
<1> DEFINE o == [payload |-> payload, failure |-> failure]
           e == [effect[c][op] EXCEPT !.state = "produced", !.outcome = o]
<1>0. Types /\ effect[c][op] \in EffectState /\ EffectOf(c, op)
  BY DEF IInv, Types, Effects
<1>1. o \in Outcomes /\ o # None /\ setEffect(c, op, e)
  BY EngineAssumption DEF EffectNotStarted, Outcomes
<1> HIDE DEF o
<1>2. e \in EffectState /\ e.state = "produced" /\ e.outcome = o
  BY <1>0, <1>1, EffectFields DEF EffectState
<1>3. /\ effect[c][op].state = "granted"
      /\ record' = record /\ call' = call /\ runtime' = runtime /\ suspender' = suspender
      /\ executions' = executions /\ retried' = retried
  BY DEF EffectNotStarted
<1> HIDE DEF e
<1>4. effect'[c][op] = e
  BY <1>0, <1>1, <1>2, OneEffectMoves
<1>5. EffectOf(c, op)'
  BY <1>0, <1>1, <1>2, <1>3, <1>4 DEF EffectOf
<1> QED BY <1>1, <1>2, <1>3, <1>5, QuietSame, QuietEffect

\* What is delivered has been persisted.
LEMMA finishAttemptStep ==
  ASSUME IInv, NEW c \in ClaimIDs, NEW op \in Operations, NEW fate, finishAttempt(c, op, fate)
  PROVE  IInv'
<1> DEFINE o == effect[c][op].outcome
           q == settleRequest(c, op, o.payload, o.failure)
           stored == fate = "answered" /\ FinishAttemptVerdict(record, q) \in {"Finish", "Replay"}
           state == IF ~stored THEN "infra" ELSE IF o.failure = None THEN "ok" ELSE "failed"
           e == [effect[c][op] EXCEPT !.state = state]
<1>0. BackendInv /\ Types /\ effect[c][op] \in EffectState /\ EffectOf(c, op)
  BY DEF IInv, Types, Effects
<1>1. /\ effect[c][op].state = "produced" /\ setEffect(c, op, e)
      /\ record' = sent(fate, FinishAttempt(record, q))
      /\ call' = call /\ runtime' = runtime /\ suspender' = suspender
      /\ executions' = executions /\ retried' = retried
  BY DEF finishAttempt
<1>2. o \in Outcomes /\ o # None /\ call[c].pc = "batch" /\ op \in Plan[call[c].pos]
  BY <1>0, <1>1, EffectFields DEF EffectOf
<1>3. /\ o.payload \in Payloads \cup {None} /\ o.failure \in Failures \cup {None}
      /\ o = [payload |-> o.payload, failure |-> o.failure]
  BY <1>2 DEF Outcomes
<1>4. /\ q \in SettleCalls /\ q.operation = op
      /\ q.payload = o.payload /\ q.failure = o.failure
  BY <1>0, <1>3, SettleRequestType DEF settleRequest
<1>5. state \in {"infra", "ok", "failed"} /\ (state = "ok" => o.failure = None)
  OBVIOUS
<1>6. state # "infra" => outcomeIn(record', op) = o
  <2> SUFFICES ASSUME stored PROVE outcomeIn(record', op) = o
    OBVIOUS
  <2> HIDE DEF q, o
  <2>1. record' = FinishAttempt(record, q)
    BY <1>1 DEF sent
  <2>2. outcomeIn(record', op) = [payload |-> q.payload, failure |-> q.failure]
    BY <1>0, <1>4, <2>1, FinishAttemptIsQuiet
  <2> QED BY <1>3, <1>4, <2>2
<1> HIDE DEF q, state
<1>7. /\ [Calls]_record /\ Quiet(record, record') /\ NoResult(record, record')
      /\ SameCheckpoint(record, record')
  BY <1>0, <1>1, <1>4, FinishAttemptCall
<1>8. e \in EffectState /\ e.state = state /\ e.outcome = o
  BY <1>0, <1>5, EffectFields DEF EffectState
<1> HIDE DEF e
<1>9. effect'[c][op] = e
  BY <1>0, <1>1, <1>8, OneEffectMoves
<1>10. EffectOf(c, op)'
  BY <1>1, <1>2, <1>5, <1>6, <1>8, <1>9 DEF EffectOf
<1> QED BY <1>1, <1>5, <1>7, <1>8, <1>10, QuietEffect

LEMMA markAttemptUnknownStep ==
  ASSUME IInv, NEW c \in ClaimIDs, NEW op \in Operations, NEW failure \in Failures, NEW fate,
         markAttemptUnknown(c, op, failure, fate)
  PROVE  IInv'
<1> DEFINE q == settleRequest(c, op, None, failure)
<1>0. BackendInv /\ Types /\ effect[c][op] \in EffectState /\ EffectOf(c, op)
  BY DEF IInv, Types, Effects
<1>1. /\ effect[c][op].state = "ambiguous"
      /\ record' = sent(fate, MarkAttemptUnknown(record, q))
      /\ call' = call /\ runtime' = runtime /\ suspender' = suspender
      /\ executions' = executions /\ retried' = retried
  BY DEF markAttemptUnknown
<1>2. PICK state \in {"infra", "aborted"} :
        setEffect(c, op, [effect[c][op] EXCEPT !.state = state])
  BY DEF markAttemptUnknown
<1> DEFINE e == [effect[c][op] EXCEPT !.state = state]
<1>3. setEffect(c, op, e)
  BY <1>2
<1>4. q \in SettleCalls
  BY <1>0, SettleRequestType
<1> HIDE DEF q
<1>5. /\ [Calls]_record /\ Quiet(record, record') /\ NoResult(record, record')
      /\ SameCheckpoint(record, record')
  BY <1>0, <1>1, <1>4, MarkAttemptUnknownCall
<1>6. e \in EffectState /\ e.state = state
  BY <1>0, EffectFields DEF EffectState
<1> HIDE DEF e
<1>7. effect'[c][op] = e
  BY <1>0, <1>3, <1>6, OneEffectMoves
<1>8. EffectOf(c, op)'
  BY <1>0, <1>1, <1>6, <1>7 DEF EffectOf
<1> QED BY <1>1, <1>3, <1>5, <1>6, <1>8, QuietEffect

\* An effect is granted a new attempt, which is the only one that runs.
LEMMA GrantStep ==
  ASSUME IInv, NEW c \in ClaimIDs, NEW op \in Operations, NEW q \in AttemptCalls,
         q.lease = call[c].lease, q.operation = op,
         StartAttemptVerdict(record, q) \in {"First", "Again"},
         record' = StartAttempt(record, q), [Calls]_record,
         NEW e \in EffectState, setEffect(c, op, e), effect[c][op].state = "begun",
         e.state = "granted" => e.number = latest(record', op).number,
         e.state \in {"granted", "infra"},
         call' = call, runtime' = runtime, suspender' = suspender, executions' = executions,
         retried' = retried
  PROVE  IInv'
<1> DEFINE old == record.attempts[op]
           a == newAttempt(q, Len(old) + 1)
<1>0. /\ BackendInv /\ NothingSaved /\ Types /\ Tokens /\ Effects /\ Worked /\ record \in Record
      /\ EffectOf(c, op)
  BY DEF IInv, BackendInv, TypeOK, Effects
<1>1. /\ old \in Seq(Attempt)
      /\ SameClaims(record, record') /\ Tabled(record, record')
      /\ NoResult(record, record') /\ SameCheckpoint(record, record')
      /\ \A p \in Operations : p # op => record'.attempts[p] = record.attempts[p]
      /\ record'.attempts[op] = Append(old, a)
      /\ latest(record', op) = a
  BY <1>0, StartAttemptOpens
<1>2. a.status = "running" /\ a.lease = call[c].lease /\ a.number = Len(old) + 1
  BY DEF newAttempt
<1> HIDE DEF a
<1>3. /\ Len(old) \in Nat /\ DOMAIN old = 1..Len(old)
      /\ Len(record'.attempts[op]) = Len(old) + 1
      /\ DOMAIN record'.attempts[op] = 1..(Len(old) + 1)
      /\ record'.attempts[op][Len(old) + 1] = a
      /\ \A i \in DOMAIN old : record'.attempts[op][i] = old[i]
  BY <1>1
<1>4. BackendInv' /\ record' \in Record
  BY <1>0, RecordStep DEF BackendInv, TypeOK
<1>5. RunsOwned
  <2> SUFFICES ASSUME NEW p \in Operations, NEW i \in DOMAIN record'.attempts[p]
               PROVE  \/ /\ i \in DOMAIN record.attempts[p]
                         /\ record'.attempts[p][i] = record.attempts[p][i]
                      \/ record'.attempts[p][i].lease.token = tokenOf(c)
    BY DEF RunsOwned
  <2>1. CASE p # op
    BY <1>1, <2>1
  <2>2. CASE p = op
    <3>1. i \in DOMAIN old \/ i = Len(old) + 1
      BY <1>3, <2>2
    <3> QED BY <1>2, <1>3, <2>2, <3>1 DEF tokenOf
  <2> QED BY <2>1, <2>2
<1>6. \A p \in Operations : Len(record'.attempts[p]) >= Len(record.attempts[p])
  <2> TAKE p \in Operations
  <2>1. Len(record.attempts[p]) \in Nat
    BY <1>0, RecordFields
  <2> QED BY <1>1, <1>3, <2>1
<1>7. call[c].pc = "batch" /\ op \in Plan[call[c].pos] /\ tokenOf(c) # 0
  BY <1>0 DEF EffectOf, Tokens, Busy
<1>8. ASSUME NEW d \in ClaimIDs, NEW p \in Operations, d # c \/ p # op,
             NotRunning(record, p, tokenOf(d))
      PROVE  NotRunning(record', p, tokenOf(d))
  <2>1. CASE p # op
    BY <1>1, <1>8, <2>1 DEF NotRunning
  <2>2. CASE p = op
    <3>1. tokenOf(d) # tokenOf(c)
      BY <1>0, <1>7, <1>8, <2>2 DEF Tokens
    <3> SUFFICES ASSUME NEW i \in DOMAIN record'.attempts[op],
                        record'.attempts[op][i].status = "running"
                 PROVE  record'.attempts[op][i].lease.token # tokenOf(d)
      BY <2>2 DEF NotRunning
    <3>2. CASE i \in DOMAIN old
      BY <1>3, <1>8, <2>2, <3>2 DEF NotRunning
    <3>3. CASE i = Len(old) + 1
      BY <1>2, <1>3, <3>1, <3>3 DEF tokenOf
    <3> QED BY <1>3, <3>2, <3>3
  <2> QED BY <2>1, <2>2
<1>9. effect'[c][op] = e
  BY <1>0, OneEffectMoves
<1>10. EffectOf(c, op)'
  BY <1>7, <1>9 DEF EffectOf
<1>11. ASSUME NEW d \in ClaimIDs, effect[d][op].state = "granted"
       PROVE  effect[d][op].number # Len(old) + 1
  BY <1>0, <1>3, <1>11 DEF Effects, GrantOf
<1>12. ASSUME e.state = "granted" PROVE e.number = Len(old) + 1
  BY <1>1, <1>2, <1>12
<1>13. GrantOf(c, op)'
  <2> SUFFICES ASSUME e.state = "granted"
               PROVE  /\ e.number \in 1..Len(record'.attempts[op])
                      /\ e.number <= MaxAttempts => executions[op][e.number] = 0
                      /\ \A d \in ClaimIDs :
                           effect'[d][op].state = "granted" /\ effect'[d][op].number = e.number
                             => d = c
    BY <1>9 DEF GrantOf
  <2>1. e.number <= MaxAttempts => executions[op][e.number] = 0
    BY <1>0, <1>3, <1>12, BoundAssumption DEF Worked
  <2>2. \A d \in ClaimIDs : d # c => effect'[d][op] = effect[d][op]
    BY <1>0, OneEffectMoves
  <2> QED BY <1>3, <1>11, <1>12, <2>1, <2>2
<1>14. Worked'
  <2>1. ASSUME NEW p \in Operations, NEW i \in DOMAIN record'.attempts[p],
               record'.attempts[p][i].status = "abandoned"
        PROVE  i \in DOMAIN record.attempts[p] /\ record.attempts[p][i].status = "abandoned"
    <3>1. CASE p # op
      BY <1>1, <2>1, <3>1
    <3>2. CASE p = op
      <4>1. i \in DOMAIN old \/ i = Len(old) + 1
        BY <1>3, <3>2
      <4> QED BY <1>2, <1>3, <2>1, <3>2, <4>1
    <3> QED BY <3>1, <3>2
  <2> QED BY <1>0, <1>4, <1>6, <2>1, WorkedStays
<1>15. executions' \in [Operations -> [1..MaxAttempts -> Nat]]
  BY <1>0 DEF Types
<1> QED BY <1>1, <1>5, <1>6, <1>8, <1>10, <1>11, <1>12, <1>13, <1>14, <1>15, EffectStep

\* Nobody is granted an attempt that may have run: an attempt of this lease
\* would have been started by this very effect.
LEMMA NeverExecute ==
  ASSUME BackendInv, NEW q \in AttemptCalls, NotRunning(record, q.operation, q.lease.token)
  PROVE  StartAttemptVerdict(record, q) # "Execute"
<1> SUFFICES ASSUME StartAttemptVerdict(record, q) = "Execute" PROVE FALSE
  OBVIOUS
<1> DEFINE op == q.operation
<1>0. record \in Record /\ op \in Operations
  BY DEF BackendInv, TypeOK, AttemptCalls
<1>1. /\ record.attempts[op] # <<>> /\ ~settled(latest(record, op))
      /\ latest(record, op).status \notin {"unknown", "abandoned"}
      /\ latest(record, op).lease = q.lease
  BY DEF StartAttemptVerdict
<1>2. /\ latest(record, op) \in Attempt /\ Len(record.attempts[op]) \in DOMAIN record.attempts[op]
  BY <1>0, <1>1, LatestType
<1>3. latest(record, op).status = "running"
  BY <1>1, <1>2, AttemptFields DEF AttemptStatus, settled
<1> QED BY <1>1, <1>2, <1>3 DEF NotRunning, latest

LEMMA StartEffectStep ==
  ASSUME IInv, NEW c \in ClaimIDs, NEW op \in Operations, NEW input \in Inputs, NEW fate,
         StartEffect(c, op, input, fate)
  PROVE  IInv'
<1> DEFINE q == [lease |-> call[c].lease, operation |-> op, input |-> input]
           verdict == StartAttemptVerdict(record, q)
           accepted == verdict \notin {"NotFound", "LeaseLost", "Conflict"}
           response == startAttemptResponse(record, q)
           infra == [NoEffect EXCEPT !.state = "infra"]
           granted == [NoEffect EXCEPT !.state = "granted", !.number = response.attempt.number]
           e == IF fate # "answered" \/ ~accepted THEN infra
                ELSE CASE response.decision = "execute" -> granted
                       [] response.decision = "replay" -> replayed(response.attempt)
                       [] response.decision = "reconcile" -> infra
<1>0. BackendInv /\ NothingSaved /\ Types /\ EffectOf(c, op) /\ record \in Record
  BY DEF IInv, BackendInv, TypeOK, Effects
<1>1. /\ effect[c][op].state = "begun" /\ setEffect(c, op, e)
      /\ record' = sent(fate, StartAttempt(record, q))
      /\ call' = call /\ runtime' = runtime /\ suspender' = suspender
      /\ executions' = executions /\ retried' = retried
  BY DEF StartEffect
<1>2. /\ q.lease = call[c].lease /\ q.operation = op
      /\ [Calls]_record /\ q \in AttemptCalls
  BY <1>0, <1>1, StartAttemptCall
<1> HIDE DEF q
<1>3. call[c].pc = "batch" /\ op \in Plan[call[c].pos] /\ NotRunning(record, op, tokenOf(c))
  BY <1>0, <1>1 DEF EffectOf, Busy
<1>4. verdict # "Execute"
  BY <1>0, <1>2, <1>3, NeverExecute DEF tokenOf
<1>5. infra \in EffectState /\ infra.state = "infra"
  BY DEF NoEffect, EffectState
<1> HIDE DEF infra
<1>6. CASE verdict \in {"First", "Again"} /\ fate # "unsent"
  <2>1. record' = StartAttempt(record, q)
    BY <1>1, <1>6 DEF sent
  <2>2. /\ response.decision = "execute" /\ response.attempt = latest(record', op)
        /\ response.attempt.number = Len(record.attempts[op]) + 1
        /\ response.attempt.number \in Nat
    <3>1. response.decision = "execute" /\ response.attempt = latest(record', op)
      BY <1>2, <1>6, <2>1 DEF startAttemptResponse
    <3>2. /\ latest(record', op) = newAttempt(q, Len(record.attempts[op]) + 1)
          /\ Len(record.attempts[op]) \in Nat
      BY <1>0, <1>2, <1>6, <2>1, StartAttemptOpens
    <3> QED BY <3>1, <3>2 DEF newAttempt
  <2> HIDE DEF response
  <2>3. /\ granted \in EffectState /\ granted.state = "granted"
        /\ granted.number = response.attempt.number
    BY <2>2 DEF NoEffect, EffectState
  <2>4. e = infra \/ e = granted
    BY <2>2
  <2> HIDE DEF e, granted
  <2>5. /\ e \in EffectState /\ e.state \in {"granted", "infra"}
        /\ e.state = "granted" => e.number = latest(record', op).number
    BY <1>5, <2>2, <2>3, <2>4
  <2> HIDE DEF verdict
  <2> QED BY <1>1, <1>2, <1>6, <2>1, <2>5, GrantStep DEF verdict
<1>7. CASE ~(verdict \in {"First", "Again"} /\ fate # "unsent")
  <2>1. record' = record
    BY <1>0, <1>1, <1>2, <1>7, StartAttemptOtherwise DEF sent
  <2>2. CASE fate = "answered" /\ verdict = "Replay"
    <3> DEFINE a == latest(record, op)
    <3>1. record.attempts[op] # <<>> /\ settled(a)
      BY <1>2, <2>2 DEF StartAttemptVerdict
    <3>2. /\ a \in Attempt /\ outcomeIn(record, op) = outcomeOf(a) /\ a.number \in Nat
          /\ outcomeOf(a) \in Outcomes /\ outcomeOf(a).failure = a.failure
      <4>1. a \in Attempt
        BY <1>0, <3>1, LatestType
      <4> QED BY <3>1, <4>1 DEF outcomeIn, outcomeOf, Outcomes, Attempt
    <3>3. StartAttempt(record, q) = record
      BY <1>0, <1>2, <2>2, StartAttemptOtherwise
    <3>4. response.decision = "replay" /\ response.attempt = a
      BY <1>2, <2>2, <3>3 DEF startAttemptResponse
    <3>5. e = replayed(a)
      BY <2>2, <3>4
    <3> HIDE DEF e, a
    <3>6. /\ e \in EffectState /\ e.state \in {"unreplayable", "ok", "failed"}
          /\ e.outcome = outcomeOf(a) /\ (e.state = "ok" => a.failure = None)
      BY <3>2, <3>5 DEF replayed, EffectState
    <3>7. effect'[c][op] = e
      BY <1>0, <1>1, <3>6, OneEffectMoves
    <3>8. outcomeOf(a) # None
      BY <3>2, EngineAssumption
    <3>9. EffectOf(c, op)'
      BY <1>1, <1>3, <2>1, <3>2, <3>6, <3>7, <3>8 DEF EffectOf
    <3> QED BY <1>1, <1>2, <2>1, <3>6, <3>9, QuietSame, QuietEffect
  <2>3. CASE ~(fate = "answered" /\ verdict = "Replay")
    <3>1. e = infra
      <4>1. ASSUME fate = "answered", accepted PROVE response.decision = "reconcile"
        <5>1. verdict \notin {"First", "Again", "Execute", "Replay"}
          BY <1>4, <1>7, <2>3, <4>1
        <5> QED BY <5>1 DEF startAttemptResponse
      <4> QED BY <4>1
    <3> HIDE DEF e
    <3>2. effect'[c][op] = infra
      BY <1>0, <1>1, <1>5, <3>1, OneEffectMoves
    <3>3. EffectOf(c, op)'
      BY <1>1, <1>3, <1>5, <3>2 DEF EffectOf
    <3> QED BY <1>1, <1>2, <1>5, <2>1, <3>1, <3>3, QuietSame, QuietEffect
  <2> QED BY <2>2, <2>3
<1> QED BY <1>6, <1>7

-----------------------------------------------------------------------------
(* The end of a batch.                                                     *)

\* An operation with an outcome has no attempt in flight.
LEMMA OutcomeNotRunning ==
  ASSUME BackendInv, NEW op \in Operations, outcomeIn(record, op) # None, NEW t
  PROVE  NotRunning(record, op, t)
<1>1. record.attempts[op] # <<>> /\ settled(latest(record, op)) /\ record \in Record
  BY DEF outcomeIn, BackendInv, TypeOK
<1>2. /\ Len(record.attempts[op]) \in DOMAIN record.attempts[op]
      /\ latest(record, op) = record.attempts[op][Len(record.attempts[op])]
  BY <1>1, LatestType DEF latest
<1>3. \A j \in DOMAIN record.attempts[op] : ~uncertain(record.attempts[op][j])
  BY <1>1, <1>2, SettledIsLatest
<1> QED BY <1>3 DEF NotRunning, uncertain

LEMMA BatchReturnStep ==
  ASSUME IInv, NEW c \in ClaimIDs, BatchReturn(c)
  PROVE  IInv'
<1> DEFINE s == call[c]
           batch == effect[c]
           ops == Plan[s.pos]
           seen == [op \in Operations |->
                      IF op \in ops /\ batch[op].state \in {"ok", "failed"}
                      THEN batch[op].outcome ELSE s.seen[op]]
           infra == \E op \in ops : batch[op].state \in {"infra", "unreplayable"}
           failed == \E op \in ops : batch[op].state \in {"failed", "aborted"}
           pc == IF infra \/ failed THEN "complete" ELSE "boundary"
           pos == IF infra \/ failed THEN s.pos ELSE s.pos + 1
           t == [s EXCEPT !.seen = seen, !.infra = infra, !.failed = failed,
                          !.pc = pc, !.pos = pos]
<1>0. /\ BackendInv /\ NothingSaved /\ Types /\ Tokens /\ Claimed /\ Pending /\ Effects
      /\ Worked /\ Saved /\ Working /\ Ended /\ Sessions /\ record \in Record
      /\ s \in CallState /\ Works(record, s) /\ s.pc = "batch" /\ tokenOf(c) # 0
  BY DEF IInv, BackendInv, TypeOK, Types, Working, BatchReturn, at, Tokens, Busy
<1>1. /\ infra \/ failed \/ \A op \in ops : batch[op].state = "ok"
      /\ call' = [call EXCEPT ![c] = t]
      /\ effect' = [effect EXCEPT ![c] = [op \in Operations |-> NoEffect]]
      /\ record' = record /\ runtime' = runtime /\ suspender' = suspender
      /\ executions' = executions /\ retried' = retried
  BY DEF BatchReturn
<1>2. /\ s.pos \in 1..Len(Plan) /\ Succeeded(s.pos, s.seen) /\ Journaled(record, s.seen)
      /\ Len(Plan) \in Nat /\ ops \subseteq Operations
      /\ s.version <= record.execution.version
      /\ s.version = record.execution.version => Continues(s, record.execution.checkpoint)
  <2>1. s.pos \in 1..Len(Plan) /\ Len(Plan) \in Nat
    BY <1>0, PlanAssumption DEF Works, Busy
  <2>2. ops \subseteq Operations
    BY <2>1, PlanAssumption
  <2> QED BY <1>0, <2>1, <2>2 DEF Works, Busy
<1>3. \A op \in Operations :
        /\ batch[op] \in EffectState
        /\ batch[op].state # "idle" => op \in ops
        /\ batch[op].state \in {"idle", "begun"} => NotRunning(record, op, tokenOf(c))
        /\ batch[op].state \in {"ok", "failed"} =>
             batch[op].outcome # None /\ outcomeIn(record, op) = batch[op].outcome
        /\ batch[op].state = "ok" => batch[op].outcome.failure = None
  BY <1>0 DEF Effects, EffectOf, Busy, Types
<1>4. /\ seen \in Seen
      /\ \A op \in Operations :
           seen[op] = IF op \in ops /\ batch[op].state \in {"ok", "failed"}
                      THEN batch[op].outcome ELSE s.seen[op]
  BY <1>0, <1>3, CallFields, EffectFields DEF Seen
<1>5. /\ infra \in BOOLEAN /\ failed \in BOOLEAN /\ pc \in CallPCs /\ pos \in Nat
      /\ infra \/ failed => pc = "complete"
      /\ ~infra /\ ~failed => /\ pc = "boundary" /\ pos = s.pos + 1
                              /\ \A op \in ops : batch[op].state = "ok"
  BY <1>1, <1>2 DEF CallPCs
<1> HIDE DEF seen, infra, failed, pc, pos
<1>6. /\ t \in CallState /\ t.seen = seen /\ t.infra = infra /\ t.failed = failed
      /\ t.pc = pc /\ t.pos = pos /\ t.lease = s.lease /\ t.version = s.version
      /\ t.stop = s.stop /\ t.control = s.control
  BY <1>0, <1>4, <1>5, CallFields DEF CallState
<1> HIDE DEF t
<1>7. /\ call' \in [ClaimIDs -> CallState]
      /\ call'[c] = t
      /\ \A d \in ClaimIDs : d # c => call'[d] = call[d]
  BY <1>0, <1>1, <1>6, OneMoves
<1>8. /\ effect' \in [ClaimIDs -> [Operations -> EffectState]]
      /\ \A op \in Operations : effect'[c][op] = NoEffect
      /\ \A d \in ClaimIDs : d # c => effect'[d] = effect[d]
  BY <1>0, <1>1, NoEffectType DEF Types
<1>9. Types'
  BY <1>0, <1>1, <1>7, <1>8 DEF Types
<1>10. BackendInv' /\ NothingSaved' /\ Onward(record, record')
  BY <1>0, <1>1, RecordStep
<1>11. /\ SameClaims(record, record') /\ Tabled(record, record') /\ NoResult(record, record')
       /\ NoNewRun(record, record') /\ NoneAbandoned(record, record')
       /\ SameCheckpoint(record, record') /\ RunsOwned
  BY <1>1, QuietSame, NoNewRunOwned DEF Quiet
<1>12. /\ \A d \in ClaimIDs : call'[d].lease = call[d].lease /\ tokenOf(d)' = tokenOf(d)
       /\ pc \in {"complete", "boundary"}
  BY <1>5, <1>6, <1>7 DEF tokenOf
<1>13. Tokens'
  BY <1>0, <1>6, <1>7, <1>10, <1>12, TokensStay DEF Onward, Fresh, Busy
<1>14. Claimed'
  BY <1>0, <1>11, ClaimedStays
<1>15. Pending'
  <2>1. \A d \in ClaimIDs : (up(d) /\ call[d].pc \in Fresh)' => up(d) /\ call[d].pc \in Fresh
    BY <1>1, <1>6, <1>7, <1>12 DEF up, Fresh
  <2>2. runtime' \in [Owners -> RuntimeState]
    BY <1>9 DEF Types
  <2> QED BY <1>0, <1>1, <1>11, <1>12, <2>1, <2>2, RuntimeOfAssumption, PendingStays
<1>16. Effects'
  <2> SUFFICES ASSUME NEW d \in ClaimIDs, NEW op \in Operations
               PROVE  EffectOf(d, op)' /\ GrantOf(d, op)'
    BY DEF Effects
  <2>1. CASE d = c
    <3>1. call'[c].pc \in Busy => NotRunning(record', op, tokenOf(c)')
      <4> SUFFICES ASSUME pc = "boundary" PROVE NotRunning(record, op, tokenOf(c))
        BY <1>1, <1>6, <1>7, <1>12 DEF Busy
      <4>1. ~infra /\ ~failed
        BY <1>5
      <4>2. CASE op \in ops
        <5>1. outcomeIn(record, op) # None
          BY <1>3, <1>5, <4>1, <4>2
        <5> QED BY <1>0, <5>1, OutcomeNotRunning
      <4>3. CASE op \notin ops
        BY <1>3, <4>3
      <4> QED BY <4>2, <4>3
    <3> QED BY <1>8, <2>1, <3>1, NoEffectType DEF EffectOf, GrantOf
  <2>2. CASE d # c
    <3>1. /\ EffectOf(d, op) /\ GrantOf(d, op) /\ effect'[d][op] = effect[d][op]
          /\ call'[d] = call[d]
      BY <1>0, <1>7, <1>8, <2>2 DEF Effects
    <3>2. EffectOf(d, op)'
      BY <1>1, <1>10, <1>12, <3>1, EffectOfStays
    <3>3. \A b \in ClaimIDs :
            effect'[b][op].state = "granted" => effect'[b][op] = effect[b][op]
      BY <1>8, NoEffectType
    <3>4. Len(record'.attempts[op]) >= Len(record.attempts[op])
      BY <1>0, <1>1, RecordFields
    <3>5. GrantOf(d, op)'
      BY <1>0, <1>1, <3>1, <3>3, <3>4, GrantOfStays
    <3> QED BY <3>2, <3>5
  <2> QED BY <2>1, <2>2
<1>17. Worked'
  BY <1>0, <1>1, <1>11, WorkedQuiet
<1>18. Saved'
  BY <1>0, <1>1, <1>10, <1>11, SavedStays
<1>19. Works(record, t)
  <2>1. Journaled(record, seen)
    BY <1>2, <1>3, <1>4 DEF Journaled
  <2>2. ASSUME ~infra, ~failed
        PROVE  /\ pos \in 1..(Len(Plan) + 1) /\ Succeeded(pos, seen)
               /\ s.version = record.execution.version => Continues(t, record.execution.checkpoint)
    <3>1. pos = s.pos + 1 /\ \A op \in ops : batch[op].state = "ok"
      BY <1>5, <2>2
    <3>2. Succeeded(pos, seen)
      <4> SUFFICES ASSUME NEW i \in DOMAIN Plan, i < pos, NEW op \in Plan[i]
                   PROVE  seen[op] # None /\ seen[op].failure = None
        BY DEF Succeeded
      <4>1. i \in 1..Len(Plan) /\ Plan[i] \subseteq Operations /\ (i < s.pos \/ i = s.pos)
        BY <1>2, <3>1, PlanAssumption
      <4>2. CASE op \in ops
        BY <1>3, <1>4, <3>1, <4>1, <4>2
      <4>3. CASE op \notin ops
        <5>1. i < s.pos
          BY <4>1, <4>3
        <5> QED BY <1>2, <1>4, <4>1, <4>3, <5>1 DEF Succeeded
      <4> QED BY <4>2, <4>3
    <3>3. ASSUME s.version = record.execution.version
          PROVE  Continues(t, record.execution.checkpoint)
      <4> DEFINE k == record.execution.checkpoint
      <4> SUFFICES ASSUME k # NoCheckpoint
                   PROVE  /\ t.pos >= k.continuation.pos
                          /\ \A op \in Operations : k.continuation.seen[op] # None =>
                               t.seen[op] = k.continuation.seen[op]
        BY DEF Continues
      <4>1. /\ s.pos >= k.continuation.pos
            /\ \A op \in Operations : k.continuation.seen[op] # None =>
                 s.seen[op] = k.continuation.seen[op]
        BY <1>2, <3>3 DEF Continues
      <4>2. k.continuation.pos \in Nat
        BY <1>0, PlanAssumption DEF Saved, Sound, EngineContinuations
      <4>3. t.pos >= k.continuation.pos
        BY <1>2, <1>6, <3>1, <4>1, <4>2
      <4>4. ASSUME NEW op \in Operations, k.continuation.seen[op] # None
            PROVE  t.seen[op] = k.continuation.seen[op]
        <5>1. s.seen[op] = k.continuation.seen[op] /\ outcomeIn(record, op) = s.seen[op]
          BY <1>2, <4>1, <4>4 DEF Journaled
        <5> QED BY <1>3, <1>4, <1>6, <5>1
      <4> QED BY <4>3, <4>4
    <3> QED BY <1>2, <3>1, <3>2, <3>3
  <2> QED BY <1>2, <1>5, <1>6, <1>12, <2>1, <2>2 DEF Works, Busy, Fresh
<1>20. Working'
  BY <1>0, <1>1, <1>7, <1>19 DEF Working
<1>21. Ended'
  <2>1. \A d \in ClaimIDs : GaveBack(record', call'[d])
    BY <1>0, <1>1, <1>6, <1>7, <1>12 DEF Ended, GaveBack, Ending
  <2> QED BY <1>0, <1>10, <1>11, <2>1, EndedStays
<1>22. Sessions'
  <2>1. \A d \in ClaimIDs : SessionCalm(call[d], call'[d])
    BY <1>0, <1>6, <1>7, <1>12 DEF SessionCalm
  <2> QED BY <1>0, <1>1, <2>1, SessionsStay
<1> QED BY <1>9, <1>10, <1>13, <1>14, <1>15, <1>16, <1>17, <1>18, <1>20, <1>21, <1>22 DEF IInv

-----------------------------------------------------------------------------
(* Claiming.                                                               *)

\* The claim ID of a call is its own or the one its runtime has pending: nobody
\* has used what it was granted, and no other call will be made under it.
LEMMA ClaimIDFacts ==
  ASSUME IInv, NEW c \in ClaimIDs, NEW spec \in Specs, NEW ttl \in LeaseTTLs, NEW expired,
         at(c, "entered"), NEW id, id = claimID(c, expired)
  PROVE  /\ id \in ClaimIDs /\ runtimeOf[id] = runtimeOf[c]
         /\ record.claims[id].mode # "none" => Unused(record.claims[id].token)
         /\ \A d \in ClaimIDs : d # c /\ up(d) /\ call[d].pc \in Fresh => d # id
         /\ claimRequest(c, id, spec, ttl) \in ClaimRequests
         /\ call[c].mode = "start" => claimRequest(c, id, spec, ttl) \in StartRequests
         /\ call[c].mode = "resume" => claimRequest(c, id, spec, ttl) \in ResumeRequests
         /\ claimRequest(c, id, spec, ttl).claim = id
         /\ claimRequest(c, id, spec, ttl).mode = call[c].mode
         /\ call[c].mode \in {"start", "resume"}
<1> DEFINE r == runtime[runtimeOf[c]]
<1>0. /\ Types /\ Pending /\ runtimeOf[c] \in Owners /\ r \in RuntimeState
      /\ call[c] \in CallState /\ up(c) /\ call[c].pc \in Fresh
  BY RuntimeOfAssumption DEF IInv, Types, at, Fresh
<1>1. \/ id = c
      \/ id = r.pending /\ r.pending # None
  BY DEF claimID
<1>2. id \in ClaimIDs
  BY <1>0, <1>1, RuntimeFields
<1>3. /\ runtimeOf[id] = runtimeOf[c]
      /\ record.claims[id].mode # "none" => Unused(record.claims[id].token)
      /\ \A d \in ClaimIDs : d # c /\ up(d) /\ call[d].pc \in Fresh => d # id
  BY <1>0, <1>1 DEF Pending
<1>4. call[c].mode \in {"start", "resume"}
  BY <1>0, CallFields
<1>5. /\ call[c].mode = "start" => claimRequest(c, id, spec, ttl) \in StartRequests
      /\ call[c].mode = "resume" => claimRequest(c, id, spec, ttl) \in ResumeRequests
  BY <1>0, <1>2, <1>4 DEF claimRequest, StartRequests, ResumeRequests
<1>6. /\ claimRequest(c, id, spec, ttl).claim = id
      /\ claimRequest(c, id, spec, ttl).mode = call[c].mode
  BY DEF claimRequest
<1> QED BY <1>2, <1>3, <1>4, <1>5, <1>6 DEF ClaimRequests

\* Neither creating nor claiming saves a checkpoint.
LEMMA ClaimKeepsCheckpoint ==
  ASSUME record \in Record, NEW q
  PROVE  /\ record' = claim(record, q) => SameCheckpoint(record, record')
         /\ record' = create(record, q) => record'.execution.checkpoint = NoCheckpoint
<1>1. ASSUME record' = claim(record, q)
      PROVE  record'.execution.checkpoint = record.execution.checkpoint
  BY <1>1, RecordFields DEF claim, Record, Execution
<1>2. ASSUME record' = create(record, q)
      PROVE  record'.execution.checkpoint = NoCheckpoint
  BY <1>2 DEF create, Record, NoExecution
<1> QED BY <1>1, <1>2 DEF SameCheckpoint

\* What sending the request does to the record: a new claim, or nothing.
LEMMA ClaimRecorded ==
  ASSUME BackendInv, NothingSaved, NEW q \in ClaimRequests, q.mode \in {"start", "resume"},
         q.mode = "start" => q \in StartRequests,
         q.mode = "resume" => q \in ResumeRequests,
         NEW fate, record' = sent(fate, claimedRecord(q))
  PROVE  /\ [Calls]_record
         /\ \/ record' = record
            \/ /\ NewClaim(q) /\ SameCheckpoint(record, record')
               /\ verdictOf(q) \in {"Create", "Claim"}
         /\ claimedRecord(q) # record => verdictOf(q) \in {"Create", "Claim"}
         /\ verdictOf(q) \in {"Create", "Claim"} /\ fate # "unsent" =>
              NewClaim(q) /\ SameCheckpoint(record, record')
<1>0. record \in Record
  BY DEF BackendInv, TypeOK
<1>1. CASE verdictOf(q) = "Create"
  <2>1. /\ q.mode = "start" /\ ~exists(record)
    BY <1>1 DEF verdictOf, StartExecutionVerdict, ResumeExecutionVerdict, claimVerdict
  <2>2. claimedRecord(q) = create(record, q)
    BY <1>1, <2>1 DEF verdictOf, claimedRecord, StartExecution
  <2>3. ASSUME record' = create(record, q)
        PROVE  NewClaim(q) /\ SameCheckpoint(record, record') /\ Calls
    <3>1. NewClaim(q)
      BY <2>1, <2>3, CreateIsNew
    <3>2. record'.execution.checkpoint = NoCheckpoint
      BY <1>0, <2>3, ClaimKeepsCheckpoint
    <3>3. CallCreate(q)
      BY <1>1, <2>1, <2>2, <2>3 DEF CallCreate, verdictOf, claimedRecord
    <3> QED BY <2>1, <3>1, <3>2, <3>3 DEF SameCheckpoint, NothingSaved, Calls
  <2> QED BY <1>1, <2>2, <2>3 DEF sent
<1>2. CASE verdictOf(q) = "Claim"
  <2>1. claimedRecord(q) = claim(record, q)
    BY <1>2 DEF verdictOf, claimedRecord, StartExecution, ResumeExecution
  <2>2. ASSUME record' = claim(record, q)
        PROVE  NewClaim(q) /\ SameCheckpoint(record, record') /\ Calls
    <3>1. NewClaim(q)
      BY <2>2, ClaimIsNew
    <3>2. SameCheckpoint(record, record')
      BY <1>0, <2>2, ClaimKeepsCheckpoint
    <3>3. CASE q.mode = "start"
      <4>1. CallStart(q)
        BY <1>2, <2>1, <2>2, <3>3 DEF CallStart, verdictOf, claimedRecord
      <4> QED BY <3>1, <3>2, <3>3, <4>1 DEF Calls
    <3>4. CASE q.mode = "resume"
      <4>1. CallResume(q)
        BY <1>2, <2>1, <2>2, <3>4 DEF CallResume, verdictOf, claimedRecord
      <4> QED BY <3>1, <3>2, <3>4, <4>1 DEF Calls
    <3> QED BY <3>3, <3>4
  <2> QED BY <1>2, <2>1, <2>2 DEF sent
<1>3. CASE verdictOf(q) \notin {"Create", "Claim"}
  <2>1. claimedRecord(q) = record
    BY <1>3 DEF verdictOf, claimedRecord, StartExecution, ResumeExecution
  <2> QED BY <1>3, <2>1 DEF sent
<1> QED BY <1>1, <1>2, <1>3

\* What a claim leaves of the record, and whose lease it is.
ClaimLeaves(c, id) ==
  /\ Claimed' /\ Saved' /\ Worked' /\ Onward(record, record')
  /\ \A op \in Operations :
       /\ Len(record'.attempts[op]) = Len(record.attempts[op])
       /\ \A t : NotRunning(record, op, t) => NotRunning(record', op, t)
  /\ \A i \in ClaimIDs : i # id => record'.claims[i] = record.claims[i]
  /\ record'.suspends = record.suspends
  /\ record'.finishes = record.finishes
  /\ record'.releases = record.releases
  /\ \/ record'.execution.lease.token = record.execution.lease.token
     \/ record'.execution.lease.token > record.nextToken
  /\ record'.claims[id].mode # "none" =>
       /\ \A d \in ClaimIDs : tokenOf(d) # record'.claims[id].token
       /\ \A op \in Operations : NotRunning(record', op, record'.claims[id].token)
       /\ \A i \in ClaimIDs : i # id => record.claims[i].token # record'.claims[id].token

LEMMA ClaimLeavesAll ==
  ASSUME IInv, NEW c \in ClaimIDs, NEW id \in ClaimIDs,
         record.claims[id].mode # "none" => Unused(record.claims[id].token),
         NEW q, q.claim = id, [Calls]_record,
         record' = record \/ (NewClaim(q) /\ SameCheckpoint(record, record')),
         executions' = executions, retried' = retried
  PROVE  ClaimLeaves(c, id)
<1>0. /\ BackendInv /\ NothingSaved /\ Types /\ Tokens /\ Claimed /\ Worked /\ Saved
      /\ record \in Record /\ record.nextToken \in Nat
  BY RecordCounters DEF IInv
<1>1. BackendInv' /\ Onward(record, record') /\ record' \in Record
  BY <1>0, RecordStep DEF BackendInv, TypeOK
<1>2. CASE record' = record
  <2>1. Claimed' /\ Saved' /\ Worked'
    BY <1>0, <1>1, <1>2, QuietSame, ClaimedStays, SavedStays, WorkedQuiet DEF Quiet
  <2>2. record.claims[id].mode # "none" =>
          /\ \A d \in ClaimIDs : tokenOf(d) # record.claims[id].token
          /\ \A op \in Operations : NotRunning(record, op, record.claims[id].token)
          /\ \A i \in ClaimIDs : i # id => record.claims[i].token # record.claims[id].token
    BY <1>0 DEF Unused, Claimed
  <2> QED BY <1>1, <1>2, <2>1, <2>2 DEF ClaimLeaves
<1>3. CASE NewClaim(q) /\ SameCheckpoint(record, record')
  <2>1. /\ record'.nextToken = record.nextToken + 1
        /\ \A i \in ClaimIDs : i # id => record'.claims[i] = record.claims[i]
        /\ record'.claims[id].mode # "none"
        /\ record'.claims[id].token = record.nextToken + 1
        /\ record'.claims[id].result.execution = record'.execution
        /\ record'.execution.lease.token = record.nextToken + 1
        /\ record'.execution.status = "running"
        /\ \A op \in Operations :
             /\ DOMAIN record'.attempts[op] = DOMAIN record.attempts[op]
             /\ Len(record'.attempts[op]) = Len(record.attempts[op])
             /\ \A i \in DOMAIN record'.attempts[op] : record'.attempts[op][i].status # "running"
        /\ NoneAbandoned(record, record')
        /\ record'.suspends = record.suspends
        /\ record'.finishes = record.finishes
        /\ record'.releases = record.releases
    BY <1>3 DEF NewClaim
  <2>2. \A i \in ClaimIDs : record.claims[i].token \in Nat /\ record.claims[i].token <= record.nextToken
    BY <1>0, AnsweredType DEF Claimed
  <2>3. Claimed'
    BY <1>0, <2>1, <2>2 DEF Claimed
  <2>4. \A op \in Operations : \A t : NotRunning(record', op, t)
    BY <2>1 DEF NotRunning
  <2>5. \A d \in ClaimIDs : tokenOf(d) # record.nextToken + 1
    BY <1>0, CallFields DEF Tokens, Types, tokenOf
  <2>6. Worked'
    <3>1. NoNewRun(record, record')
      BY <2>1 DEF NoNewRun
    <3> QED BY <1>0, <1>1, <2>1, <3>1, WorkedQuiet
  <2>7. Saved'
    <3>1. Sound(record', record'.execution.checkpoint)
      BY <1>0, <1>1, <1>3, SoundStays DEF Saved, SameCheckpoint
    <3>2. ASSUME NEW i \in ClaimIDs PROVE Answered(record', i)
      <4>1. CASE i # id
        BY <1>0, <1>1, <2>1, <4>1, AnsweredStays DEF Saved
      <4>2. CASE i = id
        <5>1. record'.execution.version \in Nat
          BY <1>1, RecordFields, ExecutionFields
        <5> QED BY <2>1, <3>1, <4>2, <5>1 DEF Answered
      <4> QED BY <4>1, <4>2
    <3>3. Told(record')
      BY <2>1 DEF Told, terminal
    <3> QED BY <3>1, <3>2, <3>3 DEF Saved
  <2>8. record'.execution.lease.token > record.nextToken
    BY <1>0, <2>1
  <2>9. \A i \in ClaimIDs : record.claims[i].token # record.nextToken + 1
    BY <1>0, <2>2
  <2> QED BY <1>1, <2>1, <2>3, <2>4, <2>5, <2>6, <2>7, <2>8, <2>9 DEF ClaimLeaves
<1> QED BY <1>2, <1>3

\* Claiming and saying whether the spec agrees: the call works under the lease
\* it was granted, gives it back, or is told what happened.
ClaimAnswered(c, id, t) ==
  /\ t \in CallState /\ t.stop = call[c].stop /\ Works(record', t)
  /\ \/ t.pc = "finish" /\ t.lease = call[c].lease
     \/ /\ t.pc \in {"boundary", "releasing"}
        /\ record'.claims[id].mode # "none"
        /\ t.lease.token = record'.claims[id].token

LEMMA AnswerType ==
  ASSUME NEW r \in Record, NEW i \in ClaimIDs
  PROVE  r.claims[i].result.execution \in Execution
<1>1. r.claims[i] \in ClaimRecord
  BY RecordFields
<1>2. r.claims[i].result \in ClaimResult
  BY <1>1 DEF ClaimRecord
<1> QED BY <1>2 DEF ClaimResult

\* The Engine continues the checkpoint it was handed.
LEMMA HoldingWorks ==
  ASSUME NEW c \in ClaimIDs, call[c] \in CallState, ~call[c].failed, ~call[c].infra,
         NEW e \in Execution, record' \in Record,
         Sound(record', e.checkpoint), e.version <= record'.execution.version,
         e.version = record'.execution.version => e.checkpoint = record'.execution.checkpoint
  PROVE  /\ holding(c, e) \in CallState /\ holding(c, e).stop = call[c].stop
         /\ holding(c, e).pc = "boundary" /\ holding(c, e).lease.token = e.lease.token
         /\ Works(record', holding(c, e))
<1> DEFINE s == call[c]
           k == e.checkpoint
           pos == IF k = NoCheckpoint THEN 1 ELSE k.continuation.pos
           seen == IF k = NoCheckpoint THEN NothingSeen ELSE k.continuation.seen
           ref == leaseReference(e.lease)
           h == [s EXCEPT !.pc = "boundary", !.lease = ref, !.version = e.version,
                          !.sequence = k.sequence, !.pos = pos, !.seen = seen]
<1>1. holding(c, e) = h
  BY DEF holding
<1>2. /\ e.version \in Nat /\ e.lease \in Lease /\ k \in Checkpoint
  BY ExecutionFields
<1>3. ref \in LeaseRef /\ ref.token = e.lease.token /\ k.sequence \in Nat
  BY <1>2 DEF leaseReference, LeaseRef, Lease, Checkpoint
<1>4. /\ pos \in 1..(Len(Plan) + 1) /\ pos \in Nat /\ seen \in Seen
      /\ Journaled(record', seen) /\ Succeeded(pos, seen)
  <2>1. Len(Plan) \in Nat
    BY PlanAssumption
  <2>2. CASE k = NoCheckpoint
    <3>1. NothingSeen \in Seen /\ Journaled(record', NothingSeen)
      BY DEF NothingSeen, Seen, Journaled
    <3>2. Succeeded(1, NothingSeen)
      BY PlanAssumption DEF Succeeded
    <3> QED BY <2>1, <2>2, <3>1, <3>2
  <2>3. CASE k # NoCheckpoint
    BY <2>1, <2>3 DEF Sound, EngineContinuations
  <2> QED BY <2>2, <2>3
<1>5. k # NoCheckpoint => pos = k.continuation.pos /\ seen = k.continuation.seen
  OBVIOUS
<1> HIDE DEF pos, seen, ref, k
<1>6. /\ h \in CallState /\ h.pc = "boundary" /\ h.lease = ref /\ h.version = e.version
      /\ h.pos = pos /\ h.seen = seen /\ h.failed = s.failed /\ h.infra = s.infra
      /\ h.stop = s.stop
  BY <1>2, <1>3, <1>4, CallFields DEF CallState, CallPCs
<1> HIDE DEF h
<1>7. e.version = record'.execution.version => Continues(h, record'.execution.checkpoint)
  BY <1>4, <1>5, <1>6 DEF Continues, k
<1>8. Works(record', h)
  BY <1>4, <1>6, <1>7 DEF Works, Busy, Fresh
<1> QED BY <1>1, <1>3, <1>6, <1>8

LEMMA ClaimAnswers ==
  ASSUME IInv, NEW c \in ClaimIDs, call[c].pc = "entered",
         NEW id \in ClaimIDs, NEW q, q.claim = id, q.mode \in {"start", "resume"},
         NEW fate, NEW mismatch, record' = sent(fate, claimedRecord(q)),
         BackendInv', ClaimLeaves(c, id),
         verdictOf(q) \in {"Create", "Claim"} /\ fate # "unsent" => NewClaim(q),
         claimedRecord(q) # record => verdictOf(q) \in {"Create", "Claim"},
         NEW t, t = IF /\ fate = "answered"
                       /\ verdictOf(q) \in {"Create", "Claim", "Replay", "Terminal"}
                    THEN runClaimed(c, claimResponse(record, q), mismatch)
                    ELSE returning(call[c], "err")
  PROVE  ClaimAnswered(c, id, t)
<1> DEFINE s == call[c]
           response == claimResponse(record, q)
           e == response.execution
<1>0. /\ BackendInv /\ Types /\ Working /\ Saved /\ s \in CallState /\ Works(record, s)
      /\ record \in Record /\ record' \in Record /\ Onward(record, record')
      /\ Claimed' /\ Saved' /\ ~s.failed /\ ~s.infra
  BY DEF IInv, Types, Working, BackendInv, TypeOK, ClaimLeaves, Works, Fresh
<1>1. Journaled(record', s.seen)
  BY <1>0, JournaledStays DEF Works
<1>2. ASSUME NEW u, u \in CallState, u.pc = "finish", u.stop = s.stop, u.lease = s.lease,
             Journaled(record', u.seen)
      PROVE  ClaimAnswered(c, id, u)
  BY <1>2 DEF ClaimAnswered, Works, Busy, Fresh
<1>3. ASSUME NEW ret \in Rets
      PROVE  /\ returning(s, ret) \in CallState /\ returning(s, ret).pc = "finish"
             /\ returning(s, ret).stop = s.stop /\ returning(s, ret).lease = s.lease
             /\ returning(s, ret).seen = s.seen
  BY <1>0, ReturningMoves DEF Alike
<1>4. CASE ~(fate = "answered" /\ verdictOf(q) \in {"Create", "Claim", "Replay", "Terminal"})
  <2>1. t = returning(s, "err") /\ "err" \in Rets
    BY <1>4 DEF Rets
  <2> QED BY <1>1, <1>2, <1>3, <2>1
<1>5. CASE fate = "answered" /\ verdictOf(q) \in {"Create", "Claim", "Replay", "Terminal"}
  <2>0. t = runClaimed(c, response, mismatch) /\ record' = claimedRecord(q)
    BY <1>5 DEF sent
  <2>1. CASE terminal(record.execution.status)
    <3>1. e = record.execution
      BY <2>1 DEF claimResponse
    <3>2. /\ e.result \in EngineResults /\ Journaled(record', e.result.seen)
      BY <1>0, <2>1, <3>1, JournaledStays DEF Saved, Told
    <3>3. e.result.seen \in Seen /\ e.result.failed \in BOOLEAN
      BY <3>2 DEF EngineResults
    <3> DEFINE x == returning(s, "err")
               y == returning(s, "ok")
               u == [x EXCEPT !.control = "err"]
               v == [y EXCEPT !.seen = e.result.seen, !.failed = e.result.failed]
    <3>4. t = IF mismatch THEN u ELSE v
      BY <2>0, <2>1, <3>1 DEF runClaimed
    <3>5. /\ x \in CallState /\ x.pc = "finish" /\ x.stop = s.stop /\ x.lease = s.lease
          /\ x.seen = s.seen
          /\ y \in CallState /\ y.pc = "finish" /\ y.stop = s.stop /\ y.lease = s.lease
      BY <1>3 DEF Rets
    <3> HIDE DEF x, y, e
    <3>6. /\ u \in CallState /\ u.pc = "finish" /\ u.stop = s.stop /\ u.lease = s.lease
          /\ u.seen = s.seen
      BY <3>5, CallFields DEF CallState
    <3>7. /\ v \in CallState /\ v.pc = "finish" /\ v.stop = s.stop /\ v.lease = s.lease
          /\ v.seen = e.result.seen
      BY <3>3, <3>5, CallFields DEF CallState
    <3> HIDE DEF u, v
    <3>8. ClaimAnswered(c, id, u) /\ ClaimAnswered(c, id, v)
      BY <1>1, <1>2, <3>2, <3>6, <3>7
    <3> QED BY <3>4, <3>8
  <2>2. CASE ~terminal(record.execution.status)
    <3>1. response = record'.claims[id].result
      BY <2>0, <2>2 DEF claimResponse, claimedRecord
    <3>2. record'.claims[id].mode # "none"
      <4>1. CASE verdictOf(q) \in {"Create", "Claim"}
        BY <1>5, <4>1 DEF NewClaim
      <4>2. CASE verdictOf(q) \in {"Replay", "Terminal"}
        <5>1. verdictOf(q) = claimVerdict(record, q)
          BY <2>2, <4>2 DEF verdictOf, StartExecutionVerdict, ResumeExecutionVerdict
        <5>2. record.claims[id].mode # "none"
          BY <4>2, <5>1 DEF claimVerdict
        <5> QED BY <2>0, <4>2, <5>2
      <4> QED BY <1>5, <4>1, <4>2
    <3>3. e \in Execution /\ e.lease.token = record'.claims[id].token /\ e.status = "running"
      BY <1>0, <3>1, <3>2, AnswerType DEF Claimed
    <3>4. /\ Sound(record', e.checkpoint) /\ e.version <= record'.execution.version
          /\ e.version = record'.execution.version => e.checkpoint = record'.execution.checkpoint
      BY <1>0, <3>1, <3>2 DEF Saved, Answered
    <3> DEFINE h == holding(c, e)
    <3>5. t = h \/ t = releasing(h, "err")
      BY <2>0, <3>3 DEF runClaimed, terminal
    <3> HIDE DEF e
    <3>6. /\ h \in CallState /\ h.stop = s.stop /\ h.pc = "boundary"
          /\ h.lease.token = e.lease.token /\ Works(record', h)
      BY <1>0, <3>3, <3>4, HoldingWorks
    <3> HIDE DEF h
    <3>7. ClaimAnswered(c, id, h)
      BY <3>2, <3>3, <3>6 DEF ClaimAnswered
    <3>8. /\ releasing(h, "err") \in CallState /\ Alike(h, releasing(h, "err"))
          /\ releasing(h, "err").pc = "releasing" /\ releasing(h, "err").stop = h.stop
      BY <3>6, ReleasingMoves DEF Rets
    <3>9. Works(record', releasing(h, "err"))
      BY <3>6, <3>8 DEF Works, Alike, Busy, Fresh
    <3>10. ClaimAnswered(c, id, releasing(h, "err"))
      BY <3>2, <3>3, <3>6, <3>8, <3>9 DEF ClaimAnswered, Alike
    <3> QED BY <3>5, <3>7, <3>10
  <2> QED BY <2>1, <2>2
<1> QED BY <1>4, <1>5

\* The active map stays when a runtime only forgets or keeps a claim ID.
LEMMA SessionsKeep ==
  ASSUME Sessions, Types,
         \A o \in Owners :
           /\ runtime'[o].active = runtime[o].active
           /\ runtime'[o].closed = runtime[o].closed
           /\ runtime'[o].closeErrors = runtime[o].closeErrors
           /\ runtime'[o].closer = runtime[o].closer
           /\ runtime'[o].closing = runtime[o].closing
           /\ runtime'[o].prior = runtime[o].prior,
         \A c \in ClaimIDs : SessionCalm(call[c], call'[c])
  PROVE  Sessions'
<1>1. ASSUME NEW o \in Owners, runtime'[o].active # None
      PROVE  /\ runtimeOf[runtime'[o].active] = o
             /\ call'[runtime'[o].active].pc \notin {"ready", "returned"}
  <2>1. runtime[o].active \in ClaimIDs /\ runtime'[o].active = runtime[o].active
    BY <1>1 DEF Types, RuntimeState
  <2> QED BY <1>1, <2>1 DEF Sessions, SessionCalm
<1>2. ASSUME NEW c \in ClaimIDs, call'[c].pc \notin {"ready", "returned"}
      PROVE  runtime'[runtimeOf[c]].active = c
  BY <1>2, RuntimeOfAssumption DEF Sessions, SessionCalm
<1>3. ASSUME NEW c \in ClaimIDs
      PROVE  Stopped(runtime'[runtimeOf[c]], c, call'[c])
  <2>1. Stopped(runtime[runtimeOf[c]], c, call[c]) /\ runtimeOf[c] \in Owners
    BY RuntimeOfAssumption DEF Sessions
  <2> QED BY <2>1 DEF SessionCalm, Stopped
<1> QED BY <1>1, <1>2, <1>3 DEF Sessions

LEMMA ClaimCallStep ==
  ASSUME IInv, NEW c \in ClaimIDs, NEW spec \in Specs, NEW ttl \in LeaseTTLs,
         NEW expired \in BOOLEAN, NEW mismatch \in BOOLEAN, NEW fate,
         Claim(c, spec, ttl, expired, mismatch, fate)
  PROVE  IInv'
<1> DEFINE s == call[c]
           rt == runtimeOf[c]
           r == runtime[rt]
           id == claimID(c, expired)
           q == claimRequest(c, id, spec, ttl)
           t == IF /\ fate = "answered"
                   /\ verdictOf(q) \in {"Create", "Claim", "Replay", "Terminal"}
                THEN runClaimed(c, claimResponse(record, q), mismatch)
                ELSE returning(s, "err")
           pending == IF fate = "answered" THEN None ELSE id
           x == [r EXCEPT !.pending = pending, !.pendingMode = s.mode]
<1>0. /\ BackendInv /\ NothingSaved /\ Types /\ Tokens /\ Claimed /\ Pending /\ Effects
      /\ Worked /\ Saved /\ Working /\ Ended /\ Sessions /\ record \in Record
      /\ s \in CallState /\ rt \in Owners /\ r \in RuntimeState
      /\ at(c, "entered") /\ up(c) /\ s.pc = "entered" /\ tokenOf(c) = 0
  BY RuntimeOfAssumption DEF IInv, BackendInv, TypeOK, Types, Claim, at, Tokens, Fresh
<1>1. /\ record' = sent(fate, claimedRecord(q))
      /\ runtime' = [runtime EXCEPT ![rt] = x]
      /\ call' = [call EXCEPT ![c] = t]
      /\ effect' = effect /\ suspender' = suspender
      /\ executions' = executions /\ retried' = retried
  BY <1>0 DEF Claim, Types
<1>2. /\ id \in ClaimIDs /\ runtimeOf[id] = rt
      /\ record.claims[id].mode # "none" => Unused(record.claims[id].token)
      /\ \A d \in ClaimIDs : d # c /\ up(d) /\ call[d].pc \in Fresh => d # id
      /\ q \in ClaimRequests
      /\ s.mode = "start" => q \in StartRequests
      /\ s.mode = "resume" => q \in ResumeRequests
      /\ q.claim = id /\ q.mode = s.mode /\ s.mode \in {"start", "resume"}
  BY <1>0, ClaimIDFacts
<1> HIDE DEF q, id
<1>3. /\ [Calls]_record
      /\ record' = record \/ (NewClaim(q) /\ SameCheckpoint(record, record'))
      /\ claimedRecord(q) # record => verdictOf(q) \in {"Create", "Claim"}
      /\ verdictOf(q) \in {"Create", "Claim"} /\ fate # "unsent" => NewClaim(q)
  BY <1>0, <1>1, <1>2, ClaimRecorded
<1>4. BackendInv' /\ NothingSaved' /\ Onward(record, record') /\ record' \in Record
  BY <1>0, <1>3, RecordStep DEF BackendInv, TypeOK
<1>5. ClaimLeaves(c, id)
  BY <1>1, <1>2, <1>3, ClaimLeavesAll
<1>6. ClaimAnswered(c, id, t)
  BY <1>0, <1>1, <1>2, <1>3, <1>4, <1>5, ClaimAnswers
<1> HIDE DEF t
<1>7. /\ t \in CallState /\ t.stop = s.stop /\ Works(record', t)
      /\ t.pc \in {"finish", "boundary", "releasing"}
      /\ \/ t.pc = "finish" /\ t.lease = s.lease
         \/ /\ t.pc \in {"boundary", "releasing"}
            /\ record'.claims[id].mode # "none"
            /\ t.lease.token = record'.claims[id].token
  BY <1>6 DEF ClaimAnswered
<1>8. /\ call' \in [ClaimIDs -> CallState]
      /\ call'[c] = t
      /\ \A d \in ClaimIDs : d # c => call'[d] = call[d]
  BY <1>0, <1>1, <1>7, OneMoves
<1>9. /\ x \in RuntimeState /\ x.pending = pending /\ x.active = r.active /\ x.alive = r.alive
      /\ x.closed = r.closed /\ x.closeErrors = r.closeErrors /\ x.closer = r.closer
      /\ x.closing = r.closing /\ x.prior = r.prior
  BY <1>0, <1>2, RuntimeFields DEF RuntimeState
<1> HIDE DEF x
<1>10. /\ runtime' \in [Owners -> RuntimeState]
       /\ runtime'[rt] = x
       /\ \A p \in Owners : p # rt => runtime'[p] = runtime[p]
  BY <1>0, <1>1, <1>9, OneRuntimeMoves
<1>11. Types'
  BY <1>0, <1>1, <1>8, <1>10 DEF Types
<1>12. /\ \A d \in ClaimIDs : d # c => tokenOf(d)' = tokenOf(d)
       /\ \/ t.pc = "finish" /\ tokenOf(c)' = 0 /\ call'[c].lease = s.lease
          \/ /\ t.pc \in {"boundary", "releasing"}
             /\ record'.claims[id].mode # "none"
             /\ tokenOf(c)' = record'.claims[id].token
  BY <1>0, <1>7, <1>8 DEF tokenOf
<1>13. /\ Claimed' /\ Saved' /\ Worked'
       /\ record'.claims[id].mode # "none" =>
            /\ record'.claims[id].token # 0
            /\ record'.claims[id].token <= record'.nextToken
  BY <1>2, <1>5 DEF ClaimLeaves, Claimed
<1>14. /\ record.nextToken \in Nat /\ record'.nextToken \in Nat
       /\ record'.nextToken >= record.nextToken
       /\ \A d \in ClaimIDs : tokenOf(d) \in Nat
  BY <1>0, <1>4, RecordFields, CallFields DEF Onward, Types, tokenOf
<1>15. Tokens'
  <2>1. ASSUME NEW d \in ClaimIDs
        PROVE  /\ tokenOf(d)' <= record'.nextToken
               /\ tokenOf(d)' = 0 => call'[d].lease = NoLeaseRef
               /\ call'[d].pc \in Fresh => tokenOf(d)' = 0
               /\ call'[d].pc \in Busy => tokenOf(d)' # 0
    <3>1. CASE d # c
      BY <1>0, <1>8, <1>12, <1>14, <3>1 DEF Tokens
    <3>2. CASE d = c
      BY <1>0, <1>8, <1>12, <1>13, <1>14, <3>2 DEF Tokens, Fresh, Busy
    <3> QED BY <3>1, <3>2
  <2>2. ASSUME NEW b \in ClaimIDs, NEW d \in ClaimIDs, b # d, tokenOf(b)' = tokenOf(d)'
        PROVE  tokenOf(b)' = 0
    <3>1. CASE b # c /\ d # c
      BY <1>0, <1>12, <2>2, <3>1 DEF Tokens
    <3>2. ASSUME NEW a \in ClaimIDs, a # c, tokenOf(a)' = tokenOf(c)' PROVE tokenOf(c)' = 0
      BY <1>5, <1>12, <3>2 DEF ClaimLeaves
    <3> QED BY <2>2, <3>1, <3>2
  <2> QED BY <2>1, <2>2 DEF Tokens
<1>16. \A op \in Operations : \A u : NotRunning(record, op, u) => NotRunning(record', op, u)
  BY <1>5 DEF ClaimLeaves
<1>17. Pending'
  <2>1. ASSUME NEW o \in Owners, runtime'[o].pending # None
        PROVE  /\ runtimeOf[runtime'[o].pending] = o
               /\ record'.claims[runtime'[o].pending].mode # "none" =>
                    Unused(record.claims[runtime[o].pending].token)'
    <3>1. CASE o = rt
      <4>1. runtime'[o].pending = id /\ fate # "answered"
        BY <1>9, <1>10, <2>1, <3>1
      <4>2. t.pc = "finish"
        <5>1. t = returning(s, "err")
          BY <4>1 DEF t
        <5> QED BY <1>0, <5>1, ReturningMoves DEF Rets
      <4>3. ASSUME record'.claims[id].mode # "none"
            PROVE  /\ \A d \in ClaimIDs : tokenOf(d)' # record'.claims[id].token
                   /\ \A op \in Operations : NotRunning(record', op, record'.claims[id].token)
        BY <1>5, <1>12, <1>13, <4>2, <4>3 DEF ClaimLeaves
      <4> QED BY <1>2, <3>1, <4>1, <4>3 DEF Unused
    <3>2. CASE o # rt
      <4> DEFINE p == runtime[o].pending
                 u == record.claims[p].token
      <4>1. runtime'[o].pending = p /\ p # None
        BY <1>10, <2>1, <3>2
      <4>2. p \in ClaimIDs
        BY <1>0, <4>1, RuntimeFields DEF Types
      <4>3. /\ runtimeOf[p] = o
            /\ record.claims[p].mode # "none" => Unused(u)
        BY <1>0, <4>1 DEF Pending
      <4>4. p # id /\ record'.claims[p] = record.claims[p]
        BY <1>2, <1>5, <3>2, <4>2, <4>3 DEF ClaimLeaves
      <4>5. ASSUME record.claims[p].mode # "none"
            PROVE  /\ \A d \in ClaimIDs : tokenOf(d)' # u
                   /\ \A op \in Operations : NotRunning(record', op, u)
        <5>1. Unused(u) /\ u # 0
          BY <1>0, <4>2, <4>3, <4>5 DEF Claimed
        <5>2. record'.claims[id].mode # "none" => record'.claims[id].token # u
          BY <1>5, <4>2, <4>4 DEF ClaimLeaves
        <5> HIDE DEF u
        <5> QED BY <1>12, <1>16, <5>1, <5>2 DEF Unused
      <4> QED BY <4>1, <4>3, <4>4, <4>5 DEF Unused
    <3> QED BY <3>1, <3>2
  <2>2. ASSUME NEW d \in ClaimIDs, up(d)' /\ call'[d].pc \in Fresh
        PROVE  /\ record'.claims[d].mode = "none"
               /\ \A o \in Owners : runtime'[o].pending # d
    <3>1. d # c /\ call[d].pc \in Fresh /\ d # None
      BY <1>7, <1>8, <2>2, NoneAssumption DEF Fresh
    <3>2. up(d)
      BY <1>9, <1>10, <2>2, RuntimeOfAssumption DEF up
    <3>3. /\ record.claims[d].mode = "none" /\ d # id
          /\ \A o \in Owners : runtime[o].pending # d
      BY <1>0, <1>2, <3>1, <3>2 DEF Pending
    <3>4. record'.claims[d].mode = "none"
      BY <1>5, <3>3 DEF ClaimLeaves
    <3> QED BY <1>9, <1>10, <3>1, <3>3, <3>4
  <2> QED BY <2>1, <2>2 DEF Pending
<1>18. Effects'
  <2>1. \A op \in Operations : Len(record'.attempts[op]) = Len(record.attempts[op])
    BY <1>5 DEF ClaimLeaves
  <2>2. \/ call'[c].pc \notin Busy
        \/ \A op \in Operations : NotRunning(record', op, tokenOf(c)')
    BY <1>5, <1>8, <1>12 DEF ClaimLeaves, Busy
  <2>3. ASSUME NEW d \in ClaimIDs
        PROVE  /\ call[d].pc = "batch" => call'[d].pc = "batch" /\ call'[d].pos = call[d].pos
               /\ \/ /\ call'[d].pc \in Busy => call[d].pc \in Busy /\ tokenOf(d)' = tokenOf(d)
                     /\ \A op \in Operations :
                          NotRunning(record, op, tokenOf(d)) => NotRunning(record', op, tokenOf(d))
                  \/ \A op \in Operations : NotRunning(record', op, tokenOf(d)')
    <3>1. CASE d = c
      BY <1>0, <1>16, <2>2, <3>1
    <3>2. CASE d # c
      BY <1>8, <1>12, <1>16, <3>2
    <3> QED BY <3>1, <3>2
  <2> QED BY <1>0, <1>1, <1>4, <2>1, <2>3, EffectsStay
<1>19. Working'
  <2> SUFFICES ASSUME NEW d \in ClaimIDs, d # c PROVE Works(record', call[d])
    BY <1>7, <1>8 DEF Working
  <2>1. call[d].version \in Nat /\ Works(record, call[d])
    BY <1>0, CallFields DEF Types, Working
  <2> QED BY <1>0, <1>4, <2>1, CalmSame, WorksStays
<1>20. Ended'
  <2>1. /\ record'.suspends = record.suspends /\ record'.finishes = record.finishes
        /\ record'.releases = record.releases
        /\ \/ record'.execution.lease.token = record.execution.lease.token
           \/ record'.execution.lease.token > record.nextToken
    BY <1>5 DEF ClaimLeaves
  <2>2. ASSUME NEW ref, ref.token \in Nat, Dropped(record, ref) PROVE Dropped(record', ref)
    BY <1>0, <1>4, <1>14, <2>1, <2>2, DroppedStays
  <2>3. /\ \A e \in record'.suspends : Dropped(record', e.lease)
        /\ \A e \in record'.finishes : Dropped(record', e.lease)
        /\ \A e \in record'.releases : Dropped(record', e.lease)
    BY <1>0, <2>1, <2>2, EntryTypes DEF Ended
  <2>4. ASSUME NEW d \in ClaimIDs PROVE GaveBack(record', call'[d])
    <3>1. CASE d = c
      BY <1>8, <1>12, <3>1 DEF GaveBack, Ending, tokenOf
    <3>2. CASE d # c
      <4>1. GaveBack(record, call[d]) /\ call[d].lease.token <= record.nextToken
            /\ call[d].lease.token \in Nat
        BY <1>0, <1>14 DEF Ended, Tokens, tokenOf
      <4> QED BY <1>8, <1>14, <2>1, <3>2, <4>1 DEF GaveBack
    <3> QED BY <3>1, <3>2
  <2> QED BY <2>3, <2>4 DEF Ended
<1>21. Sessions'
  <2>1. \A o \in Owners :
          /\ runtime'[o].active = runtime[o].active
          /\ runtime'[o].closed = runtime[o].closed
          /\ runtime'[o].closeErrors = runtime[o].closeErrors
          /\ runtime'[o].closer = runtime[o].closer
          /\ runtime'[o].closing = runtime[o].closing
          /\ runtime'[o].prior = runtime[o].prior
    BY <1>9, <1>10
  <2>2. \A d \in ClaimIDs : SessionCalm(call[d], call'[d])
    BY <1>0, <1>7, <1>8 DEF SessionCalm
  <2> QED BY <1>0, <2>1, <2>2, SessionsKeep
<1> QED BY <1>4, <1>11, <1>13, <1>15, <1>17, <1>18, <1>19, <1>20, <1>21 DEF IInv

-----------------------------------------------------------------------------
(* The invariant holds initially and is kept by every step.                *)

LEMMA RuntimeInvInit == RuntimeInit => IInv
<1> SUFFICES ASSUME RuntimeInit PROVE IInv
  OBVIOUS
<1>1. /\ record = NoRecord
      /\ call = [c \in ClaimIDs |-> NewCall]
      /\ effect = [c \in ClaimIDs |-> [op \in Operations |-> NoEffect]]
      /\ runtime = [o \in Owners |-> NewRuntime]
      /\ suspender = [c \in ClaimIDs |-> "none"]
      /\ executions = [op \in Operations |-> [n \in 1..MaxAttempts |-> 0]]
      /\ retried = {}
  BY DEF RuntimeInit, Init
<1>2. BackendInv
  BY BackendInvInit DEF RuntimeInit
<1>3. /\ record.execution = NoExecution /\ record.nextToken = 0
      /\ record.claims = [i \in ClaimIDs |-> NoClaim]
      /\ record.attempts = [op \in Operations |-> <<>>]
      /\ record.suspends = {} /\ record.finishes = {} /\ record.releases = {}
  BY <1>1 DEF NoRecord
<1>4. NothingSaved
  BY <1>3 DEF NothingSaved, NoExecution
<1>5. /\ NewRuntime \in RuntimeState /\ NewRuntime.pending = None /\ NewRuntime.active = None
      /\ NewRuntime.closer = "none"
  BY DEF NewRuntime, RuntimeState
<1>6. Types
  BY <1>1, <1>5, NewCallType, NoEffectType DEF Types
<1>7. \A c \in ClaimIDs : call[c] = NewCall /\ tokenOf(c) = 0
  BY <1>1, NewCallType DEF tokenOf, NoLeaseRef
<1>8. Tokens
  BY <1>3, <1>7, NewCallType DEF Tokens, Busy
<1>9. Claimed
  BY <1>3 DEF Claimed, NoClaim
<1>10. Pending
  <2>1. \A o \in Owners : runtime[o].pending = None
    BY <1>1, <1>5
  <2> QED BY <1>3, <2>1, NoneAssumption DEF Pending, NoClaim
<1>11. Effects
  <2>1. \A c \in ClaimIDs, op \in Operations : effect[c][op] = NoEffect
    BY <1>1
  <2> QED BY <1>7, <2>1, NewCallType, NoEffectType DEF Effects, EffectOf, GrantOf, Busy
<1>12. Worked
  BY <1>1, <1>3 DEF Worked
<1>13. Saved
  <2>1. record.execution.checkpoint = NoCheckpoint /\ ~terminal(record.execution.status)
        /\ record.execution.version = 0
    BY <1>3 DEF NoExecution, terminal
  <2>2. \A i \in ClaimIDs : Answered(record, i)
    BY <1>3, <2>1 DEF Answered, Sound, NoClaim, NoExecution
  <2> QED BY <2>1, <2>2 DEF Saved, Sound, Told
<1>14. Working
  BY <1>7, NewCallType DEF Working, Works, Journaled, NothingSeen, Busy
<1>15. Ended
  BY <1>3, <1>7, NewCallType DEF Ended, GaveBack, Ending
<1>16. Sessions
  BY <1>1, <1>5, <1>7, NewCallType, RuntimeOfAssumption DEF Sessions, Stopped
<1> QED BY <1>2, <1>4, <1>6, <1>8, <1>9, <1>10, <1>11, <1>12, <1>13, <1>14, <1>15, <1>16 DEF IInv

LEMMA RuntimeInvStep == IInv /\ [RuntimeNext]_vars => IInv'
<1> SUFFICES ASSUME IInv, [RuntimeNext]_vars PROVE IInv'
  OBVIOUS
<1>1. ASSUME NEW c \in ClaimIDs, callStep(c) PROVE IInv'
  BY <1>1, ClaimCallStep, ObserveBoundaryStoppedStep, ObserveBoundaryStep, BatchReturnStep,
     completeStep, completeFinishStep, suspendStep, releaseStep, finishStep, leaveStep
     DEF callStep
<1>2. ASSUME NEW c \in ClaimIDs, NEW op \in Operations, effectStep(c, op) PROVE IInv'
  BY <1>2, beginEffectStep, StartEffectStep, EffectReturnsStep, EffectNotStartedStep,
     EffectAmbiguousStep, finishAttemptStep, markAttemptUnknownStep DEF effectStep
<1>3. Suspended \subseteq ClaimIDs /\ Cancelled \subseteq ClaimIDs /\ Closed \subseteq Owners
  BY EnvironmentAssumption
<1> QED BY <1>1, <1>2, <1>3, enterStep, requestSuspendStep, SuspendReturnsStep,
           CallerCancelsStep, heartbeatStep, CloseStep, CloseReturnsStep, CrashStep,
           ReconcileStep, TickStep, StutterStep DEF RuntimeNext

\* Every state of the runtimes, whatever crashes and lost answers led to it,
\* satisfies the inductive invariant.
THEOREM RuntimeInvariant == RuntimeSpec => []IInv
BY RuntimeInvInit, RuntimeInvStep, PTL DEF RuntimeSpec

\* The record, the calls, their effects and the runtimes keep their types.
THEOREM RuntimeTypes == RuntimeSpec => []RuntimeTypeOK
<1>1. IInv => RuntimeTypeOK
  BY DEF IInv, BackendInv, TypeOK, Types, RuntimeTypeOK
<1> QED BY <1>1, RuntimeInvariant, PTL

\* interceptor.go: an attempt of an effect runs at most once in the world, and
\* an operation runs again only when the application reconciled the attempt
\* before it with retry, however many processes crash or lose their lease.
THEOREM EffectsRunAtMostOnce == RuntimeSpec => []EffectAtMostOnce
<1>1. IInv => EffectAtMostOnce
  <2> SUFFICES ASSUME IInv, NEW op \in Operations, NEW n \in 1..MaxAttempts
               PROVE  /\ executions[op][n] <= 1
                      /\ executions[op][n] = 1 /\ n > 1 => <<op, n - 1>> \in retried
    BY DEF EffectAtMostOnce
  <2>0. Worked /\ BackendInv /\ record \in Record
    BY DEF IInv, BackendInv, TypeOK
  <2>1. /\ executions[op][n] \in {0, 1}
        /\ executions[op][n] = 1 => n <= Len(record.attempts[op])
    BY <2>0 DEF Worked
  <2>2. ASSUME executions[op][n] = 1, n > 1 PROVE <<op, n - 1>> \in retried
    <3>1. Len(record.attempts[op]) \in Nat /\ DOMAIN record.attempts[op] = 1..Len(record.attempts[op])
      BY <2>0, RecordFields
    <3>2. n - 1 \in DOMAIN record.attempts[op] /\ n - 1 < Len(record.attempts[op])
      BY <2>1, <2>2, <3>1, BoundAssumption
    <3>3. record.attempts[op][n - 1].status = "abandoned"
      BY <2>0, <3>2 DEF BackendInv, OnlyLatestOpen
    <3> QED BY <2>0, <3>2, <3>3 DEF Worked
  <2> QED BY <2>1, <2>2
<1> QED BY <1>1, RuntimeInvariant, PTL

\* interceptor.go and boundary.go: persist before deliver.  Every outcome an
\* Engine holds or a result reports is the one the record holds, and a completed
\* execution has succeeded in every operation of its plan.
THEOREM EnginesWorkFromJournal == RuntimeSpec => []WorksFromJournal
<1>1. IInv => WorksFromJournal
  <2> SUFFICES ASSUME IInv PROVE WorksFromJournal
    OBVIOUS
  <2>0. Working /\ Saved /\ \A op \in Operations : journalOutcome[op] = outcomeIn(record, op)
    BY DEF IInv, journalOutcome, outcomeIn, started
  <2>1. \A c \in ClaimIDs : \A op \in Operations :
          call[c].seen[op] # None => journalOutcome[op] = call[c].seen[op]
    BY <2>0 DEF Working, Works, Journaled
  <2>2. terminal(record.execution.status) => \A op \in Operations :
          record.execution.result.seen[op] # None =>
            journalOutcome[op] = record.execution.result.seen[op]
    BY <2>0 DEF Saved, Told, Journaled
  <2>3. ASSUME record.execution.status = "completed", NEW i \in DOMAIN Plan, NEW op \in Plan[i]
        PROVE  /\ record.execution.result.seen[op] # None
               /\ record.execution.result.seen[op].failure = None
    <3>1. Succeeded(Len(Plan) + 1, record.execution.result.seen)
      BY <2>0, <2>3 DEF Saved, Told, terminal
    <3>2. i < Len(Plan) + 1
      BY PlanAssumption
    <3> QED BY <3>1, <3>2 DEF Succeeded
  <2> QED BY <2>1, <2>2, <2>3 DEF WorksFromJournal
<1> QED BY <1>1, RuntimeInvariant, PTL

\* runtime.go, release and complete: a call that claimed the execution and
\* reports no cleanup error has given its lease back.
THEOREM LeasesGivenBack == RuntimeSpec => []LeaseGivenBack
<1>1. IInv => LeaseGivenBack
  BY DEF IInv, Tokens, Ended, GaveBack, Ending, LeaseGivenBack, done, tokenOf
<1> QED BY <1>1, RuntimeInvariant, PTL

\* runtime.go, Close and leave: no Close returns nil over the cleanup error of
\* a call that this or an earlier Close stopped.
THEOREM CloseErrorsReported == RuntimeSpec => []CloseReportsErrors
<1>1. IInv => CloseReportsErrors
  BY DEF IInv, Sessions, Stopped, CloseReportsErrors
<1> QED BY <1>1, RuntimeInvariant, PTL

-----------------------------------------------------------------------------
(* Progress, and the journal over the runtimes.                            *)

\* Checkpoint l continues checkpoint k.
Follows(k, l) ==
  k # NoCheckpoint =>
    /\ l.continuation.pos >= k.continuation.pos
    /\ \A op \in Operations : k.continuation.seen[op] # None =>
         l.continuation.seen[op] = k.continuation.seen[op]

\* What a step does to the record: a call of the Backend that keeps progress.
Moves == /\ [Calls]_record
         /\ Follows(record.execution.checkpoint, record'.execution.checkpoint)

LEMMA SameFollows ==
  ASSUME Saved, [Calls]_record, SameCheckpoint(record, record')
  PROVE  Moves
<1> DEFINE k == record.execution.checkpoint
<1>1. k # NoCheckpoint => k.continuation.pos \in Nat
  BY PlanAssumption DEF Saved, Sound, EngineContinuations
<1> QED BY <1>1 DEF Moves, Follows, SameCheckpoint

\* The boundary saves what the call has done since it claimed, and only when no
\* other call has saved anything in between.
LEMMA ObserveBoundaryMoves ==
  ASSUME IInv, NEW c \in ClaimIDs, NEW fate, ObserveBoundary(c, fate)
  PROVE  Moves
<1> DEFINE s == call[c]
           q == boundaryRequest(c)
           k == record.execution.checkpoint
<1>0. /\ BackendInv /\ Types /\ Saved /\ record \in Record /\ s \in CallState
      /\ Works(record, s) /\ s.pc = "boundary"
  BY DEF IInv, BackendInv, TypeOK, Types, Working, ObserveBoundary, at
<1>1. record' = sent(fate, SaveCheckpoint(record, q))
  BY DEF ObserveBoundary
<1>2. /\ s.pos \in 1..(Len(Plan) + 1)
      /\ s.version = record.execution.version => Continues(s, k)
  BY <1>0 DEF Works, Busy
<1>3. /\ [Calls]_record
      /\ \/ SameCheckpoint(record, record')
         \/ record'.execution.checkpoint = q.checkpoint
  BY <1>0, <1>1, <1>2, SaveCall
<1>4. CASE SameCheckpoint(record, record')
  BY <1>0, <1>3, <1>4, SameFollows
<1>5. CASE ~SameCheckpoint(record, record')
  <2>1. record' = SaveCheckpoint(record, q) /\ record' # record
    BY <1>1, <1>5 DEF sent, SameCheckpoint
  <2>2. SaveCheckpointVerdict(record, q) = "Save"
    BY <2>1 DEF SaveCheckpoint
  <2>3. q.version = record.execution.version
    BY <2>2 DEF SaveCheckpointVerdict
  <2>4. /\ q.version = s.version
        /\ q.checkpoint.continuation = [pos |-> s.pos, seen |-> s.seen]
    BY DEF boundaryRequest
  <2> HIDE DEF q
  <2>5. Continues(s, k)
    BY <1>2, <2>3, <2>4
  <2>6. /\ record'.execution.checkpoint.continuation.pos = s.pos
        /\ record'.execution.checkpoint.continuation.seen = s.seen
    BY <1>3, <1>5, <2>4
  <2> QED BY <1>3, <2>5, <2>6 DEF Moves, Follows, Continues
<1> QED BY <1>4, <1>5

LEMMA ClaimMoves ==
  ASSUME IInv, NEW c \in ClaimIDs, NEW spec \in Specs, NEW ttl \in LeaseTTLs,
         NEW expired \in BOOLEAN, NEW mismatch \in BOOLEAN, NEW fate,
         Claim(c, spec, ttl, expired, mismatch, fate)
  PROVE  Moves
<1> DEFINE id == claimID(c, expired)
           q == claimRequest(c, id, spec, ttl)
<1>0. BackendInv /\ NothingSaved /\ Saved /\ at(c, "entered")
  BY DEF IInv, Claim
<1>1. record' = sent(fate, claimedRecord(q))
  BY DEF Claim
<1>2. /\ q \in ClaimRequests
      /\ call[c].mode = "start" => q \in StartRequests
      /\ call[c].mode = "resume" => q \in ResumeRequests
      /\ q.mode = call[c].mode /\ call[c].mode \in {"start", "resume"}
  BY <1>0, ClaimIDFacts
<1> HIDE DEF q
<1>3. /\ [Calls]_record
      /\ record' = record \/ SameCheckpoint(record, record')
  BY <1>0, <1>1, <1>2, ClaimRecorded
<1> QED BY <1>0, <1>3, SameFollows DEF SameCheckpoint

LEMMA StartEffectMoves ==
  ASSUME IInv, NEW c \in ClaimIDs, NEW op \in Operations, NEW input \in Inputs, NEW fate,
         StartEffect(c, op, input, fate)
  PROVE  Moves
<1> DEFINE q == [lease |-> call[c].lease, operation |-> op, input |-> input]
<1>0. BackendInv /\ Types /\ Saved
  BY DEF IInv
<1>1. record' = sent(fate, StartAttempt(record, q))
  BY DEF StartEffect
<1>2. [Calls]_record /\ q \in AttemptCalls
  BY <1>0, <1>1, StartAttemptCall
<1> HIDE DEF q
<1>3. SameCheckpoint(record, StartAttempt(record, q))
  <2>1. CASE StartAttemptVerdict(record, q) \in {"First", "Again"}
    BY <1>0, <1>2, <2>1, StartAttemptOpens
  <2>2. CASE StartAttemptVerdict(record, q) \notin {"First", "Again"}
    BY <1>0, <1>2, <2>2, StartAttemptOtherwise, QuietSame
  <2> QED BY <2>1, <2>2
<1>4. SameCheckpoint(record, record')
  BY <1>1, <1>3, QuietSame DEF sent
<1> QED BY <1>0, <1>2, <1>4, SameFollows

LEMMA finishAttemptMoves ==
  ASSUME IInv, NEW c \in ClaimIDs, NEW op \in Operations, NEW fate, finishAttempt(c, op, fate)
  PROVE  Moves
<1> DEFINE o == effect[c][op].outcome
           q == settleRequest(c, op, o.payload, o.failure)
<1>0. BackendInv /\ Types /\ Saved /\ EffectOf(c, op) /\ effect[c][op] \in EffectState
  BY DEF IInv, Effects, Types
<1>1. /\ record' = sent(fate, FinishAttempt(record, q)) /\ effect[c][op].state = "produced"
  BY DEF finishAttempt
<1>2. o.payload \in Payloads \cup {None} /\ o.failure \in Failures \cup {None}
  BY <1>0, <1>1, EffectFields DEF EffectOf, Outcomes
<1>3. q \in SettleCalls
  BY <1>0, <1>2, SettleRequestType
<1> HIDE DEF q
<1> QED BY <1>0, <1>1, <1>3, FinishAttemptCall, SameFollows

LEMMA ReconcileMoves ==
  ASSUME IInv, NEW op \in Operations, NEW resolution \in {"succeed", "fail", "retry"},
         NEW payload \in Payloads \cup {None}, NEW failure \in Failures \cup {None},
         Reconcile(op, resolution, payload, failure)
  PROVE  Moves
<1> DEFINE a == latest(record, op)
           q == [operation |-> op, number |-> a.number, version |-> a.version,
                 resolution |-> resolution, payload |-> payload, failure |-> failure]
<1>0. BackendInv /\ Saved /\ record \in Record
  BY DEF IInv, BackendInv, TypeOK
<1>1. /\ record.attempts[op] # <<>>
      /\ ReconcileAttemptVerdict(record, q) = "Reconcile"
      /\ record' = ReconcileAttempt(record, q)
  BY DEF Reconcile
<1>2. q \in ReconcileCalls
  <2>1. a \in Attempt
    BY <1>0, <1>1, LatestType
  <2> QED BY <2>1, AttemptFields DEF ReconcileCalls
<1> HIDE DEF q
<1>3. [Calls]_record
  BY <1>1, <1>2 DEF Calls, CallReconcileAttempt
<1>4. SameCheckpoint(record, record')
  BY <1>0, <1>1, <1>2, ReconcileIsQuiet
<1> QED BY <1>0, <1>3, <1>4, SameFollows

\* Every step of the runtimes is a call of the Backend that keeps progress, or
\* leaves the record as it is.
LEMMA RuntimeMoves == IInv /\ [RuntimeNext]_vars => Moves
<1> SUFFICES ASSUME IInv, [RuntimeNext]_vars PROVE Moves
  OBVIOUS
<1>0. BackendInv /\ Types /\ Saved
  BY DEF IInv
<1>1. ASSUME record' = record PROVE Moves
  BY <1>0, <1>1, QuietSame, SameFollows
<1>2. ASSUME NEW c \in ClaimIDs, callStep(c) PROVE Moves
  <2>1. ASSUME NEW fate, completeFinish(c, fate) PROVE Moves
    BY <1>0, <2>1, FinishCall, SameFollows DEF completeFinish
  <2>2. ASSUME NEW fate, suspend(c, fate) PROVE Moves
    BY <1>0, <2>2, SuspendCall, SameFollows DEF suspend
  <2>3. ASSUME NEW fate, release(c, fate) PROVE Moves
    BY <1>0, <2>3, ReleaseCall, SameFollows DEF release
  <2>4. ASSUME ObserveBoundaryStopped(c) \/ BatchReturn(c) \/ complete(c) \/ finish(c) \/ leave(c)
        PROVE  record' = record
    BY <2>4 DEF ObserveBoundaryStopped, BatchReturn, complete, finish, leave
  <2> QED BY <1>1, <1>2, <2>1, <2>2, <2>3, <2>4, ClaimMoves, ObserveBoundaryMoves DEF callStep
<1>3. ASSUME NEW c \in ClaimIDs, NEW op \in Operations, effectStep(c, op) PROVE Moves
  <2>1. ASSUME NEW failure \in Failures, NEW fate, markAttemptUnknown(c, op, failure, fate)
        PROVE  Moves
    <3>1. settleRequest(c, op, None, failure) \in SettleCalls
      BY <1>0, SettleRequestType
    <3>2. record' = sent(fate, MarkAttemptUnknown(record, settleRequest(c, op, None, failure)))
      BY <2>1 DEF markAttemptUnknown
    <3> QED BY <1>0, <3>1, <3>2, MarkAttemptUnknownCall, SameFollows
  <2>2. ASSUME NEW payload, NEW failure,
               \/ beginEffect(c, op) \/ EffectReturns(c, op, payload)
               \/ EffectNotStarted(c, op, payload, failure) \/ EffectAmbiguous(c, op)
        PROVE  record' = record
    BY <2>2 DEF beginEffect, EffectReturns, EffectNotStarted, EffectAmbiguous
  <2> QED BY <1>1, <1>3, <2>1, <2>2, StartEffectMoves, finishAttemptMoves DEF effectStep
<1>4. ASSUME NEW c \in ClaimIDs, NEW ttl \in LeaseTTLs, NEW fate, heartbeat(c, ttl, fate)
      PROVE  Moves
  BY <1>0, <1>4, RenewCall, SameFollows DEF heartbeat
<1>5. ASSUME Tick PROVE Moves
  BY <1>0, <1>5, AdvanceCall, SameFollows DEF Tick
<1>6. ASSUME NEW c, NEW mode, NEW o,
             \/ enter(c, mode) \/ requestSuspend(c) \/ SuspendReturns(c) \/ CallerCancels(c)
             \/ Close(o) \/ CloseReturns(o) \/ Crash(o)
      PROVE  record' = record
  BY <1>6 DEF enter, requestSuspend, SuspendReturns, CallerCancels, Close, CloseReturns, Crash
<1>7. ASSUME UNCHANGED vars PROVE record' = record
  BY <1>7 DEF vars
<1> QED BY <1>1, <1>2, <1>3, <1>4, <1>5, <1>6, <1>7, ReconcileMoves DEF RuntimeNext

\* boundary.go: progress is never lost.  Whoever saves a checkpoint, after
\* whatever crashes, takeovers and lost answers, continues the one before it.
THEOREM ProgressIsKept == RuntimeSpec => ProgressKept
<1> DEFINE Kept == LET old == record.execution.checkpoint
                       new == record'.execution.checkpoint
                   IN old # NoCheckpoint =>
                        /\ new.continuation.pos >= old.continuation.pos
                        /\ \A op \in Operations : old.continuation.seen[op] # None =>
                             new.continuation.seen[op] = old.continuation.seen[op]
<1>1. IInv /\ [RuntimeNext]_vars => [Kept]_vars
  BY RuntimeMoves DEF Moves, Follows
<1> QED BY <1>1, RuntimeInvariant, PTL DEF RuntimeSpec, ProgressKept

\* The runtimes keep the promise of the journal: whatever they send, an
\* operation gets at most one outcome and the execution at most one result.
THEOREM RuntimeImplementsJournal == RuntimeSpec => ImplementsJournal
<1>1. RuntimeInit => Journal!Init
  <2> SUFFICES ASSUME RuntimeInit PROVE Journal!Init
    OBVIOUS
  <2>1. /\ record.execution.result = None
        /\ \A op \in Operations : record.attempts[op] = <<>>
    BY DEF RuntimeInit, Init, NoRecord, NoExecution
  <2>2. \A op \in Operations : ~doubtIn(record, op) /\ outcomeIn(record, op) = None
    BY <2>1 DEF doubtIn, outcomeIn
  <2>3. journalOutcome = [op \in Operations |-> None] /\ journalDoubt = {}
    BY <2>2, ViewDefined
  <2> QED BY <2>1, <2>3 DEF Journal!Init
<1>2. IInv /\ [RuntimeNext]_vars =>
        [Journal!Next]_<<journalOutcome, journalDoubt, record.execution.result>>
  BY RuntimeMoves, JournalStep DEF Moves, IInv, journalVars
<1> QED BY <1>1, <1>2, RuntimeInvariant, PTL DEF RuntimeSpec, ImplementsJournal, Journal!Spec

\* And no runtime ever changes an outcome that has settled.
THEOREM RuntimeOutcomesFinal == RuntimeSpec => OutcomeFinal
<1> DEFINE Final == \A op \in Operations : \A i \in DOMAIN record.attempts[op] :
             settled(record.attempts[op][i]) => record'.attempts[op] = record.attempts[op]
<1>1. IInv /\ [RuntimeNext]_vars => [Final]_record
  BY RuntimeMoves, OutcomeFinalStep DEF Moves, IInv
<1> QED BY <1>1, RuntimeInvariant, PTL DEF RuntimeSpec, OutcomeFinal

=============================================================================
