------------------------ MODULE DurableJournalProofs ------------------------
(***************************************************************************)
(* DurableBackend implements EffectJournal, for every choice of the        *)
(* constants: each step of the backend is a Begin, Settle, GiveUp or       *)
(* Complete of the journal, or leaves it as it is.  And the two properties *)
(* of the backend that concern a pair of calls: checkpoints move forward,  *)
(* and a call repeated after a lost answer is answered alike.              *)
(***************************************************************************)
EXTENDS DurableBackendProofs

-----------------------------------------------------------------------------
(* The journal's view of one operation.                                    *)

outcomeIn(r, op) ==
  IF r.attempts[op] # <<>> /\ settled(latest(r, op))
  THEN [payload |-> latest(r, op).payload, failure |-> latest(r, op).failure]
  ELSE None

doubtIn(r, op) == r.attempts[op] # <<>> /\ uncertain(latest(r, op))

SameView(r, s, op) ==
  outcomeIn(s, op) = outcomeIn(r, op) /\ (doubtIn(s, op) <=> doubtIn(r, op))

journalVars == <<journalOutcome, journalDoubt, record.execution.result>>

\* The refinement mapping, operation by operation.
LEMMA ViewDefined ==
  /\ journalOutcome = [op \in Operations |-> outcomeIn(record, op)]
  /\ journalOutcome' = [op \in Operations |-> outcomeIn(record', op)]
  /\ journalDoubt = {op \in Operations : doubtIn(record, op)}
  /\ journalDoubt' = {op \in Operations : doubtIn(record', op)}
BY DEF journalOutcome, journalDoubt, outcomeIn, doubtIn, started, latest

\* A step that keeps the view of every operation and the result is a stutter
\* of the journal.
LEMMA ViewStutters ==
  ASSUME \A op \in Operations : SameView(record, record', op),
         record'.execution.result = record.execution.result
  PROVE  UNCHANGED journalVars
<1>1. journalOutcome' = journalOutcome /\ journalDoubt' = journalDoubt
  BY ViewDefined DEF SameView
<1> QED BY <1>1 DEF journalVars

\* The view of an operation depends on its attempts only.
LEMMA SameAttempts ==
  ASSUME NEW r, NEW s, NEW op, s.attempts[op] = r.attempts[op]
  PROVE  SameView(r, s, op)
BY DEF SameView, outcomeIn, doubtIn, latest

\* Marking running attempts unknown (a claim, Suspend, Release) is invisible:
\* an effect in doubt stays in doubt, and no outcome changes.
LEMMA MarkingInvisible ==
  ASSUME NEW r \in Record, NEW s, NEW token,
         s.attempts = reconcileRunning(r.attempts, token)
  PROVE  \A op \in Operations : SameView(r, s, op)
<1> SUFFICES ASSUME NEW op \in Operations PROVE SameView(r, s, op)
  OBVIOUS
<1> DEFINE a == latest(r, op)
           b == latest(s, op)
<1>0. r.attempts[op] \in Seq(Attempt) /\ r.attempts \in [Operations -> Seq(Attempt)]
  BY RecordFields
<1>1. /\ s.attempts \in [Operations -> Seq(Attempt)]
      /\ Len(s.attempts[op]) = Len(r.attempts[op])
      /\ \A i \in DOMAIN r.attempts[op] :
           s.attempts[op][i] = IF reconciles(r.attempts[op][i], token)
                               THEN markUnknown(r.attempts[op][i]) ELSE r.attempts[op][i]
  BY <1>0, ReconcileRunningType
<1>2. (s.attempts[op] = <<>>) <=> (r.attempts[op] = <<>>)
  BY <1>0, <1>1
<1>3. CASE r.attempts[op] = <<>>
  BY <1>2, <1>3 DEF SameView, outcomeIn, doubtIn
<1>4. CASE r.attempts[op] # <<>>
  <2>1. Len(r.attempts[op]) \in DOMAIN r.attempts[op] /\ a \in Attempt
    BY <1>4, LatestType
  <2>2. b = IF reconciles(a, token) THEN markUnknown(a) ELSE a
    BY <1>1, <2>1 DEF latest
  <2>3. CASE reconciles(a, token)
    <3>1. a.status = "running" /\ b.status = "unknown"
      BY <2>1, <2>2, <2>3 DEF reconciles, markUnknown, Attempt
    <3> HIDE DEF a, b
    <3>2. uncertain(a) /\ uncertain(b) /\ ~settled(a) /\ ~settled(b)
      BY <3>1 DEF uncertain, settled
    <3> QED BY <1>2, <1>4, <3>2 DEF SameView, outcomeIn, doubtIn, a, b
  <2>4. CASE ~reconciles(a, token)
    BY <1>2, <1>4, <2>2, <2>4 DEF SameView, outcomeIn, doubtIn
  <2> QED BY <2>3, <2>4
<1> QED BY <1>3, <1>4

\* Writing an uncertain attempt back: it is the newest of its operation, the
\* replacement takes its place and is found under the same number.
LEMMA PutFacts ==
  ASSUME BackendInv, NEW op \in Operations, NEW n, NEW b \in Attempt,
         positions(record, op, n) # {},
         uncertain(attemptByNumber(record, op, n)),
         b.number = attemptByNumber(record, op, n).number
  PROVE  LET s == putAttempt(record, op, n, b)
         IN /\ record.attempts[op] # <<>> /\ s.attempts[op] # <<>>
            /\ latest(record, op) = attemptByNumber(record, op, n)
            /\ latest(s, op) = b
            /\ \A o \in Operations : o # op => s.attempts[o] = record.attempts[o]
            /\ s.execution = record.execution
            /\ positions(s, op, n) # {}
            /\ attemptByNumber(s, op, n) = b
<1> DEFINE old == record.attempts[op]
           s == putAttempt(record, op, n, b)
<1>0. record \in Record /\ old \in Seq(Attempt)
  BY RecordFields DEF BackendInv, TypeOK
<1>1. PICK k \in DOMAIN old : /\ k \in positions(record, op, n)
                              /\ attemptByNumber(record, op, n) = old[k]
  BY <1>0, AttemptByNumberType
<1>2. /\ s \in Record
      /\ s = [record EXCEPT !.attempts = s.attempts]
      /\ \A o \in Operations :
           /\ o # op => s.attempts[o] = record.attempts[o]
           /\ Len(s.attempts[o]) = Len(record.attempts[o])
           /\ DOMAIN s.attempts[o] = DOMAIN record.attempts[o]
      /\ \A i \in DOMAIN old :
           s.attempts[op][i] = IF i \in positions(record, op, n) THEN b ELSE old[i]
  BY <1>0, PutAttemptType
<1>3. s.execution = record.execution
  BY <1>0, <1>2 DEF Record
<1>4. old[k].number = n /\ \A i \in DOMAIN old : i \in positions(record, op, n) <=> i = k
  BY <1>1 DEF positions, BackendInv, OnlyLatestOpen
<1>5. k = Len(old)
  <2>1. ~(k < Len(old))
    BY <1>1 DEF BackendInv, OnlyLatestOpen, uncertain
  <2> QED BY <1>0, <2>1
<1> HIDE DEF s
<1>6. latest(record, op) = old[k] /\ latest(s, op) = b
  BY <1>2, <1>4, <1>5 DEF latest
<1>7. old # <<>> /\ s.attempts[op] # <<>>
  BY <1>0, <1>2
<1>8. positions(s, op, n) = {k}
  <2>1. ASSUME NEW i PROVE i \in positions(s, op, n) <=> i = k
    BY <1>1, <1>2, <1>4 DEF positions
  <2> QED BY <2>1
<1>9. attemptByNumber(s, op, n) = s.attempts[op][k]
  <2>1. (CHOOSE i \in positions(s, op, n) : TRUE) = k
    BY <1>8
  <2> QED BY <2>1 DEF attemptByNumber
<1>10. s.attempts[op][k] = b
  BY <1>2, <1>4
<1> QED BY <1>1, <1>2, <1>3, <1>6, <1>7, <1>8, <1>9, <1>10 DEF s

\* What the journal sees of that write.
LEMMA PutJournal ==
  ASSUME BackendInv, NEW op \in Operations, NEW n, NEW b \in Attempt,
         positions(record, op, n) # {},
         uncertain(attemptByNumber(record, op, n)),
         b.number = attemptByNumber(record, op, n).number,
         b.status # "running",
         record' = putAttempt(record, op, n, b)
  PROVE  [Journal!Next]_journalVars
<1>1. /\ record.attempts[op] # <<>> /\ record'.attempts[op] # <<>>
      /\ uncertain(latest(record, op))
      /\ latest(record', op) = b
      /\ \A o \in Operations : o # op => record'.attempts[o] = record.attempts[o]
      /\ record'.execution = record.execution
  BY PutFacts
<1>2. \A o \in Operations : o # op => SameView(record, record', o)
  BY <1>1, SameAttempts
<1>3. doubtIn(record, op) /\ outcomeIn(record, op) = None
  BY <1>1 DEF doubtIn, outcomeIn, uncertain, settled
<1>4. b.status \in {"succeeded", "failed", "unknown", "abandoned"}
  BY AttemptFields DEF AttemptStatus
<1>5. CASE b.status = "unknown"
  <2>1. SameView(record, record', op)
    BY <1>1, <1>3, <1>5 DEF SameView, doubtIn, outcomeIn, uncertain, settled
  <2> QED BY <1>1, <1>2, <2>1, ViewStutters
<1>6. CASE b.status = "abandoned"
  <2>1. ~doubtIn(record', op) /\ outcomeIn(record', op) = None
    BY <1>1, <1>6 DEF doubtIn, outcomeIn, uncertain, settled
  <2>2. journalOutcome' = journalOutcome
    BY <1>2, <1>3, <2>1, ViewDefined DEF SameView
  <2>3. op \in journalDoubt /\ journalDoubt' = journalDoubt \ {op}
    BY <1>2, <1>3, <2>1, ViewDefined DEF SameView
  <2>4. Journal!GiveUp(op)
    BY <1>1, <2>2, <2>3 DEF Journal!GiveUp
  <2> QED BY <2>4 DEF Journal!Next
<1>7. CASE b.status \in {"succeeded", "failed"}
  <2> DEFINE o == [payload |-> b.payload, failure |-> b.failure]
  <2>1. ~doubtIn(record', op) /\ outcomeIn(record', op) = o
    BY <1>1, <1>7 DEF doubtIn, outcomeIn, uncertain, settled
  <2>2. o \in Outcomes
    BY DEF Attempt, Outcomes
  <2> HIDE DEF o
  <2>3. journalOutcome' = [journalOutcome EXCEPT ![op] = o]
    BY <1>2, <1>3, <2>1, ViewDefined DEF SameView
  <2>4. op \in journalDoubt /\ journalDoubt' = journalDoubt \ {op}
    BY <1>2, <1>3, <2>1, ViewDefined DEF SameView
  <2>5. Journal!Settle(op, o)
    BY <1>1, <2>3, <2>4 DEF Journal!Settle
  <2> QED BY <2>2, <2>5 DEF Journal!Next
<1> QED BY <1>4, <1>5, <1>6, <1>7

\* StartAttempt opens an operation that has no outcome and is not in doubt.
LEMMA StartAttemptJournal ==
  ASSUME BackendInv, NEW q \in AttemptCalls,
         StartAttemptVerdict(record, q) \in {"First", "Again", "Orphaned"},
         record' = StartAttempt(record, q)
  PROVE  Journal!Next
<1> DEFINE op == q.operation
           old == record.attempts[op]
<1>0. record \in Record
  BY DEF BackendInv, TypeOK
<1>1. op \in Operations /\ requireActiveLease(record, q.lease)
  BY <1>0, StartAttemptShape
<1>2. old \in Seq(Attempt)
  BY <1>0, <1>1, RecordFields
<1>3. StartAttemptVerdict(record, q) # "Orphaned"
  BY StartAttemptStep
<1>4. PICK s \in Seq(Attempt) :
        record' = [record EXCEPT !.attempts = [record.attempts EXCEPT ![op] = s]]
  BY <1>0, StartAttemptShape
<1>5. /\ record'.execution = record.execution
      /\ record'.attempts[op] = s
      /\ \A o \in Operations : o # op => record'.attempts[o] = record.attempts[o]
  BY <1>0, <1>1, <1>4, RecordFields DEF Record
<1>6. PICK m \in Nat : s = Append(old, newAttempt(q, m))
  <2>1. CASE StartAttemptVerdict(record, q) = "First"
    <3>1. record' = [record EXCEPT !.attempts[op] = <<newAttempt(q, 1)>>]
      BY <2>1 DEF StartAttempt
    <3>2. s = <<newAttempt(q, 1)>> /\ old = <<>>
      BY <1>0, <1>1, <1>5, <2>1, <3>1, RecordFields DEF Record, StartAttemptVerdict
    <3>3. s = Append(old, newAttempt(q, 1))
      BY <3>2
    <3> QED BY <3>3
  <2>2. CASE StartAttemptVerdict(record, q) = "Again"
    <3> DEFINE m == latest(record, op).number + 1
    <3>1. record' = [record EXCEPT !.attempts[op] = Append(@, newAttempt(q, m))]
      BY <2>2 DEF StartAttempt
    <3>2. old # <<>>
      BY <2>2 DEF StartAttemptVerdict
    <3>3. m \in Nat
      BY <1>0, <1>1, <3>2, LatestType, AttemptFields
    <3> HIDE DEF m
    <3>4. s = Append(old, newAttempt(q, m))
      BY <1>0, <1>1, <1>5, <3>1, RecordFields DEF Record
    <3> QED BY <3>3, <3>4
  <2> QED BY <1>3, <2>1, <2>2
<1>7. old = <<>> \/ latest(record, op).status = "abandoned"
  BY <1>3 DEF StartAttemptVerdict
<1>8. ~doubtIn(record, op) /\ outcomeIn(record, op) = None
  BY <1>7 DEF doubtIn, outcomeIn, uncertain, settled
<1>9. doubtIn(record', op) /\ outcomeIn(record', op) = None
  <2>1. s # <<>> /\ s[Len(s)] = newAttempt(q, m)
    BY <1>2, <1>6, NewAttemptType
  <2>2. latest(record', op) = newAttempt(q, m)
    BY <1>5, <2>1 DEF latest
  <2>3. newAttempt(q, m).status = "running"
    BY DEF newAttempt
  <2> QED BY <1>5, <2>1, <2>2, <2>3 DEF doubtIn, outcomeIn, uncertain, settled
<1>10. record.execution.result = None
  <2>1. record.execution.lease.token # 0
    BY <1>1 DEF requireActiveLease, leaseMatches
  <2> QED BY <2>1 DEF BackendInv, LeaseIsNewest, TerminalIsSettled, terminal
<1>11. \A o \in Operations : o # op => SameView(record, record', o)
  BY <1>5, SameAttempts
<1> HIDE DEF op
<1>12. journalOutcome' = journalOutcome
  BY <1>8, <1>9, <1>11, ViewDefined DEF SameView
<1>13. /\ op \notin journalDoubt /\ journalDoubt' = journalDoubt \cup {op}
       /\ journalOutcome[op] = None
  BY <1>1, <1>8, <1>9, <1>11, ViewDefined DEF SameView
<1>14. Journal!Begin(op)
  BY <1>5, <1>10, <1>12, <1>13 DEF Journal!Begin
<1> QED BY <1>1, <1>14 DEF Journal!Next

-----------------------------------------------------------------------------
(* What the calls that write one attempt write.                            *)

\* FinishAttempt replaces the running attempt it names by its outcome.
LEMMA FinishAttemptWrites ==
  ASSUME record \in Record, NEW q \in SettleCalls,
         FinishAttemptVerdict(record, q) = "Finish"
  PROVE  /\ q.operation \in Operations
         /\ positions(record, q.operation, q.number) # {}
         /\ uncertain(attemptByNumber(record, q.operation, q.number))
         /\ \E b \in Attempt :
              /\ FinishAttempt(record, q) = putAttempt(record, q.operation, q.number, b)
              /\ b.number = attemptByNumber(record, q.operation, q.number).number
              /\ b.status \in {"succeeded", "failed"}
              /\ sameOutcome(b, q)
<1> DEFINE a == attemptByNumber(record, q.operation, q.number)
           status == IF q.failure # None THEN "failed" ELSE "succeeded"
           b == [a EXCEPT !.status = status, !.lease = NoLeaseRef, !.payload = q.payload,
                          !.failure = q.failure, !.version = @ + 1]
<1>1. positions(record, q.operation, q.number) # {} /\ a.status = "running"
  BY SettleVerdictFacts DEF FinishAttemptVerdict
<1>2. /\ q.operation \in Operations
      /\ q.payload \in Payloads \cup {None} /\ q.failure \in Failures \cup {None}
  BY DEF SettleCalls
<1>3. FinishAttempt(record, q) = putAttempt(record, q.operation, q.number, b)
  BY DEF FinishAttempt
<1>4. a \in Attempt
  BY <1>1, <1>2, AttemptByNumberType
<1>5. status \in AttemptStatus /\ status \in {"succeeded", "failed"}
  BY DEF AttemptStatus
<1>6. a.version = q.version
  BY <1>1 DEF FinishAttemptVerdict, settleVerdict
<1>7. /\ b \in Attempt /\ b.number = a.number /\ b.status = status
      /\ b.payload = q.payload /\ b.failure = q.failure /\ b.version = q.version + 1
  <2> HIDE DEF a, status
  <2> QED BY <1>2, <1>4, <1>5, <1>6, AttemptFields, NullTypes DEF Attempt
<1>8. uncertain(a)
  BY <1>1 DEF uncertain
<1> HIDE DEF b, status
<1> QED BY <1>1, <1>2, <1>3, <1>5, <1>7, <1>8 DEF sameOutcome

\* MarkAttemptUnknown replaces the running attempt it names by an unknown one.
LEMMA MarkAttemptUnknownWrites ==
  ASSUME record \in Record, NEW q \in SettleCalls,
         MarkAttemptUnknownVerdict(record, q) = "Mark"
  PROVE  /\ q.operation \in Operations
         /\ positions(record, q.operation, q.number) # {}
         /\ uncertain(attemptByNumber(record, q.operation, q.number))
         /\ \E b \in Attempt :
              /\ MarkAttemptUnknown(record, q) = putAttempt(record, q.operation, q.number, b)
              /\ b.number = attemptByNumber(record, q.operation, q.number).number
              /\ b.status = "unknown"
              /\ sameOutcome(b, q)
<1> DEFINE a == attemptByNumber(record, q.operation, q.number)
           b == [markUnknown(a) EXCEPT !.payload = q.payload, !.failure = q.failure]
<1>1. positions(record, q.operation, q.number) # {} /\ a.status = "running"
  BY SettleVerdictFacts DEF MarkAttemptUnknownVerdict
<1>2. /\ q.operation \in Operations
      /\ q.payload \in Payloads \cup {None} /\ q.failure \in Failures \cup {None}
  BY DEF SettleCalls
<1>3. MarkAttemptUnknown(record, q) = putAttempt(record, q.operation, q.number, b)
  BY DEF MarkAttemptUnknown
<1>4. a \in Attempt /\ markUnknown(a) \in Attempt
  BY <1>1, <1>2, AttemptByNumberType, MarkUnknownType
<1>5. a.version = q.version
  BY <1>1 DEF MarkAttemptUnknownVerdict, settleVerdict
<1>6. /\ markUnknown(a).number = a.number /\ markUnknown(a).status = "unknown"
      /\ markUnknown(a).version = q.version + 1
  <2> HIDE DEF a
  <2> QED BY <1>4, <1>5 DEF markUnknown, Attempt
<1>7. /\ b \in Attempt /\ b.number = a.number /\ b.status = "unknown"
      /\ b.payload = q.payload /\ b.failure = q.failure /\ b.version = q.version + 1
  <2> HIDE DEF a
  <2> QED BY <1>2, <1>4, <1>6 DEF Attempt
<1>8. uncertain(a)
  BY <1>1 DEF uncertain
<1> HIDE DEF b
<1> QED BY <1>1, <1>2, <1>3, <1>7, <1>8 DEF sameOutcome

\* ReconcileAttempt replaces the unknown attempt it names by its resolution.
LEMMA ReconcileAttemptWrites ==
  ASSUME record \in Record, NEW q \in ReconcileCalls,
         ReconcileAttemptVerdict(record, q) = "Reconcile"
  PROVE  /\ q.operation \in Operations
         /\ positions(record, q.operation, q.number) # {}
         /\ uncertain(attemptByNumber(record, q.operation, q.number))
         /\ \E b \in Attempt :
              /\ ReconcileAttempt(record, q) = putAttempt(record, q.operation, q.number, b)
              /\ b.number = attemptByNumber(record, q.operation, q.number).number
              /\ b.status = resolvedStatus(q.resolution)
              /\ b.status \in {"succeeded", "failed", "abandoned"}
              /\ sameOutcome(b, q)
<1> DEFINE a == attemptByNumber(record, q.operation, q.number)
           status == resolvedStatus(q.resolution)
           b == [a EXCEPT !.status = status, !.lease = NoLeaseRef,
                          !.payload = q.payload, !.failure = q.failure, !.version = @ + 1]
<1>1. positions(record, q.operation, q.number) # {} /\ a.status = "unknown"
  BY ReconcileVerdictFacts
<1>2. /\ q.operation \in Operations /\ q.resolution \in {"succeed", "fail", "retry"}
      /\ q.payload \in Payloads \cup {None} /\ q.failure \in Failures \cup {None}
  BY DEF ReconcileCalls
<1>3. ReconcileAttempt(record, q) = putAttempt(record, q.operation, q.number, b)
  BY DEF ReconcileAttempt
<1>4. a \in Attempt
  BY <1>1, <1>2, AttemptByNumberType
<1>5. status \in AttemptStatus /\ status \in {"succeeded", "failed", "abandoned"}
  BY <1>2 DEF AttemptStatus, resolvedStatus
<1>6. a.version = q.version
  BY DEF ReconcileAttemptVerdict
<1>7. /\ b \in Attempt /\ b.number = a.number /\ b.status = status
      /\ b.payload = q.payload /\ b.failure = q.failure /\ b.version = q.version + 1
  <2> HIDE DEF a, status
  <2> QED BY <1>2, <1>4, <1>5, <1>6, AttemptFields, NullTypes DEF Attempt
<1>8. uncertain(a)
  BY <1>1 DEF uncertain
<1> HIDE DEF b
<1> QED BY <1>1, <1>2, <1>3, <1>5, <1>7, <1>8 DEF sameOutcome

-----------------------------------------------------------------------------
(* The refinement.                                                         *)

\* FinishExecution writes the one result, with nothing in doubt.
LEMMA FinishJournal ==
  ASSUME BackendInv, NEW q \in FinishCalls,
         FinishExecutionVerdict(record, q) = "Finish",
         record' = FinishExecution(record, q)
  PROVE  Journal!Next
<1>0. record \in Record
  BY DEF BackendInv, TypeOK
<1>1. ~terminal(record.execution.status) /\ ~hasUncertainAttempts(record)
  BY DEF FinishExecutionVerdict
<1>2. record'.attempts = record.attempts /\ record'.execution.result = q.result
  BY <1>0, RecordFields DEF FinishExecution, Record, Execution
<1>3. record.execution.result = None
  BY <1>1 DEF BackendInv, TerminalIsSettled
<1>4. \A op \in Operations : SameView(record, record', op)
  BY <1>2, SameAttempts
<1>5. journalOutcome' = journalOutcome /\ journalDoubt' = journalDoubt
  BY <1>4, ViewDefined DEF SameView
<1>6. journalDoubt = {}
  <2> SUFFICES ASSUME NEW op \in Operations, doubtIn(record, op) PROVE FALSE
    BY ViewDefined
  <2>1. Len(record.attempts[op]) \in DOMAIN record.attempts[op]
    BY <1>0, LatestType DEF doubtIn
  <2> QED BY <1>1, <2>1 DEF doubtIn, latest, hasUncertainAttempts
<1>7. q.result \in Results
  BY DEF FinishCalls
<1>8. Journal!Complete(q.result)
  BY <1>2, <1>3, <1>5, <1>6 DEF Journal!Complete
<1> QED BY <1>7, <1>8 DEF Journal!Next

\* Steps that write neither an attempt nor the result are stutters.
LEMMA QuietJournal ==
  ASSUME record'.attempts = record.attempts,
         record'.execution.result = record.execution.result
  PROVE  UNCHANGED journalVars
BY SameAttempts, ViewStutters

\* Every step of the backend is a step of the journal or a stutter.
LEMMA JournalStep ==
  ASSUME BackendInv, [Calls]_record
  PROVE  [Journal!Next]_journalVars
<1> DEFINE Goal == [Journal!Next]_journalVars
<1>0. record \in Record
  BY DEF BackendInv, TypeOK
<1>1. ASSUME NEW q \in StartRequests, CallCreate(q) PROVE Goal
  <2>1. ~exists(record) /\ record' = create(record, q)
    BY <1>1 DEF CallCreate, StartExecutionVerdict, StartExecution, claimVerdict
  <2>2. record'.attempts = record.attempts /\ record'.execution.result = None
    BY <1>0, <2>1 DEF create, Record, NoExecution
  <2>3. record.execution.result = None
    BY <2>1 DEF BackendInv, TerminalIsSettled, terminal, exists
  <2> QED BY <2>2, <2>3, QuietJournal
<1>2. ASSUME NEW q \in ClaimRequests, record' = claim(record, q) PROVE Goal
  <2>1. /\ record'.attempts = reconcileRunning(record.attempts, 0)
        /\ record'.execution.result = record.execution.result
    BY <1>0, <1>2, RecordFields DEF claim, Record, Execution
  <2> QED BY <1>0, <2>1, MarkingInvisible, ViewStutters
<1>3. ASSUME NEW q \in StartRequests, CallStart(q) PROVE Goal
  BY <1>2, <1>3 DEF CallStart, StartExecution, ClaimRequests
<1>4. ASSUME NEW q \in ResumeRequests, CallResume(q) PROVE Goal
  BY <1>2, <1>4 DEF CallResume, ResumeExecution, ClaimRequests
<1>5. ASSUME NEW ref \in LeaseRef, NEW ttl \in LeaseTTLs, CallRenew(ref, ttl) PROVE Goal
  <2>1. record' = [record EXCEPT !.execution.lease.ttl = ttl]
    BY <1>5 DEF CallRenew, RenewExecution
  <2> QED BY <1>0, <2>1, TTLFields, QuietJournal
<1>6. ASSUME NEW q \in CheckpointCalls, CallSaveCheckpoint(q) PROVE Goal
  <2>1. /\ record'.attempts = record.attempts
        /\ record'.execution.result = record.execution.result
    BY <1>0, <1>6, RecordFields DEF CallSaveCheckpoint, SaveCheckpoint, Record, Execution
  <2> QED BY <2>1, QuietJournal
<1>7. ASSUME NEW q \in SuspendCalls, CallSuspend(q) PROVE Goal
  <2>1. /\ record'.attempts = reconcileRunning(record.attempts, q.lease.token)
        /\ record'.execution.result = record.execution.result
    BY <1>0, <1>7, RecordFields DEF CallSuspend, SuspendExecution, Record, Execution
  <2> QED BY <1>0, <2>1, MarkingInvisible, ViewStutters
<1>8. ASSUME NEW q \in FinishCalls, CallFinish(q) PROVE Goal
  BY <1>8, FinishJournal DEF CallFinish
<1>9. ASSUME NEW ref \in LeaseRef, CallRelease(ref) PROVE Goal
  <2>1. /\ record'.attempts = reconcileRunning(record.attempts, ref.token)
        /\ record'.execution.result = record.execution.result
    BY <1>0, <1>9, RecordFields DEF CallRelease, ReleaseExecution, Record, Execution
  <2> QED BY <1>0, <2>1, MarkingInvisible, ViewStutters
<1>10. ASSUME NEW q \in AttemptCalls, CallStartAttempt(q) PROVE Goal
  BY <1>10, StartAttemptJournal DEF CallStartAttempt
<1>11. ASSUME NEW q \in SettleCalls, CallFinishAttempt(q) PROVE Goal
  <2>1. FinishAttemptVerdict(record, q) = "Finish" /\ record' = FinishAttempt(record, q)
    BY <1>11 DEF CallFinishAttempt
  <2>2. PICK b \in Attempt :
          /\ FinishAttempt(record, q) = putAttempt(record, q.operation, q.number, b)
          /\ b.number = attemptByNumber(record, q.operation, q.number).number
          /\ b.status \in {"succeeded", "failed"}
    BY <1>0, <2>1, FinishAttemptWrites
  <2>3. /\ q.operation \in Operations /\ positions(record, q.operation, q.number) # {}
        /\ uncertain(attemptByNumber(record, q.operation, q.number))
    BY <1>0, <2>1, FinishAttemptWrites
  <2> QED BY <2>1, <2>2, <2>3, PutJournal
<1>12. ASSUME NEW q \in SettleCalls, CallMarkAttemptUnknown(q) PROVE Goal
  <2>1. /\ MarkAttemptUnknownVerdict(record, q) = "Mark"
        /\ record' = MarkAttemptUnknown(record, q)
    BY <1>12 DEF CallMarkAttemptUnknown
  <2>2. PICK b \in Attempt :
          /\ MarkAttemptUnknown(record, q) = putAttempt(record, q.operation, q.number, b)
          /\ b.number = attemptByNumber(record, q.operation, q.number).number
          /\ b.status = "unknown"
    BY <1>0, <2>1, MarkAttemptUnknownWrites
  <2>3. /\ q.operation \in Operations /\ positions(record, q.operation, q.number) # {}
        /\ uncertain(attemptByNumber(record, q.operation, q.number))
    BY <1>0, <2>1, MarkAttemptUnknownWrites
  <2> QED BY <2>1, <2>2, <2>3, PutJournal
<1>13. ASSUME NEW q \in ReconcileCalls, CallReconcileAttempt(q) PROVE Goal
  <2>1. /\ ReconcileAttemptVerdict(record, q) = "Reconcile"
        /\ record' = ReconcileAttempt(record, q)
    BY <1>13 DEF CallReconcileAttempt
  <2>2. PICK b \in Attempt :
          /\ ReconcileAttempt(record, q) = putAttempt(record, q.operation, q.number, b)
          /\ b.number = attemptByNumber(record, q.operation, q.number).number
          /\ b.status \in {"succeeded", "failed", "abandoned"}
    BY <1>0, <2>1, ReconcileAttemptWrites
  <2>3. /\ q.operation \in Operations /\ positions(record, q.operation, q.number) # {}
        /\ uncertain(attemptByNumber(record, q.operation, q.number))
    BY <1>0, <2>1, ReconcileAttemptWrites
  <2> QED BY <2>1, <2>2, <2>3, PutJournal
<1>14. CASE Advance
  <2>1. record' = [record EXCEPT !.execution.lease.ttl = record.execution.lease.ttl - 1]
    BY <1>14 DEF Advance
  <2> QED BY <1>0, <2>1, TTLFields, QuietJournal
<1>15. CASE UNCHANGED record
  BY <1>15, QuietJournal
<1> QED BY <1>1, <1>3, <1>4, <1>5, <1>6, <1>7, <1>8, <1>9, <1>10, <1>11, <1>12, <1>13,
           <1>14, <1>15 DEF Calls

\* The backend implements the effect journal: every operation gets at most one
\* outcome, given only while it is in doubt, and the execution at most one
\* result, written when nothing is in doubt, through every claim, lease loss,
\* retry and reconciliation of execution.go and attempt.go.
THEOREM BackendImplementsJournal == Spec => ImplementsJournal
<1>1. Init => Journal!Init
  <2> SUFFICES ASSUME Init PROVE Journal!Init
    OBVIOUS
  <2>1. /\ record.execution.result = None
        /\ \A op \in Operations : record.attempts[op] = <<>>
    BY DEF Init, NoRecord, NoExecution
  <2>2. \A op \in Operations : ~doubtIn(record, op) /\ outcomeIn(record, op) = None
    BY <2>1 DEF doubtIn, outcomeIn
  <2>3. journalOutcome = [op \in Operations |-> None] /\ journalDoubt = {}
    BY <2>2, ViewDefined
  <2> QED BY <2>1, <2>3 DEF Journal!Init
<1>2. BackendInv /\ [Next]_record =>
        [Journal!Next]_<<journalOutcome, journalDoubt, record.execution.result>>
  BY JournalStep, NextCalls DEF journalVars
<1> QED BY <1>1, <1>2, Safety, PTL DEF Spec, ImplementsJournal, Journal!Spec

-----------------------------------------------------------------------------
(* Checkpoints and versions move forward.                                  *)

\* What a step may do to the position of an execution.
Forward ==
  /\ record'.execution.version >= record.execution.version
  /\ record'.execution.checkpoint.sequence >= record.execution.checkpoint.sequence
  /\ record'.execution.checkpoint # record.execution.checkpoint =>
       /\ record'.execution.version = record.execution.version + 1
       /\ record'.execution.checkpoint.sequence > record.execution.checkpoint.sequence
  /\ record'.nextToken >= record.nextToken

\* A step that keeps the checkpoint and lowers neither version nor token.
LEMMA KeepsCheckpoint ==
  ASSUME record \in Record,
         record'.execution.checkpoint = record.execution.checkpoint,
         record'.execution.version \in {record.execution.version, record.execution.version + 1},
         record'.nextToken \in {record.nextToken, record.nextToken + 1}
  PROVE  Forward
<1>1. /\ record.execution.version \in Nat /\ record.nextToken \in Nat
      /\ record.execution.checkpoint.sequence \in Nat
  BY RecordFields, ExecutionFields DEF Checkpoint
<1> QED BY <1>1 DEF Forward

\* SaveCheckpoint writes a higher sequence, and the version with it.
LEMMA SaveIsForward ==
  ASSUME record \in Record, NEW q \in CheckpointCalls,
         SaveCheckpointVerdict(record, q) = "Save",
         record' = SaveCheckpoint(record, q)
  PROVE  Forward
<1> DEFINE current == record.execution.checkpoint
<1>1. /\ record.execution.version \in Nat /\ record.nextToken \in Nat
      /\ current \in Checkpoint /\ current.sequence \in Nat
  BY RecordFields, ExecutionFields DEF Checkpoint
<1>2. q.checkpoint.sequence \in Nat \ {0}
  BY DEF CheckpointCalls
<1>3. \/ current = NoCheckpoint
      \/ /\ current.sequence # q.checkpoint.sequence
         /\ ~(q.checkpoint.sequence < current.sequence)
  BY DEF SaveCheckpointVerdict
<1>4. current = NoCheckpoint => current.sequence = 0
  BY DEF NoCheckpoint
<1>5. q.checkpoint.sequence > current.sequence
  BY <1>1, <1>2, <1>3, <1>4
<1>6. /\ record'.execution.checkpoint = q.checkpoint
      /\ record'.execution.version = record.execution.version + 1
      /\ record'.nextToken = record.nextToken
  BY RecordFields DEF SaveCheckpoint, Record, Execution
<1> QED BY <1>1, <1>2, <1>5, <1>6 DEF Forward

\* Before an execution exists it has no checkpoint.
NothingSaved == ~exists(record) => /\ record.execution.checkpoint = NoCheckpoint
                                   /\ record.execution.version = 0

\* Every step moves forward, and leaves an execution behind that exists.
LEMMA ForwardStep ==
  ASSUME BackendInv, NothingSaved, Calls
  PROVE  Forward /\ exists(record')
<1> DEFINE Goal == Forward /\ exists(record')
<1>0. record \in Record
  BY DEF BackendInv, TypeOK
<1>t. /\ record.execution.version \in Nat
      /\ record.execution.lease.token # 0 => exists(record)
  BY <1>0, RecordFields, ExecutionFields DEF BackendInv, LeaseIsNewest, exists
<1>a. ASSUME exists(record), record'.execution = record.execution,
             record'.nextToken = record.nextToken
      PROVE  Goal
  BY <1>0, <1>a, KeepsCheckpoint DEF exists
<1>1. ASSUME NEW q \in StartRequests, CallCreate(q) PROVE Goal
  <2>1. ~exists(record) /\ record' = create(record, q)
    BY <1>1 DEF CallCreate, StartExecutionVerdict, StartExecution, claimVerdict
  <2>2. /\ record'.execution.checkpoint = NoCheckpoint /\ record'.execution.version = 1
        /\ record'.execution.status = "running" /\ record'.nextToken = record.nextToken + 1
    BY <1>0, <2>1 DEF create, Record, NoExecution
  <2>3. record.execution.checkpoint = NoCheckpoint /\ record.execution.version = 0
    BY <2>1 DEF NothingSaved
  <2> QED BY <1>0, <2>2, <2>3, KeepsCheckpoint DEF exists
<1>2. ASSUME NEW q \in ClaimRequests, record' = claim(record, q) PROVE Goal
  <2>1. /\ record'.execution.checkpoint = record.execution.checkpoint
        /\ record'.execution.version = record.execution.version
        /\ record'.execution.status = "running" /\ record'.nextToken = record.nextToken + 1
    BY <1>0, <1>2, RecordFields DEF claim, Record, Execution
  <2> QED BY <1>0, <2>1, KeepsCheckpoint DEF exists
<1>3. ASSUME NEW q \in StartRequests, CallStart(q) PROVE Goal
  BY <1>2, <1>3 DEF CallStart, StartExecution, ClaimRequests
<1>4. ASSUME NEW q \in ResumeRequests, CallResume(q) PROVE Goal
  BY <1>2, <1>4 DEF CallResume, ResumeExecution, ClaimRequests
<1>b. ASSUME NEW ttl, record.execution.lease.token # 0,
             record' = [record EXCEPT !.execution.lease.ttl = ttl]
      PROVE  Goal
  <2>1. /\ record'.execution.checkpoint = record.execution.checkpoint
        /\ record'.execution.version = record.execution.version
        /\ record'.execution.status = record.execution.status
        /\ record'.nextToken = record.nextToken
    BY <1>0, <1>b, RecordFields DEF Record, Execution
  <2> QED BY <1>0, <1>b, <1>t, <2>1, KeepsCheckpoint DEF exists
<1>5. ASSUME NEW ref \in LeaseRef, NEW ttl \in LeaseTTLs, CallRenew(ref, ttl) PROVE Goal
  <2>1. /\ record' = [record EXCEPT !.execution.lease.ttl = ttl]
        /\ record.execution.lease.token # 0
    BY <1>5 DEF CallRenew, RenewExecution, RenewExecutionVerdict, requireActiveLease, leaseMatches
  <2> QED BY <1>b, <2>1
<1>6. ASSUME NEW q \in CheckpointCalls, CallSaveCheckpoint(q) PROVE Goal
  <2>1. SaveCheckpointVerdict(record, q) = "Save" /\ record' = SaveCheckpoint(record, q)
    BY <1>6 DEF CallSaveCheckpoint
  <2>2. exists(record)
    BY <2>1 DEF SaveCheckpointVerdict
  <2>3. record'.execution.status = record.execution.status
    BY <1>0, <2>1, RecordFields DEF SaveCheckpoint, Record, Execution
  <2> QED BY <1>0, <2>1, <2>2, <2>3, SaveIsForward DEF exists
<1>7. ASSUME NEW q \in SuspendCalls, CallSuspend(q) PROVE Goal
  <2>1. /\ record'.execution.checkpoint = record.execution.checkpoint
        /\ record'.execution.version = record.execution.version + 1
        /\ record'.execution.status = "suspended" /\ record'.nextToken = record.nextToken
    BY <1>0, <1>7, RecordFields DEF CallSuspend, SuspendExecution, Record, Execution
  <2> QED BY <1>0, <2>1, KeepsCheckpoint DEF exists
<1>8. ASSUME NEW q \in FinishCalls, CallFinish(q) PROVE Goal
  <2>1. /\ record'.execution.checkpoint = record.execution.checkpoint
        /\ record'.execution.version = record.execution.version + 1
        /\ record'.execution.status \in {"failed", "completed"}
        /\ record'.nextToken = record.nextToken
    BY <1>0, <1>8, RecordFields DEF CallFinish, FinishExecution, Record, Execution
  <2> QED BY <1>0, <2>1, KeepsCheckpoint DEF exists
<1>9. ASSUME NEW ref \in LeaseRef, CallRelease(ref) PROVE Goal
  <2>1. /\ record'.execution.checkpoint = record.execution.checkpoint
        /\ record'.execution.version = record.execution.version
        /\ record'.execution.status = record.execution.status
        /\ record'.nextToken = record.nextToken
    BY <1>0, <1>9, RecordFields DEF CallRelease, ReleaseExecution, Record, Execution
  <2>2. exists(record)
    BY <1>9 DEF CallRelease, ReleaseExecutionVerdict
  <2> QED BY <1>0, <2>1, <2>2, KeepsCheckpoint DEF exists
<1>10. ASSUME NEW q \in AttemptCalls, CallStartAttempt(q) PROVE Goal
  <2>1. /\ StartAttemptVerdict(record, q) \in {"First", "Again", "Orphaned"}
        /\ record' = StartAttempt(record, q)
    BY <1>10 DEF CallStartAttempt
  <2>2. PICK s \in Seq(Attempt) : StartAttempt(record, q) =
               [record EXCEPT !.attempts = [record.attempts EXCEPT ![q.operation] = s]]
    BY <1>0, <2>1, StartAttemptShape
  <2>3. record'.execution = record.execution /\ record'.nextToken = record.nextToken
    BY <1>0, <2>1, <2>2 DEF Record
  <2>4. exists(record)
    BY <2>1 DEF StartAttemptVerdict
  <2> QED BY <1>a, <2>3, <2>4
<1>c. ASSUME NEW op, NEW n, NEW b, record' = putAttempt(record, op, n, b), exists(record)
      PROVE  Goal
  <2>1. record'.execution = record.execution /\ record'.nextToken = record.nextToken
    BY <1>0, <1>c DEF putAttempt, Record
  <2> QED BY <1>a, <1>c, <2>1
<1>11. ASSUME NEW q \in SettleCalls, CallFinishAttempt(q) PROVE Goal
  <2>1. exists(record) /\ FinishAttemptVerdict(record, q) = "Finish"
    BY <1>11 DEF CallFinishAttempt, FinishAttemptVerdict, settleVerdict
  <2>2. \E b : record' = putAttempt(record, q.operation, q.number, b)
    BY <1>0, <1>11, <2>1, FinishAttemptWrites DEF CallFinishAttempt
  <2> QED BY <1>c, <2>1, <2>2
<1>12. ASSUME NEW q \in SettleCalls, CallMarkAttemptUnknown(q) PROVE Goal
  <2>1. exists(record) /\ MarkAttemptUnknownVerdict(record, q) = "Mark"
    BY <1>12 DEF CallMarkAttemptUnknown, MarkAttemptUnknownVerdict, settleVerdict
  <2>2. \E b : record' = putAttempt(record, q.operation, q.number, b)
    BY <1>0, <1>12, <2>1, MarkAttemptUnknownWrites DEF CallMarkAttemptUnknown
  <2> QED BY <1>c, <2>1, <2>2
<1>13. ASSUME NEW q \in ReconcileCalls, CallReconcileAttempt(q) PROVE Goal
  <2>1. exists(record) /\ ReconcileAttemptVerdict(record, q) = "Reconcile"
    BY <1>0, <1>13, ReconcileVerdictFacts DEF CallReconcileAttempt
  <2>2. \E b : record' = putAttempt(record, q.operation, q.number, b)
    BY <1>0, <1>13, <2>1, ReconcileAttemptWrites DEF CallReconcileAttempt
  <2> QED BY <1>c, <2>1, <2>2
<1>14. CASE Advance
  <2>1. record.execution.lease.token # 0
    BY <1>14 DEF Advance, BackendInv, LeaseIsNewest, NoLease
  <2>2. record' = [record EXCEPT !.execution.lease.ttl = record.execution.lease.ttl - 1]
    BY <1>14 DEF Advance
  <2> QED BY <1>b, <2>1, <2>2
<1> QED BY <1>1, <1>3, <1>4, <1>5, <1>6, <1>7, <1>8, <1>9, <1>10, <1>11, <1>12, <1>13,
           <1>14 DEF Calls

\* No lost update: a stale or reordered SaveCheckpoint never puts an older
\* checkpoint back, and no verb lowers the version or the newest token.
THEOREM CheckpointForwardHolds == Spec => CheckpointForward
<1>1. Init => NothingSaved
  BY DEF Init, NoRecord, NoExecution, NothingSaved
<1>2. BackendInv /\ NothingSaved /\ [Calls]_record => NothingSaved'
  <2>1. ASSUME BackendInv, NothingSaved, Calls PROVE NothingSaved'
    BY <2>1, ForwardStep DEF NothingSaved
  <2>2. ASSUME NothingSaved, UNCHANGED record PROVE NothingSaved'
    BY <2>2 DEF NothingSaved, exists
  <2> QED BY <2>1, <2>2
<1>3. BackendInv /\ NothingSaved /\ [Next]_record => [Forward]_record
  BY ForwardStep, NextCalls
<1>4. CheckpointForward <=> [][Forward]_record
  BY DEF CheckpointForward, Forward
<1>5. [Next]_record => [Calls]_record
  BY NextCalls
<1> QED BY <1>1, <1>2, <1>3, <1>4, <1>5, Safety, PTL DEF Spec

-----------------------------------------------------------------------------
(* A call repeated after its answer was lost.                              *)

\* The claim of a key that was just answered is a replay of that answer.
LEMMA ClaimAgain ==
  ASSUME NEW s, NEW q \in ClaimRequests, NEW result, NEW token \in Nat,
         s.claims[q.claim] = [mode |-> q.mode, owner |-> q.owner,
                              leaseTTL |-> q.leaseTTL, specHash |-> q.specHash,
                              token |-> token, result |-> result],
         s.nextToken = token,
         s.execution.lease = [owner |-> q.owner, claim |-> q.claim, token |-> token,
                              ttl |-> q.leaseTTL],
         s.execution.status = "running",
         q.mode = "start" => s.execution.specHash = q.specHash
  PROVE  /\ q.mode = "start" => StartExecution(s, q) = s
         /\ q.mode # "start" => ResumeExecution(s, q) = s
<1> DEFINE prior == s.claims[q.claim]
<1>1. q.mode \in {"start", "resume"} /\ q.leaseTTL \in Nat \ {0}
  BY TTLAssumption DEF ClaimRequests, StartRequests, ResumeRequests
<1>2. prior.mode # "none" /\ sameClaim(prior, q) /\ prior.token = token
  BY <1>1 DEF sameClaim
<1>3. ~(s.nextToken > prior.token)
  BY <1>2
<1>4. leaseActive(s.execution.lease) /\ s.execution.lease.claim = q.claim
  BY <1>1 DEF leaseActive
<1>5. claimVerdict(s, q) = "Replay"
  BY <1>2, <1>3, <1>4 DEF claimVerdict
<1>6. exists(s) /\ ~terminal(s.execution.status)
  BY DEF exists, terminal
<1> QED BY <1>5, <1>6 DEF StartExecution, StartExecutionVerdict, ResumeExecution,
                          ResumeExecutionVerdict

\* What creating an execution writes.
LEMMA CreateFacts ==
  ASSUME NEW r \in Record, NEW q \in ClaimRequests
  PROVE  /\ \E result : create(r, q).claims[q.claim] = claimRecord(r, q, result)
         /\ create(r, q).nextToken = r.nextToken + 1
         /\ create(r, q).execution.lease = newLease(r, q)
         /\ create(r, q).execution.status = "running"
         /\ create(r, q).execution.specHash = q.specHash
<1> DEFINE execution == [NoExecution EXCEPT !.specHash = q.specHash, !.status = "running",
                                            !.version = 1, !.lease = newLease(r, q)]
           result == [execution |-> execution, created |-> TRUE, reconcile |-> {}]
<1>1. /\ execution.lease = newLease(r, q) /\ execution.status = "running"
      /\ execution.specHash = q.specHash
  BY DEF NoExecution
<1>2. create(r, q) = [r EXCEPT !.execution = execution, !.nextToken = @ + 1,
                               !.claims[q.claim] = claimRecord(r, q, result)]
  BY DEF create
<1> HIDE DEF execution, result
<1>3. /\ create(r, q).execution = execution /\ create(r, q).nextToken = r.nextToken + 1
      /\ create(r, q).claims = [r.claims EXCEPT ![q.claim] = claimRecord(r, q, result)]
  BY <1>2 DEF Record
<1>4. create(r, q).claims[q.claim] = claimRecord(r, q, result)
  BY <1>3, RecordFields, ClaimRequestFields
<1> QED BY <1>1, <1>3, <1>4

\* What claiming an existing execution writes.
LEMMA ClaimFacts ==
  ASSUME NEW r \in Record, NEW q \in ClaimRequests
  PROVE  /\ \E result : claim(r, q).claims[q.claim] = claimRecord(r, q, result)
         /\ claim(r, q).nextToken = r.nextToken + 1
         /\ claim(r, q).execution.lease = newLease(r, q)
         /\ claim(r, q).execution.status = "running"
         /\ claim(r, q).execution.specHash = r.execution.specHash
<1> DEFINE attempts == reconcileRunning(r.attempts, 0)
           execution == [r.execution EXCEPT !.status = "running", !.lease = newLease(r, q)]
           result == [execution |-> execution, created |-> FALSE,
                      reconcile |-> unknownAttempts(attempts)]
<1>1. /\ execution.lease = newLease(r, q) /\ execution.status = "running"
      /\ execution.specHash = r.execution.specHash
  BY RecordFields DEF Execution
<1>2. claim(r, q) = [r EXCEPT !.attempts = attempts, !.execution = execution,
                              !.nextToken = @ + 1,
                              !.claims[q.claim] = claimRecord(r, q, result)]
  BY DEF claim
<1> HIDE DEF attempts, execution, result
<1>3. /\ claim(r, q).execution = execution /\ claim(r, q).nextToken = r.nextToken + 1
      /\ claim(r, q).claims = [r.claims EXCEPT ![q.claim] = claimRecord(r, q, result)]
  BY <1>2 DEF Record
<1>4. claim(r, q).claims[q.claim] = claimRecord(r, q, result)
  BY <1>3, RecordFields, ClaimRequestFields
<1> QED BY <1>1, <1>3, <1>4

\* Start and Resume answer the lost call again, with the same lease.
LEMMA ClaimRetried == ASSUME record \in Record PROVE claimRetried
<1> SUFFICES ASSUME NEW q \in ClaimRequests,
                    (IF q.mode = "start" THEN StartExecution(record, q)
                                         ELSE ResumeExecution(record, q)) # record
             PROVE  LET after == IF q.mode = "start" THEN StartExecution(record, q)
                                                     ELSE ResumeExecution(record, q)
                    IN /\ after = IF q.mode = "start" THEN StartExecution(after, q)
                                                      ELSE ResumeExecution(after, q)
                       /\ claimResponse(after, q) = claimResponse(record, q)
  BY DEF claimRetried, ClaimRequests
<1> DEFINE after == IF q.mode = "start" THEN StartExecution(record, q)
                                        ELSE ResumeExecution(record, q)
           token == record.nextToken + 1
           wanted(s) == IF q.mode = "start" THEN StartExecution(s, q)
                                            ELSE ResumeExecution(s, q)
<1>1. /\ token \in Nat /\ q.claim \in ClaimIDs
      /\ DOMAIN record.claims = ClaimIDs
  BY RecordFields, ClaimRequestFields
<1>2. ~terminal(record.execution.status)
  BY DEF StartExecution, StartExecutionVerdict, ResumeExecution, ResumeExecutionVerdict,
         exists, terminal
<1>3. \/ q.mode = "start" /\ after = create(record, q)
      \/ /\ after = claim(record, q)
         /\ q.mode = "start" => record.execution.specHash = q.specHash
  BY DEF StartExecution, StartExecutionVerdict, ResumeExecution, claimVerdict
<1>4. \E result : after.claims[q.claim] = claimRecord(record, q, result)
  BY <1>3, CreateFacts, ClaimFacts
<1>5. /\ after.nextToken = token
      /\ after.execution.lease = newLease(record, q) /\ after.execution.status = "running"
      /\ q.mode = "start" => after.execution.specHash = q.specHash
  BY <1>3, CreateFacts, ClaimFacts
<1> HIDE DEF after, token
<1>8. wanted(after) = after
  BY <1>1, <1>4, <1>5, ClaimAgain DEF claimRecord, newLease, token
<1>9. claimResponse(after, q) = after.claims[q.claim].result
  BY <1>5, <1>8 DEF claimResponse, terminal
<1>10. claimResponse(record, q) = after.claims[q.claim].result
  BY <1>2 DEF claimResponse, after
<1> QED BY <1>8, <1>9, <1>10 DEF after

\* Suspend, Finish and Release find their entry in the idempotency table.
LEMMA EndRetried == ASSUME record \in Record PROVE endRetried
<1>1. ASSUME NEW q \in SuspendCalls, SuspendExecution(record, q) # record
      PROVE  LET after == SuspendExecution(record, q)
             IN /\ SuspendExecution(after, q) = after
                /\ suspendResponse(after, q) = suspendResponse(record, q)
  <2> DEFINE after == SuspendExecution(record, q)
             execution == [record.execution EXCEPT !.status = "suspended", !.lease = NoLease,
                                           !.version = @ + 1]
             entry == [lease |-> q.lease, version |-> q.version, execution |-> execution]
  <2>1. SuspendExecutionVerdict(record, q) = "Suspend"
    BY <1>1 DEF SuspendExecution
  <2>a. after = [record EXCEPT !.attempts = reconcileRunning(@, q.lease.token),
                               !.execution = execution, !.suspends = @ \cup {entry}]
    BY <2>1 DEF SuspendExecution
  <2>b. /\ execution.status = "suspended"
        /\ entry.lease = q.lease /\ entry.version = q.version
    BY RecordFields DEF Execution
  <2> HIDE DEF execution, entry, after
  <2>2. /\ after.execution.status = "suspended"
        /\ after.nextToken = record.nextToken
        /\ \E e \in after.suspends : e.lease = q.lease /\ e.version = q.version
    BY <2>a, <2>b DEF Record
  <2>3. ~(record.nextToken > q.lease.token)
    BY <2>1 DEF SuspendExecutionVerdict
  <2>4. SuspendExecutionVerdict(after, q) = "Replay"
    BY <2>2, <2>3 DEF SuspendExecutionVerdict, exists
  <2>5. SuspendExecution(after, q) = after
    BY <2>4 DEF SuspendExecution
  <2> QED BY <2>5 DEF suspendResponse, after
<1>2. ASSUME NEW q \in FinishCalls, FinishExecution(record, q) # record
      PROVE  LET after == FinishExecution(record, q)
             IN /\ FinishExecution(after, q) = after
                /\ finishResponse(after, q) = finishResponse(record, q)
  <2> DEFINE after == FinishExecution(record, q)
             status == IF q.result \in FailedResults THEN "failed" ELSE "completed"
             execution == [record.execution EXCEPT !.status = status, !.result = q.result,
                                           !.lease = NoLease, !.version = @ + 1]
             entry == [lease |-> q.lease, version |-> q.version, result |-> q.result,
                       execution |-> execution]
  <2>1. FinishExecutionVerdict(record, q) = "Finish"
    BY <1>2 DEF FinishExecution
  <2>a. after = [record EXCEPT !.execution = execution, !.finishes = @ \cup {entry}]
    BY <2>1 DEF FinishExecution
  <2>b. /\ execution.status \in {"failed", "completed"} /\ entry.lease = q.lease
        /\ entry.version = q.version /\ entry.result = q.result
    BY RecordFields DEF Execution
  <2> HIDE DEF execution, entry, after
  <2>2. /\ after.execution.status \in {"failed", "completed"}
        /\ after.nextToken = record.nextToken
        /\ \E e \in after.finishes : /\ e.lease = q.lease
                                     /\ e.version = q.version
                                     /\ e.result = q.result
    BY <2>a, <2>b DEF Record
  <2>3. ~(record.nextToken > q.lease.token)
    BY <2>1 DEF FinishExecutionVerdict
  <2>4. FinishExecutionVerdict(after, q) = "Replay"
    BY <2>2, <2>3 DEF FinishExecutionVerdict, exists
  <2>5. FinishExecution(after, q) = after
    BY <2>4 DEF FinishExecution
  <2> QED BY <2>5 DEF finishResponse, after
<1>3. ASSUME NEW ref \in LeaseRef, ReleaseExecution(record, ref) # record
      PROVE  LET after == ReleaseExecution(record, ref)
             IN /\ ReleaseExecution(after, ref) = after
                /\ releaseResponse(after, ref) = releaseResponse(record, ref)
  <2> DEFINE after == ReleaseExecution(record, ref)
             attempts == reconcileRunning(record.attempts, ref.token)
             execution == [record.execution EXCEPT !.lease = NoLease]
             entry == [lease |-> ref, execution |-> execution,
                       reconcile |-> unknownAttempts(attempts)
                                       \ unknownAttempts(record.attempts)]
  <2>1. ReleaseExecutionVerdict(record, ref) = "Release"
    BY <1>3 DEF ReleaseExecution
  <2>a. after = [record EXCEPT !.attempts = attempts, !.execution = execution,
                               !.releases = @ \cup {entry}]
    BY <2>1 DEF ReleaseExecution
  <2>b. execution.status = record.execution.status /\ entry.lease = ref
    BY RecordFields DEF Execution
  <2> HIDE DEF attempts, execution, entry, after
  <2>2. /\ after.execution.status = record.execution.status
        /\ after.nextToken = record.nextToken
        /\ \E e \in after.releases : e.lease = ref
    BY <2>a, <2>b DEF Record
  <2>3. ~(record.nextToken > ref.token) /\ exists(record)
    BY <2>1 DEF ReleaseExecutionVerdict
  <2>4. ReleaseExecutionVerdict(after, ref) = "Replay"
    BY <2>2, <2>3 DEF ReleaseExecutionVerdict, exists
  <2>5. ReleaseExecution(after, ref) = after
    BY <2>4 DEF ReleaseExecution
  <2> QED BY <2>5 DEF releaseResponse, after
<1> QED BY <1>1, <1>2, <1>3, RequestsAreCalls DEF endRetried

\* A checkpoint sent twice is compared with the one saved.
LEMMA CheckpointRetried == ASSUME record \in Record PROVE checkpointRetried
<1> SUFFICES ASSUME NEW q \in CheckpointCalls, SaveCheckpoint(record, q) # record
             PROVE  SaveCheckpointVerdict(SaveCheckpoint(record, q), q) = "Replay"
  BY RequestsAreCalls DEF checkpointRetried
<1> DEFINE after == SaveCheckpoint(record, q)
<1>1. SaveCheckpointVerdict(record, q) = "Save"
  BY DEF SaveCheckpoint
<1>2. exists(record) /\ requireActiveLease(record, q.lease)
  BY <1>1 DEF SaveCheckpointVerdict
<1>3. /\ after.execution.checkpoint = q.checkpoint
      /\ after.execution.status = record.execution.status
      /\ after.execution.lease = record.execution.lease
  BY <1>1, RecordFields DEF SaveCheckpoint, Record, Execution
<1>4. q.checkpoint # NoCheckpoint
  BY BoundAssumption DEF CheckpointCalls, NoCheckpoint
<1> HIDE DEF after
<1>5. SaveCheckpointVerdict(after, q) = "Replay"
  BY <1>2, <1>3, <1>4 DEF SaveCheckpointVerdict, exists, requireActiveLease
<1> QED BY <1>5 DEF after

\* StartAttempt never meets a running attempt of another lease.
LEMMA NeverOrphaned ==
  ASSUME BackendInv, NEW q \in AttemptCalls
  PROVE  StartAttemptVerdict(record, q) # "Orphaned"
<1> SUFFICES ASSUME StartAttemptVerdict(record, q) = "Orphaned" PROVE FALSE
  OBVIOUS
<1> DEFINE a == latest(record, q.operation)
<1>0. record \in Record /\ q.operation \in Operations
  BY DEF BackendInv, TypeOK, AttemptCalls
<1>1. /\ requireActiveLease(record, q.lease) /\ record.attempts[q.operation] # <<>>
      /\ ~settled(a) /\ a.status \notin {"unknown", "abandoned"} /\ a.lease # q.lease
  BY DEF StartAttemptVerdict
<1>2. a \in Attempt /\ Len(record.attempts[q.operation]) \in DOMAIN record.attempts[q.operation]
  BY <1>0, <1>1, LatestType
<1>3. a.status = "running" /\ a.lease \in LeaseRef
  BY <1>1, <1>2, AttemptFields DEF settled, AttemptStatus
<1>4. leaseMatches(record.execution.lease, a.lease)
  BY <1>0, <1>2, <1>3 DEF BackendInv, RunningHeldByLease, latest
<1>5. leaseMatches(record.execution.lease, q.lease)
  BY <1>1 DEF requireActiveLease
<1>6. q.lease \in LeaseRef
  BY BoundAssumption DEF AttemptCalls, LeaseRef
<1>7. a.lease.owner = q.lease.owner /\ a.lease.token = q.lease.token
  BY <1>4, <1>5 DEF leaseMatches
<1> QED BY <1>1, <1>3, <1>6, <1>7, LeaseRefEqual

\* A StartAttempt sent twice finds the attempt it opened and may execute it.
LEMMA StartAttemptRetried ==
  ASSUME BackendInv, NEW q \in AttemptCalls, StartAttempt(record, q) # record
  PROVE  LET after == StartAttempt(record, q)
         IN /\ StartAttempt(after, q) = after
            /\ startAttemptResponse(after, q) = startAttemptResponse(record, q)
<1> DEFINE op == q.operation
           after == StartAttempt(record, q)
<1>0. record \in Record /\ op \in Operations
  BY DEF BackendInv, TypeOK, AttemptCalls
<1>1. StartAttemptVerdict(record, q) \in {"First", "Again"}
  BY NeverOrphaned DEF StartAttempt
<1>2. /\ exists(record) /\ requireActiveLease(record, q.lease)
      /\ record.attempts[op] \in Seq(Attempt)
  BY <1>0, <1>1, RecordFields DEF StartAttemptVerdict
<1>3. PICK m \in Nat, s \in Seq(Attempt) :
        /\ after = [record EXCEPT !.attempts[op] = s]
        /\ s # <<>> /\ s[Len(s)] = newAttempt(q, m)
  <2>1. CASE StartAttemptVerdict(record, q) = "First"
    <3>1. after = [record EXCEPT !.attempts[op] = <<newAttempt(q, 1)>>]
      BY <2>1 DEF StartAttempt
    <3>2. newAttempt(q, 1) \in Attempt
      BY NewAttemptType
    <3> HIDE DEF after
    <3>3. /\ <<newAttempt(q, 1)>> \in Seq(Attempt) /\ <<newAttempt(q, 1)>> # <<>>
          /\ <<newAttempt(q, 1)>>[Len(<<newAttempt(q, 1)>>)] = newAttempt(q, 1)
      BY <3>2
    <3>4. 1 \in Nat
      OBVIOUS
    <3> QED BY <3>1, <3>3, <3>4
  <2>2. CASE StartAttemptVerdict(record, q) = "Again"
    <3> DEFINE m == latest(record, op).number + 1
               s == Append(record.attempts[op], newAttempt(q, m))
    <3>1. after = [record EXCEPT !.attempts[op] = Append(@, newAttempt(q, m))]
      BY <2>2 DEF StartAttempt
    <3>2. m \in Nat
      BY <1>0, <2>2, LatestType, AttemptFields DEF StartAttemptVerdict
    <3>3. newAttempt(q, m) \in Attempt
      BY <3>2, NewAttemptType
    <3>4. after = [record EXCEPT !.attempts[op] = s]
      BY <3>1
    <3> HIDE DEF after, m
    <3>5. s \in Seq(Attempt) /\ s # <<>> /\ s[Len(s)] = newAttempt(q, m)
      BY <1>2, <3>3
    <3> HIDE DEF s
    <3> QED BY <3>2, <3>4, <3>5
  <2> QED BY <1>1, <2>1, <2>2
<1> HIDE DEF after
<1>4. after.execution = record.execution /\ after.attempts[op] = s
  BY <1>0, <1>3, RecordFields DEF Record
<1>5. latest(after, op) = newAttempt(q, m) /\ after.attempts[op] # <<>>
  BY <1>3, <1>4 DEF latest
<1>6. /\ newAttempt(q, m).input = q.input /\ newAttempt(q, m).status = "running"
      /\ newAttempt(q, m).lease = q.lease
  BY DEF newAttempt
<1>7. StartAttemptVerdict(after, q) = "Execute"
  BY <1>2, <1>4, <1>5, <1>6 DEF StartAttemptVerdict, exists, requireActiveLease, settled
<1>8. StartAttempt(after, q) = after
  BY <1>7 DEF StartAttempt
<1>9. startAttemptResponse(after, q) = startAttemptResponse(record, q)
  BY <1>1, <1>7, <1>8 DEF startAttemptResponse, after
<1> QED BY <1>8, <1>9 DEF after

\* An outcome sent twice is compared with the one recorded.
LEMMA AttemptRetried == ASSUME BackendInv PROVE attemptRetried
<1>0. record \in Record
  BY DEF BackendInv, TypeOK
<1>1. ASSUME NEW q \in SettleCalls, FinishAttemptVerdict(record, q) = "Finish"
      PROVE  FinishAttemptVerdict(FinishAttempt(record, q), q) = "Replay"
  <2> DEFINE after == FinishAttempt(record, q)
  <2>1. PICK b \in Attempt :
          /\ after = putAttempt(record, q.operation, q.number, b)
          /\ b.number = attemptByNumber(record, q.operation, q.number).number
          /\ b.status \in {"succeeded", "failed"}
          /\ sameOutcome(b, q)
    BY <1>0, <1>1, FinishAttemptWrites
  <2>2. /\ after.execution = record.execution
        /\ positions(after, q.operation, q.number) # {}
        /\ attemptByNumber(after, q.operation, q.number) = b
    BY <1>0, <1>1, <2>1, FinishAttemptWrites, PutFacts
  <2>3. exists(record) /\ requireActiveLease(record, q.lease)
    BY <1>1 DEF FinishAttemptVerdict, settleVerdict
  <2> HIDE DEF after
  <2>4. FinishAttemptVerdict(after, q) = "Replay"
    BY <2>1, <2>2, <2>3 DEF FinishAttemptVerdict, settleVerdict, exists, requireActiveLease
  <2> QED BY <2>4 DEF after
<1>2. ASSUME NEW q \in SettleCalls, MarkAttemptUnknownVerdict(record, q) = "Mark"
      PROVE  MarkAttemptUnknownVerdict(MarkAttemptUnknown(record, q), q) = "Replay"
  <2> DEFINE after == MarkAttemptUnknown(record, q)
  <2>1. PICK b \in Attempt :
          /\ after = putAttempt(record, q.operation, q.number, b)
          /\ b.number = attemptByNumber(record, q.operation, q.number).number
          /\ b.status = "unknown"
          /\ sameOutcome(b, q)
    BY <1>0, <1>2, MarkAttemptUnknownWrites
  <2>2. /\ after.execution = record.execution
        /\ positions(after, q.operation, q.number) # {}
        /\ attemptByNumber(after, q.operation, q.number) = b
    BY <1>0, <1>2, <2>1, MarkAttemptUnknownWrites, PutFacts
  <2>3. exists(record) /\ requireActiveLease(record, q.lease)
    BY <1>2 DEF MarkAttemptUnknownVerdict, settleVerdict
  <2> HIDE DEF after
  <2>4. MarkAttemptUnknownVerdict(after, q) = "Replay"
    BY <2>1, <2>2, <2>3 DEF MarkAttemptUnknownVerdict, settleVerdict, exists,
                            requireActiveLease
  <2> QED BY <2>4 DEF after
<1>3. ASSUME NEW q \in ReconcileCalls, ReconcileAttemptVerdict(record, q) = "Reconcile"
      PROVE  ReconcileAttemptVerdict(ReconcileAttempt(record, q), q) = "Replay"
  <2> DEFINE after == ReconcileAttempt(record, q)
  <2>1. PICK b \in Attempt :
          /\ after = putAttempt(record, q.operation, q.number, b)
          /\ b.number = attemptByNumber(record, q.operation, q.number).number
          /\ b.status = resolvedStatus(q.resolution)
          /\ sameOutcome(b, q)
    BY <1>0, <1>3, ReconcileAttemptWrites
  <2>2. /\ after.execution = record.execution
        /\ positions(after, q.operation, q.number) # {}
        /\ attemptByNumber(after, q.operation, q.number) = b
    BY <1>0, <1>3, <2>1, ReconcileAttemptWrites, PutFacts
  <2>3. /\ validateReconcileRequest(q) /\ exists(record)
        /\ ~leaseActive(record.execution.lease)
    BY <1>3 DEF ReconcileAttemptVerdict
  <2> HIDE DEF after
  <2>4. reconcileExact(attemptByNumber(after, q.operation, q.number), q)
    BY <2>1, <2>2 DEF reconcileExact
  <2>5. ReconcileAttemptVerdict(after, q) = "Replay"
    BY <2>2, <2>3, <2>4 DEF ReconcileAttemptVerdict, exists
  <2> QED BY <2>5 DEF after
<1>4. ASSUME NEW q \in AttemptCalls, StartAttempt(record, q) # record
      PROVE  LET after == StartAttempt(record, q)
             IN /\ StartAttempt(after, q) = after
                /\ startAttemptResponse(after, q) = startAttemptResponse(record, q)
  BY <1>4, StartAttemptRetried
<1> QED BY <1>1, <1>2, <1>3, <1>4, RequestsAreCalls DEF attemptRetried

\* Response loss: the driver that never saw the answer of a call sends it
\* again; testbackend then changes nothing and gives the first answer.
THEOREM RetryIsExactHolds == Spec => []RetryIsExact
<1>1. BackendInv => RetryIsExact
  BY ClaimRetried, EndRetried, CheckpointRetried, AttemptRetried
     DEF BackendInv, TypeOK, RetryIsExact
<1> QED BY <1>1, Safety, PTL

=============================================================================
