--------------------------- MODULE AgentLoopProofs ---------------------------
(***************************************************************************)
(* Proofs about AgentLoop: limits and accounts of an execution that may be *)
(* interrupted and resumed at any step, exact replay of journaled model    *)
(* operations, complete transcripts, and continuations that go forward.    *)
(***************************************************************************)
EXTENDS AgentLoop, FiniteSetTheorems, WellFoundedInduction, TLAPS

-----------------------------------------------------------------------------
(* The inductive invariant.  It depends neither on what the ContextManager *)
(* builds nor on how it compacts.                                          *)

Loops ==
  [pc : PCs, messages : Seq(MessageType), steps : Seq(Step), usage : Nat, toolCallsUsed : Nat,
   repairCount : Nat, operationTurn : Nat, turn : Nat \cup {-1}, answer : Answers \cup {None},
   cancelled : BOOLEAN, resumed : BOOLEAN, stop : Stops, err : Errs, result : Results]

Answering == {"answered", "validate", "dispatch", "tools", "results"}

Going == {"top", "model"} \cup Answering

\* The loop goes on, or may go on with a repair.
Live == loop.pc \in Going \/ (loop.pc = "returned" /\ loop.err = "none")

Types ==
  /\ config \in Configs /\ context \in Contexts
  /\ loop \in Loops
  /\ loop.pc \in Going => loop.err = "none"
  /\ checkpoint \in Continuation \cup {None}
  /\ ~config.boundaries => checkpoint = None /\ loop.pc # "crashed"

\* Operations of turns before a turn.
turnsBefore(turn) == {t \in DOMAIN journal : t < turn}

callsBefore(turn) == {op \in tools.dispatched : op[1] < turn}

Journaled ==
  /\ tools \in [dispatched : SUBSET (Nat \X Nat), settled : SUBSET Nat]
  /\ IsFiniteSet(DOMAIN journal) /\ IsFiniteSet(tools.dispatched)
  /\ \A t \in DOMAIN journal :
       t \in Nat /\ journal[t].answer \in Answers /\ journal[t].request \in Seq(MessageType)
  /\ \A op \in tools.dispatched :
       op[1] \in DOMAIN journal /\ op[2] \in 1..journal[op[1]].answer.calls

\* The turn that is being answered is in the journal.
Answered ==
  loop.pc \in Answering =>
    /\ loop.operationTurn - 1 \in DOMAIN journal
    /\ loop.answer = journal[loop.operationTurn - 1].answer
    /\ loop.pc = "validate" => loop.answer.calls = 0
    /\ loop.pc \in {"dispatch", "tools", "results"} => loop.answer.calls > 0
    /\ loop.answer.calls > 0 => loop.turn = loop.operationTurn - 1
    /\ loop.pc # "answered" => loop.steps # <<>>
    /\ loop.pc = "validate" /\ loop.answer.text # "none" => loop.messages # <<>>

\* Each answered turn is a step, and each dispatched call is counted.
Counted ==
  Live =>
    /\ Cardinality(turnsBefore(loop.operationTurn)) = Len(loop.steps) + IF loop.pc = "answered" THEN 1 ELSE 0
    /\ loop.toolCallsUsed =
         Cardinality(callsBefore(IF loop.pc \in {"answered", "validate", "dispatch"}
                                 THEN loop.operationTurn - 1 ELSE loop.operationTurn))

allowed(steps) == config.maxIterations = 0 \/ Len(steps) < config.maxIterations

redone(c) == c.phase \in {"model_complete", "validating_output"}

\* The same of a continuation, and what Resume needs to go through its step again.
KeptOf(c) ==
  /\ Cardinality(turnsBefore(c.operationTurn)) = Len(c.steps)
  /\ c.toolCallsUsed = Cardinality(callsBefore(IF redone(c) THEN c.operationTurn - 1 ELSE c.operationTurn))
  /\ c.repairCount <= config.maxRepairs
  /\ c.phase = "ready" => allowed(c.steps)
  /\ c.phase # "ready" => c.steps # <<>> /\ c.messages # <<>>
  /\ redone(c) =>
       /\ c.operationTurn - 1 \in DOMAIN journal
       /\ c.phase = "validating_output" => journal[c.operationTurn - 1].answer.calls = 0
       /\ c.phase = "model_complete" =>
            journal[c.operationTurn - 1].answer.calls > 0 /\ last(c.messages).turn = c.operationTurn - 1

Kept == checkpoint # None => KeptOf(checkpoint)

\* Nothing was answered after the turn that a resumed execution asks first.
LatestOf(c) ==
  \A t \in DOMAIN journal : t <= c.operationTurn /\ (t = c.operationTurn => c.phase = "ready")

Latest ==
  IF config.boundaries THEN IF checkpoint = None THEN DOMAIN journal = {} ELSE LatestOf(checkpoint)
  ELSE Live => \A t \in DOMAIN journal : t < loop.operationTurn

\* Where the loop is from the continuation that was kept last.
Placed ==
  config.boundaries =>
    /\ loop.pc \in {"top", "returned"} /\ Live /\ checkpoint # None =>
         /\ checkpoint.operationTurn <= loop.operationTurn /\ Len(checkpoint.steps) = Len(loop.steps)
         /\ checkpoint.phase # "model_complete"
         /\ loop.pc = "returned" => checkpoint.phase # "ready"
         /\ checkpoint.phase = "ready" =>
              /\ checkpoint.operationTurn = loop.operationTurn
              /\ checkpoint.messages = loop.messages /\ checkpoint.usage = loop.usage
    /\ loop.pc = "model" =>
         /\ checkpoint # None /\ checkpoint.phase = "ready"
         /\ checkpoint.operationTurn = loop.operationTurn /\ Len(checkpoint.steps) = Len(loop.steps)
         /\ checkpoint.messages = loop.messages
    /\ loop.pc = "answered" =>
         /\ checkpoint # None
         /\ \/ /\ checkpoint.phase = "ready" /\ checkpoint.operationTurn = loop.operationTurn - 1
               /\ Len(checkpoint.steps) = Len(loop.steps)
            \/ /\ redone(checkpoint) /\ checkpoint.operationTurn = loop.operationTurn
               /\ Len(checkpoint.steps) = Len(loop.steps) + 1
    /\ loop.pc \in Answering \ {"answered"} =>
         /\ checkpoint # None
         /\ checkpoint.phase = IF loop.pc = "validate" THEN "validating_output" ELSE "model_complete"
         /\ checkpoint.operationTurn = loop.operationTurn /\ Len(checkpoint.steps) = Len(loop.steps)

\* What the head of an iteration has found when the model is asked.
Asked == loop.pc = "model" => allowed(loop.steps) /\ (loop.steps # <<>> => ~budgetExhausted(loop))

IInv ==
  /\ Types
  /\ Journaled
  /\ Answered
  /\ Counted
  /\ Kept
  /\ Latest
  /\ Placed
  /\ Asked
  /\ LimitsHold

-----------------------------------------------------------------------------
(* Replay.                                                                 *)

\* What the documentation of ContextManager asks of Compact.
Idempotent == \A m \in Seq(MessageType) : Compact(Compact(m)) = Compact(m)

\* A ready continuation is compacted again before its turn is asked again.
compactsAgain(c) ==
  \/ config.compaction = "target"
  \/ /\ config.compaction = "headroom" /\ Len(c.steps) > 0 /\ config.maxTokens > 0
     /\ config.maxTokens - c.usage <= config.maxTokens \div 5

Replayed ==
  checkpoint # None /\ checkpoint.phase = "ready" =>
    /\ compactsAgain(checkpoint) => Compact(checkpoint.messages) = checkpoint.messages
    /\ checkpoint.operationTurn \in DOMAIN journal =>
         journal[checkpoint.operationTurn].request = checkpoint.messages

-----------------------------------------------------------------------------
(* Accounts.                                                               *)

\* A compaction makes up no tool calls of turns that were not yet taken.
KeepsTurns ==
  \A m \in Seq(MessageType) : Compact(m) \in Seq(MessageType) => maxOperationTurn(Compact(m)) <= maxOperationTurn(m)

firstTurn == nextToolOperationTurn(context)

\* The assistant turns of a transcript come before a turn.
Before(messages, turn) ==
  \A i \in DOMAIN messages : isAssistant(messages[i]) => messages[i].turn < turn

\* The i-th step is the i-th answered turn.
Modelled(steps) ==
  \A i \in DOMAIN steps :
    firstTurn + i - 1 \in DOMAIN journal /\ steps[i].model = journal[firstTurn + i - 1].answer.tokens

\* The turns of a transcript, its steps and the journal belong together.
Accounted(x, n) ==
  /\ Before(x.messages, x.operationTurn) /\ Modelled(x.steps)
  /\ x.operationTurn = firstTurn + Len(x.steps) + n

Accounts ==
  /\ \A t \in DOMAIN journal : t >= firstTurn
  /\ Live => Accounted(loop, IF loop.pc = "answered" THEN 1 ELSE 0)
  /\ checkpoint # None => Accounted(checkpoint, 0)

-----------------------------------------------------------------------------
(* Transcripts.                                                            *)

\* What an application's ContextManager.Build must return.
CompleteContexts == \A c \in Contexts : ValidateCompleteTurns(c)

\* A transcript that ends in an assistant turn.
openTurn(messages, calls, turn) ==
  /\ messages # <<>> /\ ValidateCompleteTurns(front(messages))
  /\ isAssistant(last(messages)) /\ last(messages).calls = calls
  /\ calls > 0 => last(messages).turn = turn

TranscriptOf(l) ==
  IF l.pc \in {"dispatch", "tools", "results"} THEN openTurn(l.messages, l.answer.calls, l.turn)
  ELSE /\ ValidateCompleteTurns(l.messages)
       /\ l.pc = "validate" /\ l.answer.text # "none" => openTurn(l.messages, 0, -1)

\* Without the turn that Resume takes back.
TranscriptKept(c) ==
  ValidateCompleteTurns(IF redone(c) THEN front(c.messages) ELSE c.messages)

Transcripts ==
  /\ Live => TranscriptOf(loop)
  /\ checkpoint # None => TranscriptKept(checkpoint)

-----------------------------------------------------------------------------
(* Numbers, sequences and sets.                                            *)

\* A set of naturals has a least element.
LEMMA Least ==
  ASSUME NEW T \in SUBSET Nat, T # {}
  PROVE  \E x \in T : \A y \in T : x <= y
<1> DEFINE R == OpToRel(<, Nat)
<1>0. IsWellFoundedOn(R, Nat)
  BY NatLessThanWellFounded
<1>1. \A x, y \in Nat : x < y => <<x, y>> \in R
  BY DEF OpToRel
<1> HIDE DEF R
<1>2. PICK x \in T : \A y \in T : ~(<<y, x>> \in R)
  BY <1>0, WFMin
<1>3. \A y \in T : ~(y < x) /\ y \in Nat /\ x \in Nat
  BY <1>1, <1>2
<1>4. \A y \in T : x <= y
  BY <1>3
<1> QED BY <1>4

\* Induction up to a number.
LEMMA UpTo ==
  ASSUME NEW n \in Nat, NEW G, 0 \in G,
         \A k \in 0..n : k < n /\ k \in G => k + 1 \in G
  PROVE  \A k \in 0..n : k \in G
<1> DEFINE T == {k \in 0..n : k \notin G}
<1>1. SUFFICES ASSUME T # {} PROVE FALSE
  OBVIOUS
<1>2. PICK x \in T : \A y \in T : x <= y
  <2>1. T \in SUBSET Nat
    OBVIOUS
  <2> HIDE DEF T
  <2> QED BY <1>1, <2>1, Least
<1>3. x # 0 /\ x - 1 \in 0..n /\ x - 1 < n /\ ~(x <= x - 1)
  BY <1>2
<1>4. x - 1 \in G
  BY <1>2, <1>3
<1>5. (x - 1) + 1 \in G
  BY <1>3, <1>4
<1>6. (x - 1) + 1 = x
  BY <1>2
<1> QED BY <1>2, <1>5, <1>6

LEMMA LastOfAppend ==
  ASSUME NEW S, NEW s \in Seq(S), NEW e \in S
  PROVE  /\ Append(s, e) \in Seq(S) /\ Append(s, e) # <<>>
         /\ Len(Append(s, e)) = Len(s) + 1
         /\ last(Append(s, e)) = e /\ front(Append(s, e)) = s
<1>1. /\ Append(s, e) \in Seq(S) /\ Len(Append(s, e)) = Len(s) + 1 /\ Len(s) \in Nat
      /\ Append(s, e)[Len(s) + 1] = e /\ \A i \in 1..Len(s) : Append(s, e)[i] = s[i]
  OBVIOUS
<1>2. last(Append(s, e)) = e /\ Append(s, e) # <<>>
  BY <1>1 DEF last
<1>3. front(Append(s, e)) = SubSeq(Append(s, e), 1, Len(s))
  BY <1>1 DEF front
<1>4. front(Append(s, e)) = s
  BY <1>1, <1>3
<1> QED BY <1>1, <1>2, <1>4

LEMMA FrontFacts ==
  ASSUME NEW S, NEW s \in Seq(S), s # <<>>
  PROVE  /\ front(s) \in Seq(S) /\ Len(front(s)) = Len(s) - 1 /\ Len(s) \in Nat \ {0}
         /\ last(s) \in S /\ last(s) = s[Len(s)] /\ \A i \in 1..(Len(s) - 1) : front(s)[i] = s[i]
<1>1. Len(s) \in Nat \ {0} /\ 1 \in 1..Len(s) /\ Len(s) \in 1..Len(s)
  OBVIOUS
<1>2. front(s) = [i \in 1..(Len(s) - 1) |-> s[i]]
  BY <1>1 DEF front
<1>3. front(s) \in Seq(S) /\ Len(front(s)) = Len(s) - 1
  <2> DEFINE n == Len(s) - 1
  <2>1. n \in Nat /\ \A i \in 1..n : s[i] \in S
    BY <1>1
  <2>2. front(s) = [i \in 1..n |-> s[i]]
    BY <1>2
  <2> HIDE DEF n
  <2>3. front(s) \in Seq(S) /\ Len(front(s)) = n
    BY <2>1, <2>2
  <2> QED BY <2>3 DEF n
<1>4. last(s) \in S /\ last(s) = s[Len(s)]
  BY <1>1 DEF last
<1>5. \A i \in 1..(Len(s) - 1) : front(s)[i] = s[i]
  BY <1>2
<1> QED BY <1>1, <1>3, <1>4, <1>5

LEMMA MessageFields ==
  ASSUME NEW m \in MessageType
  PROVE  m.turn \in Int /\ m.turn >= -1 /\ m.calls \in Nat /\ m.slot \in Nat
<1>1. m.turn \in Nat \cup {-1} /\ m.calls \in Nat /\ m.slot \in Nat
  BY DEF MessageType
<1> QED BY <1>1

\* A finite sequence of messages has a greatest operation turn.
LEMMA TurnsBounded ==
  ASSUME NEW m \in Seq(MessageType)
  PROVE  \E b \in Nat : \A i \in DOMAIN m : m[i].turn < b
<1> DEFINE G == {n \in 0..Len(m) : \E b \in Nat : \A i \in 1..n : m[i].turn < b}
<1>1. Len(m) \in Nat /\ DOMAIN m = 1..Len(m) /\ \A i \in 1..Len(m) : m[i].turn \in Int /\ m[i].turn >= -1
  <2>1. Len(m) \in Nat /\ DOMAIN m = 1..Len(m) /\ \A i \in 1..Len(m) : m[i] \in MessageType
    OBVIOUS
  <2> QED BY <2>1, MessageFields
<1>2. 0 \in G
  BY <1>1
<1>3. ASSUME NEW n \in 0..Len(m), n < Len(m), n \in G PROVE n + 1 \in G
  <2>1. PICK b \in Nat : \A i \in 1..n : m[i].turn < b
    BY <1>3
  <2>2. n + 1 \in 1..Len(m) /\ m[n + 1].turn \in Int
    BY <1>1, <1>3
  <2>3. PICK d \in Nat : b <= d /\ m[n + 1].turn < d
    <3>1. CASE m[n + 1].turn < b
      BY <3>1, <2>1
    <3>2. CASE ~(m[n + 1].turn < b)
      <4>1. m[n + 1].turn + 1 \in Nat /\ b <= m[n + 1].turn + 1 /\ m[n + 1].turn < m[n + 1].turn + 1
        BY <2>1, <2>2, <3>2
      <4> QED BY <4>1
    <3> QED BY <3>1, <3>2
  <2>4. ASSUME NEW i \in 1..(n + 1) PROVE m[i].turn < d
    <3>1. CASE i = n + 1
      BY <2>3, <3>1
    <3>2. CASE i # n + 1
      <4>1. i \in 1..n /\ m[i].turn \in Int
        BY <1>1, <1>3, <3>2
      <4>2. m[i].turn < b
        BY <2>1, <4>1
      <4> QED BY <2>1, <2>3, <4>1, <4>2
    <3> QED BY <3>1, <3>2
  <2>5. n + 1 \in 0..Len(m)
    BY <1>1, <1>3
  <2> QED BY <2>3, <2>4, <2>5
<1>4. Len(m) \in G
  <2> HIDE DEF G
  <2>1. \A k \in 0..Len(m) : k \in G
    BY <1>1, <1>2, <1>3, UpTo
  <2> QED BY <1>1, <2>1
<1> QED BY <1>1, <1>4

\* maxOperationTurn is what its name says.
LEMMA GreatestTurn ==
  ASSUME NEW m \in Seq(MessageType)
  PROVE  /\ maxOperationTurn(m) \in Int /\ maxOperationTurn(m) >= -1
         /\ \A i \in DOMAIN m : isAssistant(m[i]) => m[i].turn <= maxOperationTurn(m)
         /\ nextToolOperationTurn(m) \in Nat /\ nextToolOperationTurn(m) = maxOperationTurn(m) + 1
         /\ maxOperationTurn(m) = -1 \/ \E i \in DOMAIN m : isAssistant(m[i]) /\ m[i].turn = maxOperationTurn(m)
<1> DEFINE turns == {m[i].turn : i \in {j \in DOMAIN m : m[j].role = "assistant"}}
           U == {b \in Nat : \A t \in turns : t < b}
<1>1. \A t \in turns : t \in Int /\ t >= -1
  <2>1. \A i \in DOMAIN m : m[i] \in MessageType
    OBVIOUS
  <2> QED BY <2>1, MessageFields
<1>2. U # {} /\ U \in SUBSET Nat
  <2>1. PICK b \in Nat : \A i \in DOMAIN m : m[i].turn < b
    BY TurnsBounded
  <2> QED BY <2>1
<1>3. PICK k \in U : \A b \in U : k <= b
  <2> HIDE DEF U
  <2> QED BY <1>2, Least
<1>4. \E t \in turns \cup {-1} : t = k - 1
  <2>1. CASE k = 0
    BY <2>1
  <2>2. CASE k # 0
    <3>1. k - 1 \in Nat /\ ~(k <= k - 1)
      BY <1>3, <2>2
    <3>2. k - 1 \notin U
      BY <1>3, <3>1
    <3>3. PICK t \in turns : ~(t < k - 1)
      BY <3>1, <3>2
    <3>4. t < k /\ t \in Int
      BY <1>1, <1>3, <3>3
    <3> QED BY <1>3, <3>3, <3>4
  <2> QED BY <2>1, <2>2
<1>5. \A t \in turns : t <= k - 1
  <2>1. \A t \in turns : t < k /\ k \in Int
    BY <1>3
  <2> HIDE DEF turns
  <2> QED BY <1>1, <2>1
<1> DEFINE v == maxOperationTurn(m)
<1>6. \E t \in turns \cup {-1} : \A u \in turns : u <= t
  BY <1>4, <1>5
<1>7. v = CHOOSE t \in turns \cup {-1} : \A u \in turns : u <= t
  BY DEF maxOperationTurn
<1>8. v \in turns \cup {-1} /\ \A u \in turns : u <= v
  <2> HIDE DEF v, turns
  <2> QED BY <1>6, <1>7
<1>9. v \in Int /\ v >= -1
  BY <1>1, <1>8
<1>10. \A i \in DOMAIN m : isAssistant(m[i]) => m[i].turn <= v
  BY <1>8 DEF isAssistant
<1>11. nextToolOperationTurn(m) = v + 1
  BY DEF nextToolOperationTurn
<1>12. v + 1 \in Nat
  <2> HIDE DEF v
  <2> QED BY <1>9
<1>13. v = -1 \/ \E i \in DOMAIN m : isAssistant(m[i]) /\ m[i].turn = v
  BY <1>8 DEF isAssistant
<1> QED BY <1>9, <1>10, <1>11, <1>12, <1>13

\* results takes the calls in order, one at a time.
nextResult(sofar, turn, i, succeeded) ==
  IF i \in succeeded THEN Append(sofar, ToolMessage(turn, i)) ELSE sofar

ResultsUpTo(turn, m, succeeded, f) ==
  /\ DOMAIN f = 0..m
  /\ f[0] = <<>>
  /\ \A i \in 1..m : f[i] = nextResult(f[i - 1], turn, i, succeeded)

LEMMA ResultsExist ==
  ASSUME NEW turn, NEW N \in Nat, NEW succeeded
  PROVE  \E f : ResultsUpTo(turn, N, succeeded, f) /\ results(turn, N, succeeded) = f[N]
<1> DEFINE G == {m \in 0..N : \E f : ResultsUpTo(turn, m, succeeded, f)}
<1>1. 0 \in G
  <2> DEFINE f == [i \in 0..0 |-> <<>>]
  <2>1. DOMAIN f = 0..0 /\ f[0] = <<>> /\ 1..0 = {}
    OBVIOUS
  <2>2. ResultsUpTo(turn, 0, succeeded, f)
    BY <2>1 DEF ResultsUpTo
  <2> QED BY <2>2
<1>2. ASSUME NEW m \in 0..N, m < N, m \in G PROVE m + 1 \in G
  <2>1. PICK f : ResultsUpTo(turn, m, succeeded, f)
    BY <1>2
  <2> DEFINE g == [i \in 0..(m + 1) |-> IF i = m + 1 THEN nextResult(f[m], turn, m + 1, succeeded) ELSE f[i]]
  <2>2. m \in Nat /\ m + 1 \in 0..N /\ m + 1 # 0
    BY <1>2
  <2>3. DOMAIN g = 0..(m + 1) /\ g[0] = <<>>
    BY <2>1, <2>2 DEF ResultsUpTo
  <2>4. ASSUME NEW i \in 1..(m + 1) PROVE g[i] = nextResult(g[i - 1], turn, i, succeeded)
    <3>1. CASE i = m + 1
      <4>1. g[i] = nextResult(f[m], turn, i, succeeded)
        BY <2>2, <3>1
      <4>2. i - 1 = m /\ m \in 0..(m + 1) /\ m # m + 1
        BY <2>2, <3>1
      <4>3. g[m] = f[m]
        BY <4>2
      <4> QED BY <4>1, <4>2, <4>3
    <3>2. CASE i # m + 1
      <4>1. i \in 1..m /\ i \in 0..(m + 1) /\ i - 1 \in 0..(m + 1) /\ i - 1 # m + 1
        BY <2>2, <3>2
      <4>2. f[i] = nextResult(f[i - 1], turn, i, succeeded)
        BY <2>1, <4>1 DEF ResultsUpTo
      <4>3. g[i] = f[i] /\ g[i - 1] = f[i - 1]
        BY <3>2, <4>1
      <4> QED BY <4>2, <4>3
    <3> QED BY <3>1, <3>2
  <2> HIDE DEF g
  <2>5. ResultsUpTo(turn, m + 1, succeeded, g)
    BY <2>3, <2>4 DEF ResultsUpTo
  <2> QED BY <2>2, <2>5
<1> HIDE DEF G
<1>3. N \in G
  <2>1. \A k \in 0..N : k \in G
    BY <1>1, <1>2, UpTo
  <2> QED BY <2>1
<1>4. PICK f : ResultsUpTo(turn, N, succeeded, f)
  BY <1>3 DEF G
<1> DEFINE body(g) == [i \in 0..N |-> IF i = 0 THEN <<>>
                                      ELSE IF i \in succeeded THEN Append(g[i - 1], ToolMessage(turn, i))
                                      ELSE g[i - 1]]
           upTo == CHOOSE g : g = body(g)
<1>5. results(turn, N, succeeded) = upTo[N]
  BY Zenon DEF results
<1>6. f = body(f)
  <2>1. ASSUME NEW i \in 0..N
        PROVE  f[i] = IF i = 0 THEN <<>> ELSE IF i \in succeeded THEN Append(f[i - 1], ToolMessage(turn, i)) ELSE f[i - 1]
    <3>1. CASE i = 0
      BY <1>4, <3>1 DEF ResultsUpTo
    <3>2. CASE i # 0
      <4>1. i \in 1..N
        BY <3>2
      <4>2. f[i] = nextResult(f[i - 1], turn, i, succeeded)
        BY <1>4, <4>1 DEF ResultsUpTo
      <4> QED BY <3>2, <4>2 DEF nextResult
    <3> QED BY <3>1, <3>2
  <2>2. f = [i \in 0..N |-> f[i]]
    BY <1>4 DEF ResultsUpTo
  <2> QED BY <2>1, <2>2, Zenon
<1>7. upTo = body(upTo)
  BY <1>6, Zenon
<1> HIDE DEF upTo
<1>8. DOMAIN upTo = 0..N
  BY <1>7, Zenon
<1>9. ASSUME NEW i \in 0..N
      PROVE  upTo[i] = IF i = 0 THEN <<>> ELSE IF i \in succeeded THEN Append(upTo[i - 1], ToolMessage(turn, i)) ELSE upTo[i - 1]
  BY <1>7, Zenon
<1>10. upTo[0] = <<>>
  BY <1>9
<1>11. ASSUME NEW i \in 1..N PROVE upTo[i] = nextResult(upTo[i - 1], turn, i, succeeded)
  <2>1. i \in 0..N /\ i # 0
    OBVIOUS
  <2> QED BY <1>9, <2>1 DEF nextResult
<1>12. ResultsUpTo(turn, N, succeeded, upTo)
  BY <1>8, <1>10, <1>11, Zenon DEF ResultsUpTo
<1> QED BY <1>5, <1>12

LEMMA ToolMessageTyped ==
  ASSUME NEW turn \in Nat, NEW i \in Nat
  PROVE  ToolMessage(turn, i) \in MessageType
BY DEF ToolMessage, MessageType, Texts

LEMMA ResultsTyped ==
  ASSUME NEW turn \in Nat, NEW N \in Nat, NEW succeeded
  PROVE  results(turn, N, succeeded) \in Seq(MessageType)
<1>1. PICK f : ResultsUpTo(turn, N, succeeded, f) /\ results(turn, N, succeeded) = f[N]
  BY ResultsExist
<1> DEFINE G == {k \in 0..N : f[k] \in Seq(MessageType)}
<1>2. 0 \in G
  <2>1. f[0] = <<>> /\ 1..0 = {}
    BY <1>1 DEF ResultsUpTo
  <2>2. <<>> \in Seq(MessageType) /\ Len(<<>>) = 0
    OBVIOUS
  <2>3. f[0] \in Seq(MessageType) /\ Len(f[0]) = 0
    BY <2>1, <2>2
  <2>4. 0 \in 0..N /\ \A i \in 1..0 : f[0][i] = ToolMessage(turn, i)
    BY <2>1
  <2> QED BY <2>3, <2>4
<1>3. ASSUME NEW k \in 0..N, k < N, k \in G PROVE k + 1 \in G
  <2>1. k + 1 \in 1..N /\ (k + 1) - 1 = k /\ k + 1 \in 0..N /\ k + 1 \in Nat
    BY <1>3
  <2>2. f[k + 1] = nextResult(f[k], turn, k + 1, succeeded)
    BY <1>1, <2>1 DEF ResultsUpTo
  <2>3. ToolMessage(turn, k + 1) \in MessageType
    BY <2>1, ToolMessageTyped
  <2>4. f[k + 1] \in Seq(MessageType)
    BY <1>3, <2>2, <2>3 DEF nextResult
  <2> QED BY <2>1, <2>4
<1> HIDE DEF G
<1>4. \A k \in 0..N : k \in G
  BY <1>2, <1>3, UpTo
<1> QED BY <1>1, <1>4 DEF G

\* All calls succeeded: each has its result.
LEMMA ResultsWhole ==
  ASSUME NEW turn \in Nat, NEW N \in Nat
  PROVE  /\ Len(results(turn, N, 1..N)) = N
         /\ \A i \in 1..N : results(turn, N, 1..N)[i] = ToolMessage(turn, i)
<1>1. PICK f : ResultsUpTo(turn, N, 1..N, f) /\ results(turn, N, 1..N) = f[N]
  BY ResultsExist
<1> DEFINE G == {k \in 0..N : /\ f[k] \in Seq(MessageType) /\ Len(f[k]) = k
                              /\ \A i \in 1..k : f[k][i] = ToolMessage(turn, i)}
<1>2. 0 \in G
  <2>1. f[0] = <<>> /\ 1..0 = {}
    BY <1>1 DEF ResultsUpTo
  <2>2. <<>> \in Seq(MessageType) /\ Len(<<>>) = 0
    OBVIOUS
  <2>3. f[0] \in Seq(MessageType) /\ Len(f[0]) = 0
    BY <2>1, <2>2
  <2>4. 0 \in 0..N /\ \A i \in 1..0 : f[0][i] = ToolMessage(turn, i)
    BY <2>1
  <2> QED BY <2>3, <2>4
<1>3. ASSUME NEW k \in 0..N, k < N, k \in G PROVE k + 1 \in G
  <2>1. k + 1 \in 1..N /\ (k + 1) - 1 = k /\ k + 1 \in 0..N /\ k + 1 \in Nat
    BY <1>3
  <2>2. f[k + 1] = Append(f[k], ToolMessage(turn, k + 1))
    BY <1>1, <2>1 DEF ResultsUpTo, nextResult
  <2>3. ToolMessage(turn, k + 1) \in MessageType
    BY <2>1, ToolMessageTyped
  <2>4. f[k + 1] \in Seq(MessageType) /\ Len(f[k + 1]) = k + 1
    BY <1>3, <2>2, <2>3
  <2>5. ASSUME NEW i \in 1..(k + 1) PROVE f[k + 1][i] = ToolMessage(turn, i)
    <3>1. CASE i = k + 1
      BY <1>3, <2>2, <2>3, <3>1
    <3>2. CASE i # k + 1
      <4>1. i \in 1..k
        BY <2>1, <3>2
      <4> QED BY <1>3, <2>2, <2>3, <4>1
    <3> QED BY <3>1, <3>2
  <2> QED BY <2>1, <2>4, <2>5
<1> HIDE DEF G
<1>4. \A k \in 0..N : k \in G
  BY <1>2, <1>3, UpTo
<1> QED BY <1>1, <1>4 DEF G

-----------------------------------------------------------------------------
(* What the operators of the model do to a loop.                           *)

Decisions == {"continue", "finish", "fail"}

LEMMA LoopFields ==
  ASSUME NEW l \in Loops
  PROVE  /\ l.pc \in PCs /\ l.messages \in Seq(MessageType) /\ l.steps \in Seq(Step)
         /\ l.usage \in Nat /\ l.toolCallsUsed \in Nat /\ l.repairCount \in Nat /\ l.operationTurn \in Nat
         /\ l.answer \in Answers \cup {None} /\ l.stop \in Stops /\ l.err \in Errs /\ l.result \in Results
         /\ l.turn \in Int /\ l.turn >= -1 /\ Len(l.steps) \in Nat
<1>1. l.turn \in Nat \cup {-1}
  BY DEF Loops
<1> QED BY <1>1 DEF Loops

\* k has the accounts of l.
SameAccounts(k, l) ==
  /\ k.usage = l.usage /\ k.toolCallsUsed = l.toolCallsUsed
  /\ k.repairCount = l.repairCount /\ k.operationTurn = l.operationTurn

LEMMA ReturnFacts ==
  ASSUME NEW l \in Loops, NEW stop \in Stops, NEW err \in Errs
  PROVE  /\ return(l, stop, err) \in Loops
         /\ return(l, stop, err).pc = "returned" /\ return(l, stop, err).err = err
         /\ return(l, stop, err).messages = l.messages /\ return(l, stop, err).steps = l.steps
         /\ SameAccounts(return(l, stop, err), l)
BY DEF return, Loops, SameAccounts, PCs

LEMMA FailedFacts ==
  ASSUME NEW l \in Loops, NEW err \in Errs
  PROVE  /\ failed(l, err) \in Loops
         /\ failed(l, err).pc = "returned" /\ failed(l, err).err = err
         /\ SameAccounts(failed(l, err), l)
<1>1. "error" \in Stops
  BY DEF Stops
<1> QED BY <1>1, ReturnFacts DEF failed

LEMMA GotoFacts ==
  ASSUME NEW l \in Loops, NEW pc \in PCs
  PROVE  /\ goto(l, pc) \in Loops /\ goto(l, pc).pc = pc
         /\ goto(l, pc).messages = l.messages /\ goto(l, pc).steps = l.steps
         /\ goto(l, pc).answer = l.answer /\ goto(l, pc).turn = l.turn /\ goto(l, pc).err = l.err
         /\ SameAccounts(goto(l, pc), l)
BY DEF goto, Loops, SameAccounts

\* The last step of a loop is replaced.
LEMMA LastStepReplaced ==
  ASSUME NEW s \in Seq(Step), s # <<>>, NEW step \in Step
  PROVE  /\ [s EXCEPT ![Len(s)] = step] \in Seq(Step)
         /\ Len([s EXCEPT ![Len(s)] = step]) = Len(s)
         /\ [s EXCEPT ![Len(s)] = step] # <<>>
         /\ last([s EXCEPT ![Len(s)] = step]) = step
         /\ \A i \in 1..Len(s) : i # Len(s) => [s EXCEPT ![Len(s)] = step][i] = s[i]
<1>1. Len(s) \in Nat /\ Len(s) # 0 /\ Len(s) \in DOMAIN s
  OBVIOUS
<1> DEFINE t == [s EXCEPT ![Len(s)] = step]
<1>2. t \in Seq(Step) /\ Len(t) = Len(s)
  BY <1>1
<1>3. t[Len(s)] = step /\ \A i \in 1..Len(s) : i # Len(s) => t[i] = s[i]
  BY <1>1
<1> HIDE DEF t
<1>4. t # <<>> /\ last(t) = step
  BY <1>1, <1>2, <1>3 DEF last
<1> QED BY <1>2, <1>3, <1>4 DEF t

\* The steps before the last one, and what the model used, stay.
SameSteps(k, l) ==
  /\ k.steps \in Seq(Step) /\ k.steps # <<>> /\ Len(k.steps) = Len(l.steps)
  /\ \A i \in DOMAIN l.steps : k.steps[i].model = l.steps[i].model

LEMMA DecidedFacts ==
  ASSUME NEW l \in Loops, l.steps # <<>>, NEW d \in Decisions
  PROVE  /\ decided(l, d) \in Loops
         /\ SameSteps(decided(l, d), l) /\ SameAccounts(decided(l, d), l)
         /\ decided(l, d).messages = l.messages /\ decided(l, d).answer = l.answer
         /\ decided(l, d).pc = l.pc /\ decided(l, d).turn = l.turn /\ decided(l, d).err = l.err
<1> DEFINE n == Len(l.steps)
           step == [l.steps[n] EXCEPT !.decision = d]
           ss == [l.steps EXCEPT ![n] = step]
<1>1. l.steps \in Seq(Step) /\ n \in DOMAIN l.steps /\ l.steps[n] \in Step
  BY LoopFields
<1>2. step \in Step /\ step.model = l.steps[n].model
  BY <1>1 DEF Step, Decisions
<1>3. decided(l, d) = [l EXCEPT !.steps = ss]
  BY <1>1 DEF decided, Loops
<1> HIDE DEF step
<1>4. ss \in Seq(Step) /\ ss # <<>> /\ Len(ss) = n /\ \A i \in DOMAIN l.steps : ss[i].model = l.steps[i].model
  BY <1>1, <1>2, LastStepReplaced DEF last
<1> HIDE DEF ss
<1>5. [l EXCEPT !.steps = ss] \in Loops /\ [l EXCEPT !.steps = ss].steps = ss
  BY <1>4 DEF Loops
<1>6. SameSteps([l EXCEPT !.steps = ss], l)
  BY <1>4, <1>5 DEF SameSteps
<1> QED BY <1>3, <1>5, <1>6 DEF Loops, SameAccounts

LEMMA TracedFacts ==
  ASSUME NEW l \in Loops, l.steps # <<>>, NEW n \in Nat
  PROVE  /\ traced(l, n) \in Loops
         /\ SameSteps(traced(l, n), l) /\ SameAccounts(traced(l, n), l)
         /\ traced(l, n).messages = l.messages /\ traced(l, n).answer = l.answer
         /\ traced(l, n).pc = l.pc /\ traced(l, n).turn = l.turn /\ traced(l, n).err = l.err
<1> DEFINE i == Len(l.steps)
           step == [l.steps[i] EXCEPT !.traces = n]
           ss == [l.steps EXCEPT ![i] = step]
<1>1. l.steps \in Seq(Step) /\ i \in DOMAIN l.steps /\ l.steps[i] \in Step
  BY LoopFields
<1>2. step \in Step /\ step.model = l.steps[i].model
  BY <1>1 DEF Step
<1>3. traced(l, n) = [l EXCEPT !.steps = ss]
  BY <1>1 DEF traced, Loops
<1> HIDE DEF step
<1>4. ss \in Seq(Step) /\ ss # <<>> /\ Len(ss) = i /\ \A j \in DOMAIN l.steps : ss[j].model = l.steps[j].model
  BY <1>1, <1>2, LastStepReplaced DEF last
<1> HIDE DEF ss
<1>5. [l EXCEPT !.steps = ss] \in Loops /\ [l EXCEPT !.steps = ss].steps = ss
  BY <1>4 DEF Loops
<1>6. SameSteps([l EXCEPT !.steps = ss], l)
  BY <1>4, <1>5 DEF SameSteps
<1> QED BY <1>3, <1>5, <1>6 DEF Loops, SameAccounts

LEMMA AnswerFields ==
  ASSUME NEW a \in Answers
  PROVE  /\ a.calls \in Nat /\ a.tokens \in Nat /\ a.child \in Nat /\ a.text \in Texts
         /\ a.guard \in Guards /\ a.decide \in Decisions
<1>1. a \in AnswerType
  BY AnswerAssumption
<1> QED BY <1>1 DEF AnswerType, Decisions

LEMMA WithResultsFacts ==
  ASSUME NEW l \in Loops, l.steps # <<>>, l.answer \in Answers, l.turn \in Nat, NEW succeeded
  PROVE  /\ withResults(l, succeeded) \in Loops
         /\ SameSteps(withResults(l, succeeded), l) /\ SameAccounts(withResults(l, succeeded), l)
         /\ withResults(l, succeeded).messages = l.messages \o results(l.turn, l.answer.calls, succeeded)
         /\ withResults(l, succeeded).answer = l.answer /\ withResults(l, succeeded).pc = l.pc
         /\ withResults(l, succeeded).turn = l.turn /\ withResults(l, succeeded).err = l.err
<1> DEFINE i == Len(l.steps)
           step == [l.steps[i] EXCEPT !.tokens = l.usage, !.toolCalls = l.toolCallsUsed]
           ss == [l.steps EXCEPT ![i] = step]
           ms == l.messages \o results(l.turn, l.answer.calls, succeeded)
           k == [l EXCEPT !.messages = ms, !.steps = ss]
<1>1. l.steps \in Seq(Step) /\ i \in DOMAIN l.steps /\ l.steps[i] \in Step /\ l.usage \in Nat
      /\ l.toolCallsUsed \in Nat /\ l.messages \in Seq(MessageType)
  BY LoopFields
<1>2. step \in Step /\ step.model = l.steps[i].model
  BY <1>1 DEF Step
<1>3. withResults(l, succeeded) = k
  BY <1>1 DEF withResults, Loops
<1> HIDE DEF step
<1>4. ss \in Seq(Step) /\ ss # <<>> /\ Len(ss) = i /\ \A j \in DOMAIN l.steps : ss[j].model = l.steps[j].model
  BY <1>1, <1>2, LastStepReplaced DEF last
<1>5. ms \in Seq(MessageType)
  <2>1. results(l.turn, l.answer.calls, succeeded) \in Seq(MessageType)
    BY AnswerFields, ResultsTyped
  <2> QED BY <1>1, <2>1
<1> HIDE DEF ss, ms
<1>6. k \in Loops /\ k.steps = ss /\ k.messages = ms
  BY <1>4, <1>5 DEF Loops
<1>7. SameSteps(k, l)
  BY <1>4, <1>6 DEF SameSteps
<1>8. SameAccounts(k, l) /\ k.answer = l.answer /\ k.pc = l.pc /\ k.turn = l.turn /\ k.err = l.err
  BY DEF Loops, SameAccounts
<1> HIDE DEF k
<1> QED BY <1>3, <1>6, <1>7, <1>8 DEF ms

LEMMA NewLoopFacts ==
  ASSUME NEW m \in Seq(MessageType)
  PROVE  /\ NewLoop(m) \in Loops /\ NewLoop(m).pc = "top" /\ NewLoop(m).err = "none"
         /\ NewLoop(m).messages = m /\ NewLoop(m).steps = <<>> /\ NewLoop(m).toolCallsUsed = 0
         /\ NewLoop(m).repairCount = 0 /\ NewLoop(m).operationTurn = nextToolOperationTurn(m)
         /\ NewLoop(m).usage = 0
<1>1. nextToolOperationTurn(m) \in Nat /\ <<>> \in Seq(Step)
  BY GreatestTurn
<1> QED BY <1>1 DEF NewLoop, Loops, PCs, Stops, Errs, Results

LEMMA ContinuedFacts ==
  ASSUME NEW c \in Continuation
  PROVE  /\ continued(c) \in Loops /\ continued(c).pc = "top" /\ continued(c).err = "none"
         /\ continued(c).messages = c.messages /\ continued(c).steps = c.steps
         /\ SameAccounts(continued(c), c)
<1>1. c.messages \in Seq(MessageType) /\ c.steps \in Seq(Step) /\ c.usage \in Nat /\ c.toolCallsUsed \in Nat
      /\ c.repairCount \in Nat /\ c.operationTurn \in Nat
  BY DEF Continuation
<1> DEFINE n == NewLoop(c.messages)
<1>2. n \in Loops /\ n.pc = "top" /\ n.err = "none" /\ n.messages = c.messages
  BY <1>1, NewLoopFacts
<1>3. continued(c) = [n EXCEPT !.steps = c.steps, !.usage = c.usage, !.toolCallsUsed = c.toolCallsUsed,
                               !.repairCount = c.repairCount, !.operationTurn = c.operationTurn]
  BY DEF continued
<1> HIDE DEF n
<1> QED BY <1>1, <1>2, <1>3 DEF Loops, SameAccounts

LEMMA ContinuationFacts ==
  ASSUME NEW l \in Loops, NEW phase \in Phases
  PROVE  /\ continuationOf(l, phase) \in Continuation /\ continuationOf(l, phase).phase = phase
         /\ continuationOf(l, phase).messages = l.messages /\ continuationOf(l, phase).steps = l.steps
         /\ SameAccounts(continuationOf(l, phase), l)
BY LoopFields DEF continuationOf, Continuation, SameAccounts

LEMMA AssistantTyped ==
  ASSUME NEW a \in Answers, NEW turn \in Nat
  PROVE  /\ AssistantMessage(a, turn) \in MessageType /\ AssistantMessage(a, turn).role = "assistant"
         /\ AssistantMessage(a, turn).calls = a.calls
         /\ AssistantMessage(a, turn).turn = IF a.calls = 0 THEN -1 ELSE turn
BY AnswerFields DEF AssistantMessage, MessageType

LEMMA PartialTyped ==
  ASSUME NEW a \in Answers
  PROVE  AssistantMessage(a, -1) \in MessageType
BY AnswerFields DEF AssistantMessage, MessageType

FinalMessage(text) == AssistantMessage([text |-> text, calls |-> 0], -1)

LEMMA FinalTyped ==
  ASSUME NEW text \in Texts
  PROVE  /\ FinalMessage(text) \in MessageType /\ FinalMessage(text).role = "assistant"
         /\ FinalMessage(text).calls = 0 /\ FinalMessage(text).turn = -1
BY DEF FinalMessage, AssistantMessage, MessageType

LEMMA UserTyped == UserMessage \in MessageType /\ UserMessage.role = "user" /\ UserMessage.calls = 0
BY DEF UserMessage, MessageType, Texts

LEMMA FinalAppended ==
  ASSUME NEW m \in Seq(MessageType), NEW text \in Texts
  PROVE  /\ appendFinalAssistant(m, text) \in Seq(MessageType)
         /\ text = "none" => appendFinalAssistant(m, text) = m
         /\ text # "none" => appendFinalAssistant(m, text) = Append(m, FinalMessage(text))
BY FinalTyped DEF appendFinalAssistant, FinalMessage

-----------------------------------------------------------------------------
(* Steps that leave the journal and the dispatched calls alone.            *)

\* A continuation that Resume may start from, or None.
HeldOf(c) ==
  /\ c \in Continuation \cup {None}
  /\ c # None => config.boundaries /\ KeptOf(c) /\ LatestOf(c)
  /\ config.boundaries /\ c = None => DOMAIN journal = {}

LEMMA Held ==
  ASSUME IInv
  PROVE  HeldOf(checkpoint)
BY DEF IInv, Types, Kept, Latest, HeldOf

Quiet ==
  /\ UNCHANGED <<config, context, journal>>
  /\ tools' \in [dispatched : SUBSET (Nat \X Nat), settled : SUBSET Nat]
  /\ tools'.dispatched = tools.dispatched

LEMMA QuietTools ==
  ASSUME IInv, UNCHANGED <<config, context, journal, tools>>
  PROVE  Quiet
BY DEF IInv, Journaled, Quiet

LEMMA QuietSets ==
  ASSUME Quiet, NEW n
  PROVE  turnsBefore(n)' = turnsBefore(n) /\ callsBefore(n)' = callsBefore(n)
BY DEF Quiet, turnsBefore, callsBefore

LEMMA HeldStays ==
  ASSUME Quiet, HeldOf(checkpoint')
  PROVE  Kept' /\ (config.boundaries => Latest')
<1>1. ASSUME checkpoint' # None PROVE KeptOf(checkpoint)'
  <2>1. KeptOf(checkpoint')
    BY <1>1 DEF HeldOf
  <2> QED BY <2>1 DEF Quiet, KeptOf, turnsBefore, callsBefore, redone, allowed
<1>2. ASSUME config.boundaries PROVE Latest'
  BY <1>2 DEF HeldOf, Latest, LatestOf, Quiet
<1> QED BY <1>1, <1>2 DEF Kept

LEMMA QuietStep ==
  ASSUME IInv, Quiet, HeldOf(checkpoint'),
         loop' \in Loops, loop'.pc \in Going => loop'.err = "none", loop'.pc = "crashed" => config.boundaries,
         loop'.repairCount <= config.maxRepairs,
         ~config.boundaries /\ Live' => \A t \in DOMAIN journal : t < loop'.operationTurn,
         Answered', Counted', Placed', Asked'
  PROVE  IInv'
<1>1. Types'
  BY DEF IInv, Types, Quiet, HeldOf
<1>2. Journaled'
  BY DEF IInv, Journaled, Quiet
<1>3. Kept' /\ Latest'
  <2>1. CASE config.boundaries
    BY <2>1, HeldStays
  <2>2. CASE ~config.boundaries
    BY <2>2, HeldStays DEF Latest, Quiet
  <2> QED BY <2>1, <2>2
<1>4. LimitsHold'
  BY DEF IInv, LimitsHold, Quiet
<1> QED BY <1>1, <1>2, <1>3, <1>4 DEF IInv

\* The loop ends, or returns with an error.
LEMMA EndedStep ==
  ASSUME IInv, Quiet, HeldOf(checkpoint'),
         loop' \in Loops, loop'.pc \in {"returned", "result"}, loop'.pc = "returned" => loop'.err # "none",
         loop'.repairCount <= config.maxRepairs
  PROVE  IInv' /\ ~Live'
<1>1. loop'.pc \notin Going /\ loop'.pc \notin Answering /\ loop'.pc # "model" /\ loop'.pc # "crashed" /\ loop'.pc # "answered"
      /\ loop'.pc # "top"
  BY DEF Going, Answering
<1>2. ~Live'
  BY <1>1 DEF Live
<1>3. Answered' /\ Counted' /\ Placed' /\ Asked'
  BY <1>1, <1>2 DEF Answered, Counted, Placed, Asked
<1> QED BY <1>1, <1>2, <1>3, QuietStep

\* The loop returns with an error and nothing was kept.
LEMMA FailedStep ==
  ASSUME IInv, UNCHANGED <<config, context, checkpoint, journal, tools>>, NEW l \in Loops, NEW stop \in Stops,
         NEW err \in Errs, err # "none", l.repairCount = loop.repairCount, loop' = return(l, stop, err)
  PROVE  IInv' /\ ~Live'
<1>1. Quiet
  BY QuietTools
<1>2. HeldOf(checkpoint')
  BY Held
<1>3. loop' \in Loops /\ loop'.pc = "returned" /\ loop'.err = err /\ loop'.repairCount <= config.maxRepairs
  BY ReturnFacts DEF SameAccounts, IInv, LimitsHold
<1> QED BY <1>1, <1>2, <1>3, EndedStep

\* observeBoundary goes on with the continuation kept, or ends the loop.
LEMMA BoundaryStep ==
  ASSUME IInv, UNCHANGED <<config, context, journal, tools>>,
         NEW l \in Loops, NEW phase \in Phases, NEW next \in Loops,
         l.repairCount = loop.repairCount, observeBoundary(l, phase, next),
         config.boundaries /\ ValidateContinuation(continuationOf(l, phase)) =>
           KeptOf(continuationOf(l, phase)) /\ LatestOf(continuationOf(l, phase))
  PROVE  \/ IInv'
         \/ /\ loop' = next /\ HeldOf(checkpoint')
            /\ IF config.boundaries THEN checkpoint' = continuationOf(l, phase) ELSE checkpoint' = checkpoint
<1> DEFINE c == continuationOf(l, phase)
<1>1. c \in Continuation /\ c # None
  BY ContinuationFacts, NoneAssumption
<1>2. config.boundaries /\ ValidateContinuation(c) => HeldOf(c)
  BY <1>1 DEF HeldOf
<1>3. Quiet
  BY QuietTools
<1>4. HeldOf(checkpoint)
  BY Held
<1>5. \A err \in Errs : /\ failed(l, err) \in Loops /\ failed(l, err).pc = "returned" /\ failed(l, err).err = err
                        /\ failed(l, err).repairCount = l.repairCount
  BY FailedFacts DEF SameAccounts
<1>6. ASSUME NEW err \in Errs, err # "none", loop' = failed(l, err), HeldOf(checkpoint') PROVE IInv'
  BY <1>3, <1>5, <1>6, EndedStep DEF IInv, LimitsHold
<1> DEFINE because(err) == IF next.err = "none" THEN err ELSE next.err
<1>7. because("invalid") \in Errs /\ because("invalid") # "none" /\ because("observer") \in Errs /\ because("observer") # "none"
  BY LoopFields DEF Errs
<1>8. \/ ~config.boundaries /\ loop' = next /\ checkpoint' = checkpoint
      \/ loop' = failed(l, because("invalid")) /\ checkpoint' = checkpoint
      \/ config.boundaries /\ ValidateContinuation(c) /\ loop' = next /\ checkpoint' = c
      \/ config.boundaries /\ ValidateContinuation(c) /\ loop' = failed(l, because("observer")) /\ checkpoint' \in {checkpoint, c}
  BY DEF observeBoundary
<1> HIDE DEF because, c
<1>9. CASE ~config.boundaries /\ loop' = next /\ checkpoint' = checkpoint
  BY <1>4, <1>9
<1>10. CASE loop' = failed(l, because("invalid")) /\ checkpoint' = checkpoint
  BY <1>4, <1>6, <1>7, <1>10
<1>11. CASE config.boundaries /\ ValidateContinuation(c) /\ loop' = next /\ checkpoint' = c
  BY <1>2, <1>11 DEF c
<1>12. CASE config.boundaries /\ ValidateContinuation(c) /\ loop' = failed(l, because("observer")) /\ checkpoint' \in {checkpoint, c}
  BY <1>2, <1>4, <1>6, <1>7, <1>12
<1> QED BY <1>8, <1>9, <1>10, <1>11, <1>12

-----------------------------------------------------------------------------
(* Facts of the invariant that the steps use.                              *)

LEMMA ConfigFields ==
  ASSUME IInv
  PROVE  /\ config.maxIterations \in Nat /\ config.maxTokens \in Nat /\ config.maxToolCalls \in Nat
         /\ config.maxSteps \in Nat /\ config.maxRepairs \in Nat /\ config.boundaries \in BOOLEAN
<1>1. config \in ConfigType
  BY ConfigAssumption DEF IInv, Types
<1> QED BY <1>1 DEF ConfigType

LEMMA LoopTyped ==
  ASSUME IInv
  PROVE  /\ loop \in Loops /\ loop.pc \in PCs /\ loop.messages \in Seq(MessageType) /\ loop.steps \in Seq(Step)
         /\ loop.usage \in Nat /\ loop.toolCallsUsed \in Nat /\ loop.repairCount \in Nat /\ loop.operationTurn \in Nat
         /\ Len(loop.steps) \in Nat /\ loop.repairCount <= config.maxRepairs
BY LoopFields DEF IInv, Types, LimitsHold

LEMMA CheckpointFields ==
  ASSUME NEW c \in Continuation
  PROVE  /\ c.messages \in Seq(MessageType) /\ c.steps \in Seq(Step) /\ c.usage \in Nat /\ c.toolCallsUsed \in Nat
         /\ c.repairCount \in Nat /\ c.operationTurn \in Nat /\ c.phase \in Phases /\ Len(c.steps) \in Nat
BY DEF Continuation

\* The turn that is being answered.
LEMMA AnsweringFacts ==
  ASSUME IInv, loop.pc \in Answering
  PROVE  /\ loop.answer \in Answers /\ loop.operationTurn - 1 \in Nat
         /\ loop.answer.calls \in Nat /\ loop.answer.tokens \in Nat /\ loop.answer.text \in Texts
         /\ loop.answer.calls > 0 => loop.turn = loop.operationTurn - 1 /\ loop.turn \in Nat
         /\ Live /\ loop.err = "none"
<1>1. loop.answer \in Answers /\ loop.operationTurn - 1 \in Nat
  BY DEF IInv, Answered, Journaled
<1>2. loop.answer.calls > 0 => loop.turn = loop.operationTurn - 1
  BY DEF IInv, Answered
<1>3. Live /\ loop.err = "none"
  BY DEF IInv, Types, Live, Going
<1> QED BY <1>1, <1>2, <1>3, AnswerFields

\* Nothing is journaled at or after the turn a loop would ask next, unless it
\* stands where a resumed execution asks first.
LEMMA NothingLater ==
  ASSUME IInv, Live,
         loop.pc \in {"top", "model"} => checkpoint = None \/ checkpoint.phase # "ready"
  PROVE  \A t \in DOMAIN journal : t < loop.operationTurn
<1>0. \A t \in DOMAIN journal : t \in Nat
  BY DEF IInv, Journaled
<1>1. CASE ~config.boundaries
  BY <1>1 DEF IInv, Latest
<1>2. CASE config.boundaries /\ checkpoint = None
  BY <1>2 DEF IInv, Latest
<1>3. CASE config.boundaries /\ checkpoint # None
  <2>1. checkpoint \in Continuation /\ LatestOf(checkpoint) /\ Placed
    BY <1>3 DEF IInv, Types, Latest
  <2>2. checkpoint.operationTurn \in Nat /\ loop.operationTurn \in Nat
    BY <2>1, CheckpointFields, LoopTyped
  <2>3. \/ checkpoint.operationTurn <= loop.operationTurn /\ checkpoint.phase # "ready"
        \/ checkpoint.operationTurn = loop.operationTurn - 1
    <3>1. CASE loop.pc \in {"top", "returned"}
      BY <1>3, <2>1, <3>1 DEF Placed
    <3>2. CASE loop.pc = "model"
      BY <1>3, <2>1, <3>2 DEF Placed
    <3>3. CASE loop.pc = "answered"
      BY <1>3, <2>1, <2>2, <3>3 DEF Placed, redone
    <3>4. CASE loop.pc \in Answering \ {"answered"}
      <4>1. checkpoint.operationTurn = loop.operationTurn /\ checkpoint.phase \in {"validating_output", "model_complete"}
        BY <1>3, <2>1, <3>4 DEF Placed
      <4> QED BY <4>1, <2>2
    <3> QED BY <3>1, <3>2, <3>3, <3>4 DEF Live, Going
  <2>4. ASSUME NEW t \in DOMAIN journal PROVE t < loop.operationTurn
    <3>1. t \in Nat /\ t <= checkpoint.operationTurn /\ (t = checkpoint.operationTurn => checkpoint.phase = "ready")
      BY <1>0, <2>1 DEF LatestOf
    <3> QED BY <2>2, <2>3, <3>1
  <2> QED BY <2>4
<1> QED BY <1>1, <1>2, <1>3

\* The calls before a turn are those before the turn before it, and its own.
LEMMA CallsSplit ==
  ASSUME IInv, NEW n \in Nat, NEW op \in callsBefore(n + 1)
  PROVE  op \in callsBefore(n) \/ (op[1] = n /\ n \in DOMAIN journal /\ op[2] \in 1..journal[n].answer.calls)
<1>1. op \in tools.dispatched /\ op[1] < n + 1 /\ op[1] \in DOMAIN journal /\ op[1] \in Nat
      /\ op[2] \in 1..journal[op[1]].answer.calls
  BY DEF callsBefore, IInv, Journaled
<1>2. op[1] < n \/ op[1] = n
  BY <1>1
<1> QED BY <1>1, <1>2 DEF callsBefore

\* A turn without calls adds none.
LEMMA NoCalls ==
  ASSUME IInv, NEW n \in Nat, n \in DOMAIN journal, journal[n].answer.calls = 0
  PROVE  callsBefore(n + 1) = callsBefore(n)
<1>1. \A op \in callsBefore(n + 1) : op \in callsBefore(n)
  BY CallsSplit
<1>2. \A op \in callsBefore(n) : op \in callsBefore(n + 1)
  <2>1. \A op \in tools.dispatched : op[1] \in Nat
    BY DEF IInv, Journaled
  <2> QED BY <2>1 DEF callsBefore
<1> QED BY <1>1, <1>2

LEMMA CountedNext ==
  ASSUME Quiet,
         Cardinality(turnsBefore(loop'.operationTurn)) = Len(loop'.steps) + IF loop'.pc = "answered" THEN 1 ELSE 0,
         loop'.toolCallsUsed =
           Cardinality(callsBefore(IF loop'.pc \in {"answered", "validate", "dispatch"}
                                   THEN loop'.operationTurn - 1 ELSE loop'.operationTurn))
  PROVE  Counted'
BY DEF Quiet, turnsBefore, callsBefore, Counted

-----------------------------------------------------------------------------
(* Actions that end the loop.                                              *)

LEMMA ContextEndedStep == ASSUME IInv, ContextEnded PROVE IInv' /\ ~Live'
<1>1. loop' = return(loop, "error", "context") /\ "error" \in Stops /\ "context" \in Errs
  BY DEF ContextEnded, failed, Stops, Errs
<1> QED BY <1>1, LoopTyped, FailedStep DEF ContextEnded

LEMMA BudgetAbortStep == ASSUME IInv, BudgetAbort PROVE IInv' /\ ~Live'
<1>1. loop' = return(loop, "aborted", "budget") /\ "aborted" \in Stops /\ "budget" \in Errs
  BY DEF BudgetAbort, Stops, Errs
<1> QED BY <1>1, LoopTyped, FailedStep DEF BudgetAbort

LEMMA CompactionFailsStep == ASSUME IInv, CompactionFails PROVE IInv' /\ ~Live'
<1>1. loop' = return(loop, "error", "engine") /\ "error" \in Stops /\ "engine" \in Errs
  BY DEF CompactionFails, failed, Stops, Errs
<1> QED BY <1>1, LoopTyped, FailedStep DEF CompactionFails

LEMMA ModelFailsStep ==
  ASSUME IInv, NEW opened \in BOOLEAN, NEW partial \in Answers \cup {None}, ModelFails(opened, partial)
  PROVE  IInv' /\ ~Live'
<1> DEFINE ms == IF partial = None THEN loop.messages ELSE Append(loop.messages, AssistantMessage(partial, -1))
           used == IF partial = None THEN loop.usage ELSE loop.usage + partial.tokens
           l == [loop EXCEPT !.messages = ms, !.usage = used]
           step == [index |-> iteration, decision |-> "fail", traces |-> 0,
                    model |-> IF partial = None THEN 0 ELSE partial.tokens,
                    tokens |-> l.usage, toolCalls |-> l.toolCallsUsed]
           ss == IF opened THEN Append(l.steps, step) ELSE l.steps
           k == [l EXCEPT !.steps = ss]
           err == IF loop.cancelled THEN "context" ELSE "engine"
<1>1. ms \in Seq(MessageType) /\ used \in Nat
  BY LoopTyped, PartialTyped, AnswerFields
<1>2. loop' = return(k, "error", err)
  BY LoopTyped DEF ModelFails, failed, Loops
<1> HIDE DEF ms, used
<1>3. l \in Loops /\ l.steps = loop.steps /\ l.repairCount = loop.repairCount /\ l.usage \in Nat /\ l.toolCallsUsed \in Nat
  BY <1>1, LoopTyped DEF Loops
<1> HIDE DEF l
<1>4. step \in Step
  BY <1>3, LoopTyped, AnswerFields DEF Step, iteration
<1> HIDE DEF step
<1>5. ss \in Seq(Step)
  BY <1>3, <1>4, LoopTyped
<1> HIDE DEF ss
<1>6. k \in Loops /\ k.repairCount = loop.repairCount
  BY <1>3, <1>5 DEF Loops
<1>7. err \in Errs /\ err # "none" /\ "error" \in Stops
  BY DEF Errs, Stops
<1> HIDE DEF k, err
<1> QED BY <1>2, <1>6, <1>7, FailedStep DEF ModelFails

\* The step that is being finalized fails.
LEMMA DecidedFail ==
  ASSUME IInv, loop.pc \in Answering \ {"answered"}
  PROVE  /\ decided(loop, "fail") \in Loops /\ decided(loop, "fail").repairCount = loop.repairCount
         /\ decided(loop, "fail").messages = loop.messages
<1>1. loop.steps # <<>> /\ "fail" \in Decisions
  BY DEF IInv, Answered, Decisions
<1> QED BY <1>1, LoopTyped, DecidedFacts DEF SameAccounts

LEMMA UsageMissingStep == ASSUME IInv, UsageMissing PROVE IInv' /\ ~Live'
<1> DEFINE l == decided(loop, "fail")
<1>1. loop.pc \in Answering \ {"answered"}
  BY DEF UsageMissing, at, Answering
<1>2. l \in Loops /\ l.repairCount = loop.repairCount
  BY <1>1, DecidedFail
<1>3. loop' = return(l, "aborted", "budget") \/ loop' = return(l, "error", "engine")
  BY DEF UsageMissing, observeFinalizedStep, failed
<1>4. {"aborted", "error"} \subseteq Stops /\ {"budget", "engine"} \subseteq Errs
  BY DEF Stops, Errs
<1> HIDE DEF l
<1> QED BY <1>2, <1>3, <1>4, FailedStep DEF UsageMissing

LEMMA OutputRefusedStep == ASSUME IInv, OutputRefused PROVE IInv' /\ ~Live'
<1> DEFINE l == decided(loop, "fail")
           err == IF loop.answer.guard = "error" THEN "engine" ELSE "guardrail"
<1>1. loop.pc \in Answering \ {"answered"}
  BY DEF OutputRefused, at, Answering
<1>2. l \in Loops /\ l.repairCount = loop.repairCount
  BY <1>1, DecidedFail
<1>3. loop' = return(l, "error", err)
  BY DEF OutputRefused, failed
<1>4. "error" \in Stops /\ err \in Errs /\ err # "none"
  BY DEF Stops, Errs
<1> HIDE DEF l, err
<1> QED BY <1>2, <1>3, <1>4, FailedStep DEF OutputRefused

LEMMA BaseTyped ==
  ASSUME IInv, loop.pc = "validate"
  PROVE  base \in Seq(MessageType)
<1>1. loop.answer.text # "none" => loop.messages # <<>>
  BY DEF IInv, Answered, Answering
<1> QED BY <1>1, LoopTyped, FrontFacts DEF base

LEMMA GuardrailPanicsStep == ASSUME IInv, GuardrailPanics PROVE IInv' /\ ~Live'
<1> DEFINE d == decided(loop, "fail")
           l == [d EXCEPT !.messages = base]
<1>1. loop.pc \in Answering \ {"answered"} /\ loop.pc = "validate"
  BY DEF GuardrailPanics, at, Answering
<1>2. d \in Loops /\ d.repairCount = loop.repairCount /\ base \in Seq(MessageType)
  BY <1>1, DecidedFail, BaseTyped
<1>3. loop' = return(l, "error", "panic")
  BY DEF GuardrailPanics, failed
<1> HIDE DEF d
<1>4. l \in Loops /\ l.repairCount = loop.repairCount
  BY <1>2 DEF Loops
<1>5. "error" \in Stops /\ "panic" \in Errs
  BY DEF Stops, Errs
<1> HIDE DEF l
<1> QED BY <1>3, <1>4, <1>5, FailedStep DEF GuardrailPanics

LEMMA DispatchRefusedStep == ASSUME IInv, DispatchRefused PROVE IInv' /\ ~Live'
<1>1. PICK err \in {"context", "engine", "tool"} : loop' = return(loop, "error", err)
  BY DEF DispatchRefused, failed
<1>2. "error" \in Stops /\ err \in Errs /\ err # "none"
  BY DEF Stops, Errs
<1> QED BY <1>1, <1>2, LoopTyped, FailedStep DEF DispatchRefused

LEMMA DispatchBlockedStep == ASSUME IInv, DispatchBlocked PROVE IInv' /\ ~Live'
<1> DEFINE l == decided(loop, "fail")
<1>1. loop.pc \in Answering \ {"answered"}
  BY DEF DispatchBlocked, at, Answering
<1>2. l \in Loops /\ l.repairCount = loop.repairCount
  BY <1>1, DecidedFail
<1>3. loop' = return(l, "aborted", "budget") \/ loop' = return(l, "error", "engine")
  BY DEF DispatchBlocked, observeFinalizedStep, failed
<1>4. {"aborted", "error"} \subseteq Stops /\ {"budget", "engine"} \subseteq Errs
  BY DEF Stops, Errs
<1> HIDE DEF l
<1> QED BY <1>2, <1>3, <1>4, FailedStep DEF DispatchBlocked

LEMMA Settles ==
  ASSUME IInv, NEW t \in Nat, UNCHANGED <<config, context, journal>>,
         tools' = [tools EXCEPT !.settled = @ \cup {t}] \/ tools' = tools
  PROVE  Quiet
BY DEF IInv, Journaled, Quiet

\* The tools of a turn with calls are running, or have returned.
LEMMA ToolsFacts ==
  ASSUME IInv, loop.pc \in {"dispatch", "tools", "results"}
  PROVE  /\ loop.steps # <<>> /\ loop.answer \in Answers /\ loop.turn \in Nat /\ loop.answer.calls \in Nat
         /\ loop.turn = loop.operationTurn - 1 /\ loop.turn \in DOMAIN journal
         /\ loop.answer = journal[loop.turn].answer /\ loop.answer.calls > 0
         /\ Live /\ loop.err = "none"
<1>1. loop.pc \in Answering /\ loop.pc # "answered"
  BY DEF Answering
<1> QED BY <1>1, AnsweringFacts DEF IInv, Answered

LEMMA ChildUsageTyped ==
  ASSUME IInv, loop.pc = "tools"
  PROVE  childUsage \in Nat
BY ToolsFacts, AnswerFields DEF childUsage

LEMMA ToolsFailStep == ASSUME IInv, ToolsFail PROVE IInv' /\ ~Live'
<1>1. PICK succeeded \in SUBSET (1..loop.answer.calls), childRan \in BOOLEAN :
        LET l == [loop EXCEPT !.usage = @ + IF childRan THEN childUsage ELSE 0]
        IN /\ loop' = failed(withResults(l, succeeded), IF loop.cancelled THEN "context" ELSE "engine")
           /\ tools' = IF childRan THEN [tools EXCEPT !.settled = @ \cup {loop.turn}] ELSE tools
  BY DEF ToolsFail
<1> DEFINE used == loop.usage + IF childRan THEN childUsage ELSE 0
           l == [loop EXCEPT !.usage = used]
           err == IF loop.cancelled THEN "context" ELSE "engine"
           k == withResults(l, succeeded)
<1>2. loop.pc = "tools"
  BY DEF ToolsFail, at
<1>3. used \in Nat
  BY <1>2, ChildUsageTyped, LoopTyped
<1>4. loop' = failed(k, err)
  BY <1>1, LoopTyped DEF Loops
<1> HIDE DEF used
<1>5. l \in Loops /\ l.steps = loop.steps /\ l.answer = loop.answer /\ l.turn = loop.turn /\ l.repairCount = loop.repairCount
  BY <1>3, LoopTyped DEF Loops
<1> HIDE DEF l
<1>6. k \in Loops /\ k.repairCount = loop.repairCount
  BY <1>2, <1>5, ToolsFacts, WithResultsFacts DEF SameAccounts
<1>7. err \in Errs /\ err # "none"
  BY DEF Errs
<1> HIDE DEF k, err
<1>8. Quiet
  BY <1>1, <1>2, ToolsFacts, Settles DEF ToolsFail
<1>9. HeldOf(checkpoint')
  BY Held DEF ToolsFail
<1>10. loop' \in Loops /\ loop'.pc = "returned" /\ loop'.err # "none" /\ loop'.repairCount <= config.maxRepairs
  BY <1>4, <1>6, <1>7, FailedFacts, LoopTyped DEF SameAccounts
<1> QED BY <1>8, <1>9, <1>10, EndedStep

LEMMA DriverPanicsStep == ASSUME IInv, DriverPanics PROVE IInv' /\ ~Live'
<1>1. loop' = return(loop, "error", "panic") /\ "error" \in Stops /\ "panic" \in Errs
  BY DEF DriverPanics, failed, Stops, Errs
<1> QED BY <1>1, LoopTyped, FailedStep DEF DriverPanics

\* The execution has its result.
LEMMA ResultStep ==
  ASSUME IInv, UNCHANGED <<config, context, checkpoint, journal, tools>>, NEW r \in Results,
         loop' = [goto(loop, "result") EXCEPT !.result = r]
  PROVE  IInv' /\ ~Live'
<1> DEFINE g == goto(loop, "result")
<1>1. g \in Loops /\ g.pc = "result" /\ g.repairCount = loop.repairCount
  <2>1. "result" \in PCs
    BY DEF PCs
  <2> QED BY <2>1, LoopTyped, GotoFacts DEF SameAccounts
<1> HIDE DEF g
<1>2. loop' \in Loops /\ loop'.pc = "result" /\ loop'.repairCount = loop.repairCount
  BY <1>1 DEF Loops, g
<1> QED BY <1>2, LoopTyped, QuietTools, Held, EndedStep

LEMMA ReturnStep == ASSUME IInv, Return PROVE IInv' /\ ~Live'
<1>1. loopErrorFailure(loop) \in Results /\ "ok" \in Results
  BY DEF loopErrorFailure, Results
<1> QED BY <1>1, ResultStep DEF Return

LEMMA RepairEndsStep == ASSUME IInv, RepairEnds PROVE IInv' /\ ~Live'
<1> DEFINE r == IF mayRepair THEN "budget_exhausted" ELSE IF config.maxRepairs > 0 THEN "repair_failed" ELSE "schema_invalid"
<1>1. r \in Results
  BY DEF Results
<1>2. loop' = [goto(loop, "result") EXCEPT !.result = r]
  BY DEF RepairEnds
<1> HIDE DEF r
<1> QED BY <1>1, <1>2, ResultStep DEF RepairEnds

-----------------------------------------------------------------------------
(* Actions of a loop that goes on.                                         *)

LEMMA MaxTurnsReachedStep == ASSUME IInv, MaxTurnsReached PROVE IInv'
<1>1. loop.pc = "top" /\ ~iterationAllowed /\ Live /\ Quiet /\ HeldOf(checkpoint')
  BY QuietTools, Held DEF MaxTurnsReached, at, Live, Going
<1>2. /\ loop' \in Loops /\ loop'.pc = "returned" /\ loop'.err = "none" /\ loop'.steps = loop.steps
      /\ loop'.messages = loop.messages /\ SameAccounts(loop', loop)
  <2>1. "maxTurns" \in Stops /\ "none" \in Errs
    BY DEF Stops, Errs
  <2> QED BY <2>1, LoopTyped, ReturnFacts DEF MaxTurnsReached
<1>3. checkpoint # None /\ config.boundaries => checkpoint.phase # "ready"
  <2>1. SUFFICES ASSUME checkpoint # None, config.boundaries, checkpoint.phase = "ready" PROVE FALSE
    OBVIOUS
  <2>2. allowed(checkpoint.steps)
    BY <2>1 DEF IInv, Kept, KeptOf
  <2>3. Len(checkpoint.steps) = Len(loop.steps)
    BY <1>1, <2>1 DEF IInv, Placed
  <2> QED BY <1>1, <2>2, <2>3 DEF allowed, iterationAllowed, iteration
<1>4. Answered' /\ Asked'
  BY <1>2 DEF Answered, Answering, Asked
<1>5. Counted'
  BY <1>1, <1>2, QuietSets DEF IInv, Counted, SameAccounts
<1>6. Placed'
  BY <1>1, <1>2, <1>3 DEF IInv, Placed, SameAccounts, MaxTurnsReached, Answering
<1>7. ~config.boundaries => \A t \in DOMAIN journal : t < loop'.operationTurn
  BY <1>1, <1>2 DEF IInv, Latest, SameAccounts
<1>8. loop'.repairCount <= config.maxRepairs
  BY <1>2, LoopTyped DEF SameAccounts
<1> QED BY <1>1, <1>2, <1>4, <1>5, <1>6, <1>7, <1>8, QuietStep DEF Going, Answering

\* What the head of an iteration finds.
LEMMA TopFacts ==
  ASSUME IInv, loop.pc = "top"
  PROVE  /\ Cardinality(turnsBefore(loop.operationTurn)) = Len(loop.steps)
         /\ loop.toolCallsUsed = Cardinality(callsBefore(loop.operationTurn))
         /\ \A t \in DOMAIN journal : t <= loop.operationTurn
         /\ loop.err = "none" /\ Live
<1>1. Live /\ loop.err = "none"
  BY DEF IInv, Types, Live, Going
<1>2. \A t \in DOMAIN journal : t <= loop.operationTurn
  <2>1. CASE checkpoint = None \/ checkpoint.phase # "ready"
    <3>1. \A t \in DOMAIN journal : t < loop.operationTurn
      BY <1>1, <2>1, NothingLater
    <3>2. \A t \in DOMAIN journal : t \in Nat
      BY DEF IInv, Journaled
    <3> QED BY <3>1, <3>2, LoopTyped
  <2>2. CASE checkpoint # None /\ checkpoint.phase = "ready"
    <3>1. config.boundaries /\ checkpoint.operationTurn = loop.operationTurn
      BY <1>1, <2>2 DEF IInv, Placed, Types
    <3> QED BY <2>2, <3>1 DEF IInv, Latest, LatestOf
  <2> QED BY <2>1, <2>2
<1> QED BY <1>1, <1>2 DEF IInv, Counted

ReadyLoop == [loop EXCEPT !.messages = IF compacts THEN Compact(@) ELSE @, !.resumed = FALSE]

LEMMA ReadyLoopFacts ==
  ASSUME IInv, compacts => ValidateCompleteTurns(ReadyLoop.messages)
  PROVE  /\ ReadyLoop \in Loops /\ ReadyLoop.steps = loop.steps /\ SameAccounts(ReadyLoop, loop)
         /\ ReadyLoop.messages = (IF compacts THEN Compact(loop.messages) ELSE loop.messages)
         /\ ReadyLoop.err = loop.err
<1> DEFINE ms == IF compacts THEN Compact(loop.messages) ELSE loop.messages
<1>1. ReadyLoop = [loop EXCEPT !.messages = ms, !.resumed = FALSE]
  BY LoopTyped DEF ReadyLoop, Loops
<1>2. ReadyLoop.messages = ms
  BY <1>1, LoopTyped DEF Loops
<1>3. ms \in Seq(MessageType)
  BY <1>2, LoopTyped DEF ValidateCompleteTurns
<1> HIDE DEF ms
<1> QED BY <1>1, <1>2, <1>3, LoopTyped DEF Loops, SameAccounts, ms

LEMMA ReadyKept ==
  ASSUME IInv, Ready
  PROVE  KeptOf(continuationOf(ReadyLoop, "ready")) /\ LatestOf(continuationOf(ReadyLoop, "ready"))
<1> DEFINE c == continuationOf(ReadyLoop, "ready")
<1>1. loop.pc = "top" /\ iterationAllowed
  BY DEF Ready, at, mayContinue
<1>2. ReadyLoop \in Loops /\ ReadyLoop.steps = loop.steps /\ SameAccounts(ReadyLoop, loop)
  BY ReadyLoopFacts DEF Ready, ReadyLoop
<1>3. /\ c.phase = "ready" /\ c.steps = loop.steps
      /\ c.operationTurn = loop.operationTurn /\ c.toolCallsUsed = loop.toolCallsUsed /\ c.repairCount = loop.repairCount
  <2>1. "ready" \in Phases
    BY DEF Phases
  <2> QED BY <1>2, <2>1, ContinuationFacts DEF SameAccounts
<1> HIDE DEF c
<1>4. KeptOf(c)
  BY <1>1, <1>3, TopFacts, LoopTyped DEF KeptOf, redone, allowed, iterationAllowed, iteration
<1>5. LatestOf(c)
  BY <1>1, <1>3, TopFacts DEF LatestOf
<1> QED BY <1>4, <1>5 DEF c

LEMMA ReadyStep == ASSUME IInv, Ready PROVE IInv'
<1> DEFINE next == goto(ReadyLoop, "model")
<1>1. /\ loop.pc = "top" /\ mayContinue /\ UNCHANGED <<config, context, journal, tools>>
      /\ observeBoundary(ReadyLoop, "ready", next)
  BY DEF Ready, at, ReadyLoop
<1>2. ReadyLoop \in Loops /\ ReadyLoop.steps = loop.steps /\ SameAccounts(ReadyLoop, loop) /\ ReadyLoop.err = "none"
  BY <1>1, ReadyLoopFacts, TopFacts DEF Ready, ReadyLoop
<1>3. /\ next \in Loops /\ next.pc = "model" /\ next.steps = loop.steps /\ next.err = "none" /\ SameAccounts(next, loop)
      /\ next.messages = ReadyLoop.messages
  <2>1. "model" \in PCs
    BY DEF PCs
  <2> QED BY <1>2, <2>1, GotoFacts DEF SameAccounts
<1>4. "ready" \in Phases /\ ReadyLoop.repairCount = loop.repairCount
  BY <1>2 DEF Phases, SameAccounts
<1> HIDE DEF next
<1>5. \/ IInv'
      \/ /\ loop' = next /\ HeldOf(checkpoint')
         /\ IF config.boundaries THEN checkpoint' = continuationOf(ReadyLoop, "ready") ELSE checkpoint' = checkpoint
  BY <1>1, <1>2, <1>3, <1>4, ReadyKept, BoundaryStep
<1>6. SUFFICES ASSUME loop' = next, HeldOf(checkpoint'),
                      IF config.boundaries THEN checkpoint' = continuationOf(ReadyLoop, "ready") ELSE checkpoint' = checkpoint
               PROVE  IInv'
  BY <1>5
<1>7. Quiet
  BY <1>1, QuietTools
<1>8. Answered'
  BY <1>3, <1>6 DEF Answered, Answering
<1>9. Counted'
  <2>1. /\ loop'.pc = "model" /\ loop'.operationTurn = loop.operationTurn /\ loop'.toolCallsUsed = loop.toolCallsUsed
        /\ loop'.steps = loop.steps
    BY <1>3, <1>6 DEF SameAccounts
  <2>2. Cardinality(turnsBefore(loop'.operationTurn)) = Len(loop'.steps) /\ Len(loop'.steps) \in Nat
    BY <1>1, <2>1, TopFacts, LoopTyped
  <2>3. loop'.toolCallsUsed = Cardinality(callsBefore(loop'.operationTurn))
    BY <1>1, <2>1, TopFacts
  <2> QED BY <1>7, <2>1, <2>2, <2>3, CountedNext
<1>10. Placed'
  <2>1. config.boundaries => /\ checkpoint'.phase = "ready" /\ checkpoint' # None
                             /\ checkpoint'.operationTurn = loop'.operationTurn
                             /\ checkpoint'.steps = loop'.steps /\ checkpoint'.messages = loop'.messages
    BY <1>2, <1>3, <1>4, <1>6, ContinuationFacts, NoneAssumption DEF SameAccounts
  <2> QED BY <1>3, <1>6, <1>7, <2>1 DEF Placed, Answering, Quiet
<1>11. Asked'
  <2>1. allowed(loop'.steps) /\ (loop.steps # <<>> => ~budgetExhausted(loop'))
    <3>1. loop.steps # <<>> => Len(loop.steps) > 0
      BY LoopTyped
    <3> QED BY <1>1, <1>3, <1>6, <3>1 DEF mayContinue, allowed, iterationAllowed, iteration, budgetExhausted, SameAccounts
  <2> QED BY <1>3, <1>6, <1>7, <2>1 DEF Asked, allowed, budgetExhausted, Quiet
<1>12. ~config.boundaries => \A t \in DOMAIN journal : t < loop'.operationTurn
  BY <1>1, <1>3, <1>6, TopFacts DEF IInv, Latest, SameAccounts
<1>13. loop'.repairCount <= config.maxRepairs
  BY <1>3, <1>6, LoopTyped DEF SameAccounts
<1> QED BY <1>3, <1>6, <1>7, <1>8, <1>9, <1>10, <1>11, <1>12, <1>13, QuietStep

\* What is known when the model is asked.
LEMMA ModelFacts ==
  ASSUME IInv, loop.pc = "model"
  PROVE  /\ Cardinality(turnsBefore(loop.operationTurn)) = Len(loop.steps)
         /\ loop.toolCallsUsed = Cardinality(callsBefore(loop.operationTurn))
         /\ \A t \in DOMAIN journal : t <= loop.operationTurn
         /\ ~config.boundaries => \A t \in DOMAIN journal : t < loop.operationTurn
         /\ loop.err = "none" /\ Live
<1>1. Live /\ loop.err = "none"
  BY DEF IInv, Types, Live, Going
<1>2. \A t \in DOMAIN journal : t \in Nat
  BY DEF IInv, Journaled
<1>3. CASE config.boundaries
  <2>1. checkpoint # None /\ checkpoint.operationTurn = loop.operationTurn
    BY <1>3 DEF IInv, Placed
  <2> QED BY <1>1, <1>3, <2>1 DEF IInv, Latest, LatestOf, Counted
<1>4. CASE ~config.boundaries
  <2>1. \A t \in DOMAIN journal : t < loop.operationTurn
    BY <1>1, <1>4 DEF IInv, Latest
  <2>2. \A t \in DOMAIN journal : t <= loop.operationTurn
    BY <1>2, <2>1, LoopTyped
  <2> QED BY <1>1, <2>1, <2>2 DEF IInv, Counted
<1> QED BY <1>3, <1>4

LEMMA ModelAnswersStep ==
  ASSUME IInv, NEW answer \in Answers, ModelAnswers(answer)
  PROVE  IInv'
<1> DEFINE T == loop.operationTurn
           D == DOMAIN journal
<1>1. loop.pc = "model" /\ UNCHANGED <<config, context, checkpoint, tools>> /\ T \in Nat /\ IsFiniteSet(D)
  BY LoopTyped DEF ModelAnswers, at, IInv, Journaled
<1>2. /\ DOMAIN journal' = D \cup {T} /\ \A t \in D : journal'[t] = journal[t]
      /\ journal'[T].answer = answer /\ (T \notin D => journal'[T].request = loop.messages)
  BY DEF ModelAnswers
<1>3. /\ loop' \in Loops /\ loop'.pc = "answered" /\ loop'.answer = answer /\ loop'.turn = T
      /\ loop'.operationTurn = T + 1 /\ loop'.steps = loop.steps /\ loop'.toolCallsUsed = loop.toolCallsUsed
      /\ loop'.repairCount = loop.repairCount /\ loop'.err = "none"
  <2> DEFINE used == loop.usage + answer.tokens
             O == T + 1
  <2>1. loop' = [loop EXCEPT !.pc = "answered", !.answer = answer, !.turn = T, !.operationTurn = O, !.usage = used]
    BY LoopTyped DEF ModelAnswers, Loops
  <2>2. used \in Nat /\ O \in Nat /\ "answered" \in PCs /\ T \in Nat \cup {-1} /\ answer \in Answers \cup {None}
    BY <1>1, AnswerFields, LoopTyped DEF PCs
  <2>3. loop \in Loops /\ loop.err = "none"
    BY <1>1, LoopTyped, ModelFacts
  <2> HIDE DEF used, O, T
  <2>4. loop' \in Loops
    BY <2>1, <2>2, <2>3 DEF Loops
  <2>5. /\ loop'.pc = "answered" /\ loop'.answer = answer /\ loop'.turn = T /\ loop'.operationTurn = O
        /\ loop'.steps = loop.steps /\ loop'.toolCallsUsed = loop.toolCallsUsed
        /\ loop'.repairCount = loop.repairCount /\ loop'.err = "none"
    BY <2>1, <2>3 DEF Loops
  <2> QED BY <2>4, <2>5 DEF O
<1>4. \A t \in D : t \in Nat /\ t <= T
  BY <1>1, ModelFacts DEF IInv, Journaled
<1> DEFINE B == turnsBefore(T)
<1>5. B = {t \in D : t < T}
  BY DEF turnsBefore
<1>6. /\ {t \in DOMAIN journal' : t < T + 1} = B \cup {T} /\ {t \in DOMAIN journal' : t < T} = B
      /\ DOMAIN journal' = B \cup {T} /\ T \notin B
  BY <1>1, <1>2, <1>4, <1>5
<1>7. IsFiniteSet(B) /\ Cardinality(B) = Len(loop.steps) /\ Cardinality(B \cup {T}) = Len(loop.steps) + 1
  <2>1. IsFiniteSet(B)
    BY <1>1, <1>5, FS_Subset
  <2>2. Cardinality(B) = Len(loop.steps)
    BY <1>1, ModelFacts
  <2>3. Cardinality(B \cup {T}) = Cardinality(B) + 1
    BY <1>6, <2>1, FS_AddElement
  <2> QED BY <2>1, <2>2, <2>3
<1>8. Types'
  BY <1>1, <1>3 DEF IInv, Types
<1>9. Journaled'
  <2>1. IsFiniteSet(DOMAIN journal')
    BY <1>6, <1>7, FS_AddElement
  <2>2. ASSUME NEW t \in DOMAIN journal'
        PROVE  t \in Nat /\ journal'[t].answer \in Answers /\ journal'[t].request \in Seq(MessageType)
    <3>1. CASE t \in D
      BY <1>2, <3>1 DEF IInv, Journaled
    <3>2. CASE t \notin D
      BY <1>1, <1>2, <3>2, LoopTyped
    <3> QED BY <3>1, <3>2
  <2>3. ASSUME NEW op \in tools'.dispatched PROVE op[1] \in DOMAIN journal' /\ op[2] \in 1..journal'[op[1]].answer.calls
    BY <1>1, <1>2 DEF IInv, Journaled
  <2> QED BY <1>1, <2>1, <2>2, <2>3 DEF IInv, Journaled
<1>10. Answered'
  <2>1. loop'.operationTurn - 1 = T /\ T \in DOMAIN journal'
    BY <1>1, <1>2, <1>3
  <2> QED BY <1>2, <1>3, <2>1 DEF Answered
<1>11. Counted'
  <2>1. turnsBefore(loop.operationTurn)' = B \cup {T}
    BY <1>3, <1>6 DEF turnsBefore
  <2>2. loop'.toolCallsUsed = Cardinality(callsBefore(T))
    BY <1>1, <1>3, ModelFacts
  <2>3. loop'.operationTurn - 1 = T
    BY <1>1, <1>3
  <2>4. callsBefore(loop.operationTurn - 1)' = callsBefore(T)
    BY <1>1, <2>3 DEF callsBefore
  <2> HIDE DEF B, T
  <2> QED BY <1>3, <1>7, <2>1, <2>2, <2>4 DEF Counted
<1>12. config.boundaries => /\ checkpoint # None /\ checkpoint.phase = "ready" /\ checkpoint.operationTurn = T
                            /\ Len(checkpoint.steps) = Len(loop.steps)
  BY <1>1 DEF IInv, Placed
<1>13. ~config.boundaries => checkpoint = None
  BY DEF IInv, Types
<1>14. Kept'
  <2>1. SUFFICES ASSUME checkpoint # None PROVE KeptOf(checkpoint)'
    BY <1>1 DEF Kept
  <2>2. KeptOf(checkpoint) /\ checkpoint.phase = "ready" /\ checkpoint.operationTurn = T
    BY <1>12, <1>13, <2>1, ConfigFields DEF IInv, Kept
  <2>3. turnsBefore(checkpoint.operationTurn)' = turnsBefore(checkpoint.operationTurn)
    BY <1>1, <1>6, <2>2 DEF turnsBefore
  <2> QED BY <1>1, <2>2, <2>3 DEF KeptOf, redone, allowed, callsBefore
<1>15. Latest'
  <2>1. CASE config.boundaries
    <3>1. \A t \in DOMAIN journal' : t <= T
      BY <1>1, <1>2, <1>4
    <3> QED BY <1>1, <1>12, <2>1, <3>1 DEF Latest, LatestOf
  <2>2. CASE ~config.boundaries
    <3>1. \A t \in DOMAIN journal' : t < T + 1
      BY <1>1, <1>2, <1>4
    <3> QED BY <1>1, <1>3, <2>2, <3>1 DEF Latest
  <2> QED BY <2>1, <2>2
<1>16. Placed' /\ Asked'
  <2>1. loop'.operationTurn - 1 = T
    BY <1>1, <1>3
  <2> QED BY <1>1, <1>3, <1>12, <2>1 DEF Placed, Asked, Answering
<1>17. LimitsHold'
  <2>1. Cardinality(DOMAIN journal') = Len(loop.steps) + 1
    BY <1>6, <1>7
  <2>2. config.maxIterations > 0 => Len(loop.steps) + 1 <= config.maxIterations
    BY <1>1, ConfigFields, LoopTyped DEF IInv, Asked, allowed
  <2>3. config.maxSteps > 0 => Len(loop.steps) + 1 <= config.maxSteps
    <3>1. CASE loop.steps = <<>>
      BY <3>1, ConfigFields
    <3>2. CASE loop.steps # <<>>
      BY <1>1, <3>2, ConfigFields, LoopTyped DEF IInv, Asked, budgetExhausted
    <3> QED BY <3>1, <3>2
  <2> QED BY <1>1, <1>3, <2>1, <2>2, <2>3 DEF IInv, LimitsHold
<1> QED BY <1>8, <1>9, <1>10, <1>11, <1>14, <1>15, <1>16, <1>17 DEF IInv

\* An answered turn and its step are recorded.
recorded(messages, decision) ==
  [loop EXCEPT !.messages = messages, !.steps = Append(@, newStep(loop, decision))]

LEMMA RecordedFacts ==
  ASSUME IInv, loop.pc = "answered", NEW m \in Seq(MessageType), NEW d \in Decisions
  PROVE  /\ recorded(m, d) \in Loops /\ recorded(m, d).messages = m
         /\ recorded(m, d).steps = Append(loop.steps, newStep(loop, d))
         /\ newStep(loop, d) \in Step /\ newStep(loop, d).model = loop.answer.tokens
         /\ Len(recorded(m, d).steps) = Len(loop.steps) + 1 /\ recorded(m, d).steps # <<>>
         /\ SameAccounts(recorded(m, d), loop)
         /\ recorded(m, d).answer = loop.answer /\ recorded(m, d).turn = loop.turn /\ recorded(m, d).err = "none"
<1> DEFINE step == newStep(loop, d)
           ss == Append(loop.steps, step)
<1>0. loop.pc \in Answering
  BY DEF Answering
<1>1. step \in Step /\ step.model = loop.answer.tokens
  BY <1>0, AnsweringFacts, LoopTyped DEF newStep, Step, Decisions
<1>2. recorded(m, d) = [loop EXCEPT !.messages = m, !.steps = ss]
  BY LoopTyped DEF recorded, Loops
<1> HIDE DEF step
<1>3. ss \in Seq(Step) /\ Len(ss) = Len(loop.steps) + 1 /\ ss # <<>>
  BY <1>1, LoopTyped, LastOfAppend
<1> HIDE DEF ss
<1>4. loop \in Loops /\ loop.err = "none"
  BY <1>0, AnsweringFacts, LoopTyped
<1>5. recorded(m, d) \in Loops
  BY <1>2, <1>3, <1>4 DEF Loops
<1>6. /\ recorded(m, d).messages = m /\ recorded(m, d).steps = ss /\ SameAccounts(recorded(m, d), loop)
      /\ recorded(m, d).answer = loop.answer /\ recorded(m, d).turn = loop.turn /\ recorded(m, d).err = "none"
  BY <1>2, <1>4 DEF Loops, SameAccounts
<1>7. newStep(loop, d) \in Step /\ newStep(loop, d).model = loop.answer.tokens
  BY <1>1 DEF step
<1> QED BY <1>3, <1>5, <1>6, <1>7 DEF ss, step

LEMMA AnsweredFacts ==
  ASSUME IInv, loop.pc = "answered"
  PROVE  /\ Cardinality(turnsBefore(loop.operationTurn)) = Len(loop.steps) + 1
         /\ loop.toolCallsUsed = Cardinality(callsBefore(loop.operationTurn - 1))
         /\ \A t \in DOMAIN journal : t < loop.operationTurn
         /\ loop.operationTurn - 1 \in DOMAIN journal /\ journal[loop.operationTurn - 1].answer = loop.answer
         /\ loop.answer.calls > 0 => loop.turn = loop.operationTurn - 1 /\ loop.turn \in Nat
         /\ loop.answer \in Answers /\ loop.answer.calls \in Nat /\ loop.answer.text \in Texts
<1>1. loop.pc \in Answering
  BY DEF Answering
<1>2. Live /\ \A t \in DOMAIN journal : t < loop.operationTurn
  BY <1>1, AnsweringFacts, NothingLater
<1> QED BY <1>1, <1>2, AnsweringFacts DEF IInv, Counted, Answered

\* The continuation of a recorded turn.
LEMMA RecordedKept ==
  ASSUME IInv, loop.pc = "answered", NEW m \in Seq(MessageType), NEW d \in Decisions,
         NEW phase \in {"model_complete", "validating_output"}, m # <<>>,
         phase = "validating_output" => loop.answer.calls = 0,
         phase = "model_complete" => loop.answer.calls > 0 /\ last(m).turn = loop.turn
  PROVE  KeptOf(continuationOf(recorded(m, d), phase)) /\ LatestOf(continuationOf(recorded(m, d), phase))
<1> DEFINE c == continuationOf(recorded(m, d), phase)
<1>1. /\ c.phase = phase /\ c.messages = m /\ Len(c.steps) = Len(loop.steps) + 1 /\ c.steps # <<>>
      /\ c.operationTurn = loop.operationTurn /\ c.toolCallsUsed = loop.toolCallsUsed /\ c.repairCount = loop.repairCount
  <2>1. phase \in Phases
    BY DEF Phases
  <2> QED BY <2>1, RecordedFacts, ContinuationFacts DEF SameAccounts
<1> HIDE DEF c
<1>2. redone(c)
  BY <1>1 DEF redone
<1>3. KeptOf(c)
  <2>1. c.repairCount <= config.maxRepairs
    BY <1>1, LoopTyped
  <2>2. c.phase # "ready"
    BY <1>1
  <2> QED BY <1>1, <1>2, <2>1, <2>2, AnsweredFacts DEF KeptOf
<1>4. LatestOf(c)
  <2>1. \A t \in DOMAIN journal : t \in Nat
    BY DEF IInv, Journaled
  <2> QED BY <1>1, <2>1, AnsweredFacts, LoopTyped DEF LatestOf
<1> QED BY <1>3, <1>4 DEF c

\* The loop goes on with a recorded turn.
LEMMA RecordedStep ==
  ASSUME IInv, loop.pc = "answered", NEW m \in Seq(MessageType), NEW d \in Decisions,
         UNCHANGED <<config, context, journal, tools>>,
         NEW phase \in {"model_complete", "validating_output"}, NEW pc \in {"dispatch", "validate"},
         phase = (IF pc = "validate" THEN "validating_output" ELSE "model_complete"),
         pc = "validate" => loop.answer.calls = 0 /\ (loop.answer.text # "none" => m # <<>>),
         pc = "dispatch" => loop.answer.calls > 0 /\ last(m).turn = loop.turn,
         ValidateContinuation(continuationOf(recorded(m, d), phase)) => m # <<>>,
         observeBoundary(recorded(m, d), phase, goto(recorded(m, d), pc))
  PROVE  IInv'
<1> DEFINE l == recorded(m, d)
           next == goto(l, pc)
           c == continuationOf(l, phase)
<1>1. /\ l \in Loops /\ l.messages = m /\ Len(l.steps) = Len(loop.steps) + 1 /\ l.steps # <<>> /\ SameAccounts(l, loop)
      /\ l.answer = loop.answer /\ l.turn = loop.turn /\ l.err = "none"
  BY RecordedFacts
<1>2. phase \in Phases /\ pc \in PCs /\ pc \in Answering \ {"answered"}
  BY DEF Phases, PCs, Answering
<1>3. ValidateContinuation(c) => KeptOf(c) /\ LatestOf(c)
  BY RecordedKept
<1> HIDE DEF l
<1>4. /\ next \in Loops /\ next.pc = pc /\ next.messages = m /\ next.steps = l.steps /\ next.err = "none"
      /\ next.answer = loop.answer /\ next.turn = loop.turn /\ SameAccounts(next, loop)
  BY <1>1, <1>2, GotoFacts DEF SameAccounts
<1>5. l.repairCount = loop.repairCount /\ observeBoundary(l, phase, next)
  BY <1>1 DEF SameAccounts, l
<1>6. /\ c.phase = phase /\ c.operationTurn = loop.operationTurn /\ c.steps = l.steps /\ c # None
  BY <1>1, <1>2, ContinuationFacts, NoneAssumption DEF SameAccounts
<1> HIDE DEF next
<1>7. \/ IInv'
      \/ /\ loop' = next /\ HeldOf(checkpoint')
         /\ IF config.boundaries THEN checkpoint' = c ELSE checkpoint' = checkpoint
  BY <1>1, <1>2, <1>3, <1>4, <1>5, BoundaryStep
<1> HIDE DEF c
<1>8. SUFFICES ASSUME loop' = next, HeldOf(checkpoint'), IF config.boundaries THEN checkpoint' = c ELSE checkpoint' = checkpoint
               PROVE  IInv'
  BY <1>7
<1>9. Quiet
  BY QuietTools
<1>10. Answered'
  <2>1. loop'.operationTurn = loop.operationTurn /\ loop'.answer = loop.answer /\ journal' = journal
    BY <1>4, <1>8 DEF SameAccounts
  <2> QED BY <1>1, <1>4, <1>8, <2>1, AnsweredFacts DEF Answered
<1>11. Counted'
  <2>1. /\ loop'.pc \in {"dispatch", "validate"} /\ loop'.operationTurn = loop.operationTurn
        /\ loop'.toolCallsUsed = loop.toolCallsUsed /\ Len(loop'.steps) = Len(loop.steps) + 1
    BY <1>1, <1>4, <1>8 DEF SameAccounts
  <2>2. Cardinality(turnsBefore(loop'.operationTurn)) = Len(loop'.steps) /\ Len(loop'.steps) \in Nat
    BY <2>1, AnsweredFacts, LoopTyped
  <2>3. loop'.toolCallsUsed = Cardinality(callsBefore(loop'.operationTurn - 1))
    BY <2>1, AnsweredFacts
  <2>4. loop'.pc \in {"answered", "validate", "dispatch"} /\ loop'.pc # "answered"
    BY <2>1
  <2>5. Len(loop'.steps) + (IF loop'.pc = "answered" THEN 1 ELSE 0) = Len(loop'.steps)
    BY <2>2, <2>4
  <2> QED BY <1>9, <2>2, <2>3, <2>4, <2>5, CountedNext
<1>12. Placed'
  <2>1. loop'.pc = pc /\ loop'.operationTurn = loop.operationTurn /\ loop'.steps = l.steps
    BY <1>4, <1>8 DEF SameAccounts
  <2> QED BY <1>2, <1>6, <1>8, <2>1 DEF Placed, Answering
<1>13. Asked'
  BY <1>4, <1>8 DEF Asked
<1>14. \A t \in DOMAIN journal : t < loop'.operationTurn
  BY <1>4, <1>8, AnsweredFacts DEF SameAccounts
<1>15. loop'.repairCount <= config.maxRepairs
  BY <1>4, <1>8, LoopTyped DEF SameAccounts
<1> QED BY <1>4, <1>8, <1>9, <1>10, <1>11, <1>12, <1>13, <1>14, <1>15, QuietStep

\* The transcript with the assistant turn that asks for tools.
withCalls == Append(loop.messages, AssistantMessage(loop.answer, loop.turn))

LEMMA WithCallsFacts ==
  ASSUME IInv, loop.pc = "answered", loop.answer.calls > 0
  PROVE  /\ withCalls \in Seq(MessageType) /\ withCalls # <<>> /\ last(withCalls).turn = loop.turn
         /\ front(withCalls) = loop.messages /\ isAssistant(last(withCalls)) /\ last(withCalls).calls = loop.answer.calls
<1> DEFINE a == AssistantMessage(loop.answer, loop.turn)
<1>1. a \in MessageType /\ a.turn = loop.turn /\ isAssistant(a) /\ a.calls = loop.answer.calls
  BY AnsweredFacts, AssistantTyped DEF isAssistant
<1> HIDE DEF a
<1>2. withCalls = Append(loop.messages, a)
  BY DEF withCalls, a
<1> QED BY <1>1, <1>2, LoopTyped, LastOfAppend

LEMMA RecordToolCallsStep == ASSUME IInv, RecordToolCalls PROVE IInv'
<1> DEFINE l == recorded(withCalls, "continue")
<1>1. /\ loop.pc = "answered" /\ loop.answer.calls > 0 /\ UNCHANGED <<config, context, journal, tools>>
      /\ observeBoundary(l, "model_complete", goto(l, "dispatch"))
  BY DEF RecordToolCalls, at, recorded, withCalls
<1>2. withCalls \in Seq(MessageType) /\ withCalls # <<>> /\ last(withCalls).turn = loop.turn /\ "continue" \in Decisions
  BY <1>1, WithCallsFacts DEF Decisions
<1> QED BY <1>1, <1>2, RecordedStep

\* The transcript with the output of a turn without calls.
withOutput == appendFinalAssistant(loop.messages, loop.answer.text)

LEMMA RecordOutputStep == ASSUME IInv, RecordOutput PROVE IInv'
<1> DEFINE l == recorded(withOutput, "finish")
           c == continuationOf(l, "validating_output")
<1>1. /\ loop.pc = "answered" /\ loop.answer.calls = 0 /\ UNCHANGED <<config, context, journal, tools>>
      /\ observeBoundary(l, "validating_output", goto(l, "validate"))
  BY DEF RecordOutput, at, recorded, withOutput
<1>2. withOutput \in Seq(MessageType) /\ "finish" \in Decisions
  BY <1>1, AnsweredFacts, LoopTyped, FinalAppended DEF withOutput, Decisions
<1>3. loop.answer.text # "none" => withOutput # <<>>
  <2>1. ASSUME loop.answer.text # "none" PROVE withOutput = Append(loop.messages, FinalMessage(loop.answer.text))
    BY <1>1, <2>1, AnsweredFacts, LoopTyped, FinalAppended DEF withOutput
  <2>2. FinalMessage(loop.answer.text) \in MessageType
    BY <1>1, AnsweredFacts, FinalTyped
  <2> QED BY <2>1, <2>2, LoopTyped, LastOfAppend
<1>4. ValidateContinuation(c) => withOutput # <<>>
  <2>1. c.phase = "validating_output" /\ c.messages = withOutput
    <3>1. l \in Loops /\ l.messages = withOutput
      BY <1>1, <1>2, RecordedFacts
    <3>2. "validating_output" \in Phases
      BY DEF Phases
    <3> HIDE DEF l
    <3> QED BY <3>1, <3>2, ContinuationFacts
  <2> HIDE DEF c
  <2> QED BY <2>1 DEF ValidateContinuation, validateContinuationPhaseTranscript
<1> HIDE DEF l
<1> QED BY <1>1, <1>2, <1>3, <1>4, RecordedStep DEF l, c

\* The loop stands at the head of an iteration, or returns without an error.
LEMMA TurnOver ==
  ASSUME IInv, Quiet, HeldOf(checkpoint'),
         loop' \in Loops, loop'.pc \in {"top", "returned"}, loop'.err = "none", loop'.repairCount <= config.maxRepairs,
         Cardinality(turnsBefore(loop'.operationTurn)) = Len(loop'.steps),
         loop'.toolCallsUsed = Cardinality(callsBefore(loop'.operationTurn)),
         ~config.boundaries => \A t \in DOMAIN journal : t < loop'.operationTurn,
         config.boundaries /\ checkpoint' # None =>
           /\ checkpoint'.operationTurn <= loop'.operationTurn /\ Len(checkpoint'.steps) = Len(loop'.steps)
           /\ checkpoint'.phase # "model_complete"
           /\ loop'.pc = "returned" => checkpoint'.phase # "ready"
           /\ checkpoint'.phase = "ready" =>
                /\ checkpoint'.operationTurn = loop'.operationTurn
                /\ checkpoint'.messages = loop'.messages /\ checkpoint'.usage = loop'.usage
  PROVE  IInv'
<1>1. loop'.pc \notin Answering /\ loop'.pc # "model" /\ loop'.pc \notin {"answered", "validate", "dispatch"} /\ loop'.pc # "crashed"
  BY DEF Answering
<1>2. Answered' /\ Asked'
  BY <1>1 DEF Answered, Asked
<1>3. Counted'
  <2>1. Len(loop'.steps) \in Nat
    BY LoopFields
  <2>2. loop'.pc # "answered"
    BY <1>1
  <2>3. Len(loop'.steps) + (IF loop'.pc = "answered" THEN 1 ELSE 0) = Len(loop'.steps)
    BY <2>1, <2>2
  <2> QED BY <1>1, <2>3, CountedNext
<1>4. Placed'
  <2>1. config' = config /\ loop'.pc \notin Answering \ {"answered"} /\ loop'.pc # "answered"
    BY <1>1 DEF Quiet
  <2> QED BY <1>1, <2>1 DEF Placed
<1> QED BY <1>1, <1>2, <1>3, <1>4, QuietStep

\* The output of a turn is finalized.
LEMMA ValidateFacts ==
  ASSUME IInv, loop.pc = "validate"
  PROVE  /\ loop.steps # <<>> /\ base \in Seq(MessageType) /\ loop.answer \in Answers /\ loop.answer.text \in Texts
         /\ Cardinality(turnsBefore(loop.operationTurn)) = Len(loop.steps)
         /\ loop.toolCallsUsed = Cardinality(callsBefore(loop.operationTurn))
         /\ \A t \in DOMAIN journal : t < loop.operationTurn
         /\ loop.err = "none"
         /\ config.boundaries => /\ checkpoint # None /\ checkpoint.phase = "validating_output"
                                 /\ checkpoint.operationTurn = loop.operationTurn /\ Len(checkpoint.steps) = Len(loop.steps)
<1>1. loop.pc \in Answering \ {"answered"}
  BY DEF Answering
<1>2. /\ loop.steps # <<>> /\ loop.operationTurn - 1 \in DOMAIN journal
      /\ loop.answer = journal[loop.operationTurn - 1].answer /\ loop.answer.calls = 0
  BY <1>1 DEF IInv, Answered
<1>3. Live /\ loop.operationTurn - 1 \in Nat /\ loop.err = "none" /\ loop.answer \in Answers /\ loop.answer.text \in Texts
  BY <1>1, AnsweringFacts
<1>4. callsBefore(loop.operationTurn) = callsBefore(loop.operationTurn - 1)
  <2>1. (loop.operationTurn - 1) + 1 = loop.operationTurn
    BY LoopTyped
  <2>2. callsBefore((loop.operationTurn - 1) + 1) = callsBefore(loop.operationTurn - 1)
    BY <1>2, <1>3, NoCalls
  <2> QED BY <2>1, <2>2
<1>5. Cardinality(turnsBefore(loop.operationTurn)) = Len(loop.steps)
  <2>1. Cardinality(turnsBefore(loop.operationTurn)) = Len(loop.steps) + 0
    BY <1>3 DEF IInv, Counted
  <2> QED BY <2>1, LoopTyped
<1>6. loop.toolCallsUsed = Cardinality(callsBefore(loop.operationTurn))
  BY <1>3, <1>4 DEF IInv, Counted
<1>7. \A t \in DOMAIN journal : t < loop.operationTurn
  BY <1>3, NothingLater
<1>8. config.boundaries => /\ checkpoint # None /\ checkpoint.phase = "validating_output"
                           /\ checkpoint.operationTurn = loop.operationTurn /\ Len(checkpoint.steps) = Len(loop.steps)
  BY <1>1 DEF IInv, Placed
<1> QED BY <1>2, <1>3, <1>5, <1>6, <1>7, <1>8, BaseTyped

LEMMA OutputStep ==
  ASSUME IInv, loop.pc = "validate", UNCHANGED <<config, context, checkpoint, journal, tools>>,
         loop' \in Loops, loop'.pc \in {"top", "returned"}, loop'.err = "none",
         SameAccounts(loop', loop), Len(loop'.steps) = Len(loop.steps)
  PROVE  IInv'
<1>1. Quiet /\ HeldOf(checkpoint')
  BY QuietTools, Held
<1>2. loop'.operationTurn = loop.operationTurn /\ loop'.toolCallsUsed = loop.toolCallsUsed
      /\ loop'.repairCount <= config.maxRepairs /\ loop.operationTurn \in Nat /\ loop.operationTurn <= loop.operationTurn
  BY LoopTyped DEF SameAccounts
<1>3. /\ Cardinality(turnsBefore(loop'.operationTurn)) = Len(loop'.steps)
      /\ loop'.toolCallsUsed = Cardinality(callsBefore(loop'.operationTurn))
      /\ \A t \in DOMAIN journal : t < loop'.operationTurn
  BY <1>2, ValidateFacts
<1>4. config.boundaries =>
           /\ checkpoint'.operationTurn <= loop'.operationTurn /\ Len(checkpoint'.steps) = Len(loop'.steps)
           /\ checkpoint'.phase = "validating_output"
  BY <1>2, ValidateFacts
<1> QED BY <1>1, <1>2, <1>3, <1>4, TurnOver

LEMMA OutputAllowedStep == ASSUME IInv, OutputAllowed PROVE IInv'
<1> DEFINE text == IF loop.answer.guard = "replace" THEN "valid" ELSE loop.answer.text
           ms == appendFinalAssistant(base, text)
           l == [loop EXCEPT !.messages = ms]
<1>1. loop.pc = "validate" /\ UNCHANGED <<config, context, checkpoint, journal, tools>>
      /\ (loop' = return(l, "complete", "none") \/ loop' = return(l, "error", "engine"))
  BY DEF OutputAllowed, at, observeFinalizedStep, failed
<1>2. ms \in Seq(MessageType)
  <2>1. text \in Texts
    BY <1>1, ValidateFacts DEF Texts
  <2> HIDE DEF text
  <2> QED BY <1>1, <2>1, ValidateFacts, FinalAppended
<1> HIDE DEF ms
<1>3. l \in Loops /\ l.steps = loop.steps /\ SameAccounts(l, loop)
  BY <1>2, LoopTyped DEF Loops, SameAccounts
<1> HIDE DEF l
<1>4. {"complete", "error"} \subseteq Stops /\ {"none", "engine"} \subseteq Errs
  BY DEF Stops, Errs
<1>5. CASE loop' = return(l, "error", "engine")
  BY <1>1, <1>3, <1>4, <1>5, FailedStep DEF SameAccounts
<1>6. CASE loop' = return(l, "complete", "none")
  <2>1. loop' \in Loops /\ loop'.pc = "returned" /\ loop'.err = "none" /\ loop'.steps = l.steps /\ SameAccounts(loop', l)
    BY <1>3, <1>4, <1>6, ReturnFacts
  <2>2. SameAccounts(loop', loop)
    BY <1>3, <2>1 DEF SameAccounts
  <2> QED BY <1>1, <1>3, <2>1, <2>2, OutputStep
<1> QED BY <1>1, <1>5, <1>6

\* A rejected turn is followed by an instruction.
retried ==
  [decided(loop, "continue") EXCEPT !.messages =
     Append(IF loop.answer.guard = "retryKeep" THEN loop.messages ELSE base, UserMessage)]

LEMMA RetriedFacts ==
  ASSUME IInv, loop.pc = "validate"
  PROVE  /\ retried \in Loops /\ SameAccounts(retried, loop) /\ SameSteps(retried, loop)
         /\ retried.messages = Append(IF loop.answer.guard = "retryKeep" THEN loop.messages ELSE base, UserMessage)
         /\ retried.err = "none"
<1> DEFINE d == decided(loop, "continue")
           ms == Append(IF loop.answer.guard = "retryKeep" THEN loop.messages ELSE base, UserMessage)
<1>1. d \in Loops /\ SameAccounts(d, loop) /\ SameSteps(d, loop) /\ d.err = "none"
  <2>1. "continue" \in Decisions
    BY DEF Decisions
  <2> QED BY <2>1, ValidateFacts, DecidedFacts, LoopTyped
<1>2. ms \in Seq(MessageType)
  BY ValidateFacts, LoopTyped, UserTyped
<1>3. retried = [d EXCEPT !.messages = ms]
  BY DEF retried
<1> HIDE DEF d, ms
<1> QED BY <1>1, <1>2, <1>3 DEF Loops, SameAccounts, SameSteps, ms

\* The next iteration.
LEMMA TopAgain ==
  ASSUME NEW l \in Loops, NEW k, k = [l EXCEPT !.pc = "top", !.answer = None, !.turn = -1]
  PROVE  k \in Loops /\ k.pc = "top" /\ k.err = l.err /\ k.steps = l.steps /\ k.messages = l.messages /\ SameAccounts(k, l)
BY DEF Loops, PCs, SameAccounts

LEMMA OutputRetriedStep == ASSUME IInv, OutputRetried PROVE IInv'
<1>1. loop.pc = "validate" /\ UNCHANGED <<config, context, checkpoint, journal, tools>>
      /\ (loop' = [retried EXCEPT !.pc = "top", !.answer = None, !.turn = -1] \/ loop' = return(retried, "error", "engine"))
  BY DEF OutputRetried, at, observeFinalizedStep, failed, retried
<1>2. retried \in Loops /\ SameAccounts(retried, loop) /\ Len(retried.steps) = Len(loop.steps) /\ retried.err = "none"
  BY <1>1, RetriedFacts DEF SameSteps
<1>3. CASE loop' = return(retried, "error", "engine")
  <2>1. "error" \in Stops /\ "engine" \in Errs /\ retried.repairCount = loop.repairCount
    BY <1>2 DEF Stops, Errs, SameAccounts
  <2> QED BY <1>1, <1>2, <1>3, <2>1, FailedStep
<1>4. CASE loop' = [retried EXCEPT !.pc = "top", !.answer = None, !.turn = -1]
  <2>1. loop' \in Loops /\ loop'.pc = "top" /\ loop'.err = "none" /\ loop'.steps = retried.steps /\ SameAccounts(loop', retried)
    BY <1>2, <1>4, TopAgain
  <2>2. SameAccounts(loop', loop)
    BY <1>2, <2>1 DEF SameAccounts
  <2> QED BY <1>1, <1>2, <2>1, <2>2, OutputStep
<1> QED BY <1>1, <1>3, <1>4

-----------------------------------------------------------------------------
(* The tool step.                                                          *)

\* The operations of the calls of a turn.
LEMMA CallsOfTurn ==
  ASSUME NEW turn, NEW n \in Nat
  PROVE  /\ IsFiniteSet({<<turn, i>> : i \in 1..n}) /\ Cardinality({<<turn, i>> : i \in 1..n}) = n
<1> DEFINE N == {<<turn, i>> : i \in 1..n}
           f == [i \in 1..n |-> <<turn, i>>]
<1>1. f \in [1..n -> N] /\ DOMAIN f = 1..n /\ \A i \in 1..n : f[i] = <<turn, i>>
  OBVIOUS
<1>2. f \in Surjection(1..n, N)
  <2>1. \A t \in N : \E i \in 1..n : f[i] = t
    OBVIOUS
  <2> HIDE DEF f, N
  <2> QED BY <1>1, <2>1 DEF Surjection
<1>3. f \in Injection(1..n, N)
  <2>1. \A a, b \in DOMAIN f : f[a] = f[b] => a = b
    <3>1. \A a, b \in 1..n : <<turn, a>> = <<turn, b>> => a = b
      OBVIOUS
    <3> HIDE DEF f
    <3> QED BY <1>1, <3>1
  <2> HIDE DEF f, N
  <2> QED BY <1>1, <2>1 DEF Injection, IsInjective
<1>4. IsFiniteSet(1..n) /\ Cardinality(1..n) = n
  BY FS_Interval
<1> HIDE DEF f, N
<1>5. IsFiniteSet(N) /\ Cardinality(N) = n
  BY <1>2, <1>3, <1>4, FS_Surjection
<1> QED BY <1>5 DEF N

LEMMA DispatchFacts ==
  ASSUME IInv, loop.pc = "dispatch"
  PROVE  /\ Cardinality(turnsBefore(loop.operationTurn)) = Len(loop.steps)
         /\ loop.toolCallsUsed = Cardinality(callsBefore(loop.turn))
         /\ \A t \in DOMAIN journal : t < loop.operationTurn
<1>1. Live /\ loop.turn = loop.operationTurn - 1
  BY ToolsFacts
<1>2. Cardinality(turnsBefore(loop.operationTurn)) = Len(loop.steps)
  <2>1. Cardinality(turnsBefore(loop.operationTurn)) = Len(loop.steps) + 0
    BY <1>1 DEF IInv, Counted
  <2> QED BY <2>1, LoopTyped
<1>3. loop.toolCallsUsed = Cardinality(callsBefore(loop.turn))
  BY <1>1 DEF IInv, Counted
<1>4. \A t \in DOMAIN journal : t < loop.operationTurn
  BY <1>1, NothingLater
<1> QED BY <1>2, <1>3, <1>4

LEMMA DispatchStep == ASSUME IInv, Dispatch PROVE IInv'
<1> DEFINE T == loop.turn
           n == loop.answer.calls
           N == {<<T, i>> : i \in 1..n}
           D == tools.dispatched
<1>1. loop.pc = "dispatch" /\ UNCHANGED <<config, context, checkpoint, journal>> /\ ~preDispatchBudgetBlock
  BY DEF Dispatch, at
<1>2. /\ T \in Nat /\ n \in Nat /\ n > 0 /\ loop.operationTurn = T + 1 /\ T \in DOMAIN journal
      /\ loop.answer = journal[T].answer /\ loop.err = "none" /\ loop.steps # <<>>
  BY <1>1, ToolsFacts, LoopTyped
<1>3. /\ loop' \in Loops /\ loop'.pc = "tools" /\ loop'.toolCallsUsed = loop.toolCallsUsed + n
      /\ loop'.steps = loop.steps /\ loop'.answer = loop.answer /\ loop'.turn = T /\ loop'.operationTurn = loop.operationTurn
      /\ loop'.repairCount = loop.repairCount /\ loop'.err = "none" /\ loop'.messages = loop.messages
  <2> DEFINE used == loop.toolCallsUsed + n
  <2>1. loop' = [loop EXCEPT !.pc = "tools", !.toolCallsUsed = used]
    BY LoopTyped DEF Dispatch, Loops
  <2>2. used \in Nat /\ "tools" \in PCs
    BY <1>2, LoopTyped DEF PCs
  <2> HIDE DEF used
  <2>3. loop' \in Loops
    BY <2>1, <2>2, LoopTyped DEF Loops
  <2>4. loop'.toolCallsUsed = used /\ loop'.pc = "tools"
    BY <2>1, LoopTyped DEF Loops
  <2> QED BY <1>2, <2>1, <2>3, <2>4, LoopTyped DEF Loops, used
<1>4. tools'.dispatched = D \cup N /\ tools' \in [dispatched : SUBSET (Nat \X Nat), settled : SUBSET Nat]
  <2>1. N \subseteq Nat \X Nat
    BY <1>2
  <2>2. tools' = [tools EXCEPT !.dispatched = D \cup N]
    BY DEF Dispatch, IInv, Journaled
  <2>3. tools \in [dispatched : SUBSET (Nat \X Nat), settled : SUBSET Nat]
    BY DEF IInv, Journaled
  <2> HIDE DEF N
  <2> QED BY <2>1, <2>2, <2>3
<1>5. IsFiniteSet(N) /\ Cardinality(N) = n
  BY <1>2, CallsOfTurn
<1>6. IsFiniteSet(D) /\ \A op \in D : op[1] \in Nat /\ op[1] \in DOMAIN journal /\ op[2] \in 1..journal[op[1]].answer.calls
      /\ op \in Nat \X Nat
  BY DEF IInv, Journaled
<1>7. \A op \in N : op[1] = T /\ op[2] \in 1..n
  OBVIOUS
<1> DEFINE B == callsBefore(T)
<1>8. B = {op \in D : op[1] < T} /\ IsFiniteSet(B)
  <2>1. B = {op \in D : op[1] < T}
    BY DEF callsBefore
  <2> QED BY <1>6, <2>1, FS_Subset
<1>9. D \cup N = B \cup N
  <2>1. ASSUME NEW op \in D, op \notin B PROVE op \in N
    <3>1. op[1] \in DOMAIN journal /\ op[1] \in Nat /\ ~(op[1] < T) /\ op[1] < loop.operationTurn
      BY <1>1, <1>6, <1>8, <2>1, DispatchFacts
    <3>2. op[1] = T
      BY <1>2, <3>1
    <3>3. op[2] \in 1..n /\ op = <<op[1], op[2]>>
      BY <1>2, <1>6, <2>1, <3>2
    <3> QED BY <3>2, <3>3
  <2> QED BY <1>8, <2>1
<1>10. B \cap N = {}
  <2>1. \A op \in B : op[1] < T /\ op[1] \in Nat
    BY <1>6, <1>8
  <2>2. ~(T < T)
    BY <1>2
  <2> HIDE DEF B, N
  <2> QED BY <1>7, <2>1, <2>2
<1>11. IsFiniteSet(B \cup N) /\ Cardinality(B \cup N) = loop.toolCallsUsed + n
  <2>1. Cardinality(B) = loop.toolCallsUsed
    BY <1>1, DispatchFacts
  <2>2. Cardinality(B \cap N) = 0
    BY <1>10, FS_EmptySet
  <2>3. IsFiniteSet(B \cup N) /\ Cardinality(B \cup N) = Cardinality(B) + Cardinality(N) - Cardinality(B \cap N)
    BY <1>5, <1>8, FS_Union
  <2> HIDE DEF B, N, n
  <2> QED BY <1>2, <1>5, <2>1, <2>2, <2>3, LoopTyped
<1> HIDE DEF N, B
<1>12. {op \in tools'.dispatched : op[1] < loop.operationTurn} = B \cup N
  <2>1. \A op \in B \cup N : op[1] < loop.operationTurn
    BY <1>2, <1>6, <1>7, <1>8
  <2> QED BY <1>4, <1>9, <2>1
<1>13. {op \in tools'.dispatched : op[1] < T} = B
  BY <1>2, <1>4, <1>7, <1>8
<1>14. Types'
  BY <1>1, <1>3 DEF IInv, Types
<1>15. Journaled'
  <2>1. IsFiniteSet(tools'.dispatched)
    BY <1>4, <1>9, <1>11
  <2>2. ASSUME NEW op \in tools'.dispatched PROVE op[1] \in DOMAIN journal' /\ op[2] \in 1..journal'[op[1]].answer.calls
    BY <1>1, <1>2, <1>4, <1>6, <1>7
  <2> QED BY <1>1, <1>4, <2>1, <2>2 DEF IInv, Journaled
<1>16. Answered'
  BY <1>1, <1>2, <1>3 DEF IInv, Answered, Answering
<1>17. Counted'
  <2>1. Cardinality(turnsBefore(loop.operationTurn)') = Len(loop'.steps) + 0
    <3>1. turnsBefore(loop.operationTurn)' = turnsBefore(loop.operationTurn)
      BY <1>1, <1>3 DEF turnsBefore
    <3> QED BY <1>1, <1>3, <3>1, DispatchFacts, LoopTyped
  <2>2. callsBefore(loop.operationTurn)' = B \cup N
    BY <1>3, <1>12 DEF callsBefore
  <2>3. loop'.toolCallsUsed = Cardinality(B \cup N)
    BY <1>3, <1>11
  <2> QED BY <1>3, <2>1, <2>2, <2>3 DEF Counted
<1>18. config.boundaries => /\ checkpoint # None /\ checkpoint.phase = "model_complete"
                            /\ checkpoint.operationTurn = loop.operationTurn /\ Len(checkpoint.steps) = Len(loop.steps)
  <2>1. loop.pc \in Answering \ {"answered"} /\ loop.pc # "validate"
    BY <1>1 DEF Answering
  <2> QED BY <2>1 DEF IInv, Placed
<1>19. Kept'
  <2>1. SUFFICES ASSUME checkpoint # None PROVE KeptOf(checkpoint)'
    BY <1>1 DEF Kept
  <2>2. KeptOf(checkpoint) /\ redone(checkpoint) /\ checkpoint.operationTurn - 1 = T
    BY <1>2, <1>18, <2>1 DEF IInv, Kept, Types, redone
  <2>3. callsBefore(checkpoint.operationTurn - 1)' = callsBefore(checkpoint.operationTurn - 1)
    BY <1>1, <1>13, <2>2 DEF callsBefore, B
  <2> QED BY <1>1, <2>2, <2>3 DEF KeptOf, redone, allowed, turnsBefore
<1>20. Latest'
  <2>1. CASE config.boundaries
    BY <1>1, <2>1 DEF IInv, Latest, LatestOf
  <2>2. CASE ~config.boundaries
    BY <1>1, <1>3, <2>2, DispatchFacts DEF Latest
  <2> QED BY <2>1, <2>2
<1>21. Placed' /\ Asked'
  BY <1>1, <1>3, <1>18 DEF Placed, Asked, Answering
<1>22. LimitsHold'
  <2>1. Cardinality(tools'.dispatched) = loop.toolCallsUsed + n
    BY <1>4, <1>9, <1>11
  <2>2. config.maxToolCalls > 0 => loop.toolCallsUsed + n <= config.maxToolCalls
    BY <1>1, <1>2, ConfigFields, LoopTyped DEF preDispatchBudgetBlock
  <2> QED BY <1>1, <1>3, <2>1, <2>2 DEF IInv, LimitsHold
<1> QED BY <1>14, <1>15, <1>16, <1>17, <1>19, <1>20, <1>21, <1>22 DEF IInv

\* The tools have been dispatched.
LEMMA DispatchedFacts ==
  ASSUME IInv, loop.pc \in {"tools", "results"}
  PROVE  /\ Cardinality(turnsBefore(loop.operationTurn)) = Len(loop.steps)
         /\ loop.toolCallsUsed = Cardinality(callsBefore(loop.operationTurn))
         /\ \A t \in DOMAIN journal : t < loop.operationTurn
         /\ config.boundaries => /\ checkpoint # None /\ checkpoint.phase = "model_complete"
                                 /\ checkpoint.operationTurn = loop.operationTurn /\ Len(checkpoint.steps) = Len(loop.steps)
<1>1. Live
  BY ToolsFacts
<1>2. Cardinality(turnsBefore(loop.operationTurn)) = Len(loop.steps)
  <2>1. loop.pc # "answered"
    OBVIOUS
  <2>2. Cardinality(turnsBefore(loop.operationTurn)) = Len(loop.steps) + 0
    BY <1>1, <2>1 DEF IInv, Counted
  <2> QED BY <2>2, LoopTyped
<1>3. loop.toolCallsUsed = Cardinality(callsBefore(loop.operationTurn))
  <2>1. loop.pc \notin {"answered", "validate", "dispatch"}
    OBVIOUS
  <2> QED BY <1>1, <2>1 DEF IInv, Counted
<1>4. \A t \in DOMAIN journal : t < loop.operationTurn
  BY <1>1, NothingLater
<1>5. config.boundaries => /\ checkpoint # None /\ checkpoint.phase = "model_complete"
                           /\ checkpoint.operationTurn = loop.operationTurn /\ Len(checkpoint.steps) = Len(loop.steps)
  <2>1. loop.pc \in Answering \ {"answered"} /\ loop.pc # "validate"
    BY DEF Answering
  <2> QED BY <2>1 DEF IInv, Placed
<1> QED BY <1>2, <1>3, <1>4, <1>5

LEMMA ToolsReturnStep == ASSUME IInv, ToolsReturn PROVE IInv'
<1>1. loop.pc = "tools" /\ UNCHANGED <<config, context, checkpoint, journal>>
  BY DEF ToolsReturn, at
<1>2. Quiet /\ HeldOf(checkpoint')
  BY <1>1, ToolsFacts, Settles, Held DEF ToolsReturn
<1>3. /\ loop' \in Loops /\ loop'.pc = "results" /\ loop'.toolCallsUsed = loop.toolCallsUsed
      /\ loop'.steps = loop.steps /\ loop'.answer = loop.answer /\ loop'.turn = loop.turn
      /\ loop'.operationTurn = loop.operationTurn /\ loop'.messages = loop.messages
      /\ loop'.repairCount = loop.repairCount /\ loop'.err = "none"
  <2> DEFINE used == loop.usage + childUsage
  <2>1. loop' = [loop EXCEPT !.pc = "results", !.usage = used]
    BY LoopTyped DEF ToolsReturn, Loops
  <2>2. used \in Nat /\ "results" \in PCs /\ loop.err = "none"
    BY <1>1, ChildUsageTyped, ToolsFacts, LoopTyped DEF PCs
  <2> HIDE DEF used
  <2> QED BY <2>1, <2>2, LoopTyped DEF Loops
<1>4. Answered'
  BY <1>1, <1>3, ToolsFacts DEF Answered, Answering
<1>5. Counted'
  <2>1. Cardinality(turnsBefore(loop'.operationTurn)) = Len(loop'.steps) + IF loop'.pc = "answered" THEN 1 ELSE 0
    BY <1>1, <1>3, DispatchedFacts, LoopTyped
  <2>2. loop'.toolCallsUsed = Cardinality(callsBefore(loop'.operationTurn)) /\ loop'.pc \notin {"answered", "validate", "dispatch"}
    BY <1>1, <1>3, DispatchedFacts
  <2> QED BY <1>2, <2>1, <2>2, CountedNext
<1>6. Placed' /\ Asked'
  BY <1>1, <1>3, DispatchedFacts DEF Placed, Asked, Answering
<1>7. \A t \in DOMAIN journal : t < loop'.operationTurn
  BY <1>1, <1>3, DispatchedFacts
<1>8. loop'.repairCount <= config.maxRepairs
  BY <1>3, LoopTyped
<1> QED BY <1>2, <1>3, <1>4, <1>5, <1>6, <1>7, <1>8, QuietStep

\* The tool step with its results, its decision and its traces.
stepped ==
  traced(decided(withResults(loop, 1..loop.answer.calls), stepDecision(loop.answer)), loop.answer.calls)

LEMMA SteppedFacts ==
  ASSUME IInv, loop.pc = "results"
  PROVE  /\ stepped \in Loops /\ SameAccounts(stepped, loop) /\ SameSteps(stepped, loop) /\ stepped.err = "none"
         /\ stepped.messages = loop.messages \o results(loop.turn, loop.answer.calls, 1..loop.answer.calls)
         /\ stepDecision(loop.answer) \in Decisions
<1> DEFINE w == withResults(loop, 1..loop.answer.calls)
           decision == stepDecision(loop.answer)
           d == decided(w, decision)
<1>1. loop.steps # <<>> /\ loop.answer \in Answers /\ loop.turn \in Nat /\ loop.answer.calls \in Nat /\ loop.err = "none"
  BY ToolsFacts
<1>2. decision \in Decisions
  BY <1>1, AnswerFields DEF stepDecision, Decisions
<1>3. /\ w \in Loops /\ SameAccounts(w, loop) /\ SameSteps(w, loop) /\ w.err = "none"
      /\ w.messages = loop.messages \o results(loop.turn, loop.answer.calls, 1..loop.answer.calls)
  BY <1>1, LoopTyped, WithResultsFacts
<1>4. w.steps # <<>>
  BY <1>3 DEF SameSteps
<1> HIDE DEF w, decision
<1>5. d \in Loops /\ SameAccounts(d, w) /\ SameSteps(d, w) /\ d.err = "none" /\ d.messages = w.messages
  BY <1>2, <1>3, <1>4, DecidedFacts
<1>6. d.steps # <<>>
  BY <1>5 DEF SameSteps
<1> HIDE DEF d
<1>7. stepped = traced(d, loop.answer.calls)
  BY DEF stepped, d, w, decision
<1>8. stepped \in Loops /\ SameAccounts(stepped, d) /\ SameSteps(stepped, d) /\ stepped.err = "none" /\ stepped.messages = d.messages
  BY <1>1, <1>5, <1>6, <1>7, TracedFacts
<1>9. SameAccounts(stepped, loop)
  BY <1>3, <1>5, <1>8 DEF SameAccounts
<1>10. SameSteps(stepped, loop)
  <2>1. /\ DOMAIN loop.steps = 1..Len(loop.steps) /\ DOMAIN w.steps = 1..Len(w.steps) /\ DOMAIN d.steps = 1..Len(d.steps)
    BY <1>3, <1>5, LoopTyped, LoopFields
  <2>2. Len(w.steps) = Len(loop.steps) /\ Len(d.steps) = Len(w.steps) /\ Len(stepped.steps) = Len(d.steps)
    BY <1>3, <1>5, <1>8 DEF SameSteps
  <2>3. ASSUME NEW i \in DOMAIN loop.steps PROVE stepped.steps[i].model = loop.steps[i].model
    BY <1>3, <1>5, <1>8, <2>1, <2>2 DEF SameSteps
  <2> QED BY <1>8, <2>2, <2>3 DEF SameSteps
<1> QED BY <1>2, <1>3, <1>5, <1>8, <1>9, <1>10 DEF decision

LEMMA SteppedKept ==
  ASSUME IInv, loop.pc = "results", ValidateContinuation(continuationOf(stepped, "tools_complete"))
  PROVE  KeptOf(continuationOf(stepped, "tools_complete")) /\ LatestOf(continuationOf(stepped, "tools_complete"))
<1> DEFINE c == continuationOf(stepped, "tools_complete")
<1>1. /\ c.phase = "tools_complete" /\ c.messages = stepped.messages /\ c.steps = stepped.steps
      /\ c.operationTurn = loop.operationTurn /\ c.toolCallsUsed = loop.toolCallsUsed /\ c.repairCount = loop.repairCount
  <2>1. "tools_complete" \in Phases
    BY DEF Phases
  <2> QED BY <2>1, SteppedFacts, ContinuationFacts DEF SameAccounts
<1>2. c.steps # <<>> /\ Len(c.steps) = Len(loop.steps)
  BY <1>1, SteppedFacts DEF SameSteps
<1> HIDE DEF c
<1>3. c.messages # <<>>
  BY <1>1 DEF c, ValidateContinuation, validateContinuationPhaseTranscript
<1>4. KeptOf(c)
  BY <1>1, <1>2, <1>3, DispatchedFacts, LoopTyped DEF KeptOf, redone
<1>5. LatestOf(c)
  <2>1. \A t \in DOMAIN journal : t \in Nat
    BY DEF IInv, Journaled
  <2> QED BY <1>1, <2>1, DispatchedFacts, LoopTyped DEF LatestOf
<1> QED BY <1>4, <1>5 DEF c

\* Where the loop goes after a tool step.
steppedNext ==
  CASE stepDecision(loop.answer) = "finish" -> return(stepped, "complete", "none")
    [] stepDecision(loop.answer) = "fail" -> failed(stepped, "stepAborted")
    [] stepDecision(loop.answer) = "continue" -> [stepped EXCEPT !.pc = "top", !.answer = None, !.turn = -1]

LEMMA SteppedNextFacts ==
  ASSUME IInv, loop.pc = "results"
  PROVE  /\ steppedNext \in Loops /\ steppedNext.pc \in {"top", "returned"} /\ SameAccounts(steppedNext, loop)
         /\ steppedNext.pc = "top" => steppedNext.err = "none"
         /\ steppedNext.err = "none" =>
              /\ steppedNext.messages = stepped.messages /\ steppedNext.steps = stepped.steps
<1>1. /\ stepped \in Loops /\ SameAccounts(stepped, loop) /\ stepped.err = "none"
      /\ stepDecision(loop.answer) \in {"continue", "finish", "fail"}
  BY SteppedFacts DEF Decisions
<1>2. {"complete", "error"} \subseteq Stops /\ {"none", "stepAborted"} \subseteq Errs
  BY DEF Stops, Errs
<1>3. CASE stepDecision(loop.answer) = "finish"
  <2>1. steppedNext = return(stepped, "complete", "none")
    BY <1>3 DEF steppedNext
  <2> QED BY <1>1, <1>2, <2>1, ReturnFacts DEF SameAccounts
<1>4. CASE stepDecision(loop.answer) = "fail"
  <2>1. steppedNext = failed(stepped, "stepAborted")
    BY <1>4 DEF steppedNext
  <2> QED BY <1>1, <1>2, <2>1, FailedFacts DEF SameAccounts
<1>5. CASE stepDecision(loop.answer) = "continue"
  <2>1. steppedNext = [stepped EXCEPT !.pc = "top", !.answer = None, !.turn = -1]
    BY <1>5 DEF steppedNext
  <2> QED BY <1>1, <2>1, TopAgain DEF SameAccounts
<1> QED BY <1>1, <1>3, <1>4, <1>5

LEMMA FinalizeToolStepStep == ASSUME IInv, FinalizeToolStep PROVE IInv'
<1> DEFINE c == continuationOf(stepped, "tools_complete")
           err == IF stepDecision(loop.answer) = "fail" THEN "stepAborted" ELSE "engine"
<1>1. /\ loop.pc = "results" /\ UNCHANGED <<config, context, journal, tools>>
      /\ \/ observeBoundary(stepped, "tools_complete", steppedNext)
         \/ loop' = failed(stepped, err) /\ UNCHANGED checkpoint
  BY DEF FinalizeToolStep, at, stepped, steppedNext
<1>2. stepped \in Loops /\ stepped.repairCount = loop.repairCount /\ Len(stepped.steps) = Len(loop.steps)
  BY <1>1, SteppedFacts DEF SameAccounts, SameSteps
<1>3. steppedNext \in Loops /\ "tools_complete" \in Phases
  BY <1>1, SteppedNextFacts DEF Phases
<1>4. CASE loop' = failed(stepped, err) /\ UNCHANGED checkpoint
  <2>1. "error" \in Stops /\ err \in Errs /\ err # "none"
    BY DEF Stops, Errs
  <2> HIDE DEF err
  <2> QED BY <1>1, <1>2, <1>4, <2>1, FailedStep DEF failed
<1>5. CASE observeBoundary(stepped, "tools_complete", steppedNext)
  <2>1. ValidateContinuation(c) => KeptOf(c) /\ LatestOf(c)
    BY <1>1, SteppedKept
  <2>2. \/ IInv'
        \/ /\ loop' = steppedNext /\ HeldOf(checkpoint')
           /\ IF config.boundaries THEN checkpoint' = c ELSE checkpoint' = checkpoint
    BY <1>1, <1>2, <1>3, <1>5, <2>1, BoundaryStep
  <2>3. SUFFICES ASSUME loop' = steppedNext, HeldOf(checkpoint'),
                        IF config.boundaries THEN checkpoint' = c ELSE checkpoint' = checkpoint
                 PROVE  IInv'
    BY <2>2
  <2>4. Quiet
    BY <1>1, QuietTools
  <2>5. /\ loop'.operationTurn = loop.operationTurn /\ loop'.toolCallsUsed = loop.toolCallsUsed
        /\ loop'.repairCount <= config.maxRepairs /\ loop'.pc \in {"top", "returned"} /\ loop' \in Loops
    BY <1>1, <2>3, SteppedNextFacts, LoopTyped DEF SameAccounts
  <2>6. CASE loop'.err # "none"
    <3>1. loop'.pc = "returned"
      BY <1>1, <2>3, <2>5, <2>6, SteppedNextFacts
    <3> QED BY <2>3, <2>4, <2>5, <2>6, <3>1, EndedStep
  <2>7. CASE loop'.err = "none"
    <3>1. loop'.steps = stepped.steps
      BY <1>1, <2>3, <2>7, SteppedNextFacts
    <3>2. /\ Cardinality(turnsBefore(loop'.operationTurn)) = Len(loop'.steps)
          /\ loop'.toolCallsUsed = Cardinality(callsBefore(loop'.operationTurn))
          /\ \A t \in DOMAIN journal : t < loop'.operationTurn
      BY <1>1, <1>2, <2>5, <3>1, DispatchedFacts
    <3>3. c.phase = "tools_complete" /\ c.steps = stepped.steps /\ c.operationTurn = loop.operationTurn
      BY <1>1, <1>2, <1>3, SteppedFacts, ContinuationFacts DEF SameAccounts
    <3>4. loop.operationTurn <= loop.operationTurn
      BY LoopTyped
    <3> HIDE DEF c
    <3>5. config.boundaries => /\ checkpoint'.phase = "tools_complete" /\ checkpoint'.operationTurn <= loop'.operationTurn
                               /\ Len(checkpoint'.steps) = Len(loop'.steps)
      BY <2>3, <2>5, <3>1, <3>3, <3>4
    <3> QED BY <2>3, <2>4, <2>5, <2>7, <3>2, <3>5, TurnOver
  <2> QED BY <2>6, <2>7
<1> QED BY <1>1, <1>4, <1>5

-----------------------------------------------------------------------------
(* Repair, cancellation, crash and resume.                                 *)

\* A loop that returned without an error.
LEMMA ReturnedFacts ==
  ASSUME IInv, loop.pc = "returned", loop.err = "none"
  PROVE  /\ Cardinality(turnsBefore(loop.operationTurn)) = Len(loop.steps)
         /\ loop.toolCallsUsed = Cardinality(callsBefore(loop.operationTurn))
         /\ \A t \in DOMAIN journal : t < loop.operationTurn
         /\ config.boundaries /\ checkpoint # None =>
              /\ checkpoint.operationTurn <= loop.operationTurn /\ Len(checkpoint.steps) = Len(loop.steps)
              /\ checkpoint.phase \notin {"ready", "model_complete"}
<1>1. Live
  BY DEF Live
<1>2. Cardinality(turnsBefore(loop.operationTurn)) = Len(loop.steps)
  <2>1. Cardinality(turnsBefore(loop.operationTurn)) = Len(loop.steps) + 0
    BY <1>1 DEF IInv, Counted
  <2> QED BY <2>1, LoopTyped
<1>3. loop.toolCallsUsed = Cardinality(callsBefore(loop.operationTurn))
  BY <1>1 DEF IInv, Counted
<1>4. \A t \in DOMAIN journal : t < loop.operationTurn
  BY <1>1, NothingLater
<1> QED BY <1>1, <1>2, <1>3, <1>4 DEF IInv, Placed

LEMMA RepairLoopFacts ==
  ASSUME NEW l \in Loops
  PROVE  /\ repairLoop(l) \in Loops /\ repairLoop(l).pc = "top" /\ repairLoop(l).err = l.err
         /\ repairLoop(l).steps = l.steps /\ repairLoop(l).messages = Append(l.messages, UserMessage)
         /\ repairLoop(l).toolCallsUsed = l.toolCallsUsed /\ repairLoop(l).repairCount = l.repairCount + 1
         /\ repairLoop(l).operationTurn =
              (IF nextToolOperationTurn(l.messages) > l.operationTurn THEN nextToolOperationTurn(l.messages) ELSE l.operationTurn)
         /\ repairLoop(l).operationTurn >= l.operationTurn
<1> DEFINE next == nextToolOperationTurn(l.messages)
           ms == Append(l.messages, UserMessage)
           n == l.repairCount + 1
           O == IF next > l.operationTurn THEN next ELSE l.operationTurn
<1>1. ms \in Seq(MessageType) /\ n \in Nat /\ O \in Nat /\ O >= l.operationTurn
  BY LoopFields, GreatestTurn, UserTyped
<1>2. repairLoop(l) = [l EXCEPT !.pc = "top", !.stop = "none", !.messages = ms, !.repairCount = n, !.operationTurn = O]
  BY DEF repairLoop, Loops
<1>3. "top" \in PCs /\ "none" \in Stops
  BY DEF PCs, Stops
<1> HIDE DEF ms, n, O
<1>4. repairLoop(l) \in Loops
  BY <1>1, <1>2, <1>3 DEF Loops
<1>5. /\ repairLoop(l).pc = "top" /\ repairLoop(l).err = l.err /\ repairLoop(l).steps = l.steps
      /\ repairLoop(l).messages = ms /\ repairLoop(l).toolCallsUsed = l.toolCallsUsed
      /\ repairLoop(l).repairCount = n /\ repairLoop(l).operationTurn = O
  BY <1>2 DEF Loops
<1> QED BY <1>1, <1>4, <1>5 DEF ms, n, O

LEMMA RepairStep == ASSUME IInv, Repair PROVE IInv'
<1>1. /\ loop.pc = "returned" /\ loop.err = "none" /\ mayRepair
      /\ loop' = repairLoop(loop) /\ UNCHANGED <<config, context, checkpoint, journal, tools>>
  BY DEF Repair, at
<1>2. Quiet /\ HeldOf(checkpoint')
  BY <1>1, QuietTools, Held
<1>3. /\ loop' \in Loops /\ loop'.pc = "top" /\ loop'.err = "none" /\ loop'.steps = loop.steps
      /\ loop'.toolCallsUsed = loop.toolCallsUsed /\ loop'.repairCount = loop.repairCount + 1
      /\ loop'.operationTurn \in Nat /\ loop'.operationTurn >= loop.operationTurn
  BY <1>1, LoopTyped, RepairLoopFacts, LoopFields
<1>4. loop'.repairCount <= config.maxRepairs
  BY <1>1, <1>3, LoopTyped, ConfigFields DEF mayRepair
<1>5. \A t \in DOMAIN journal : t \in Nat /\ t < loop.operationTurn /\ t < loop'.operationTurn
  <2>1. \A t \in DOMAIN journal : t \in Nat /\ t < loop.operationTurn
    BY <1>1, ReturnedFacts DEF IInv, Journaled
  <2> QED BY <1>3, <2>1, LoopTyped
<1>6. turnsBefore(loop'.operationTurn) = turnsBefore(loop.operationTurn)
  BY <1>5 DEF turnsBefore
<1>7. callsBefore(loop'.operationTurn) = callsBefore(loop.operationTurn)
  <2>1. \A op \in tools.dispatched : op[1] \in DOMAIN journal
    BY DEF IInv, Journaled
  <2> QED BY <1>5, <2>1 DEF callsBefore
<1>8. config.boundaries /\ checkpoint # None => checkpoint.operationTurn <= loop'.operationTurn
  <2>1. checkpoint # None => checkpoint.operationTurn \in Nat
    BY CheckpointFields DEF IInv, Types
  <2> QED BY <1>1, <1>3, <2>1, ReturnedFacts, LoopTyped
<1>9. /\ Cardinality(turnsBefore(loop'.operationTurn)) = Len(loop'.steps)
      /\ loop'.toolCallsUsed = Cardinality(callsBefore(loop'.operationTurn))
  BY <1>1, <1>3, <1>6, <1>7, ReturnedFacts
<1>10. config.boundaries /\ checkpoint' # None =>
         /\ checkpoint'.operationTurn <= loop'.operationTurn /\ Len(checkpoint'.steps) = Len(loop'.steps)
         /\ checkpoint'.phase # "model_complete" /\ checkpoint'.phase # "ready"
  BY <1>1, <1>3, <1>8, ReturnedFacts
<1>11. \A t \in DOMAIN journal : t < loop'.operationTurn
  BY <1>5
<1> QED BY <1>2, <1>3, <1>4, <1>9, <1>10, <1>11, TurnOver

LEMMA CancelStep == ASSUME IInv, Cancel PROVE IInv'
<1>1. UNCHANGED <<config, context, checkpoint, journal, tools>> /\ loop' = [loop EXCEPT !.cancelled = TRUE]
  BY DEF Cancel
<1>2. /\ loop' \in Loops /\ loop'.pc = loop.pc /\ loop'.messages = loop.messages /\ loop'.steps = loop.steps
      /\ loop'.usage = loop.usage /\ loop'.toolCallsUsed = loop.toolCallsUsed /\ loop'.repairCount = loop.repairCount
      /\ loop'.operationTurn = loop.operationTurn /\ loop'.turn = loop.turn /\ loop'.answer = loop.answer
      /\ loop'.err = loop.err
  BY <1>1, LoopTyped DEF Loops
<1>3. Types'
  BY <1>1, <1>2 DEF IInv, Types
<1>4. Journaled' /\ Kept'
  BY <1>1 DEF IInv, Journaled, Kept, KeptOf, turnsBefore, callsBefore, redone, allowed
<1>5. Answered'
  BY <1>1, <1>2 DEF IInv, Answered
<1>6. Counted'
  BY <1>1, <1>2 DEF IInv, Counted, Live, turnsBefore, callsBefore
<1>7. Latest'
  BY <1>1, <1>2 DEF IInv, Latest, LatestOf, Live
<1>8. Placed'
  BY <1>1, <1>2 DEF IInv, Placed, Live, redone
<1>9. Asked'
  BY <1>1, <1>2 DEF IInv, Asked, allowed, budgetExhausted
<1>10. LimitsHold'
  BY <1>1, <1>2 DEF IInv, LimitsHold
<1> QED BY <1>3, <1>4, <1>5, <1>6, <1>7, <1>8, <1>9, <1>10 DEF IInv

LEMMA ContextTyped == ASSUME IInv PROVE context \in Seq(MessageType)
BY ContextAssumption DEF IInv, Types

LEMMA CrashStep == ASSUME IInv, Crash PROVE IInv'
<1>1. /\ config.boundaries /\ UNCHANGED <<config, context, checkpoint, journal, tools>>
      /\ loop' = goto(NewLoop(context), "crashed")
  BY DEF Crash
<1>2. Quiet /\ HeldOf(checkpoint')
  BY <1>1, QuietTools, Held
<1>3. loop' \in Loops /\ loop'.pc = "crashed" /\ loop'.repairCount = 0
  <2>1. "crashed" \in PCs
    BY DEF PCs
  <2>2. NewLoop(context) \in Loops /\ NewLoop(context).repairCount = 0
    BY ContextTyped, NewLoopFacts
  <2> QED BY <1>1, <2>1, <2>2, GotoFacts DEF SameAccounts
<1>4. loop'.pc \notin Going /\ loop'.pc \notin Answering /\ ~Live'
  BY <1>3 DEF Going, Answering, Live
<1>5. Answered' /\ Counted' /\ Placed' /\ Asked'
  BY <1>3, <1>4 DEF Answered, Counted, Placed, Asked
<1>6. loop'.repairCount <= config.maxRepairs
  BY <1>3, ConfigFields
<1> QED BY <1>1, <1>2, <1>3, <1>4, <1>5, <1>6, QuietStep

\* Resume takes the last turn and its step back.
LEMMA ResumeStepFacts ==
  ASSUME IInv, checkpoint # None, redone(checkpoint)
  PROVE  LET l == resumeStep(checkpoint)
         IN /\ l \in Loops /\ l.pc = "answered" /\ l.err = "none" /\ l.messages = front(checkpoint.messages)
            /\ l.steps = front(checkpoint.steps) /\ Len(l.steps) + 1 = Len(checkpoint.steps)
            /\ l.answer = journal[checkpoint.operationTurn - 1].answer /\ l.answer \in Answers
            /\ l.turn = last(checkpoint.messages).turn
            /\ SameAccounts(l, checkpoint)
<1> DEFINE c == checkpoint
           k == continued(c)
           a == journal[c.operationTurn - 1].answer
           t == last(c.messages).turn
           ms == front(c.messages)
           ss == front(c.steps)
<1>1. c \in Continuation /\ KeptOf(c)
  BY DEF IInv, Types, Kept
<1>2. c.phase # "ready" /\ c.steps # <<>> /\ c.messages # <<>> /\ a \in Answers
  BY <1>1 DEF KeptOf, redone, IInv, Journaled
<1>3. k \in Loops /\ k.err = "none" /\ k.messages = c.messages /\ k.steps = c.steps /\ SameAccounts(k, c)
  BY <1>1, ContinuedFacts
<1>4. ms \in Seq(MessageType) /\ ss \in Seq(Step) /\ Len(ss) + 1 = Len(c.steps) /\ last(c.messages) \in MessageType
  BY <1>1, <1>2, CheckpointFields, FrontFacts
<1>5. t \in Nat \cup {-1}
  BY <1>4 DEF MessageType
<1>6. resumeStep(c) = [k EXCEPT !.pc = "answered", !.messages = ms, !.steps = ss, !.resumed = TRUE, !.turn = t, !.answer = a]
  BY <1>3 DEF resumeStep, Loops
<1> HIDE DEF k, a, t, ms, ss
<1>7. resumeStep(c) \in Loops
  <2>1. "answered" \in PCs
    BY DEF PCs
  <2> QED BY <1>2, <1>3, <1>4, <1>5, <1>6, <2>1 DEF Loops
<1>8. /\ resumeStep(c).pc = "answered" /\ resumeStep(c).err = "none" /\ resumeStep(c).messages = ms
      /\ resumeStep(c).steps = ss /\ resumeStep(c).answer = a /\ resumeStep(c).turn = t
      /\ SameAccounts(resumeStep(c), c)
  BY <1>3, <1>6 DEF Loops, SameAccounts
<1> QED BY <1>2, <1>4, <1>7, <1>8 DEF ms, ss, a, t

LEMMA ResumedAnswered ==
  ASSUME IInv, checkpoint # None, redone(checkpoint), Quiet, HeldOf(checkpoint'), UNCHANGED checkpoint,
         config.boundaries, loop' = resumeStep(checkpoint)
  PROVE  IInv'
<1> DEFINE c == checkpoint
<1>1. c \in Continuation /\ KeptOf(c) /\ c.operationTurn \in Nat /\ Len(c.steps) \in Nat
  BY CheckpointFields DEF IInv, Types, Kept
<1>2. /\ loop' \in Loops /\ loop'.pc = "answered" /\ loop'.err = "none" /\ loop'.messages = front(c.messages)
      /\ Len(loop'.steps) + 1 = Len(c.steps) /\ loop'.answer = journal[c.operationTurn - 1].answer /\ loop'.answer \in Answers
      /\ loop'.turn = last(c.messages).turn /\ loop'.operationTurn = c.operationTurn
      /\ loop'.toolCallsUsed = c.toolCallsUsed /\ loop'.repairCount = c.repairCount
  BY ResumeStepFacts DEF SameAccounts
<1> HIDE DEF c
<1>3. Answered'
  <2>1. c.operationTurn - 1 \in DOMAIN journal
    BY <1>1 DEF KeptOf, c
  <2>2. loop'.answer.calls > 0 => loop'.turn = c.operationTurn - 1
    <3>1. loop'.answer.calls > 0 => c.phase # "validating_output"
      BY <1>1, <1>2 DEF KeptOf, c
    <3> QED BY <1>1, <1>2, <3>1 DEF KeptOf, redone, c
  <2> QED BY <1>2, <2>1, <2>2 DEF Answered, Quiet
<1>4. Counted'
  <2>1. Cardinality(turnsBefore(loop'.operationTurn)) = Len(loop'.steps) + IF loop'.pc = "answered" THEN 1 ELSE 0
    BY <1>1, <1>2 DEF KeptOf
  <2>2. loop'.toolCallsUsed = Cardinality(callsBefore(loop'.operationTurn - 1))
    BY <1>1, <1>2 DEF KeptOf, c
  <2> QED BY <1>2, <2>1, <2>2, CountedNext
<1>5. Placed'
  BY <1>1, <1>2 DEF Placed, redone, Answering, Quiet, c
<1>6. Asked'
  BY <1>2 DEF Asked
<1>7. loop'.repairCount <= config.maxRepairs
  BY <1>1, <1>2 DEF KeptOf
<1> QED BY <1>2, <1>3, <1>4, <1>5, <1>6, <1>7, QuietStep

\* Resume goes on where the continuation was kept.
LEMMA ResumedOver ==
  ASSUME IInv, checkpoint # None, ~redone(checkpoint), Quiet, HeldOf(checkpoint'), UNCHANGED checkpoint,
         config.boundaries, loop' \in Loops, loop'.pc \in {"top", "returned"}, loop'.err = "none",
         loop'.steps = checkpoint.steps, loop'.messages = checkpoint.messages, SameAccounts(loop', checkpoint),
         loop'.pc = "returned" => checkpoint.phase # "ready"
  PROVE  IInv'
<1>1. checkpoint \in Continuation /\ KeptOf(checkpoint)
  BY DEF IInv, Types, Kept
<1>2. /\ loop'.operationTurn = checkpoint.operationTurn /\ loop'.toolCallsUsed = checkpoint.toolCallsUsed
      /\ loop'.repairCount = checkpoint.repairCount /\ loop'.usage = checkpoint.usage
      /\ checkpoint.operationTurn <= checkpoint.operationTurn
  BY <1>1, CheckpointFields DEF SameAccounts
<1>3. /\ Cardinality(turnsBefore(loop'.operationTurn)) = Len(loop'.steps)
      /\ loop'.toolCallsUsed = Cardinality(callsBefore(loop'.operationTurn))
      /\ loop'.repairCount <= config.maxRepairs
  BY <1>1, <1>2 DEF KeptOf
<1>4. checkpoint.phase # "model_complete"
  BY DEF redone
<1> QED BY <1>2, <1>3, <1>4, TurnOver

LEMMA ResumeAction == ASSUME IInv, Resume PROVE IInv'
<1> DEFINE c == checkpoint
<1>1. config.boundaries /\ UNCHANGED <<config, context, checkpoint, journal, tools>>
  BY DEF Resume, at, IInv, Types
<1>2. Quiet /\ HeldOf(checkpoint')
  BY <1>1, QuietTools, Held
<1>3. CASE c = None
  <2>1. loop' = NewLoop(context) /\ DOMAIN journal = {}
    BY <1>1, <1>3 DEF Resume, IInv, Latest
  <2>2. /\ loop' \in Loops /\ loop'.pc = "top" /\ loop'.err = "none" /\ loop'.steps = <<>>
        /\ loop'.toolCallsUsed = 0 /\ loop'.repairCount = 0
    BY <2>1, ContextTyped, NewLoopFacts
  <2>3. Cardinality(turnsBefore(loop'.operationTurn)) = Len(loop'.steps)
    <3>1. turnsBefore(loop'.operationTurn) = {}
      BY <2>1 DEF turnsBefore
    <3> QED BY <2>2, <3>1, FS_EmptySet
  <2>4. loop'.toolCallsUsed = Cardinality(callsBefore(loop'.operationTurn))
    <3>1. callsBefore(loop'.operationTurn) = {}
      BY <2>1 DEF callsBefore, IInv, Journaled
    <3> QED BY <2>2, <3>1, FS_EmptySet
  <2>5. loop'.repairCount <= config.maxRepairs
    BY <2>2, ConfigFields
  <2> QED BY <1>1, <1>2, <1>3, <2>2, <2>3, <2>4, <2>5, TurnOver
<1>4. CASE c # None
  <2>1. c \in Continuation /\ KeptOf(c) /\ c.phase \in Phases
    BY <1>4, CheckpointFields DEF IInv, Types, Kept
  <2>2. /\ continued(c) \in Loops /\ continued(c).pc = "top" /\ continued(c).err = "none"
        /\ continued(c).messages = c.messages /\ continued(c).steps = c.steps /\ SameAccounts(continued(c), c)
    BY <2>1, ContinuedFacts
  <2>3. {"context", "stepAborted", "none"} \subseteq Errs /\ "complete" \in Stops
    BY DEF Errs, Stops
  <2>4. ASSUME NEW err \in {"context", "stepAborted"}, loop' = failed(continued(c), err) PROVE IInv'
    <3>1. loop' \in Loops /\ loop'.pc = "returned" /\ loop'.err # "none" /\ loop'.repairCount = c.repairCount
      BY <2>2, <2>3, <2>4, FailedFacts DEF SameAccounts
    <3>2. loop'.repairCount <= config.maxRepairs
      BY <2>1, <3>1 DEF KeptOf
    <3> QED BY <1>2, <3>1, <3>2, EndedStep
  <2>5. CASE loop' = failed(continued(c), "context")
    BY <2>4, <2>5
  <2>6. CASE loop' = resumeLoop(c)
    <3>1. CASE c.phase = "ready"
      <4>1. loop' = continued(c) /\ ~redone(c)
        BY <2>6, <3>1 DEF resumeLoop, redone
      <4> QED BY <1>1, <1>2, <1>4, <2>2, <4>1, ResumedOver
    <3>2. CASE redone(c)
      <4>1. loop' = resumeStep(c)
        BY <2>6, <3>2 DEF resumeLoop, redone
      <4> QED BY <1>1, <1>2, <1>4, <3>2, <4>1, ResumedAnswered
    <3>3. CASE c.phase = "tools_complete"
      <4>1. loop' = resumeToolsComplete(c) /\ ~redone(c)
        BY <2>6, <3>3 DEF resumeLoop, redone
      <4>2. last(c.steps).decision \in {"continue", "finish", "fail"}
        <5>1. c.steps # <<>>
          BY <2>1, <3>3 DEF KeptOf
        <5>2. last(c.steps) \in Step
          BY <2>1, <5>1, CheckpointFields, FrontFacts
        <5> QED BY <5>2 DEF Step
      <4>3. CASE last(c.steps).decision = "continue"
        <5>1. loop' = continued(c)
          BY <4>1, <4>3 DEF resumeToolsComplete
        <5> QED BY <1>1, <1>2, <1>4, <2>2, <4>1, <5>1, ResumedOver
      <4>4. CASE last(c.steps).decision = "finish"
        <5>1. loop' = return(continued(c), "complete", "none")
          BY <4>1, <4>4 DEF resumeToolsComplete
        <5>2. /\ loop' \in Loops /\ loop'.pc = "returned" /\ loop'.err = "none" /\ loop'.messages = c.messages
              /\ loop'.steps = c.steps /\ SameAccounts(loop', c)
          BY <2>2, <2>3, <5>1, ReturnFacts DEF SameAccounts
        <5> QED BY <1>1, <1>2, <1>4, <3>3, <4>1, <5>2, ResumedOver
      <4>5. CASE last(c.steps).decision = "fail"
        <5>1. loop' = failed(continued(c), "stepAborted")
          BY <4>1, <4>5 DEF resumeToolsComplete
        <5> QED BY <2>4, <5>1
      <4> QED BY <4>2, <4>3, <4>4, <4>5
    <3> QED BY <2>1, <3>1, <3>2, <3>3 DEF Phases, redone
  <2> QED BY <1>4, <2>5, <2>6 DEF Resume
<1> QED BY <1>3, <1>4

-----------------------------------------------------------------------------
(* The invariant.                                                          *)

LEMMA InitInv == ASSUME Init PROVE IInv
<1>1. context \in Seq(MessageType) /\ config \in ConfigType
  BY ContextAssumption, ConfigAssumption DEF Init
<1>2. /\ loop \in Loops /\ loop.pc = "top" /\ loop.err = "none" /\ loop.steps = <<>> /\ loop.toolCallsUsed = 0
      /\ loop.repairCount = 0
  BY <1>1, NewLoopFacts DEF Init
<1>3. DOMAIN journal = {} /\ tools.dispatched = {} /\ checkpoint = None
      /\ tools \in [dispatched : SUBSET (Nat \X Nat), settled : SUBSET Nat]
  BY DEF Init
<1>4. config.maxRepairs \in Nat /\ config.maxIterations \in Nat /\ config.maxSteps \in Nat /\ config.maxToolCalls \in Nat
  BY <1>1 DEF ConfigType
<1>5. Cardinality({}) = 0 /\ IsFiniteSet({})
  BY FS_EmptySet
<1>6. Types
  BY <1>2, <1>3 DEF Init, Types
<1>7. Journaled
  BY <1>3, <1>5 DEF Journaled
<1>8. Answered /\ Asked /\ Kept /\ Latest
  BY <1>2, <1>3 DEF Answered, Answering, Asked, Kept, Latest
<1>9. Counted
  <2>1. turnsBefore(loop.operationTurn) = {} /\ callsBefore(loop.operationTurn) = {}
    BY <1>3 DEF turnsBefore, callsBefore
  <2>2. Len(loop.steps) = 0 /\ loop.pc \notin {"answered", "validate", "dispatch"} /\ loop.pc # "answered"
    BY <1>2
  <2>3. Cardinality(turnsBefore(loop.operationTurn)) = Len(loop.steps) + IF loop.pc = "answered" THEN 1 ELSE 0
    BY <1>5, <2>1, <2>2
  <2> QED BY <1>2, <1>5, <2>1, <2>2, <2>3 DEF Counted
<1>10. Placed
  BY <1>2, <1>3 DEF Placed, Answering
<1>11. LimitsHold
  BY <1>2, <1>3, <1>4, <1>5 DEF LimitsHold
<1> QED BY <1>6, <1>7, <1>8, <1>9, <1>10, <1>11 DEF IInv

LEMMA NextInv == ASSUME IInv, [Next]_vars PROVE IInv'
<1>1. CASE UNCHANGED vars
  <2>1. config' = config /\ context' = context /\ loop' = loop /\ checkpoint' = checkpoint /\ journal' = journal /\ tools' = tools
    BY <1>1 DEF vars
  <2>2. Types' /\ Journaled' /\ Answered' /\ LimitsHold'
    BY <2>1 DEF IInv, Types, Journaled, Answered, LimitsHold
  <2>3. Counted'
    BY <2>1 DEF IInv, Counted, Live, turnsBefore, callsBefore
  <2>4. Kept' /\ Asked'
    BY <2>1 DEF IInv, Kept, KeptOf, Asked, turnsBefore, callsBefore, redone, allowed, budgetExhausted
  <2>5. Latest'
    BY <2>1 DEF IInv, Latest, LatestOf, Live
  <2>6. Placed'
    BY <2>1 DEF IInv, Placed, Live, redone
  <2> QED BY <2>2, <2>3, <2>4, <2>5, <2>6 DEF IInv
<1>2. CASE Next
  <2>1. CASE MaxTurnsReached \/ ContextEnded \/ BudgetAbort \/ CompactionFails \/ Ready
    BY <2>1, MaxTurnsReachedStep, ContextEndedStep, BudgetAbortStep, CompactionFailsStep, ReadyStep
  <2>2. ASSUME NEW opened \in BOOLEAN, NEW partial \in Answers \cup {None}, ModelFails(opened, partial) PROVE IInv'
    BY <2>2, ModelFailsStep
  <2>3. ASSUME NEW answer \in Answers, ModelAnswers(answer) PROVE IInv'
    BY <2>3, ModelAnswersStep
  <2>4. CASE RecordToolCalls \/ RecordOutput \/ UsageMissing \/ OutputAllowed \/ OutputRetried \/ OutputRefused \/ GuardrailPanics
    BY <2>4, RecordToolCallsStep, RecordOutputStep, UsageMissingStep, OutputAllowedStep, OutputRetriedStep,
       OutputRefusedStep, GuardrailPanicsStep
  <2>5. CASE DispatchRefused \/ DispatchBlocked \/ Dispatch \/ ToolsReturn \/ ToolsFail \/ DriverPanics \/ FinalizeToolStep
    BY <2>5, DispatchRefusedStep, DispatchBlockedStep, DispatchStep, ToolsReturnStep, ToolsFailStep, DriverPanicsStep,
       FinalizeToolStepStep
  <2>6. CASE Return \/ RepairEnds \/ Repair \/ Cancel \/ Crash \/ Resume
    BY <2>6, ReturnStep, RepairEndsStep, RepairStep, CancelStep, CrashStep, ResumeAction
  <2> QED BY <1>2, <2>1, <2>2, <2>3, <2>4, <2>5, <2>6 DEF Next
<1> QED BY <1>1, <1>2

\* The invariant holds in every state of every execution, however often it is
\* cancelled, crashes and is resumed.
THEOREM LoopInvariant == Spec => []IInv
<1>1. Init => IInv
  BY InitInv
<1>2. IInv /\ [Next]_vars => IInv'
  BY NextInv
<1> QED BY <1>1, <1>2, PTL DEF Spec

\* Loop, continuation and journal have their types: RunMessages, Resume and the
\* observer never leave a state that the next step could not read.
THEOREM LoopTypes == Spec => []TypeOK
<1>1. IInv => TypeOK
  <2> SUFFICES ASSUME IInv PROVE TypeOK
    OBVIOUS
  <2>2. loop \in Loops /\ config \in Configs /\ context \in Contexts /\ checkpoint \in Continuation \cup {None}
    BY DEF IInv, Types
  <2>3. \A t \in DOMAIN journal : journal[t].answer \in Answers /\ journal[t].request \in Seq(MessageType)
    BY DEF IInv, Journaled
  <2> QED BY <2>2, <2>3, LoopFields DEF TypeOK
<1> QED BY <1>1, LoopInvariant, PTL

\* MaxIterations, MaxSteps, MaxToolCalls and MaxRepairs bound the model and tool
\* operations that were started and the repairs, over all interruptions and resumes
\* of an execution together, whatever its ContextManager does.
THEOREM LimitsHeld == Spec => []LimitsHold
<1>1. IInv => LimitsHold
  BY DEF IInv
<1> QED BY <1>1, LoopInvariant, PTL

-----------------------------------------------------------------------------
(* Continuations go forward.                                               *)

LEMMA RankOf ==
  ASSUME NEW c \in Continuation
  PROVE  /\ Len(c.steps) \in Nat /\ rank(c) \in Int
         /\ c.phase = "ready" => rank(c) = 3 * Len(c.steps) + 2
         /\ redone(c) => rank(c) = 3 * Len(c.steps)
         /\ c.phase = "tools_complete" => rank(c) = 3 * Len(c.steps) + 1
         /\ rank(c) <= 3 * Len(c.steps) + 2
<1>1. c.phase \in Phases /\ Len(c.steps) \in Nat
  BY CheckpointFields
<1>2. CASE c.phase = "ready"
  BY <1>1, <1>2 DEF rank, redone
<1>3. CASE c.phase = "tools_complete"
  BY <1>1, <1>3 DEF rank, redone
<1>4. CASE redone(c)
  <2>1. rank(c) = 3 * Len(c.steps) + 0 /\ c.phase # "ready" /\ c.phase # "tools_complete"
    BY <1>4 DEF rank, redone
  <2> QED BY <1>1, <1>4, <2>1
<1> QED BY <1>1, <1>2, <1>3, <1>4 DEF Phases, redone

\* What a boundary keeps.
LEMMA Observed ==
  ASSUME NEW l, NEW phase, NEW next, observeBoundary(l, phase, next)
  PROVE  \/ checkpoint' = checkpoint
         \/ /\ config.boundaries /\ ValidateContinuation(continuationOf(l, phase))
            /\ checkpoint' = continuationOf(l, phase)
BY DEF observeBoundary

\* The loop goes on after a boundary, or ends.
LEMMA ObservedLoop ==
  ASSUME NEW l \in Loops, NEW phase, NEW next \in Loops, observeBoundary(l, phase, next)
  PROVE  loop' = next \/ ~Live'
<1> DEFINE because(err) == IF next.err = "none" THEN err ELSE next.err
<1>1. because("invalid") \in Errs /\ because("invalid") # "none" /\ because("observer") \in Errs /\ because("observer") # "none"
  BY LoopFields DEF Errs
<1>2. loop' = next \/ loop' = failed(l, because("invalid")) \/ loop' = failed(l, because("observer"))
  BY DEF observeBoundary
<1> HIDE DEF because
<1>3. ASSUME NEW err \in Errs, err # "none", loop' = failed(l, err) PROVE ~Live'
  <2>1. loop'.pc = "returned" /\ loop'.err # "none"
    BY <1>3, FailedFacts
  <2> QED BY <2>1 DEF Live, Going, Answering
<1> QED BY <1>1, <1>2, <1>3

LEMMA ReadyForward ==
  ASSUME IInv, Ready, checkpoint # None
  PROVE  rank(checkpoint') >= rank(checkpoint)
<1> DEFINE c == continuationOf(ReadyLoop, "ready")
<1>1. loop.pc = "top" /\ (checkpoint' = checkpoint \/ (config.boundaries /\ checkpoint' = c))
  BY Observed DEF Ready, at, ReadyLoop
<1>2. checkpoint \in Continuation
  BY DEF IInv, Types
<1>3. c \in Continuation /\ c.phase = "ready" /\ c.steps = loop.steps
  <2>1. ReadyLoop \in Loops /\ ReadyLoop.steps = loop.steps
    BY ReadyLoopFacts DEF Ready, ReadyLoop
  <2>2. "ready" \in Phases
    BY DEF Phases
  <2> QED BY <2>1, <2>2, ContinuationFacts
<1>4. config.boundaries => Len(checkpoint.steps) = Len(loop.steps)
  BY <1>1, TopFacts DEF IInv, Placed
<1> HIDE DEF c
<1>5. rank(checkpoint) \in Int
  BY <1>2, RankOf
<1>6. CASE checkpoint' = checkpoint
  BY <1>5, <1>6
<1>7. CASE config.boundaries /\ checkpoint' = c
  <2>1. rank(c) = 3 * Len(loop.steps) + 2 /\ rank(checkpoint) <= 3 * Len(checkpoint.steps) + 2
    BY <1>2, <1>3, RankOf
  <2> QED BY <1>4, <1>7, <2>1
<1> QED BY <1>1, <1>6, <1>7

LEMMA RecordedForward ==
  ASSUME IInv, loop.pc = "answered", checkpoint # None, NEW m \in Seq(MessageType), NEW d \in Decisions,
         NEW phase \in {"model_complete", "validating_output"}, NEW next, observeBoundary(recorded(m, d), phase, next)
  PROVE  rank(checkpoint') >= rank(checkpoint)
<1> DEFINE c == continuationOf(recorded(m, d), phase)
<1>1. checkpoint' = checkpoint \/ (config.boundaries /\ checkpoint' = c)
  BY Observed
<1>2. checkpoint \in Continuation
  BY DEF IInv, Types
<1>3. c \in Continuation /\ redone(c) /\ Len(c.steps) = Len(loop.steps) + 1
  <2>1. recorded(m, d) \in Loops /\ Len(recorded(m, d).steps) = Len(loop.steps) + 1
    BY RecordedFacts
  <2>2. phase \in Phases
    BY DEF Phases
  <2> QED BY <2>1, <2>2, ContinuationFacts DEF redone
<1>4. config.boundaries => \/ Len(checkpoint.steps) = Len(loop.steps)
                           \/ redone(checkpoint) /\ Len(checkpoint.steps) = Len(loop.steps) + 1
  BY DEF IInv, Placed
<1> HIDE DEF c
<1>5. rank(checkpoint) \in Int
  BY <1>2, RankOf
<1>6. CASE checkpoint' = checkpoint
  BY <1>5, <1>6
<1>7. CASE config.boundaries /\ checkpoint' = c
  <2>1. rank(c) = 3 * (Len(loop.steps) + 1) /\ Len(loop.steps) \in Nat
    BY <1>3, RankOf, LoopTyped
  <2>2. CASE Len(checkpoint.steps) = Len(loop.steps)
    <3>1. rank(checkpoint) <= 3 * Len(loop.steps) + 2
      BY <1>2, <2>2, RankOf
    <3> QED BY <1>5, <1>7, <2>1, <3>1
  <2>3. CASE redone(checkpoint) /\ Len(checkpoint.steps) = Len(loop.steps) + 1
    <3>1. rank(checkpoint) = 3 * (Len(loop.steps) + 1)
      BY <1>2, <2>3, RankOf
    <3> QED BY <1>7, <2>1, <3>1
  <2> QED BY <1>4, <1>7, <2>2, <2>3
<1> QED BY <1>1, <1>6, <1>7

LEMMA SteppedForward ==
  ASSUME IInv, loop.pc = "results", checkpoint # None, NEW next, observeBoundary(stepped, "tools_complete", next)
  PROVE  rank(checkpoint') >= rank(checkpoint)
<1> DEFINE c == continuationOf(stepped, "tools_complete")
<1>1. checkpoint' = checkpoint \/ (config.boundaries /\ checkpoint' = c)
  BY Observed
<1>2. checkpoint \in Continuation
  BY DEF IInv, Types
<1>3. c \in Continuation /\ c.phase = "tools_complete" /\ Len(c.steps) = Len(loop.steps)
  <2>1. stepped \in Loops /\ Len(stepped.steps) = Len(loop.steps)
    BY SteppedFacts DEF SameSteps
  <2>2. "tools_complete" \in Phases
    BY DEF Phases
  <2> QED BY <2>1, <2>2, ContinuationFacts
<1>4. config.boundaries => redone(checkpoint) /\ Len(checkpoint.steps) = Len(loop.steps)
  BY DispatchedFacts DEF redone
<1> HIDE DEF c
<1>5. rank(checkpoint) \in Int
  BY <1>2, RankOf
<1>6. CASE checkpoint' = checkpoint
  BY <1>5, <1>6
<1>7. CASE config.boundaries /\ checkpoint' = c
  <2>1. rank(c) = 3 * Len(loop.steps) + 1 /\ rank(checkpoint) = 3 * Len(loop.steps) /\ Len(loop.steps) \in Nat
    BY <1>2, <1>3, <1>4, <1>7, RankOf, LoopTyped
  <2> QED BY <1>7, <2>1
<1> QED BY <1>1, <1>6, <1>7

\* Whatever is interrupted and gone through again, the observer is given no
\* continuation that lies behind the one it kept.
THEOREM ContinuationsGoForward == Spec => ContinuationForward
<1>1. ASSUME IInv, [Next]_vars, checkpoint # None, checkpoint' # checkpoint PROVE rank(checkpoint') >= rank(checkpoint)
  <2>1. \/ Ready \/ RecordToolCalls \/ RecordOutput \/ FinalizeToolStep
    BY <1>1, Zenon DEF vars, Next, MaxTurnsReached, ContextEnded, BudgetAbort, CompactionFails, ModelFails, ModelAnswers,
       UsageMissing, OutputAllowed, OutputRetried, OutputRefused, GuardrailPanics, DispatchRefused, DispatchBlocked,
       Dispatch, ToolsReturn, ToolsFail, DriverPanics, Return, RepairEnds, Repair, Cancel, Crash, Resume
  <2>2. CASE Ready
    BY <1>1, <2>2, ReadyForward
  <2>3. CASE RecordToolCalls
    <3>1. loop.pc = "answered" /\ loop.answer.calls > 0
          /\ observeBoundary(recorded(withCalls, "continue"), "model_complete", goto(recorded(withCalls, "continue"), "dispatch"))
      BY <2>3 DEF RecordToolCalls, at, recorded, withCalls
    <3>2. withCalls \in Seq(MessageType) /\ "continue" \in Decisions
      BY <1>1, <3>1, WithCallsFacts DEF Decisions
    <3> QED BY <1>1, <3>1, <3>2, RecordedForward
  <2>4. CASE RecordOutput
    <3>1. loop.pc = "answered"
          /\ observeBoundary(recorded(withOutput, "finish"), "validating_output", goto(recorded(withOutput, "finish"), "validate"))
      BY <2>4 DEF RecordOutput, at, recorded, withOutput
    <3>2. withOutput \in Seq(MessageType) /\ "finish" \in Decisions
      BY <1>1, <3>1, AnsweredFacts, LoopTyped, FinalAppended DEF withOutput, Decisions
    <3> QED BY <1>1, <3>1, <3>2, RecordedForward
  <2>5. CASE FinalizeToolStep
    <3>1. loop.pc = "results" /\ observeBoundary(stepped, "tools_complete", steppedNext)
      BY <1>1, <2>5 DEF FinalizeToolStep, at, stepped, steppedNext
    <3> QED BY <1>1, <3>1, SteppedForward
  <2> QED BY <2>1, <2>2, <2>3, <2>4, <2>5
<1>2. IInv /\ [Next]_vars => [checkpoint # None => rank(checkpoint') >= rank(checkpoint)]_checkpoint
  BY <1>1
<1> QED BY <1>2, LoopInvariant, PTL DEF Spec, ContinuationForward

-----------------------------------------------------------------------------
(* Replay.                                                                 *)

\* Only a boundary changes what is kept.
LEMMA Keeps ==
  ASSUME IInv, [Next]_vars
  PROVE  \/ checkpoint' = checkpoint
         \/ Ready
         \/ /\ checkpoint' # None /\ checkpoint'.phase # "ready"
            /\ RecordToolCalls \/ RecordOutput \/ FinalizeToolStep
<1>1. \/ checkpoint' = checkpoint
      \/ Ready \/ RecordToolCalls \/ RecordOutput \/ FinalizeToolStep
  BY Zenon DEF vars, Next, MaxTurnsReached, ContextEnded, BudgetAbort, CompactionFails, ModelFails, ModelAnswers,
     UsageMissing, OutputAllowed, OutputRetried, OutputRefused, GuardrailPanics, DispatchRefused, DispatchBlocked,
     Dispatch, ToolsReturn, ToolsFail, DriverPanics, Return, RepairEnds, Repair, Cancel, Crash, Resume
<1>2. {"model_complete", "validating_output", "tools_complete"} \subseteq Phases /\ {"continue", "finish"} \subseteq Decisions
  BY DEF Phases, Decisions
<1>3. ASSUME RecordToolCalls, checkpoint' # checkpoint PROVE checkpoint' # None /\ checkpoint'.phase # "ready"
  <2> DEFINE l == recorded(withCalls, "continue")
  <2>1. /\ loop.pc = "answered" /\ loop.answer.calls > 0
        /\ observeBoundary(l, "model_complete", goto(l, "dispatch"))
    BY <1>3 DEF RecordToolCalls, at, recorded, withCalls
  <2>2. l \in Loops
    BY <1>2, <2>1, WithCallsFacts, RecordedFacts
  <2> HIDE DEF l
  <2>3. checkpoint' = continuationOf(l, "model_complete")
    BY <1>3, <2>1, Observed
  <2> QED BY <1>2, <2>2, <2>3, ContinuationFacts, NoneAssumption
<1>4. ASSUME RecordOutput, checkpoint' # checkpoint PROVE checkpoint' # None /\ checkpoint'.phase # "ready"
  <2> DEFINE l == recorded(withOutput, "finish")
  <2>1. loop.pc = "answered" /\ observeBoundary(l, "validating_output", goto(l, "validate"))
    BY <1>4 DEF RecordOutput, at, recorded, withOutput
  <2>2. withOutput \in Seq(MessageType)
    BY <2>1, AnsweredFacts, LoopTyped, FinalAppended DEF withOutput
  <2>3. l \in Loops
    BY <1>2, <2>1, <2>2, RecordedFacts
  <2> HIDE DEF l
  <2>4. checkpoint' = continuationOf(l, "validating_output")
    BY <1>4, <2>1, Observed
  <2> QED BY <1>2, <2>3, <2>4, ContinuationFacts, NoneAssumption
<1>5. ASSUME FinalizeToolStep, checkpoint' # checkpoint PROVE checkpoint' # None /\ checkpoint'.phase # "ready"
  <2>1. loop.pc = "results" /\ observeBoundary(stepped, "tools_complete", steppedNext)
    BY <1>5 DEF FinalizeToolStep, at, stepped, steppedNext
  <2>2. checkpoint' = continuationOf(stepped, "tools_complete") /\ stepped \in Loops
    BY <1>5, <2>1, Observed, SteppedFacts
  <2> QED BY <1>2, <2>2, ContinuationFacts, NoneAssumption
<1> QED BY <1>1, <1>3, <1>4, <1>5

\* Only an answer changes the journal, and nothing the limits and the context.
LEMMA Journals ==
  ASSUME [Next]_vars
  PROVE  /\ config' = config /\ context' = context
         /\ \/ journal' = journal
            \/ \E answer \in Answers : ModelAnswers(answer)
<1>1. config' = config /\ context' = context
  BY Zenon DEF vars, Next, MaxTurnsReached, ContextEnded, BudgetAbort, CompactionFails, ModelFails, ModelAnswers,
     UsageMissing, OutputAllowed, OutputRetried, OutputRefused, GuardrailPanics, DispatchRefused, DispatchBlocked,
     Dispatch, ToolsReturn, ToolsFail, DriverPanics, Return, RepairEnds, Repair, Cancel, Crash, Resume,
     Ready, RecordToolCalls, RecordOutput, FinalizeToolStep
<1>2. journal' = journal \/ \E answer \in Answers : ModelAnswers(answer)
  BY Zenon DEF vars, Next, MaxTurnsReached, ContextEnded, BudgetAbort, CompactionFails, ModelFails,
     UsageMissing, OutputAllowed, OutputRetried, OutputRefused, GuardrailPanics, DispatchRefused, DispatchBlocked,
     Dispatch, ToolsReturn, ToolsFail, DriverPanics, Return, RepairEnds, Repair, Cancel, Crash, Resume,
     Ready, RecordToolCalls, RecordOutput, FinalizeToolStep
<1> QED BY <1>1, <1>2

LEMMA ReplayedReady ==
  ASSUME IInv, Replayed, Idempotent, Ready, checkpoint' = continuationOf(ReadyLoop, "ready")
  PROVE  Replayed'
<1> DEFINE O == loop.operationTurn
<1>1. loop.pc = "top" /\ UNCHANGED <<config, context, journal>> /\ Live
  BY TopFacts DEF Ready, at
<1>2. /\ ReadyLoop \in Loops /\ SameAccounts(ReadyLoop, loop) /\ ReadyLoop.steps = loop.steps
      /\ ReadyLoop.messages = (IF compacts THEN Compact(loop.messages) ELSE loop.messages)
  BY ReadyLoopFacts DEF Ready, ReadyLoop
<1>3. /\ checkpoint'.messages = ReadyLoop.messages /\ checkpoint'.operationTurn = O /\ checkpoint'.usage = loop.usage
      /\ checkpoint'.steps = loop.steps
  <2>1. "ready" \in Phases
    BY DEF Phases
  <2> QED BY <1>2, <2>1, ContinuationFacts DEF SameAccounts
<1>4. compactsAgain(checkpoint)' => compacts
  BY <1>1, <1>3 DEF compactsAgain, compacts, iteration
<1>5. compacts => Compact(ReadyLoop.messages) = ReadyLoop.messages
  BY <1>2, LoopTyped DEF Idempotent
<1>6. ASSUME O \in DOMAIN journal PROVE journal[O].request = ReadyLoop.messages
  <2>1. checkpoint # None /\ checkpoint.phase = "ready"
    <3>1. SUFFICES ASSUME checkpoint = None \/ checkpoint.phase # "ready" PROVE FALSE
      OBVIOUS
    <3>2. O < O
      BY <1>1, <1>6, <3>1, NothingLater
    <3> QED BY <3>2, LoopTyped
  <2>2. /\ config.boundaries /\ checkpoint.operationTurn = O /\ checkpoint.messages = loop.messages
        /\ checkpoint.usage = loop.usage /\ Len(checkpoint.steps) = Len(loop.steps)
    BY <1>1, <2>1 DEF IInv, Placed, Types
  <2>3. compacts => compactsAgain(checkpoint)
    BY <2>2 DEF compactsAgain, compacts, iteration
  <2>4. journal[O].request = loop.messages /\ (compacts => Compact(loop.messages) = loop.messages)
    BY <1>6, <2>1, <2>2, <2>3 DEF Replayed
  <2> QED BY <1>2, <2>4
<1> QED BY <1>1, <1>3, <1>4, <1>5, <1>6 DEF Replayed

LEMMA ReplayedAnswers ==
  ASSUME IInv, Replayed, NEW answer \in Answers, ModelAnswers(answer)
  PROVE  Replayed'
<1> DEFINE T == loop.operationTurn
<1>1. loop.pc = "model" /\ UNCHANGED <<config, context, checkpoint>>
  BY DEF ModelAnswers, at
<1>2. /\ DOMAIN journal' = DOMAIN journal \cup {T} /\ \A t \in DOMAIN journal : journal'[t] = journal[t]
      /\ (T \notin DOMAIN journal => journal'[T].request = loop.messages)
  BY DEF ModelAnswers
<1>3. SUFFICES ASSUME checkpoint # None, checkpoint.phase = "ready"
               PROVE  /\ compactsAgain(checkpoint) => Compact(checkpoint.messages) = checkpoint.messages
                      /\ checkpoint.operationTurn \in DOMAIN journal' =>
                           journal'[checkpoint.operationTurn].request = checkpoint.messages
  BY <1>1 DEF Replayed, compactsAgain
<1>4. checkpoint.operationTurn = T /\ checkpoint.messages = loop.messages
  BY <1>1, <1>3 DEF IInv, Placed, Types
<1> QED BY <1>2, <1>3, <1>4 DEF Replayed

LEMMA ReplayedStep ==
  ASSUME IInv, Replayed, Idempotent, [Next]_vars
  PROVE  Replayed'
<1>1. CASE \E answer \in Answers : ModelAnswers(answer)
  BY <1>1, ReplayedAnswers
<1>2. CASE journal' = journal
  <2>1. config' = config
    BY Journals
  <2>2. CASE checkpoint' = checkpoint
    BY <1>2, <2>1, <2>2 DEF Replayed, compactsAgain
  <2>3. CASE Ready /\ checkpoint' # checkpoint
    <3>1. observeBoundary(ReadyLoop, "ready", goto(ReadyLoop, "model"))
      BY <2>3 DEF Ready, ReadyLoop
    <3>2. checkpoint' = continuationOf(ReadyLoop, "ready")
      BY <2>3, <3>1, Observed
    <3> QED BY <2>3, <3>2, ReplayedReady
  <2>4. CASE checkpoint' # None /\ checkpoint'.phase # "ready"
    BY <2>4 DEF Replayed
  <2> QED BY <2>2, <2>3, <2>4, Keeps
<1> QED BY <1>1, <1>2, Journals

LEMMA ReplayedExact ==
  ASSUME IInv, Replayed
  PROVE  ReplayIsExact
<1>1. SUFFICES ASSUME loop.pc = "model", loop.operationTurn \in DOMAIN journal
               PROVE  journal[loop.operationTurn].request = loop.messages
  BY DEF ReplayIsExact, at
<1>2. config.boundaries
  <2>1. ~config.boundaries => loop.operationTurn < loop.operationTurn
    BY <1>1, ModelFacts
  <2> QED BY <2>1, LoopTyped
<1>3. checkpoint # None /\ checkpoint.phase = "ready" /\ checkpoint.operationTurn = loop.operationTurn
      /\ checkpoint.messages = loop.messages
  BY <1>1, <1>2 DEF IInv, Placed
<1> QED BY <1>1, <1>3 DEF Replayed

\* When Compact is idempotent, as the documentation of ContextManager asks, an
\* operation ID stands for one request: a turn that is asked again after an
\* interruption sends what it sent the first time.
THEOREM ReplayExact ==
  ASSUME Idempotent
  PROVE  Spec => []ReplayIsExact
<1>1. Init => Replayed
  BY DEF Init, Replayed
<1>2. IInv /\ Replayed /\ [Next]_vars => Replayed'
  BY ReplayedStep
<1>3. IInv /\ Replayed => ReplayIsExact
  BY ReplayedExact
<1> QED BY <1>1, <1>2, <1>3, LoopInvariant, PTL DEF Spec

-----------------------------------------------------------------------------
(* What the other actions make of the loop.                                *)

LEMMA NotLive ==
  ASSUME NEW l \in Loops, NEW stop \in Stops, NEW err \in Errs, err # "none", loop' = return(l, stop, err)
  PROVE  ~Live'
<1>1. loop'.pc = "returned" /\ loop'.err # "none"
  BY ReturnFacts
<1> QED BY <1>1 DEF Live, Going, Answering

LEMMA MaxTurnsReachedLoop ==
  ASSUME IInv, MaxTurnsReached
  PROVE  /\ loop' \in Loops /\ loop'.pc = "returned" /\ loop'.steps = loop.steps /\ loop'.messages = loop.messages
         /\ loop'.operationTurn = loop.operationTurn /\ loop.pc = "top"
<1>1. "maxTurns" \in Stops /\ "none" \in Errs
  BY DEF Stops, Errs
<1> QED BY <1>1, LoopTyped, ReturnFacts DEF MaxTurnsReached, SameAccounts, at

LEMMA OutputAllowedLoop ==
  ASSUME IInv, OutputAllowed, Live'
  PROVE  /\ loop' \in Loops /\ loop'.pc = "returned" /\ loop'.steps = loop.steps /\ loop'.operationTurn = loop.operationTurn
         /\ loop.pc = "validate" /\ \E text \in Texts : loop'.messages = appendFinalAssistant(base, text)
<1> DEFINE text == IF loop.answer.guard = "replace" THEN "valid" ELSE loop.answer.text
           ms == appendFinalAssistant(base, text)
           l == [loop EXCEPT !.messages = ms]
<1>1. loop.pc = "validate" /\ (loop' = return(l, "complete", "none") \/ loop' = return(l, "error", "engine"))
  BY DEF OutputAllowed, at, observeFinalizedStep, failed
<1>2. text \in Texts
  BY <1>1, ValidateFacts DEF Texts
<1> HIDE DEF text
<1>3. ms \in Seq(MessageType)
  BY <1>1, <1>2, ValidateFacts, FinalAppended
<1> HIDE DEF ms
<1>4. l \in Loops /\ l.steps = loop.steps /\ l.operationTurn = loop.operationTurn /\ l.messages = ms
  BY <1>3, LoopTyped DEF Loops
<1> HIDE DEF l
<1>5. {"complete", "error"} \subseteq Stops /\ {"none", "engine"} \subseteq Errs
  BY DEF Stops, Errs
<1>6. loop' = return(l, "complete", "none")
  BY <1>1, <1>4, <1>5, NotLive
<1>7. /\ loop' \in Loops /\ loop'.pc = "returned" /\ loop'.steps = loop.steps /\ loop'.operationTurn = loop.operationTurn
      /\ loop'.messages = ms
  BY <1>4, <1>5, <1>6, ReturnFacts DEF SameAccounts
<1> QED BY <1>1, <1>2, <1>7 DEF ms

LEMMA OutputRetriedLoop ==
  ASSUME IInv, OutputRetried, Live'
  PROVE  /\ loop' \in Loops /\ loop'.pc = "top" /\ loop'.operationTurn = loop.operationTurn /\ loop.pc = "validate"
         /\ Len(loop'.steps) = Len(loop.steps) /\ \A i \in DOMAIN loop.steps : loop'.steps[i].model = loop.steps[i].model
         /\ loop'.messages = Append(IF loop.answer.guard = "retryKeep" THEN loop.messages ELSE base, UserMessage)
<1>1. loop.pc = "validate"
      /\ (loop' = [retried EXCEPT !.pc = "top", !.answer = None, !.turn = -1] \/ loop' = return(retried, "error", "engine"))
  BY DEF OutputRetried, at, observeFinalizedStep, failed, retried
<1>2. /\ retried \in Loops /\ retried.operationTurn = loop.operationTurn /\ Len(retried.steps) = Len(loop.steps)
      /\ \A i \in DOMAIN loop.steps : retried.steps[i].model = loop.steps[i].model
      /\ retried.messages = Append(IF loop.answer.guard = "retryKeep" THEN loop.messages ELSE base, UserMessage)
  BY <1>1, RetriedFacts DEF SameSteps, SameAccounts
<1>3. "error" \in Stops /\ "engine" \in Errs
  BY DEF Stops, Errs
<1>4. loop' = [retried EXCEPT !.pc = "top", !.answer = None, !.turn = -1]
  BY <1>1, <1>2, <1>3, NotLive
<1>5. loop' \in Loops /\ loop'.pc = "top" /\ loop'.steps = retried.steps /\ loop'.messages = retried.messages
      /\ loop'.operationTurn = retried.operationTurn
  BY <1>2, <1>4, TopAgain DEF SameAccounts
<1> QED BY <1>1, <1>2, <1>5

LEMMA RunToolsLoop ==
  ASSUME IInv, Dispatch \/ ToolsReturn
  PROVE  /\ loop' \in Loops /\ loop'.pc \in {"tools", "results"} /\ loop'.steps = loop.steps /\ loop'.messages = loop.messages
         /\ loop'.operationTurn = loop.operationTurn /\ loop'.turn = loop.turn /\ loop'.answer = loop.answer
         /\ loop.pc \in {"dispatch", "tools"} /\ Live
<1>1. CASE Dispatch
  <2> DEFINE used == loop.toolCallsUsed + loop.answer.calls
  <2>1. loop' = [loop EXCEPT !.pc = "tools", !.toolCallsUsed = used] /\ loop.pc = "dispatch"
    BY <1>1, LoopTyped DEF Dispatch, Loops, at
  <2>2. used \in Nat /\ "tools" \in PCs /\ Live
    BY <2>1, ToolsFacts, LoopTyped DEF PCs
  <2> HIDE DEF used
  <2> QED BY <2>1, <2>2, LoopTyped DEF Loops
<1>2. CASE ToolsReturn
  <2> DEFINE used == loop.usage + childUsage
  <2>1. loop' = [loop EXCEPT !.pc = "results", !.usage = used] /\ loop.pc = "tools"
    BY <1>2, LoopTyped DEF ToolsReturn, Loops, at
  <2>2. used \in Nat /\ "results" \in PCs /\ Live
    BY <2>1, ChildUsageTyped, ToolsFacts, LoopTyped DEF PCs
  <2> HIDE DEF used
  <2> QED BY <2>1, <2>2, LoopTyped DEF Loops
<1> QED BY <1>1, <1>2

LEMMA FinalizeToolStepLoop ==
  ASSUME IInv, FinalizeToolStep
  PROVE  /\ loop.pc = "results"
         /\ Live' => /\ loop' \in Loops /\ loop'.pc \in {"top", "returned"} /\ loop'.steps = stepped.steps
                     /\ loop'.messages = stepped.messages /\ loop'.operationTurn = loop.operationTurn
         /\ \/ checkpoint' = checkpoint
            \/ checkpoint' = continuationOf(stepped, "tools_complete")
<1> DEFINE err == IF stepDecision(loop.answer) = "fail" THEN "stepAborted" ELSE "engine"
<1>1. /\ loop.pc = "results"
      /\ \/ observeBoundary(stepped, "tools_complete", steppedNext)
         \/ loop' = failed(stepped, err) /\ UNCHANGED checkpoint
  BY DEF FinalizeToolStep, at, stepped, steppedNext
<1>2. stepped \in Loops /\ steppedNext \in Loops
  BY <1>1, SteppedFacts, SteppedNextFacts
<1>3. CASE loop' = failed(stepped, err) /\ UNCHANGED checkpoint
  <2>1. "error" \in Stops /\ err \in Errs /\ err # "none"
    BY DEF Stops, Errs
  <2> HIDE DEF err
  <2>2. ~Live'
    BY <1>2, <1>3, <2>1, NotLive DEF failed
  <2> QED BY <1>1, <1>3, <2>2
<1>4. CASE observeBoundary(stepped, "tools_complete", steppedNext)
  <2>1. checkpoint' = checkpoint \/ checkpoint' = continuationOf(stepped, "tools_complete")
    BY <1>4, Observed
  <2>2. loop' = steppedNext \/ ~Live'
    BY <1>2, <1>4, ObservedLoop
  <2>3. /\ steppedNext.pc \in {"top", "returned"} /\ steppedNext.operationTurn = loop.operationTurn
        /\ steppedNext.pc = "top" => steppedNext.err = "none"
        /\ steppedNext.err = "none" =>
              /\ steppedNext.messages = stepped.messages /\ steppedNext.steps = stepped.steps
    BY <1>1, SteppedNextFacts DEF SameAccounts
  <2>4. Live' => loop'.err = "none"
    BY <2>2, <2>3 DEF Live, Going, Answering
  <2> QED BY <1>1, <1>2, <2>1, <2>2, <2>3, <2>4
<1> QED BY <1>1, <1>3, <1>4

\* Resume runs the loop anew, goes on from the continuation, or takes its step back.
LEMMA ResumeLoop ==
  ASSUME IInv, Resume, Live'
  PROVE  \/ checkpoint = None /\ loop' = NewLoop(context)
         \/ /\ checkpoint # None /\ ~redone(checkpoint)
            /\ loop' \in Loops /\ loop'.pc \in {"top", "returned"} /\ loop'.steps = checkpoint.steps
            /\ loop'.messages = checkpoint.messages /\ loop'.operationTurn = checkpoint.operationTurn
         \/ checkpoint # None /\ redone(checkpoint) /\ loop' = resumeStep(checkpoint)
<1> DEFINE c == checkpoint
<1>1. CASE c = None
  BY <1>1 DEF Resume
<1>2. CASE c # None
  <2>1. c \in Continuation /\ KeptOf(c) /\ c.phase \in Phases
    BY <1>2, CheckpointFields DEF IInv, Types, Kept
  <2>2. /\ continued(c) \in Loops /\ continued(c).pc = "top" /\ continued(c).messages = c.messages
        /\ continued(c).steps = c.steps /\ continued(c).operationTurn = c.operationTurn
    BY <2>1, ContinuedFacts DEF SameAccounts
  <2>3. {"context", "stepAborted", "none"} \subseteq Errs /\ {"complete", "error"} \subseteq Stops
    BY DEF Errs, Stops
  <2>4. \A err \in {"context", "stepAborted"} : loop' # failed(continued(c), err)
    BY <2>2, <2>3, NotLive DEF failed
  <2>5. loop' = resumeLoop(c)
    BY <1>2, <2>4 DEF Resume
  <2>6. CASE c.phase = "ready"
    <3>1. loop' = continued(c) /\ ~redone(c)
      BY <2>5, <2>6 DEF resumeLoop, redone
    <3> QED BY <1>2, <2>2, <3>1
  <2>7. CASE redone(c)
    BY <1>2, <2>5, <2>7 DEF resumeLoop, redone
  <2>8. CASE c.phase = "tools_complete"
    <3>1. loop' = resumeToolsComplete(c) /\ ~redone(c)
      BY <2>5, <2>8 DEF resumeLoop, redone
    <3>2. last(c.steps).decision \in {"continue", "finish", "fail"}
      <4>1. c.steps # <<>>
        BY <2>1, <2>8 DEF KeptOf
      <4>2. last(c.steps) \in Step
        BY <2>1, <4>1, CheckpointFields, FrontFacts
      <4> QED BY <4>2 DEF Step
    <3>3. CASE last(c.steps).decision = "continue"
      <4>1. loop' = continued(c)
        BY <3>1, <3>3 DEF resumeToolsComplete
      <4> QED BY <1>2, <2>2, <3>1, <4>1
    <3>4. CASE last(c.steps).decision = "finish"
      <4>1. loop' = return(continued(c), "complete", "none")
        BY <3>1, <3>4 DEF resumeToolsComplete
      <4>2. /\ loop' \in Loops /\ loop'.pc = "returned" /\ loop'.steps = c.steps /\ loop'.messages = c.messages
            /\ loop'.operationTurn = c.operationTurn
        <5>1. "complete" \in Stops /\ "none" \in Errs
          BY <2>3
        <5>2. /\ loop' \in Loops /\ loop'.pc = "returned" /\ loop'.steps = continued(c).steps
              /\ loop'.messages = continued(c).messages /\ SameAccounts(loop', continued(c))
          BY <2>2, <4>1, <5>1, ReturnFacts
        <5> QED BY <2>2, <5>2 DEF SameAccounts
      <4> QED BY <1>2, <3>1, <4>2
    <3>5. CASE last(c.steps).decision = "fail"
      BY <2>4, <3>1, <3>5 DEF resumeToolsComplete
    <3> QED BY <3>2, <3>3, <3>4, <3>5
  <2> QED BY <2>1, <2>6, <2>7, <2>8 DEF Phases, redone
<1> QED BY <1>1, <1>2

LEMMA CancelLoop ==
  ASSUME IInv, Cancel
  PROVE  /\ loop' \in Loops /\ loop'.pc = loop.pc /\ loop'.steps = loop.steps /\ loop'.messages = loop.messages
         /\ loop'.operationTurn = loop.operationTurn /\ loop'.turn = loop.turn /\ loop'.answer = loop.answer
         /\ loop'.err = loop.err /\ (Live' <=> Live)
<1>1. loop' = [loop EXCEPT !.cancelled = TRUE]
  BY DEF Cancel
<1>2. /\ loop' \in Loops /\ loop'.pc = loop.pc /\ loop'.steps = loop.steps /\ loop'.messages = loop.messages
      /\ loop'.operationTurn = loop.operationTurn /\ loop'.turn = loop.turn /\ loop'.answer = loop.answer
      /\ loop'.err = loop.err
  BY <1>1, LoopTyped DEF Loops
<1> QED BY <1>2 DEF Live

LEMMA CrashLoop ==
  ASSUME IInv, Crash
  PROVE  ~Live'
<1>1. loop'.pc = "crashed"
  <2>1. "crashed" \in PCs
    BY DEF PCs
  <2>2. NewLoop(context) \in Loops
    BY ContextTyped, NewLoopFacts
  <2> QED BY <2>1, <2>2, GotoFacts DEF Crash
<1> QED BY <1>1 DEF Live, Going, Answering

-----------------------------------------------------------------------------
(* Accounts.                                                               *)

LEMMA FirstTurnTyped == ASSUME IInv PROVE firstTurn \in Nat
BY ContextTyped, GreatestTurn DEF firstTurn

LEMMA BeforeGreatest ==
  ASSUME NEW m \in Seq(MessageType), NEW n \in Nat
  PROVE  Before(m, n) <=> maxOperationTurn(m) < n
<1>1. \A i \in DOMAIN m : m[i].turn \in Int
  <2>1. \A i \in DOMAIN m : m[i] \in MessageType
    OBVIOUS
  <2> QED BY <2>1, MessageFields
<1>2. maxOperationTurn(m) \in Int /\ \A i \in DOMAIN m : isAssistant(m[i]) => m[i].turn <= maxOperationTurn(m)
  BY GreatestTurn
<1>3. maxOperationTurn(m) = -1 \/ \E i \in DOMAIN m : isAssistant(m[i]) /\ m[i].turn = maxOperationTurn(m)
  BY GreatestTurn
<1>4. ASSUME Before(m, n) PROVE maxOperationTurn(m) < n
  <2>1. CASE maxOperationTurn(m) = -1
    BY <2>1
  <2>2. CASE \E i \in DOMAIN m : isAssistant(m[i]) /\ m[i].turn = maxOperationTurn(m)
    BY <1>4, <2>2 DEF Before
  <2> QED BY <1>3, <2>1, <2>2
<1>5. ASSUME maxOperationTurn(m) < n PROVE Before(m, n)
  BY <1>1, <1>2, <1>5 DEF Before
<1> QED BY <1>4, <1>5

LEMMA BeforeAppend ==
  ASSUME NEW m \in Seq(MessageType), NEW e \in MessageType, NEW n, Before(m, n), isAssistant(e) => e.turn < n
  PROVE  Before(Append(m, e), n)
<1>1. /\ DOMAIN m = 1..Len(m) /\ DOMAIN Append(m, e) = 1..(Len(m) + 1) /\ Len(m) \in Nat
      /\ Append(m, e)[Len(m) + 1] = e /\ \A i \in 1..Len(m) : Append(m, e)[i] = m[i]
  OBVIOUS
<1>2. ASSUME NEW i \in 1..(Len(m) + 1), isAssistant(Append(m, e)[i]) PROVE Append(m, e)[i].turn < n
  <2>1. CASE i = Len(m) + 1
    BY <1>1, <1>2, <2>1
  <2>2. CASE i # Len(m) + 1
    <3>1. i \in 1..Len(m)
      BY <1>1, <2>2
    <3> QED BY <1>1, <1>2, <3>1 DEF Before
  <2> QED BY <2>1, <2>2
<1> QED BY <1>1, <1>2 DEF Before

LEMMA BeforeFront ==
  ASSUME NEW m \in Seq(MessageType), m # <<>>, NEW n, Before(m, n)
  PROVE  Before(front(m), n)
<1>1. /\ front(m) \in Seq(MessageType) /\ Len(front(m)) = Len(m) - 1 /\ Len(m) \in Nat \ {0}
      /\ \A i \in 1..(Len(m) - 1) : front(m)[i] = m[i]
  BY FrontFacts
<1>2. DOMAIN front(m) = 1..(Len(m) - 1) /\ DOMAIN m = 1..Len(m)
  BY <1>1
<1> QED BY <1>1, <1>2 DEF Before

\* Tool results are no assistant turns.
LEMMA BeforeResults ==
  ASSUME NEW m \in Seq(MessageType), NEW n, Before(m, n), NEW turn \in Nat, NEW N \in Nat
  PROVE  Before(m \o results(turn, N, 1..N), n)
<1> DEFINE r == results(turn, N, 1..N)
<1>1. r \in Seq(MessageType) /\ Len(r) = N /\ \A i \in 1..N : r[i] = ToolMessage(turn, i)
  BY ResultsTyped, ResultsWhole
<1>2. \A i \in 1..N : ~isAssistant(r[i])
  <2>1. \A i : ToolMessage(turn, i).role = "tool"
    BY DEF ToolMessage
  <2> HIDE DEF r
  <2> QED BY <1>1, <2>1 DEF isAssistant
<1> HIDE DEF r
<1>3. /\ DOMAIN (m \o r) = 1..(Len(m) + N) /\ Len(m) \in Nat /\ DOMAIN m = 1..Len(m)
      /\ \A i \in 1..Len(m) : (m \o r)[i] = m[i]
      /\ \A i \in (Len(m) + 1)..(Len(m) + N) : (m \o r)[i] = r[i - Len(m)]
  BY <1>1
<1>4. ASSUME NEW i \in 1..(Len(m) + N), isAssistant((m \o r)[i]) PROVE (m \o r)[i].turn < n
  <2>1. CASE i \in 1..Len(m)
    BY <1>3, <1>4, <2>1 DEF Before
  <2>2. CASE i \notin 1..Len(m)
    <3>1. i \in (Len(m) + 1)..(Len(m) + N) /\ i - Len(m) \in 1..N
      BY <1>3, <2>2
    <3>2. (m \o r)[i] = r[i - Len(m)]
      BY <1>3, <3>1
    <3> QED BY <1>2, <1>4, <3>1, <3>2
  <2> QED BY <2>1, <2>2
<1>5. Before(m \o r, n)
  BY <1>3, <1>4 DEF Before
<1> QED BY <1>5 DEF r

LEMMA AccountsNext ==
  ASSUME Accounts, context' = context, journal' = journal,
         Live' => Accounted(loop', IF loop'.pc = "answered" THEN 1 ELSE 0),
         checkpoint' = checkpoint \/ Accounted(checkpoint', 0)
  PROVE  Accounts'
<1>1. firstTurn' = firstTurn
  BY DEF firstTurn
<1>2. Live' => Accounted(loop, IF loop.pc = "answered" THEN 1 ELSE 0)'
  BY <1>1 DEF Accounted, Before, Modelled
<1>3. checkpoint' # None => Accounted(checkpoint', 0)
  BY DEF Accounts
<1>4. checkpoint' # None => Accounted(checkpoint, 0)'
  BY <1>1, <1>3 DEF Accounted, Before, Modelled
<1> QED BY <1>1, <1>2, <1>4 DEF Accounts

\* The accounts of a loop that keeps its turn and the model usage of its steps.
LEMMA AccountedAgain ==
  ASSUME NEW l \in Loops, NEW k \in Loops, NEW n, Accounted(l, n), k.operationTurn = l.operationTurn,
         Len(k.steps) = Len(l.steps), \A i \in DOMAIN l.steps : k.steps[i].model = l.steps[i].model,
         Before(k.messages, l.operationTurn)
  PROVE  Accounted(k, n)
<1>1. DOMAIN k.steps = DOMAIN l.steps
  BY LoopFields
<1> QED BY <1>1 DEF Accounted, Modelled

\* Actions that end the loop keep nothing.
Ending ==
  \/ ContextEnded \/ BudgetAbort \/ CompactionFails
  \/ \E opened \in BOOLEAN, partial \in Answers \cup {None} : ModelFails(opened, partial)
  \/ UsageMissing \/ OutputRefused \/ GuardrailPanics \/ DispatchRefused \/ DispatchBlocked \/ ToolsFail
  \/ DriverPanics \/ Return \/ RepairEnds

LEMMA Ended ==
  ASSUME IInv, Ending
  PROVE  ~Live' /\ UNCHANGED <<config, context, checkpoint, journal>>
<1>1. ~Live'
  <2>1. ASSUME NEW opened \in BOOLEAN, NEW partial \in Answers \cup {None}, ModelFails(opened, partial) PROVE ~Live'
    BY <2>1, ModelFailsStep
  <2> QED BY <2>1, ContextEndedStep, BudgetAbortStep, CompactionFailsStep, UsageMissingStep, OutputRefusedStep,
       GuardrailPanicsStep, DispatchRefusedStep, DispatchBlockedStep, ToolsFailStep, DriverPanicsStep, ReturnStep,
       RepairEndsStep DEF Ending
<1>2. UNCHANGED <<config, context, checkpoint, journal>>
  BY Zenon DEF Ending, ContextEnded, BudgetAbort, CompactionFails, ModelFails, UsageMissing, OutputRefused,
     GuardrailPanics, DispatchRefused, DispatchBlocked, ToolsFail, DriverPanics, Return, RepairEnds
<1> QED BY <1>1, <1>2

LEMMA AccountsReady == ASSUME IInv, Accounts, KeepsTurns, Ready PROVE Accounts'
<1> DEFINE O == loop.operationTurn
           next == goto(ReadyLoop, "model")
           c == continuationOf(ReadyLoop, "ready")
<1>1. /\ loop.pc = "top" /\ UNCHANGED <<config, context, journal>> /\ Live /\ O \in Nat
      /\ observeBoundary(ReadyLoop, "ready", next) /\ (compacts => ValidateCompleteTurns(ReadyLoop.messages))
  BY TopFacts, LoopTyped DEF Ready, at, ReadyLoop
<1>2. /\ ReadyLoop \in Loops /\ SameAccounts(ReadyLoop, loop) /\ ReadyLoop.steps = loop.steps
      /\ ReadyLoop.messages = (IF compacts THEN Compact(loop.messages) ELSE loop.messages)
      /\ ReadyLoop.messages \in Seq(MessageType)
  BY <1>1, ReadyLoopFacts, LoopFields
<1>3. Accounted(loop, 0)
  BY <1>1 DEF Accounts
<1>4. Before(ReadyLoop.messages, O)
  <2>1. CASE ~compacts
    BY <1>2, <1>3, <2>1 DEF Accounted
  <2>2. CASE compacts
    <3>1. maxOperationTurn(loop.messages) < O
      BY <1>1, <1>3, BeforeGreatest, LoopTyped DEF Accounted
    <3>2. maxOperationTurn(Compact(loop.messages)) <= maxOperationTurn(loop.messages)
      BY <1>2, <2>2, LoopTyped DEF KeepsTurns
    <3>3. maxOperationTurn(loop.messages) \in Int /\ maxOperationTurn(ReadyLoop.messages) \in Int
      BY <1>2, LoopTyped, GreatestTurn
    <3>4. maxOperationTurn(ReadyLoop.messages) < O
      BY <1>1, <1>2, <2>2, <3>1, <3>2, <3>3
    <3> QED BY <1>1, <1>2, <3>4, BeforeGreatest
  <2> QED BY <2>1, <2>2
<1>5. "ready" \in Phases /\ "model" \in PCs
  BY DEF Phases, PCs
<1>6. /\ c.messages = ReadyLoop.messages /\ c.steps = loop.steps /\ c.operationTurn = O
  BY <1>2, <1>5, ContinuationFacts DEF SameAccounts
<1>7. next \in Loops /\ next.pc = "model" /\ next.messages = ReadyLoop.messages /\ next.steps = loop.steps /\ next.operationTurn = O
  BY <1>2, <1>5, GotoFacts DEF SameAccounts
<1> HIDE DEF c, next
<1>8. Accounted(c, 0) /\ Accounted(next, 0)
  BY <1>3, <1>4, <1>6, <1>7 DEF Accounted
<1>9. checkpoint' = checkpoint \/ checkpoint' = c
  BY <1>1, Observed DEF c
<1>10. loop' = next \/ ~Live'
  BY <1>1, <1>2, <1>7, ObservedLoop
<1>11. Live' => Accounted(loop', IF loop'.pc = "answered" THEN 1 ELSE 0)
  BY <1>7, <1>8, <1>10
<1> QED BY <1>1, <1>8, <1>9, <1>11, AccountsNext

LEMMA AccountsAnswers ==
  ASSUME IInv, Accounts, NEW answer \in Answers, ModelAnswers(answer)
  PROVE  Accounts'
<1> DEFINE T == loop.operationTurn
<1>1. loop.pc = "model" /\ UNCHANGED <<config, context, checkpoint>> /\ T \in Nat /\ Live
  BY LoopTyped, ModelFacts DEF ModelAnswers, at
<1>2. /\ DOMAIN journal' = DOMAIN journal \cup {T} /\ \A t \in DOMAIN journal : journal'[t] = journal[t]
  BY DEF ModelAnswers
<1>3. /\ loop'.pc = "answered" /\ loop'.operationTurn = T + 1 /\ loop'.steps = loop.steps /\ loop'.messages = loop.messages
  BY LoopTyped DEF ModelAnswers, Loops
<1>4. Accounted(loop, 0) /\ firstTurn \in Nat /\ firstTurn' = firstTurn /\ Len(loop.steps) \in Nat
  BY <1>1, FirstTurnTyped, LoopTyped DEF Accounts, firstTurn
<1>5. \A t \in DOMAIN journal' : t >= firstTurn
  BY <1>1, <1>2, <1>4 DEF Accounts, Accounted
<1>6. Before(loop.messages, T + 1)
  <2>1. ASSUME NEW i \in DOMAIN loop.messages, isAssistant(loop.messages[i]) PROVE loop.messages[i].turn < T + 1
    <3>1. loop.messages[i].turn \in Int
      <4>1. loop.messages[i] \in MessageType
        BY LoopTyped
      <4> QED BY <4>1, MessageFields
    <3>2. loop.messages[i].turn < T
      BY <1>4, <2>1 DEF Accounted, Before
    <3> QED BY <1>1, <3>1, <3>2
  <2> QED BY <2>1 DEF Before
<1>7. \A s : Modelled(s) => \A i \in DOMAIN s : firstTurn + i - 1 \in DOMAIN journal' /\ s[i].model = journal'[firstTurn + i - 1].answer.tokens
  BY <1>2 DEF Modelled
<1>8. Accounted(loop, IF loop.pc = "answered" THEN 1 ELSE 0)'
  <2>1. Modelled(loop.steps)'
    BY <1>3, <1>4, <1>7 DEF Accounted, Modelled
  <2>2. T + 1 = firstTurn + Len(loop.steps) + 1
    BY <1>1, <1>4 DEF Accounted
  <2> QED BY <1>3, <1>4, <1>6, <2>1, <2>2 DEF Accounted, Before
<1>9. checkpoint # None => Accounted(checkpoint, 0)'
  BY <1>1, <1>4, <1>7 DEF Accounts, Accounted, Before, Modelled
<1> QED BY <1>1, <1>4, <1>5, <1>8, <1>9 DEF Accounts

\* A step is added for the turn that was answered.
LEMMA AccountsRecorded ==
  ASSUME IInv, Accounts, loop.pc = "answered", UNCHANGED <<context, journal>>, NEW m \in Seq(MessageType), NEW d \in Decisions,
         Before(m, loop.operationTurn), NEW phase \in {"model_complete", "validating_output"}, NEW pc \in {"dispatch", "validate"},
         observeBoundary(recorded(m, d), phase, goto(recorded(m, d), pc))
  PROVE  Accounts'
<1> DEFINE O == loop.operationTurn
           l == recorded(m, d)
           next == goto(l, pc)
           c == continuationOf(l, phase)
           step == newStep(loop, d)
<1>1. /\ l \in Loops /\ l.messages = m /\ l.steps = Append(loop.steps, step) /\ SameAccounts(l, loop)
      /\ step \in Step /\ step.model = loop.answer.tokens
  BY RecordedFacts
<1>2. Live /\ Accounted(loop, 1) /\ firstTurn \in Nat /\ Len(loop.steps) \in Nat /\ O \in Nat
  BY FirstTurnTyped, LoopTyped DEF Accounts, Live, Going, Answering
<1>3. O - 1 \in DOMAIN journal /\ journal[O - 1].answer = loop.answer
  BY AnsweredFacts
<1> HIDE DEF l, step
<1>4. Modelled(l.steps) /\ Len(l.steps) = Len(loop.steps) + 1
  <2>1. /\ DOMAIN loop.steps = 1..Len(loop.steps) /\ DOMAIN l.steps = 1..(Len(loop.steps) + 1) /\ Len(l.steps) = Len(loop.steps) + 1
        /\ l.steps[Len(loop.steps) + 1] = step /\ \A i \in 1..Len(loop.steps) : l.steps[i] = loop.steps[i]
    BY <1>1, LoopTyped
  <2>2. ASSUME NEW i \in 1..(Len(loop.steps) + 1)
        PROVE  firstTurn + i - 1 \in DOMAIN journal /\ l.steps[i].model = journal[firstTurn + i - 1].answer.tokens
    <3>1. CASE i = Len(loop.steps) + 1
      <4>1. firstTurn + i - 1 = O - 1
        BY <1>2, <3>1 DEF Accounted
      <4> QED BY <1>1, <1>3, <2>1, <3>1, <4>1
    <3>2. CASE i # Len(loop.steps) + 1
      <4>1. i \in 1..Len(loop.steps)
        BY <1>2, <3>2
      <4> QED BY <1>2, <2>1, <4>1 DEF Accounted, Modelled
    <3> QED BY <3>1, <3>2
  <2> QED BY <2>1, <2>2 DEF Modelled
<1>5. phase \in Phases /\ pc \in PCs /\ pc # "answered"
  BY DEF Phases, PCs
<1>6. c.messages = m /\ c.steps = l.steps /\ c.operationTurn = O
  BY <1>1, <1>5, ContinuationFacts DEF SameAccounts
<1>7. next \in Loops /\ next.pc = pc /\ next.messages = m /\ next.steps = l.steps /\ next.operationTurn = O
  BY <1>1, <1>5, GotoFacts DEF SameAccounts
<1>8. O = firstTurn + Len(l.steps) + 0
  BY <1>2, <1>4 DEF Accounted
<1>9. observeBoundary(l, phase, next)
  BY DEF l
<1> HIDE DEF next
<1>10. checkpoint' = checkpoint \/ checkpoint' = c
  BY <1>9, Observed
<1> HIDE DEF c
<1>11. Accounted(c, 0) /\ Accounted(next, 0)
  BY <1>4, <1>6, <1>7, <1>8 DEF Accounted
<1>12. loop' = next \/ ~Live'
  BY <1>1, <1>7, <1>9, ObservedLoop
<1>13. Live' => Accounted(loop', IF loop'.pc = "answered" THEN 1 ELSE 0)
  BY <1>5, <1>7, <1>11, <1>12
<1> QED BY <1>10, <1>11, <1>13, AccountsNext

LEMMA AccountsRecordToolCalls == ASSUME IInv, Accounts, RecordToolCalls PROVE Accounts'
<1> DEFINE l == recorded(withCalls, "continue")
           a == AssistantMessage(loop.answer, loop.turn)
<1>1. /\ loop.pc = "answered" /\ loop.answer.calls > 0 /\ UNCHANGED <<context, journal>>
      /\ observeBoundary(l, "model_complete", goto(l, "dispatch"))
  BY DEF RecordToolCalls, at, recorded, withCalls
<1>2. withCalls \in Seq(MessageType) /\ "continue" \in Decisions
  BY <1>1, WithCallsFacts DEF Decisions
<1>3. Before(withCalls, loop.operationTurn)
  <2>1. Before(loop.messages, loop.operationTurn)
    BY <1>1 DEF Accounts, Accounted, Live, Going, Answering
  <2>2. a \in MessageType /\ a.turn = loop.turn /\ loop.turn = loop.operationTurn - 1
    BY <1>1, AnsweredFacts, AssistantTyped
  <2>3. a.turn < loop.operationTurn
    BY <2>2, LoopTyped
  <2> HIDE DEF a
  <2>4. Before(Append(loop.messages, a), loop.operationTurn)
    BY <2>1, <2>2, <2>3, LoopTyped, BeforeAppend
  <2> QED BY <2>4 DEF withCalls, a
<1> QED BY <1>1, <1>2, <1>3, AccountsRecorded

\* The output of a turn is no operation.
LEMMA BeforeFinal ==
  ASSUME NEW m \in Seq(MessageType), NEW text \in Texts, NEW n \in Nat, Before(m, n)
  PROVE  Before(appendFinalAssistant(m, text), n)
<1>1. CASE text = "none"
  BY <1>1, FinalAppended
<1>2. CASE text # "none"
  <2>1. appendFinalAssistant(m, text) = Append(m, FinalMessage(text))
    BY <1>2, FinalAppended
  <2>2. FinalMessage(text) \in MessageType /\ FinalMessage(text).turn = -1 /\ -1 < n
    BY FinalTyped
  <2> QED BY <2>1, <2>2, BeforeAppend
<1> QED BY <1>1, <1>2

LEMMA AccountsRecordOutput == ASSUME IInv, Accounts, RecordOutput PROVE Accounts'
<1> DEFINE l == recorded(withOutput, "finish")
<1>1. /\ loop.pc = "answered" /\ UNCHANGED <<context, journal>>
      /\ observeBoundary(l, "validating_output", goto(l, "validate"))
  BY DEF RecordOutput, at, recorded, withOutput
<1>2. withOutput \in Seq(MessageType) /\ "finish" \in Decisions
  BY <1>1, AnsweredFacts, LoopTyped, FinalAppended DEF withOutput, Decisions
<1>3. Before(withOutput, loop.operationTurn)
  <2>1. Before(loop.messages, loop.operationTurn)
    BY <1>1 DEF Accounts, Accounted, Live, Going, Answering
  <2> QED BY <1>1, <2>1, AnsweredFacts, LoopTyped, BeforeFinal DEF withOutput
<1> QED BY <1>1, <1>2, <1>3, AccountsRecorded

LEMMA AccountsFinalize == ASSUME IInv, Accounts, FinalizeToolStep PROVE Accounts'
<1> DEFINE O == loop.operationTurn
           c == continuationOf(stepped, "tools_complete")
<1>1. /\ loop.pc = "results" /\ UNCHANGED <<context, journal>>
      /\ Live' => /\ loop' \in Loops /\ loop'.pc \in {"top", "returned"} /\ loop'.steps = stepped.steps
                  /\ loop'.messages = stepped.messages /\ loop'.operationTurn = O
      /\ checkpoint' = checkpoint \/ checkpoint' = c
  BY FinalizeToolStepLoop DEF FinalizeToolStep
<1>2. Accounted(loop, 0)
  BY <1>1, ToolsFacts DEF Accounts
<1>3. /\ stepped \in Loops /\ stepped.operationTurn = O /\ Len(stepped.steps) = Len(loop.steps)
      /\ \A i \in DOMAIN loop.steps : stepped.steps[i].model = loop.steps[i].model
      /\ stepped.messages = loop.messages \o results(loop.turn, loop.answer.calls, 1..loop.answer.calls)
  BY <1>1, SteppedFacts DEF SameAccounts, SameSteps
<1>4. Before(stepped.messages, O)
  <2>1. Before(loop.messages, O)
    BY <1>2 DEF Accounted
  <2> QED BY <1>1, <1>3, <2>1, ToolsFacts, LoopTyped, BeforeResults
<1>5. Accounted(stepped, 0)
  BY <1>2, <1>3, <1>4, LoopTyped, AccountedAgain
<1>6. c.messages = stepped.messages /\ c.steps = stepped.steps /\ c.operationTurn = O
  <2>1. "tools_complete" \in Phases
    BY DEF Phases
  <2> QED BY <1>3, <2>1, ContinuationFacts DEF SameAccounts
<1> HIDE DEF c
<1>7. Accounted(c, 0)
  BY <1>3, <1>5, <1>6 DEF Accounted
<1>8. Live' => Accounted(loop', 0) /\ loop'.pc # "answered"
  BY <1>1, <1>3, <1>5 DEF Accounted
<1> QED BY <1>1, <1>7, <1>8, AccountsNext

LEMMA AccountsOutput ==
  ASSUME IInv, Accounts, OutputAllowed \/ OutputRetried
  PROVE  Accounts'
<1> DEFINE O == loop.operationTurn
<1>1. loop.pc = "validate" /\ UNCHANGED <<context, checkpoint, journal>> /\ O \in Nat
  BY LoopTyped DEF OutputAllowed, OutputRetried, at
<1>2. Accounted(loop, 0)
  <2>1. Live /\ loop.pc # "answered"
    BY <1>1 DEF Live, Going, Answering
  <2> QED BY <2>1 DEF Accounts
<1>3. Before(loop.messages, O) /\ Before(base, O) /\ base \in Seq(MessageType)
  <2>1. Before(loop.messages, O)
    BY <1>2 DEF Accounted
  <2>2. loop.answer.text # "none" => loop.messages # <<>>
    BY <1>1 DEF IInv, Answered, Answering
  <2> QED BY <1>1, <2>1, <2>2, LoopTyped, BeforeFront, BaseTyped DEF base
<1>4. ASSUME Live' PROVE Accounted(loop', 0) /\ loop'.pc # "answered"
  <2>1. CASE OutputAllowed
    <3>1. /\ loop' \in Loops /\ loop'.pc = "returned" /\ loop'.steps = loop.steps /\ loop'.operationTurn = O
      BY <1>4, <2>1, OutputAllowedLoop
    <3>2. PICK text \in Texts : loop'.messages = appendFinalAssistant(base, text)
      BY <1>4, <2>1, OutputAllowedLoop
    <3>3. Before(loop'.messages, O)
      BY <1>1, <1>3, <3>2, BeforeFinal
    <3> QED BY <1>2, <3>1, <3>3 DEF Accounted
  <2>2. CASE OutputRetried
    <3> DEFINE m == IF loop.answer.guard = "retryKeep" THEN loop.messages ELSE base
    <3>1. /\ loop' \in Loops /\ loop'.pc = "top" /\ loop'.operationTurn = O
          /\ Len(loop'.steps) = Len(loop.steps) /\ \A i \in DOMAIN loop.steps : loop'.steps[i].model = loop.steps[i].model
          /\ loop'.messages = Append(m, UserMessage)
      BY <1>4, <2>2, OutputRetriedLoop
    <3>2. m \in Seq(MessageType) /\ Before(m, O)
      BY <1>3, LoopTyped
    <3>3. UserMessage \in MessageType /\ ~isAssistant(UserMessage)
      BY UserTyped DEF isAssistant
    <3> HIDE DEF m
    <3>4. Before(loop'.messages, O)
      BY <3>1, <3>2, <3>3, BeforeAppend
    <3> QED BY <1>2, <3>1, <3>4, LoopTyped, AccountedAgain
  <2> QED BY <2>1, <2>2
<1> QED BY <1>1, <1>4, AccountsNext

LEMMA AccountsRepair == ASSUME IInv, Accounts, Repair PROVE Accounts'
<1> DEFINE O == loop.operationTurn
<1>1. /\ loop.pc = "returned" /\ loop.err = "none" /\ loop' = repairLoop(loop)
      /\ UNCHANGED <<context, checkpoint, journal>> /\ O \in Nat
  BY LoopTyped DEF Repair, at
<1>2. Accounted(loop, 0)
  BY <1>1 DEF Accounts, Live
<1>3. maxOperationTurn(loop.messages) < O /\ maxOperationTurn(loop.messages) \in Int
      /\ nextToolOperationTurn(loop.messages) = maxOperationTurn(loop.messages) + 1
  BY <1>1, <1>2, LoopTyped, BeforeGreatest, GreatestTurn DEF Accounted
<1>4. ~(nextToolOperationTurn(loop.messages) > O)
  BY <1>1, <1>3
<1>5. /\ loop'.pc = "top" /\ loop'.steps = loop.steps /\ loop'.operationTurn = O
      /\ loop'.messages = Append(loop.messages, UserMessage)
  BY <1>1, <1>4, LoopTyped, RepairLoopFacts
<1>6. Before(loop'.messages, O)
  <2>1. UserMessage \in MessageType /\ ~isAssistant(UserMessage) /\ Before(loop.messages, O)
    BY <1>2, UserTyped DEF isAssistant, Accounted
  <2> QED BY <1>5, <2>1, LoopTyped, BeforeAppend
<1>7. Accounted(loop', 0)
  BY <1>2, <1>5, <1>6 DEF Accounted
<1> QED BY <1>1, <1>5, <1>7, AccountsNext

LEMMA AccountsSame ==
  ASSUME IInv, Accounts, MaxTurnsReached \/ Dispatch \/ ToolsReturn \/ Cancel
  PROVE  Accounts'
<1>1. UNCHANGED <<context, checkpoint, journal>>
  BY DEF MaxTurnsReached, Dispatch, ToolsReturn, Cancel
<1>2. CASE MaxTurnsReached
  <2>1. Accounted(loop, 0)
    BY <1>2, MaxTurnsReachedLoop, TopFacts DEF Accounts
  <2>2. Accounted(loop', 0) /\ loop'.pc # "answered"
    BY <1>2, <2>1, MaxTurnsReachedLoop DEF Accounted
  <2> QED BY <1>1, <2>2, AccountsNext
<1>3. CASE Dispatch \/ ToolsReturn
  <2>1. Accounted(loop, 0)
    BY <1>3, RunToolsLoop DEF Accounts
  <2>2. Accounted(loop', 0) /\ loop'.pc # "answered"
    BY <1>3, <2>1, RunToolsLoop DEF Accounted
  <2> QED BY <1>1, <2>2, AccountsNext
<1>4. CASE Cancel
  <2>1. Live' => Accounted(loop', IF loop'.pc = "answered" THEN 1 ELSE 0)
    BY <1>4, CancelLoop DEF Accounts, Accounted
  <2> QED BY <1>1, <2>1, AccountsNext
<1> QED BY <1>2, <1>3, <1>4

LEMMA AccountsResume == ASSUME IInv, Accounts, Resume PROVE Accounts'
<1>1. UNCHANGED <<context, checkpoint, journal>>
  BY DEF Resume
<1>2. ASSUME Live' PROVE Accounted(loop', IF loop'.pc = "answered" THEN 1 ELSE 0)
  <2>1. CASE checkpoint = None /\ loop' = NewLoop(context)
    <3>1. /\ loop'.pc = "top" /\ loop'.messages = context /\ loop'.steps = <<>> /\ loop'.operationTurn = firstTurn
          /\ firstTurn \in Nat
      BY <2>1, ContextTyped, NewLoopFacts, FirstTurnTyped DEF firstTurn
    <3>2. maxOperationTurn(context) < firstTurn
      <4>1. maxOperationTurn(context) \in Int /\ firstTurn = maxOperationTurn(context) + 1
        BY ContextTyped, GreatestTurn DEF firstTurn
      <4> QED BY <4>1
    <3>3. Before(context, firstTurn)
      BY <3>1, <3>2, ContextTyped, BeforeGreatest
    <3>4. Modelled(<<>>) /\ firstTurn = firstTurn + Len(<<>>) + 0
      BY <3>1 DEF Modelled
    <3> QED BY <3>1, <3>3, <3>4 DEF Accounted
  <2>2. CASE /\ checkpoint # None
             /\ loop'.pc \in {"top", "returned"} /\ loop'.steps = checkpoint.steps
             /\ loop'.messages = checkpoint.messages /\ loop'.operationTurn = checkpoint.operationTurn
    <3>1. Accounted(checkpoint, 0)
      BY <2>2 DEF Accounts
    <3>2. Accounted(loop', 0) /\ loop'.pc # "answered"
      BY <2>2, <3>1 DEF Accounted
    <3> QED BY <3>2
  <2>3. CASE checkpoint # None /\ redone(checkpoint) /\ loop' = resumeStep(checkpoint)
    <3> DEFINE c == checkpoint
    <3>1. Accounted(c, 0) /\ c \in Continuation /\ c.steps # <<>> /\ c.messages # <<>>
      BY <2>3 DEF Accounts, IInv, Types, Kept, KeptOf, redone
    <3>2. /\ loop'.pc = "answered" /\ loop'.messages = front(c.messages) /\ loop'.steps = front(c.steps)
          /\ Len(loop'.steps) + 1 = Len(c.steps) /\ loop'.operationTurn = c.operationTurn
      BY <2>3, ResumeStepFacts DEF SameAccounts
    <3>3. c.messages \in Seq(MessageType) /\ c.steps \in Seq(Step)
      BY <3>1, CheckpointFields
    <3> HIDE DEF c
    <3>4. Before(front(c.messages), c.operationTurn)
      BY <3>1, <3>3, BeforeFront DEF Accounted
    <3>5. Modelled(front(c.steps))
      <4>1. /\ front(c.steps) \in Seq(Step) /\ Len(front(c.steps)) = Len(c.steps) - 1 /\ Len(c.steps) \in Nat \ {0}
            /\ \A i \in 1..(Len(c.steps) - 1) : front(c.steps)[i] = c.steps[i]
        BY <3>1, <3>3, FrontFacts
      <4>2. DOMAIN front(c.steps) = 1..(Len(c.steps) - 1) /\ DOMAIN c.steps = 1..Len(c.steps)
        BY <3>3, <4>1
      <4> QED BY <3>1, <4>1, <4>2 DEF Accounted, Modelled
    <3>6. c.operationTurn = firstTurn + Len(loop'.steps) + 1
      <4>1. c.operationTurn = firstTurn + Len(c.steps) + 0 /\ firstTurn \in Nat /\ Len(c.steps) \in Nat
        BY <3>1, <3>3, FirstTurnTyped DEF Accounted
      <4>2. Len(loop'.steps) \in Nat
        BY <3>1, <3>2, <3>3, FrontFacts
      <4> QED BY <3>2, <4>1, <4>2
    <3>7. Accounted(loop', 1)
      BY <3>2, <3>4, <3>5, <3>6 DEF Accounted
    <3> QED BY <3>2, <3>7
  <2> QED BY <1>2, <2>1, <2>2, <2>3, ResumeLoop
<1> QED BY <1>1, <1>2, AccountsNext

LEMMA AccountsStep == ASSUME IInv, Accounts, KeepsTurns, [Next]_vars PROVE Accounts'
<1>1. CASE UNCHANGED vars
  <2>1. context' = context /\ loop' = loop /\ checkpoint' = checkpoint /\ journal' = journal
    BY <1>1 DEF vars
  <2>2. Live' => Accounted(loop', IF loop'.pc = "answered" THEN 1 ELSE 0)
    BY <2>1 DEF Accounts, Live
  <2> QED BY <2>1, <2>2, AccountsNext
<1>2. CASE Ending
  BY <1>2, Ended, AccountsNext
<1>3. CASE Crash
  <2>1. UNCHANGED <<context, checkpoint, journal>>
    BY <1>3 DEF Crash
  <2> QED BY <1>3, <2>1, CrashLoop, AccountsNext
<1>4. CASE Next
  <2>1. CASE Ready
    BY <2>1, AccountsReady
  <2>2. CASE \E answer \in Answers : ModelAnswers(answer)
    BY <2>2, AccountsAnswers
  <2>3. CASE RecordToolCalls \/ RecordOutput
    BY <2>3, AccountsRecordToolCalls, AccountsRecordOutput
  <2>4. CASE OutputAllowed \/ OutputRetried
    BY <2>4, AccountsOutput
  <2>5. CASE FinalizeToolStep
    BY <2>5, AccountsFinalize
  <2>6. CASE MaxTurnsReached \/ Dispatch \/ ToolsReturn \/ Cancel
    BY <2>6, AccountsSame
  <2>7. CASE Repair \/ Resume
    BY <2>7, AccountsRepair, AccountsResume
  <2> QED BY <1>2, <1>3, <1>4, <2>1, <2>2, <2>3, <2>4, <2>5, <2>6, <2>7 DEF Next, Ending
<1> QED BY <1>1, <1>4

LEMMA InitAccounts == ASSUME Init PROVE Accounts
<1>1. context \in Seq(MessageType) /\ loop = NewLoop(context) /\ DOMAIN journal = {} /\ checkpoint = None
  BY ContextAssumption DEF Init
<1>2. maxOperationTurn(context) \in Int /\ firstTurn = maxOperationTurn(context) + 1 /\ firstTurn \in Nat
  BY <1>1, GreatestTurn DEF firstTurn
<1>3. loop.pc = "top" /\ loop.messages = context /\ loop.steps = <<>> /\ loop.operationTurn = firstTurn
  BY <1>1, NewLoopFacts DEF firstTurn
<1>4. Before(context, firstTurn)
  BY <1>1, <1>2, BeforeGreatest
<1>5. Modelled(<<>>) /\ firstTurn = firstTurn + Len(<<>>) + 0
  BY <1>2 DEF Modelled
<1>6. Accounted(loop, 0)
  BY <1>3, <1>4, <1>5 DEF Accounted
<1> QED BY <1>1, <1>3, <1>6 DEF Accounts

LEMMA AccountsAreExact ==
  ASSUME IInv, Accounts
  PROVE  AccountsExact
<1>1. SUFFICES ASSUME loop.pc = "model"
               PROVE  LET first == loop.operationTurn - Len(loop.steps)
                          counted == {t \in DOMAIN journal : t < loop.operationTurn}
                      IN /\ counted = first..(loop.operationTurn - 1)
                         /\ loop.toolCallsUsed = Cardinality({op \in tools.dispatched : op[1] \in counted})
                         /\ \A i \in DOMAIN loop.steps : loop.steps[i].model = journal[first + i - 1].answer.tokens
  BY DEF AccountsExact, at
<1> DEFINE O == loop.operationTurn
           n == Len(loop.steps)
           counted == {t \in DOMAIN journal : t < O}
<1>2. O \in Nat /\ n \in Nat /\ DOMAIN loop.steps = 1..n /\ firstTurn \in Nat
  BY LoopTyped, FirstTurnTyped
<1>3. Accounted(loop, 0)
  BY <1>1, ModelFacts DEF Accounts
<1>4. O - n = firstTurn
  BY <1>2, <1>3 DEF Accounted
<1>5. \A t \in DOMAIN journal : t \in Nat /\ t >= firstTurn
  BY DEF Accounts, IInv, Journaled
<1>6. \A i \in 1..n : firstTurn + i - 1 \in DOMAIN journal /\ loop.steps[i].model = journal[firstTurn + i - 1].answer.tokens
  BY <1>2, <1>3 DEF Accounted, Modelled
<1>7. counted = firstTurn..(O - 1)
  <2>1. ASSUME NEW t \in firstTurn..(O - 1) PROVE t \in counted
    <3>1. t - firstTurn + 1 \in 1..n /\ firstTurn + (t - firstTurn + 1) - 1 = t /\ t < O
      BY <1>2, <1>4
    <3>2. t \in DOMAIN journal
      BY <1>6, <3>1
    <3> QED BY <3>1, <3>2
  <2>2. ASSUME NEW t \in counted PROVE t \in firstTurn..(O - 1)
    BY <1>2, <1>5
  <2> HIDE DEF counted
  <2> QED BY <2>1, <2>2
<1>8. loop.toolCallsUsed = Cardinality({op \in tools.dispatched : op[1] \in counted})
  <2>1. {op \in tools.dispatched : op[1] \in counted} = callsBefore(O)
    BY DEF callsBefore, IInv, Journaled
  <2> QED BY <1>1, <2>1, ModelFacts
<1> QED BY <1>2, <1>4, <1>6, <1>7, <1>8

\* As long as a compaction makes up no tool calls of turns to come, the accounts a
\* model call is decided on are those of what was really done: each answered turn
\* is one step with its usage, and each dispatched call is counted once.
THEOREM AccountsAlwaysExact ==
  ASSUME KeepsTurns
  PROVE  Spec => []AccountsExact
<1>1. Init => Accounts
  BY InitAccounts
<1>2. IInv /\ Accounts /\ [Next]_vars => Accounts'
  BY AccountsStep
<1>3. IInv /\ Accounts => AccountsExact
  BY AccountsAreExact
<1> QED BY <1>1, <1>2, <1>3, LoopInvariant, PTL DEF Spec

-----------------------------------------------------------------------------
(* Complete transcripts.                                                   *)

\* The calls of the assistant turn at j reach the message at i.
Reaches(m, j, i) == isAssistant(m[j]) /\ i - j <= m[j].calls

PairedAt(m, i) ==
  IF m[i].role = "tool"
  THEN \E j \in 1..(i - 1) : Reaches(m, j, i) /\ m[i].turn = m[j].turn /\ m[i].slot = i - j
  ELSE \A j \in 1..(i - 1) : ~Reaches(m, j, i)

LEMMA CompleteIs ==
  ASSUME NEW m \in Seq(MessageType)
  PROVE  ValidateCompleteTurns(m) <=>
           /\ \A i \in 1..Len(m) : PairedAt(m, i)
           /\ \A j \in 1..Len(m) : isAssistant(m[j]) => j + m[j].calls <= Len(m)
<1>1. DOMAIN m = 1..Len(m) /\ Len(m) \in Nat /\ \A j \in 1..Len(m) : m[j].calls \in Nat
  <2>1. DOMAIN m = 1..Len(m) /\ Len(m) \in Nat /\ \A j \in 1..Len(m) : m[j] \in MessageType
    OBVIOUS
  <2> QED BY <2>1, MessageFields
<1>2. paired(m) <=> \A i \in 1..Len(m) : PairedAt(m, i)
  BY <1>1 DEF paired, PairedAt, Reaches
<1>3. ~pending(m) <=> \A j \in 1..Len(m) : isAssistant(m[j]) => j + m[j].calls <= Len(m)
  BY <1>1 DEF pending
<1> QED BY <1>2, <1>3 DEF ValidateCompleteTurns

\* How a message is paired depends on the messages up to it.
LEMMA PairedPrefix ==
  ASSUME NEW m, NEW k, NEW i \in Nat \ {0}, \A j \in 1..i : k[j] = m[j], PairedAt(m, i)
  PROVE  PairedAt(k, i)
<1>1. k[i] = m[i] /\ \A j \in 1..(i - 1) : k[j] = m[j] /\ (Reaches(k, j, i) <=> Reaches(m, j, i))
  BY DEF Reaches
<1> QED BY <1>1 DEF PairedAt

LEMMA CompleteAppend ==
  ASSUME NEW m, ValidateCompleteTurns(m), NEW e \in MessageType, e.role # "tool", e.calls = 0
  PROVE  ValidateCompleteTurns(Append(m, e))
<1> DEFINE n == Len(m)
           k == Append(m, e)
<1>1. m \in Seq(MessageType)
  BY DEF ValidateCompleteTurns
<1>2. /\ k \in Seq(MessageType) /\ Len(k) = n + 1 /\ n \in Nat /\ k[n + 1] = e /\ \A i \in 1..n : k[i] = m[i]
  BY <1>1
<1>3. \A j \in 1..n : m[j].calls \in Nat
  <2>1. \A j \in 1..n : m[j] \in MessageType
    BY <1>1
  <2> QED BY <2>1, MessageFields
<1>4. /\ \A i \in 1..n : PairedAt(m, i)
      /\ \A j \in 1..n : isAssistant(m[j]) => j + m[j].calls <= n
  BY <1>1, CompleteIs
<1> HIDE DEF n, k
<1>5. ASSUME NEW i \in 1..(n + 1) PROVE PairedAt(k, i)
  <2>1. CASE i \in 1..n
    <3>1. \A j \in 1..i : k[j] = m[j]
      BY <1>2, <2>1
    <3> QED BY <1>4, <2>1, <3>1, PairedPrefix
  <2>2. CASE i = n + 1
    <3>1. \A j \in 1..n : ~Reaches(k, j, n + 1)
      BY <1>2, <1>3, <1>4 DEF Reaches
    <3>2. (n + 1) - 1 = n
      BY <1>2
    <3> QED BY <1>2, <2>2, <3>1, <3>2 DEF PairedAt
  <2> QED BY <1>2, <2>1, <2>2
<1>6. ASSUME NEW j \in 1..(n + 1), isAssistant(k[j]) PROVE j + k[j].calls <= n + 1
  <2>1. CASE j \in 1..n
    BY <1>2, <1>3, <1>4, <1>6, <2>1
  <2>2. CASE j = n + 1
    BY <1>2, <2>2
  <2> QED BY <1>2, <2>1, <2>2
<1>7. ValidateCompleteTurns(k)
  BY <1>2, <1>5, <1>6, CompleteIs
<1> QED BY <1>7 DEF k

LEMMA CompleteFront ==
  ASSUME NEW m, ValidateCompleteTurns(m), m # <<>>, isAssistant(last(m))
  PROVE  ValidateCompleteTurns(front(m))
<1> DEFINE n == Len(m)
           k == front(m)
<1>1. m \in Seq(MessageType)
  BY DEF ValidateCompleteTurns
<1>2. k \in Seq(MessageType) /\ Len(k) = n - 1 /\ n \in Nat \ {0} /\ last(m) = m[n] /\ \A i \in 1..(n - 1) : k[i] = m[i]
  BY <1>1, FrontFacts
<1>3. \A j \in 1..n : m[j].calls \in Nat
  <2>1. \A j \in 1..n : m[j] \in MessageType
    BY <1>1
  <2> QED BY <2>1, MessageFields
<1>4. \A i \in 1..n : PairedAt(m, i)
  BY <1>1, CompleteIs
<1> HIDE DEF n, k
<1>5. ASSUME NEW i \in 1..(n - 1) PROVE PairedAt(k, i)
  <2>1. i \in Nat \ {0} /\ i \in 1..n /\ \A j \in 1..i : k[j] = m[j]
    BY <1>2
  <2> QED BY <1>4, <2>1, PairedPrefix
<1>6. ASSUME NEW j \in 1..(n - 1), isAssistant(k[j]) PROVE j + k[j].calls <= n - 1
  <2>1. m[n].role # "tool" /\ PairedAt(m, n)
    BY <1>2, <1>4 DEF isAssistant
  <2>2. ~Reaches(m, j, n)
    BY <2>1 DEF PairedAt
  <2> QED BY <1>2, <1>3, <1>6, <2>2 DEF Reaches
<1>7. ValidateCompleteTurns(k)
  BY <1>2, <1>5, <1>6, CompleteIs
<1> QED BY <1>7 DEF k

\* The results of all calls complete a turn.
LEMMA CompleteResults ==
  ASSUME NEW m \in Seq(MessageType), NEW turn \in Nat, NEW N \in Nat \ {0}, openTurn(m, N, turn)
  PROVE  ValidateCompleteTurns(m \o results(turn, N, 1..N))
<1> DEFINE n == Len(m)
           r == results(turn, N, 1..N)
           k == m \o r
<1>1. r \in Seq(MessageType) /\ Len(r) = N /\ \A i \in 1..N : r[i] = ToolMessage(turn, i)
  BY ResultsTyped, ResultsWhole
<1>2. \A i \in 1..N : r[i].role = "tool" /\ r[i].turn = turn /\ r[i].slot = i
  <2>1. \A i : ToolMessage(turn, i).role = "tool" /\ ToolMessage(turn, i).turn = turn /\ ToolMessage(turn, i).slot = i
    BY DEF ToolMessage
  <2> HIDE DEF r
  <2> QED BY <1>1, <2>1
<1> HIDE DEF r
<1>3. /\ k \in Seq(MessageType) /\ Len(k) = n + N /\ n \in Nat
      /\ \A i \in 1..n : k[i] = m[i]
      /\ \A i \in (n + 1)..(n + N) : k[i] = r[i - n]
  BY <1>1
<1>4. /\ m # <<>> /\ ValidateCompleteTurns(front(m)) /\ isAssistant(last(m)) /\ last(m).calls = N /\ last(m).turn = turn
  BY DEF openTurn
<1>5. /\ front(m) \in Seq(MessageType) /\ Len(front(m)) = n - 1 /\ n \in Nat \ {0} /\ last(m) = m[n]
      /\ \A i \in 1..(n - 1) : front(m)[i] = m[i]
  BY <1>4, FrontFacts
<1>6. /\ \A i \in 1..(n - 1) : PairedAt(front(m), i)
      /\ \A j \in 1..(n - 1) : isAssistant(m[j]) => j + m[j].calls <= n - 1
  BY <1>4, <1>5, CompleteIs
<1>7. \A j \in 1..n : m[j].calls \in Nat
  <2>1. \A j \in 1..n : m[j] \in MessageType
    OBVIOUS
  <2> QED BY <2>1, MessageFields
<1> HIDE DEF n, k
<1>8. k[n] = m[n] /\ k[n].calls = N /\ k[n].turn = turn /\ isAssistant(k[n])
  BY <1>3, <1>4, <1>5
<1>9. \A i \in (n + 1)..(n + N) : k[i].role = "tool" /\ k[i].turn = turn /\ k[i].slot = i - n
  <2>1. \A i \in (n + 1)..(n + N) : i - n \in 1..N /\ k[i] = r[i - n]
    BY <1>3
  <2> QED BY <1>2, <2>1
<1>10. ASSUME NEW i \in 1..(n + N) PROVE PairedAt(k, i)
  <2>1. CASE i \in 1..(n - 1)
    <3>1. i \in Nat \ {0} /\ \A j \in 1..i : k[j] = front(m)[j]
      BY <1>3, <1>5, <2>1
    <3> QED BY <1>6, <2>1, <3>1, PairedPrefix
  <2>2. CASE i = n
    <3>1. \A j \in 1..(n - 1) : ~Reaches(k, j, n)
      BY <1>3, <1>5, <1>6, <1>7 DEF Reaches
    <3>2. k[n].role # "tool"
      BY <1>8 DEF isAssistant
    <3> QED BY <2>2, <3>1, <3>2 DEF PairedAt
  <2>3. CASE i \in (n + 1)..(n + N)
    <3>1. n \in 1..(i - 1) /\ i - n <= N
      BY <1>5, <2>3
    <3>2. Reaches(k, n, i)
      BY <1>8, <3>1 DEF Reaches
    <3> QED BY <1>8, <1>9, <2>3, <3>1, <3>2 DEF PairedAt
  <2> QED BY <1>3, <2>1, <2>2, <2>3
<1>11. ASSUME NEW j \in 1..(n + N), isAssistant(k[j]) PROVE j + k[j].calls <= n + N
  <2>1. CASE j \in 1..(n - 1)
    <3>1. j \in 1..n /\ k[j] = m[j] /\ m[j].calls \in Nat
      BY <1>3, <1>5, <1>7, <2>1
    <3>2. j + m[j].calls <= n - 1
      BY <1>6, <1>11, <2>1, <3>1
    <3> QED BY <1>5, <3>1, <3>2
  <2>2. CASE j = n
    BY <1>3, <1>8, <2>2
  <2>3. CASE j \in (n + 1)..(n + N)
    BY <1>9, <1>11, <2>3 DEF isAssistant
  <2> QED BY <1>3, <2>1, <2>2, <2>3
<1>12. ValidateCompleteTurns(k)
  BY <1>3, <1>10, <1>11, CompleteIs
<1> QED BY <1>12 DEF k, r

LEMMA CompleteFinal ==
  ASSUME NEW m, ValidateCompleteTurns(m), NEW text \in Texts
  PROVE  /\ ValidateCompleteTurns(appendFinalAssistant(m, text))
         /\ text # "none" => openTurn(appendFinalAssistant(m, text), 0, -1)
<1>1. m \in Seq(MessageType)
  BY DEF ValidateCompleteTurns
<1>2. CASE text = "none"
  BY <1>1, <1>2, FinalAppended
<1>3. CASE text # "none"
  <2> DEFINE e == FinalMessage(text)
  <2>1. appendFinalAssistant(m, text) = Append(m, e)
    BY <1>1, <1>3, FinalAppended
  <2>2. e \in MessageType /\ e.role = "assistant" /\ e.calls = 0
    BY FinalTyped
  <2> HIDE DEF e
  <2>3. ValidateCompleteTurns(Append(m, e))
    BY <2>2, CompleteAppend
  <2>4. Append(m, e) # <<>> /\ last(Append(m, e)) = e /\ front(Append(m, e)) = m
    BY <1>1, <2>2, LastOfAppend
  <2>5. openTurn(Append(m, e), 0, -1)
    BY <2>2, <2>4 DEF openTurn, isAssistant
  <2> QED BY <2>1, <2>3, <2>5
<1> QED BY <1>2, <1>3

LEMMA CompleteUser ==
  ASSUME NEW m, ValidateCompleteTurns(m)
  PROVE  ValidateCompleteTurns(Append(m, UserMessage))
BY UserTyped, CompleteAppend

LEMMA TranscriptsNext ==
  ASSUME Transcripts, Live' => TranscriptOf(loop'), checkpoint' = checkpoint \/ TranscriptKept(checkpoint')
  PROVE  Transcripts'
<1>1. Live' => TranscriptOf(loop)'
  BY DEF TranscriptOf
<1>2. checkpoint' # None => TranscriptKept(checkpoint')
  BY DEF Transcripts
<1>3. checkpoint' # None => TranscriptKept(checkpoint)'
  BY <1>2 DEF TranscriptKept, redone
<1> QED BY <1>1, <1>3 DEF Transcripts

\* A transcript of a loop that has no turn to finish.
LEMMA TranscriptBetween ==
  ASSUME NEW l, l.pc \notin {"dispatch", "tools", "results", "validate"}
  PROVE  TranscriptOf(l) <=> ValidateCompleteTurns(l.messages)
BY DEF TranscriptOf

LEMMA TranscriptsReady == ASSUME IInv, Transcripts, Ready PROVE Transcripts'
<1> DEFINE next == goto(ReadyLoop, "model")
           c == continuationOf(ReadyLoop, "ready")
<1>1. /\ loop.pc = "top" /\ Live
      /\ observeBoundary(ReadyLoop, "ready", next) /\ (compacts => ValidateCompleteTurns(ReadyLoop.messages))
  BY TopFacts DEF Ready, at, ReadyLoop
<1>2. /\ ReadyLoop \in Loops
      /\ ReadyLoop.messages = (IF compacts THEN Compact(loop.messages) ELSE loop.messages)
  BY <1>1, ReadyLoopFacts
<1>3. ValidateCompleteTurns(ReadyLoop.messages)
  BY <1>1, <1>2, TranscriptBetween DEF Transcripts
<1>4. "ready" \in Phases /\ "model" \in PCs
  BY DEF Phases, PCs
<1>5. c.messages = ReadyLoop.messages /\ c.phase = "ready"
  BY <1>2, <1>4, ContinuationFacts
<1>6. next \in Loops /\ next.pc = "model" /\ next.messages = ReadyLoop.messages
  BY <1>2, <1>4, GotoFacts
<1> HIDE DEF c, next
<1>7. TranscriptKept(c) /\ TranscriptOf(next)
  BY <1>3, <1>5, <1>6 DEF TranscriptKept, redone, TranscriptOf
<1>8. checkpoint' = checkpoint \/ checkpoint' = c
  BY <1>1, Observed DEF c
<1>9. loop' = next \/ ~Live'
  BY <1>1, <1>2, <1>6, ObservedLoop
<1> QED BY <1>7, <1>8, <1>9, TranscriptsNext

LEMMA TranscriptsAnswers ==
  ASSUME IInv, Transcripts, NEW answer \in Answers, ModelAnswers(answer)
  PROVE  Transcripts'
<1>1. loop.pc = "model" /\ Live /\ UNCHANGED checkpoint
  BY ModelFacts DEF ModelAnswers, at
<1>2. loop'.pc = "answered" /\ loop'.messages = loop.messages
  BY LoopTyped DEF ModelAnswers, Loops
<1>3. TranscriptOf(loop')
  BY <1>1, <1>2, TranscriptBetween DEF Transcripts
<1> QED BY <1>1, <1>3, TranscriptsNext

LEMMA TranscriptsRecordToolCalls == ASSUME IInv, Transcripts, RecordToolCalls PROVE Transcripts'
<1> DEFINE l == recorded(withCalls, "continue")
           next == goto(l, "dispatch")
           c == continuationOf(l, "model_complete")
<1>1. /\ loop.pc = "answered" /\ loop.answer.calls > 0 /\ Live
      /\ observeBoundary(l, "model_complete", next)
  BY DEF RecordToolCalls, at, recorded, withCalls, Live, Going, Answering
<1>2. ValidateCompleteTurns(loop.messages)
  BY <1>1, TranscriptBetween DEF Transcripts
<1>3. /\ withCalls \in Seq(MessageType) /\ withCalls # <<>> /\ last(withCalls).turn = loop.turn
      /\ front(withCalls) = loop.messages /\ isAssistant(last(withCalls)) /\ last(withCalls).calls = loop.answer.calls
  BY <1>1, WithCallsFacts
<1>4. "continue" \in Decisions /\ "model_complete" \in Phases /\ "dispatch" \in PCs
  BY DEF Decisions, Phases, PCs
<1>5. l \in Loops /\ l.messages = withCalls /\ l.answer = loop.answer /\ l.turn = loop.turn
  BY <1>1, <1>3, <1>4, RecordedFacts
<1> HIDE DEF l
<1>6. c.messages = withCalls /\ c.phase = "model_complete"
  BY <1>4, <1>5, ContinuationFacts
<1>7. next \in Loops /\ next.pc = "dispatch" /\ next.messages = withCalls /\ next.answer = loop.answer /\ next.turn = loop.turn
  BY <1>4, <1>5, GotoFacts
<1>8. checkpoint' = checkpoint \/ checkpoint' = c
  BY <1>1, Observed
<1> HIDE DEF next, c
<1>9. TranscriptKept(c)
  BY <1>2, <1>3, <1>6 DEF TranscriptKept, redone
<1>10. TranscriptOf(next)
  BY <1>2, <1>3, <1>7 DEF TranscriptOf, openTurn
<1>11. loop' = next \/ ~Live'
  BY <1>1, <1>5, <1>7, ObservedLoop
<1> QED BY <1>8, <1>9, <1>10, <1>11, TranscriptsNext

LEMMA TranscriptsRecordOutput == ASSUME IInv, Transcripts, RecordOutput PROVE Transcripts'
<1> DEFINE l == recorded(withOutput, "finish")
           next == goto(l, "validate")
           c == continuationOf(l, "validating_output")
<1>1. /\ loop.pc = "answered" /\ Live
      /\ observeBoundary(l, "validating_output", next)
  BY DEF RecordOutput, at, recorded, withOutput, Live, Going, Answering
<1>2. ValidateCompleteTurns(loop.messages) /\ loop.answer.text \in Texts
  BY <1>1, TranscriptBetween, AnsweredFacts DEF Transcripts
<1>3. /\ ValidateCompleteTurns(withOutput)
      /\ loop.answer.text # "none" => openTurn(withOutput, 0, -1)
  BY <1>2, CompleteFinal DEF withOutput
<1>4. "finish" \in Decisions /\ "validating_output" \in Phases /\ "validate" \in PCs
  BY DEF Decisions, Phases, PCs
<1>5. l \in Loops /\ l.messages = withOutput /\ l.answer = loop.answer
  <2>1. withOutput \in Seq(MessageType)
    BY <1>3 DEF ValidateCompleteTurns
  <2> QED BY <1>1, <1>4, <2>1, RecordedFacts
<1> HIDE DEF l
<1>6. c.messages = withOutput /\ c.phase = "validating_output"
  BY <1>4, <1>5, ContinuationFacts
<1>7. next \in Loops /\ next.pc = "validate" /\ next.messages = withOutput /\ next.answer = loop.answer
  BY <1>4, <1>5, GotoFacts
<1>8. checkpoint' = checkpoint \/ (checkpoint' = c /\ ValidateContinuation(c))
  BY <1>1, Observed
<1> HIDE DEF next, c
<1>9. ASSUME ValidateContinuation(c) PROVE TranscriptKept(c)
  <2>1. withOutput # <<>> /\ isAssistant(last(withOutput))
    BY <1>6, <1>9 DEF ValidateContinuation, validateContinuationPhaseTranscript
  <2>2. ValidateCompleteTurns(front(withOutput))
    BY <1>3, <2>1, CompleteFront
  <2> QED BY <1>6, <2>2 DEF TranscriptKept, redone
<1>10. TranscriptOf(next)
  BY <1>3, <1>7 DEF TranscriptOf
<1>11. loop' = next \/ ~Live'
  BY <1>1, <1>5, <1>7, ObservedLoop
<1> QED BY <1>8, <1>9, <1>10, <1>11, TranscriptsNext

LEMMA TranscriptsOutput ==
  ASSUME IInv, Transcripts, OutputAllowed \/ OutputRetried
  PROVE  Transcripts'
<1>1. loop.pc = "validate" /\ UNCHANGED checkpoint
  BY DEF OutputAllowed, OutputRetried, at
<1>2. TranscriptOf(loop)
  BY <1>1 DEF Transcripts, Live, Going, Answering
<1>3. ValidateCompleteTurns(loop.messages) /\ ValidateCompleteTurns(base)
  BY <1>1, <1>2 DEF TranscriptOf, openTurn, base
<1>4. ASSUME Live' PROVE TranscriptOf(loop')
  <2>1. CASE OutputAllowed
    <3>1. loop'.pc = "returned"
      BY <1>4, <2>1, OutputAllowedLoop
    <3>2. PICK text \in Texts : loop'.messages = appendFinalAssistant(base, text)
      BY <1>4, <2>1, OutputAllowedLoop
    <3>3. ValidateCompleteTurns(loop'.messages)
      BY <1>3, <3>2, CompleteFinal
    <3> QED BY <3>1, <3>3, TranscriptBetween
  <2>2. CASE OutputRetried
    <3> DEFINE m == IF loop.answer.guard = "retryKeep" THEN loop.messages ELSE base
    <3>1. loop'.pc = "top" /\ loop'.messages = Append(m, UserMessage)
      BY <1>4, <2>2, OutputRetriedLoop
    <3>2. ValidateCompleteTurns(m)
      BY <1>3
    <3> HIDE DEF m
    <3>3. ValidateCompleteTurns(loop'.messages)
      BY <3>1, <3>2, CompleteUser
    <3> QED BY <3>1, <3>3, TranscriptBetween
  <2> QED BY <2>1, <2>2
<1> QED BY <1>1, <1>4, TranscriptsNext

LEMMA TranscriptsFinalize == ASSUME IInv, Transcripts, FinalizeToolStep PROVE Transcripts'
<1> DEFINE c == continuationOf(stepped, "tools_complete")
<1>1. /\ loop.pc = "results"
      /\ Live' => loop'.pc \in {"top", "returned"} /\ loop'.messages = stepped.messages
      /\ checkpoint' = checkpoint \/ checkpoint' = c
  BY FinalizeToolStepLoop
<1>2. openTurn(loop.messages, loop.answer.calls, loop.turn)
  BY <1>1, ToolsFacts DEF Transcripts, TranscriptOf
<1>3. loop.turn \in Nat /\ loop.answer.calls \in Nat \ {0}
  BY <1>1, ToolsFacts
<1>4. ValidateCompleteTurns(stepped.messages) /\ stepped \in Loops
  BY <1>1, <1>2, <1>3, LoopTyped, SteppedFacts, CompleteResults
<1>5. c.messages = stepped.messages /\ c.phase = "tools_complete"
  <2>1. "tools_complete" \in Phases
    BY DEF Phases
  <2> QED BY <1>4, <2>1, ContinuationFacts
<1> HIDE DEF c
<1>6. TranscriptKept(c)
  BY <1>4, <1>5 DEF TranscriptKept, redone
<1>7. Live' => TranscriptOf(loop')
  BY <1>1, <1>4 DEF TranscriptOf
<1> QED BY <1>1, <1>6, <1>7, TranscriptsNext

LEMMA TranscriptsRepair == ASSUME IInv, Transcripts, Repair PROVE Transcripts'
<1>1. loop.pc = "returned" /\ loop.err = "none" /\ loop' = repairLoop(loop) /\ UNCHANGED checkpoint
  BY DEF Repair, at
<1>2. ValidateCompleteTurns(loop.messages)
  BY <1>1, TranscriptBetween DEF Transcripts, Live
<1>3. loop'.pc = "top" /\ loop'.messages = Append(loop.messages, UserMessage)
  BY <1>1, LoopTyped, RepairLoopFacts
<1>4. TranscriptOf(loop')
  BY <1>2, <1>3, CompleteUser, TranscriptBetween
<1> QED BY <1>1, <1>4, TranscriptsNext

LEMMA TranscriptsSame ==
  ASSUME IInv, Transcripts, MaxTurnsReached \/ Dispatch \/ ToolsReturn \/ Cancel
  PROVE  Transcripts'
<1>1. UNCHANGED checkpoint
  BY DEF MaxTurnsReached, Dispatch, ToolsReturn, Cancel
<1>2. CASE MaxTurnsReached
  <2>1. loop.pc = "top" /\ Live /\ loop'.pc = "returned" /\ loop'.messages = loop.messages
    BY <1>2, MaxTurnsReachedLoop, TopFacts
  <2>2. TranscriptOf(loop')
    BY <2>1, TranscriptBetween DEF Transcripts
  <2> QED BY <1>1, <2>2, TranscriptsNext
<1>3. CASE Dispatch \/ ToolsReturn
  <2>1. /\ loop'.pc \in {"tools", "results"} /\ loop'.messages = loop.messages /\ loop'.turn = loop.turn
        /\ loop'.answer = loop.answer /\ loop.pc \in {"dispatch", "tools"} /\ Live
    BY <1>3, RunToolsLoop
  <2>2. TranscriptOf(loop')
    BY <2>1 DEF Transcripts, TranscriptOf
  <2> QED BY <1>1, <2>2, TranscriptsNext
<1>4. CASE Cancel
  <2>1. Live' => TranscriptOf(loop')
    BY <1>4, CancelLoop DEF Transcripts, TranscriptOf
  <2> QED BY <1>1, <2>1, TranscriptsNext
<1> QED BY <1>2, <1>3, <1>4

LEMMA TranscriptsResume == ASSUME IInv, Transcripts, CompleteContexts, Resume PROVE Transcripts'
<1>1. UNCHANGED checkpoint
  BY DEF Resume
<1>2. ASSUME Live' PROVE TranscriptOf(loop')
  <2>1. CASE checkpoint = None /\ loop' = NewLoop(context)
    <3>1. loop'.pc = "top" /\ loop'.messages = context
      BY <2>1, ContextTyped, NewLoopFacts
    <3>2. ValidateCompleteTurns(context)
      BY DEF CompleteContexts, IInv, Types
    <3> QED BY <3>1, <3>2, TranscriptBetween
  <2>2. CASE /\ checkpoint # None /\ ~redone(checkpoint)
             /\ loop'.pc \in {"top", "returned"} /\ loop'.messages = checkpoint.messages
    <3>1. ValidateCompleteTurns(loop'.messages)
      BY <2>2 DEF Transcripts, TranscriptKept
    <3> QED BY <2>2, <3>1 DEF TranscriptOf
  <2>3. CASE checkpoint # None /\ redone(checkpoint) /\ loop' = resumeStep(checkpoint)
    <3>1. loop'.pc = "answered" /\ loop'.messages = front(checkpoint.messages)
      BY <2>3, ResumeStepFacts
    <3>2. ValidateCompleteTurns(loop'.messages)
      BY <2>3, <3>1 DEF Transcripts, TranscriptKept
    <3> QED BY <3>1, <3>2, TranscriptBetween
  <2> QED BY <1>2, <2>1, <2>2, <2>3, ResumeLoop
<1> QED BY <1>1, <1>2, TranscriptsNext

LEMMA TranscriptsStep == ASSUME IInv, Transcripts, CompleteContexts, [Next]_vars PROVE Transcripts'
<1>1. CASE UNCHANGED vars
  <2>1. loop' = loop /\ checkpoint' = checkpoint
    BY <1>1 DEF vars
  <2>2. Live' => TranscriptOf(loop')
    BY <2>1 DEF Transcripts, Live
  <2> QED BY <2>1, <2>2, TranscriptsNext
<1>2. CASE Ending
  BY <1>2, Ended, TranscriptsNext
<1>3. CASE Crash
  <2>1. UNCHANGED checkpoint
    BY <1>3 DEF Crash
  <2> QED BY <1>3, <2>1, CrashLoop, TranscriptsNext
<1>4. CASE Next
  <2>1. CASE Ready
    BY <2>1, TranscriptsReady
  <2>2. CASE \E answer \in Answers : ModelAnswers(answer)
    BY <2>2, TranscriptsAnswers
  <2>3. CASE RecordToolCalls \/ RecordOutput
    BY <2>3, TranscriptsRecordToolCalls, TranscriptsRecordOutput
  <2>4. CASE OutputAllowed \/ OutputRetried
    BY <2>4, TranscriptsOutput
  <2>5. CASE FinalizeToolStep
    BY <2>5, TranscriptsFinalize
  <2>6. CASE MaxTurnsReached \/ Dispatch \/ ToolsReturn \/ Cancel
    BY <2>6, TranscriptsSame
  <2>7. CASE Repair \/ Resume
    BY <2>7, TranscriptsRepair, TranscriptsResume
  <2> QED BY <1>2, <1>3, <1>4, <2>1, <2>2, <2>3, <2>4, <2>5, <2>6, <2>7 DEF Next, Ending
<1> QED BY <1>1, <1>4

LEMMA InitTranscripts == ASSUME Init, CompleteContexts PROVE Transcripts
<1>1. context \in Seq(MessageType) /\ ValidateCompleteTurns(context) /\ loop = NewLoop(context) /\ checkpoint = None
  BY ContextAssumption DEF Init, CompleteContexts
<1>2. loop.pc = "top" /\ loop.messages = context
  BY <1>1, NewLoopFacts
<1>3. TranscriptOf(loop)
  BY <1>1, <1>2, TranscriptBetween
<1> QED BY <1>1, <1>3 DEF Transcripts

\* When Build returns complete transcripts the model is never asked with a tool call
\* that has no result or a result that has no call, whatever was retried, repaired,
\* compacted, interrupted or taken back by Resume, as long as a guardrail's retry adds
\* user messages only.
THEOREM TranscriptsComplete ==
  ASSUME CompleteContexts
  PROVE  Spec => []TranscriptComplete
<1>1. Init => Transcripts
  BY InitTranscripts
<1>2. IInv /\ Transcripts /\ [Next]_vars => Transcripts'
  BY TranscriptsStep
<1>3. IInv /\ Transcripts => TranscriptComplete
  <2>1. ASSUME IInv, Transcripts, loop.pc = "model" PROVE ValidateCompleteTurns(loop.messages)
    BY <2>1, ModelFacts, TranscriptBetween DEF Transcripts
  <2> QED BY <2>1 DEF TranscriptComplete, at
<1> QED BY <1>1, <1>2, <1>3, LoopInvariant, PTL DEF Spec

=============================================================================
