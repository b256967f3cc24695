-------------------------- MODULE DelegationProofs --------------------------
(***************************************************************************)
(* Theorems about Delegation, for every tree of calls, every plan, pool    *)
(* and interceptor and every order of cancellations and failures: pools    *)
(* are conserved, ceilings hold, usage is counted once, ErrNotExecuted is  *)
(* true, and updates come before their result and do not fail unseen.      *)
(***************************************************************************)
EXTENDS Delegation, TLAPS, FiniteSetTheorems, SequenceTheorems, WellFoundedInduction

-----------------------------------------------------------------------------
(* The inductive invariant.                                                *)

\* What errors.Is finds in an error.
Causes == {"notExecuted", "canceled", "exhausted", "failed", "update", "protocol", "interceptor",
           "panic", "driver", "mismatch"}

RunState ==
  [pc : {"off", "turn", "batch", "ended"}, max : Nat, depth : Nat, own : Nat, usage : Nat,
   said : BOOLEAN, dispatched : BOOLEAN, collector : Nat, remaining : Nat, gate : BOOLEAN,
   err : SUBSET Causes]

GuardState ==
  [pc : {"off", "pending", "active", "returned"}, calls : Nat, protocolErr : SUBSET Causes,
   err : SUBSET Causes]

DriverState ==
  [pc : {"off", "validate", "reserve", "start", "running", "report", "finish", "done"},
   count : Nat, output : BOOLEAN, updateErr : BOOLEAN, closed : BOOLEAN, claim : Nat,
   settled : BOOLEAN, err : SUBSET Causes]

Types ==
  /\ run \in [Runs -> RunState]
  /\ guard \in [Calls -> GuardState]
  /\ driver \in [Calls -> DriverState]
  /\ sinkErr \in BOOLEAN
  /\ plan \in Plans

\* The run behind a call; an ordinary tool has none.
child(c) == IF c \in Plain THEN NoRun ELSE run[c]

\* The interceptor guard of a call, in state g, with an interceptor of kind i,
\* against the driver in state d: the driver is entered once, by the first next.
Guarded(i, g, d) ==
  /\ g.pc \in {"off", "pending"} => g.calls = 0 /\ g.protocolErr = {} /\ d.pc = "off"
  /\ i # "none" /\ g.calls = 0 => d.pc = "off"
  /\ "notExecuted" \in g.protocolErr => g.calls > 0 /\ d.pc = "off"
  /\ g.pc = "returned" /\ i # "hasty" => d.pc \in {"off", "done"}

\* The driver against the run it starts, in state s.
Driven(c, d, s) ==
  /\ d.pc = "off" => d = NewDriver
  /\ d.closed <=> d.pc = "done"
  /\ d.err # {} => d.pc \in {"finish", "done"}
  /\ s.pc = "off" => s = NoRun
  /\ c \in Plain =>
       s = NoRun /\ d.pc \in {"off", "running", "finish", "done"} /\ d.claim = 0 /\ ~d.settled
  /\ c \notin Plain =>
       /\ s.pc # "off" => d.pc \in {"running", "report", "finish", "done"}
       /\ d.pc = "running" => s.pc # "off"
       /\ s.pc \in {"turn", "batch"} => d.pc = "running"
       /\ d.pc = "report" => s.pc = "ended"
       /\ s.pc = "off" => d.count = 0 /\ ~d.updateErr
       /\ "notExecuted" \in d.err => s.pc = "off"

\* What the wrapper and the call answer.
Honest(i, g, d, s) ==
  /\ d.pc = "done" /\ "notExecuted" \in d.err => d.count = 0
  /\ d.pc = "done" /\ d.updateErr => d.err = {"update"}
  /\ g.pc = "returned" /\ "notExecuted" \in g.err =>
       d.pc \in {"off", "done"} /\ d.count = 0 /\ s.pc = "off"
  /\ g.pc = "returned" /\ i \notin {"hasty", "masks"} /\ d.updateErr => g.err # {} /\ "notExecuted" \notin g.err

\* The reservation of a call below a run with ceiling max.
Reserved(c, d, s, max) ==
  /\ d.settled => d.pc \in {"report", "finish", "done"} /\ s.pc \in {"off", "ended"}
  /\ d.claim > 0 /\ ~d.settled => d.pc \in {"start", "running"}
  /\ max > 0 /\ c \notin Plain /\ d.pc \in {"start", "running"} => d.claim > 0
  /\ max > 0 /\ s.pc # "off" => s.max = d.claim /\ d.claim > 0
  /\ s.pc # "off" /\ d.pc \in {"report", "finish", "done"} => d.settled

CallInv(c) ==
  /\ Guarded(interceptor(c), guard[c], driver[c])
  /\ Driven(c, driver[c], child(c))
  /\ Honest(interceptor(c), guard[c], driver[c], child(c))
  /\ Reserved(c, driver[c], child(c), run[parent(c)].max)

\* A call that was dispatched is one of the plan, below runs that were started;
\* an awaited one that has not returned keeps all of them waiting.
Placed(c) ==
  /\ guard[c].pc # "off" =>
       /\ c \in plan.calls /\ run[parent(c)].dispatched
       /\ \A q \in levels(parent(c)) : run[q].pc # "off"
  /\ c \in awaited /\ guard[c].pc \in {"pending", "active"} =>
       /\ run[Root].pc = "batch"
       /\ \A q \in levels(parent(c)) : run[q].pc = "batch"

\* A loop in state s: it goes on below its ceiling only, and a batch is
\* dispatched once.
Looping(s) ==
  /\ s.max > 0 /\ s.pc \in {"turn", "batch"} => s.usage < s.max
  /\ s.pc = "batch" => s.dispatched

\* The pool of r adds up while its batch runs.
Pooled(r) ==
  bounded(r) /\ run[r].pc = "batch" =>
    /\ run[r].remaining + total(openClaims(r), claims) + total(settledClaims(r), spent)
         = run[r].max - run[r].usage
    /\ ~run[r].gate => openClaims(r) = {}
    /\ \A c, d \in openClaims(r) : c = d

\* The children whose usage the collector of r has.
reported(r) == {c \in children(r) : driver[c].pc \in {"finish", "done"}}

Joined(r) == run[r].dispatched /\ run[r].pc # "batch"

\* The usage of r is its own and that of its children, once they were joined.
Charged(r) ==
  kids(r) \subseteq awaited =>
    /\ ~Joined(r) => run[r].usage = run[r].own
    /\ run[r].pc = "batch" => run[r].collector = total(reported(r), usages)
    /\ Joined(r) => /\ \A c \in kids(r) : returned(c)
                    /\ run[r].usage = run[r].own + total(children(r), usages)

Ceiling(r) ==
  bounded(r) /\ kids(r) \subseteq awaited /\ run[r].pc = "ended" =>
    \/ \E t \in Tokens : over(r) < t
    \/ over(r) <= total(children(r), overs)

RunInv(r) == Looping(run[r]) /\ Pooled(r) /\ Charged(r) /\ Ceiling(r)

\* A failure of the caller's sink is kept by a call of the caller's run.
surfacing == awaited = Calls /\ kids(Root) \subseteq candid

SinkKept ==
  sinkErr /\ surfacing =>
    /\ \E c \in kids(Root) : driver[c].updateErr
    /\ run[Root].pc \in {"batch", "ended"}
    /\ run[Root].pc = "ended" => run[Root].err # {}

IInv ==
  /\ Types
  /\ \A c \in Calls : CallInv(c) /\ Placed(c)
  /\ \A r \in Runs : RunInv(r)
  /\ run[Root].pc # "off"
  /\ SinkKept

-----------------------------------------------------------------------------
(* Sets and sums.                                                          *)

\* A set of naturals has a least element.
LEMMA Least ==
  ASSUME NEW T \in SUBSET Nat, T # {}
  PROVE  \E x \in T : \A y \in T : x <= y
<1> DEFINE R == OpToRel(<, Nat)
<1>0. IsWellFoundedOn(R, Nat)
  BY NatLessThanWellFounded
<1>1. \A x, y \in Nat : x < y => <<x, y>> \in R
  BY DEF OpToRel
<1> HIDE DEF R
<1>2. PICK x \in T : \A y \in T : ~(<<y, x>> \in R)
  BY <1>0, WFMin
<1>3. \A y \in T : ~(y < x) /\ y \in Nat /\ x \in Nat
  BY <1>1, <1>2
<1>4. \A y \in T : x <= y
  BY <1>3
<1> QED BY <1>4

\* Induction over a finite set: a family G that has the empty set, and with a
\* set also that set and one element more, has the whole set.
LEMMA SetInduction ==
  ASSUME NEW S, IsFiniteSet(S), NEW G, {} \in G,
         \A T \in SUBSET S : \A x \in S \ T : T \in G => T \cup {x} \in G
  PROVE  S \in G
<1> SUFFICES ASSUME S \notin G PROVE FALSE
  OBVIOUS
<1> DEFINE bad == {T \in SUBSET S : T \notin G}
           N == {n \in Nat : \E T \in bad : Cardinality(T) = n}
<1>1. \A T \in SUBSET S : IsFiniteSet(T) /\ Cardinality(T) \in Nat
  BY FS_Subset, FS_CardinalityType
<1>2. N # {} /\ N \in SUBSET Nat
  BY <1>1
<1> HIDE DEF N
<1>3. PICK n \in N : \A m \in N : n <= m
  BY <1>2, Least
<1>4. PICK T \in bad : Cardinality(T) = n
  BY <1>3 DEF N
<1>5. PICK x \in T : TRUE
  BY <1>4
<1> DEFINE U == T \ {x}
<1>6. U \in SUBSET S /\ x \in S \ U /\ U \cup {x} = T
  BY <1>4, <1>5
<1>7. IsFiniteSet(U) /\ Cardinality(U) = Cardinality(T) - 1
  BY <1>1, <1>4, <1>5, FS_RemoveElement
<1>8. U \notin G
  BY <1>4, <1>6
<1>9. U \in bad /\ Cardinality(U) \in Nat
  BY <1>1, <1>6, <1>8
<1>10. Cardinality(U) \in N
  BY <1>9 DEF N
<1>11. n <= Cardinality(U)
  BY <1>3, <1>10
<1> QED BY <1>1, <1>4, <1>7, <1>11

\* The tokens of one more call.
LEMMA OneMore ==
  ASSUME NEW S, NEW f, NEW x, x \notin S, f[x] \in Nat, IsFiniteSet(tokensOf(S, f))
  PROVE  /\ IsFiniteSet(tokensOf(S \cup {x}, f))
         /\ total(S \cup {x}, f) = total(S, f) + f[x]
<1> DEFINE A == tokensOf(S, f)
           B == {x} \X (1 .. f[x])
<1>1. tokensOf(S \cup {x}, f) = A \cup B
  BY DEF tokensOf
<1>2. A \cap B = {}
  BY DEF tokensOf
<1>3. IsFiniteSet(1 .. f[x]) /\ Cardinality(1 .. f[x]) = f[x]
  <2>1. 1 \in Int /\ f[x] \in Int
    OBVIOUS
  <2>2. IsFiniteSet(1 .. f[x]) /\ Cardinality(1 .. f[x]) = IF 1 > f[x] THEN 0 ELSE f[x] - 1 + 1
    BY <2>1, FS_Interval
  <2> QED BY <2>2
<1>4. IsFiniteSet({x}) /\ Cardinality({x}) = 1
  BY FS_Singleton
<1>5. IsFiniteSet(B) /\ Cardinality(B) = f[x]
  <2> DEFINE X == {x}
             I == 1 .. f[x]
  <2>1. IsFiniteSet(X) /\ Cardinality(X) = 1 /\ IsFiniteSet(I) /\ Cardinality(I) = f[x]
    BY <1>3, <1>4
  <2>2. B = X \X I
    OBVIOUS
  <2> HIDE DEF X, I, B
  <2>3. IsFiniteSet(X \X I) /\ Cardinality(X \X I) = Cardinality(X) * Cardinality(I)
    BY <2>1, FS_Product
  <2>4. Cardinality(X) * Cardinality(I) = f[x]
    BY <2>1
  <2> QED BY <2>2, <2>3, <2>4
<1> HIDE DEF A, B
<1>6. IsFiniteSet(A \cup B) /\ Cardinality(A \cup B) = Cardinality(A) + Cardinality(B) - Cardinality(A \cap B)
  <2>1. IsFiniteSet(A)
    BY DEF A
  <2> QED BY <1>5, <2>1, FS_Union
<1>7. Cardinality({}) = 0 /\ Cardinality(A) \in Nat
  BY FS_EmptySet, FS_CardinalityType DEF A
<1>8. Cardinality(A \cup B) = Cardinality(A) + f[x]
  <2>1. Cardinality(A \cap B) = 0
    BY <1>2, <1>7, Zenon
  <2> QED BY <1>5, <1>6, <1>7, <2>1
<1> QED BY <1>1, <1>6, <1>8 DEF total, A

LEMMA TotalEmpty ==
  ASSUME NEW f
  PROVE  tokensOf({}, f) = {} /\ IsFiniteSet(tokensOf({}, f)) /\ total({}, f) = 0
<1>1. tokensOf({}, f) = {}
  BY DEF tokensOf
<1> QED BY <1>1, FS_EmptySet DEF total

\* A sum of naturals is one.
LEMMA TotalType ==
  ASSUME NEW S, IsFiniteSet(S), NEW f, \A x \in S : f[x] \in Nat
  PROVE  IsFiniteSet(tokensOf(S, f)) /\ total(S, f) \in Nat
<1> DEFINE G == {T \in SUBSET S : IsFiniteSet(tokensOf(T, f))}
<1>1. {} \in G
  BY TotalEmpty
<1>2. \A T \in SUBSET S : \A x \in S \ T : T \in G => T \cup {x} \in G
  BY OneMore
<1> HIDE DEF G
<1>3. S \in G
  BY <1>1, <1>2, SetInduction
<1>4. IsFiniteSet(tokensOf(S, f))
  BY <1>3 DEF G
<1> QED BY <1>4, FS_CardinalityType DEF total

\* A sum and one term more.
LEMMA TotalAdd ==
  ASSUME NEW S, IsFiniteSet(S), NEW f, NEW x, x \notin S, \A y \in S \cup {x} : f[y] \in Nat
  PROVE  total(S \cup {x}, f) = total(S, f) + f[x]
<1>1. IsFiniteSet(tokensOf(S, f))
  BY TotalType
<1> QED BY <1>1, OneMore

\* Equal terms have equal sums, and terms that are zero do not count.
LEMMA TotalSame ==
  ASSUME NEW S, NEW T, NEW f, NEW g, S \subseteq T,
         \A x \in S : f[x] = g[x], \A x \in T \ S : g[x] = 0
  PROVE  total(S, f) = total(T, g)
<1>1. \A x \in T \ S : 1 .. g[x] = {}
  OBVIOUS
<1>2. tokensOf(S, f) = tokensOf(T, g)
  BY <1>1 DEF tokensOf
<1> QED BY <1>2 DEF total

\* The sum of sums.
LEMMA TotalSplit ==
  ASSUME NEW S, IsFiniteSet(S), NEW f, NEW g, NEW h,
         \A x \in S : f[x] \in Nat /\ g[x] \in Nat /\ h[x] \in Nat /\ f[x] = g[x] + h[x]
  PROVE  total(S, f) = total(S, g) + total(S, h)
<1> DEFINE G == {T \in SUBSET S : total(T, f) = total(T, g) + total(T, h)}
<1>1. {} \in G
  BY TotalEmpty
<1>2. ASSUME NEW T \in SUBSET S, NEW x \in S \ T, T \in G PROVE T \cup {x} \in G
  <2>1. IsFiniteSet(T)
    BY FS_Subset
  <2>0. \A y \in T \cup {x} : f[y] \in Nat /\ g[y] \in Nat /\ h[y] \in Nat
    OBVIOUS
  <2>2. /\ total(T \cup {x}, f) = total(T, f) + f[x]
        /\ total(T \cup {x}, g) = total(T, g) + g[x]
        /\ total(T \cup {x}, h) = total(T, h) + h[x]
    BY <2>0, <2>1, TotalAdd
  <2>3. total(T, g) \in Nat /\ total(T, h) \in Nat
    BY <2>1, TotalType
  <2>4. total(T, f) = total(T, g) + total(T, h)
    BY <1>2
  <2> QED BY <2>2, <2>3, <2>4
<1> HIDE DEF G
<1>3. S \in G
  BY <1>1, <1>2, SetInduction
<1> QED BY <1>3 DEF G

-----------------------------------------------------------------------------
(* Paths.                                                                  *)

\* Prefixes, and the prefixes of a prefix.
LEMMA Prefix ==
  ASSUME NEW p \in Seq(Nat), NEW n \in 0 .. Len(p), NEW m \in 0 .. n
  PROVE  /\ SubSeq(p, 1, n) \in Seq(Nat)
         /\ Len(SubSeq(p, 1, n)) = n
         /\ SubSeq(SubSeq(p, 1, n), 1, m) = SubSeq(p, 1, m)
         /\ SubSeq(p, 1, Len(p)) = p
<1>0. Len(p) \in Nat /\ n \in Nat /\ m \in Nat
  OBVIOUS
<1>1. \A i \in 1 .. n : p[i] \in Nat
  BY <1>0
<1>2. SubSeq(p, 1, n) \in Seq(Nat) /\ Len(SubSeq(p, 1, n)) = n
  BY <1>0, <1>1, SubSeqProperties
<1>3. SubSeq(p, 1, Len(p)) = p
  BY SubSeqFull
<1>4. CASE m = 0
  <2>1. SubSeq(SubSeq(p, 1, n), 1, m) = <<>> /\ SubSeq(p, 1, m) = <<>>
    BY <1>0, <1>4, SubSeqEmpty
  <2> QED BY <1>2, <1>3, <2>1
<1>5. CASE m # 0
  <2>1. 1 \in 1 .. Len(p) /\ n \in 1 .. Len(p) /\ 1 \in 1 .. n - 1 + 1 /\ m \in 1 .. n - 1 + 1
    BY <1>0, <1>5
  <2>2. SubSeq(SubSeq(p, 1, n), 1, m) = SubSeq(p, 1 + 1 - 1, 1 + m - 1)
    BY <2>1, SubSeqOfSubSeq
  <2>3. 1 + 1 - 1 = 1 /\ 1 + m - 1 = m
    BY <1>0
  <2> QED BY <1>2, <1>3, <2>2, <2>3
<1> QED BY <1>4, <1>5

\* A level is the prefix of its own length.
LEMMA Level ==
  ASSUME NEW p \in Seq(Nat), NEW q \in levels(p)
  PROVE  /\ q \in Seq(Nat) /\ Len(q) \in 1 .. Len(p) /\ q = SubSeq(p, 1, Len(q))
         /\ q # Root
<1>1. PICK n \in 1 .. Len(p) : q = SubSeq(p, 1, n)
  BY DEF levels
<1>2. n \in 0 .. Len(p) /\ 0 \in 0 .. n
  BY <1>1
<1>3. q \in Seq(Nat) /\ Len(q) = n
  BY <1>1, <1>2, Prefix
<1>4. Len(Root) = 0
  BY DEF Root
<1> QED BY <1>1, <1>3, <1>4

LEMMA RootLevels == levels(Root) = {}
<1>1. Len(Root) = 0
  BY DEF Root
<1>2. 1 .. 0 = {}
  OBVIOUS
<1> QED BY <1>1, <1>2 DEF levels

\* The levels of a path are those of its parent and itself.
LEMMA ParentLevels ==
  ASSUME NEW p \in Seq(Nat), p # Root
  PROVE  /\ parent(p) \in Seq(Nat) /\ Len(parent(p)) = Len(p) - 1
         /\ levels(p) = levels(parent(p)) \cup {p}
         /\ p \notin levels(parent(p))
         /\ parent(p) # Root => parent(p) \in levels(parent(p))
<1>0. Len(p) \in Nat /\ Len(p) # 0
  BY EmptySeq DEF Root
<1>1. Len(p) - 1 \in 0 .. Len(p) /\ Len(p) - 1 \in Nat
  BY <1>0
<1> DEFINE a == parent(p)
<1>2. /\ a \in Seq(Nat) /\ Len(a) = Len(p) - 1
  <2>1. a = SubSeq(p, 1, Len(p) - 1)
    BY DEF parent
  <2> HIDE DEF a
  <2>2. p \in Seq(Nat) /\ 0 \in 0 .. Len(p) - 1
    BY <1>1
  <2> QED BY ONLY <1>1, <2>1, <2>2, Prefix
<1>3. \A m \in 1 .. Len(p) - 1 : SubSeq(a, 1, m) = SubSeq(p, 1, m)
  <2> TAKE m \in 1 .. Len(p) - 1
  <2>1. m \in 0 .. Len(p) - 1
    BY <1>0
  <2> QED BY <1>1, <2>1, Prefix DEF parent
<1>4. SubSeq(p, 1, Len(p)) = p
  BY SubSeqFull
<1> HIDE DEF a
<1>5. levels(p) \subseteq levels(a) \cup {p}
  <2> SUFFICES ASSUME NEW n \in 1 .. Len(p) PROVE SubSeq(p, 1, n) \in levels(a) \cup {p}
    BY DEF levels
  <2>1. CASE n = Len(p)
    BY <1>4, <2>1
  <2>2. CASE n # Len(p)
    <3>1. n \in 1 .. Len(p) - 1
      BY <1>0, <2>2
    <3>2. SubSeq(p, 1, n) = SubSeq(a, 1, n) /\ n \in 1 .. Len(a)
      BY <1>2, <1>3, <3>1
    <3> QED BY <3>2 DEF levels
  <2> QED BY <2>1, <2>2
<1>6. levels(a) \cup {p} \subseteq levels(p)
  <2>1. p \in levels(p)
    <3>1. Len(p) \in 1 .. Len(p)
      BY <1>0
    <3> QED BY <1>4, <3>1 DEF levels
  <2>2. ASSUME NEW n \in 1 .. Len(a) PROVE SubSeq(a, 1, n) \in levels(p)
    <3>1. n \in 1 .. Len(p) - 1 /\ n \in 1 .. Len(p)
      BY <1>0, <1>2
    <3>2. SubSeq(a, 1, n) = SubSeq(p, 1, n)
      BY <1>3, <3>1
    <3> QED BY <3>1, <3>2 DEF levels
  <2> QED BY <2>1, <2>2 DEF levels
<1>7. p \notin levels(a)
  <2> SUFFICES ASSUME p \in levels(a) PROVE FALSE
    OBVIOUS
  <2>1. Len(p) \in 1 .. Len(a)
    BY <1>2, Level
  <2> QED BY <1>0, <1>2, <2>1
<1>8. ASSUME a # Root PROVE a \in levels(a)
  <2>1. Len(a) \in Nat /\ Len(a) # 0
    BY <1>2, <1>8, EmptySeq DEF Root
  <2>2. SubSeq(a, 1, Len(a)) = a
    BY <1>2, SubSeqFull
  <2>3. Len(a) \in 1 .. Len(a)
    BY <2>1
  <2> QED BY <2>2, <2>3 DEF levels
<1> QED BY <1>2, <1>5, <1>6, <1>7, <1>8 DEF a

\* Calls are paths.
LEMMA CallPath ==
  ASSUME NEW c \in Calls
  PROVE  /\ c \in Seq(Nat) /\ c # Root /\ parent(c) \in Runs
         /\ levels(c) = levels(parent(c)) \cup {c} /\ c \notin levels(parent(c))
         /\ parent(c) # Root => parent(c) \in Calls \ Plain /\ parent(c) \in levels(parent(c))
         /\ parent(c) # c
<1>1. c \in Seq(Nat) /\ c # Root /\ parent(c) \in Runs
  BY DelegationAssumption
<1>2. /\ levels(c) = levels(parent(c)) \cup {c} /\ c \notin levels(parent(c))
      /\ parent(c) # Root => parent(c) \in levels(parent(c))
  BY <1>1, ParentLevels
<1> QED BY <1>1, <1>2 DEF Runs

\* Every level above a call is the call of an agent.
LEMMA Above ==
  ASSUME NEW c \in Calls
  PROVE  levels(c) \subseteq Calls /\ levels(parent(c)) \subseteq Calls \ Plain
<1> DEFINE bad == {n \in Nat : \E x \in Calls : Len(x) = n /\ ~(levels(x) \subseteq Calls
                                    /\ levels(parent(x)) \subseteq Calls \ Plain)}
<1>1. SUFFICES bad = {}
  <2>1. Len(c) \in Nat
    BY CallPath
  <2> QED BY <1>1, <2>1
<1>2. SUFFICES ASSUME bad # {} PROVE FALSE
  OBVIOUS
<1>3. bad \in SUBSET Nat
  OBVIOUS
<1>4. PICK n \in bad : \A m \in bad : n <= m
  <2> HIDE DEF bad
  <2> QED BY <1>2, <1>3, Least
<1>5. PICK x \in Calls : Len(x) = n /\ ~(levels(x) \subseteq Calls
                                          /\ levels(parent(x)) \subseteq Calls \ Plain)
  BY <1>4
<1>6. /\ levels(x) = levels(parent(x)) \cup {x}
      /\ x \in Seq(Nat) /\ x # Root
      /\ parent(x) # Root => parent(x) \in Calls \ Plain
  BY CallPath
<1>7. CASE parent(x) = Root
  <2>1. levels(parent(x)) = {}
    BY <1>7, RootLevels
  <2> QED BY <1>5, <1>6, <2>1
<1>8. CASE parent(x) # Root
  <2>1. parent(x) \in Calls \ Plain
    BY <1>6, <1>8
  <2>2. Len(parent(x)) = n - 1 /\ Len(parent(x)) \in Nat
    BY <1>5, <1>6, ParentLevels
  <2>3. Len(parent(x)) \notin bad
    BY <1>3, <1>4, <2>2
  <2>4. /\ levels(parent(x)) \subseteq Calls
        /\ levels(parent(parent(x))) \subseteq Calls \ Plain
    BY <2>1, <2>2, <2>3
  <2>5. levels(parent(x)) = levels(parent(parent(x))) \cup {parent(x)}
    BY <2>1, CallPath
  <2> QED BY <1>5, <1>6, <2>1, <2>4, <2>5
<1> QED BY <1>7, <1>8

\* The levels of a level, and the level below one.
LEMMA Between ==
  ASSUME NEW p \in Calls, NEW q \in levels(p)
  PROVE  /\ q \in Calls
         /\ levels(q) \subseteq levels(p)
         /\ q # p => q \in levels(parent(p)) /\ q \notin Plain
<1>1. p \in Seq(Nat) /\ levels(p) = levels(parent(p)) \cup {p}
  BY CallPath
<1>2. q \in Seq(Nat) /\ Len(q) \in 1 .. Len(p) /\ q = SubSeq(p, 1, Len(q))
  BY <1>1, Level
<1>3. ASSUME NEW x \in levels(q) PROVE x \in levels(p)
  <2>1. x \in Seq(Nat) /\ Len(x) \in 1 .. Len(q) /\ x = SubSeq(q, 1, Len(x))
    BY <1>2, Level
  <2>2. Len(q) \in 0 .. Len(p) /\ Len(x) \in 0 .. Len(q) /\ Len(x) \in 1 .. Len(p)
    BY <1>1, <1>2, <2>1
  <2>3. SubSeq(SubSeq(p, 1, Len(q)), 1, Len(x)) = SubSeq(p, 1, Len(x))
    BY <1>1, <2>2, Prefix
  <2>4. x = SubSeq(p, 1, Len(x))
    BY <1>2, <2>1, <2>3
  <2> QED BY <2>2, <2>4 DEF levels
<1> QED BY <1>1, <1>3, Above

\* The run of a level has a call of the path below it.
LEMMA Below ==
  ASSUME NEW p \in Calls, NEW r, r = Root \/ r \in levels(parent(p))
  PROVE  \E x \in levels(p) : parent(x) = r
<1>1. p \in Seq(Nat) /\ p # Root /\ Len(p) \in Nat
  BY CallPath
<1>2. parent(p) \in Seq(Nat) /\ Len(parent(p)) = Len(p) - 1 /\ levels(parent(p)) \subseteq levels(p)
  BY <1>1, ParentLevels
<1>3. r \in Seq(Nat) /\ Len(r) \in 0 .. Len(p) - 1 /\ r = SubSeq(p, 1, Len(r))
  <2>1. CASE r = Root
    <3>1. Len(r) = 0 /\ r \in Seq(Nat) /\ Len(p) - 1 \in Nat
      BY <1>1, <1>2, <2>1 DEF Root
    <3>2. SubSeq(p, 1, 0) = <<>>
      BY SubSeqEmpty
    <3> QED BY <2>1, <3>1, <3>2 DEF Root
  <2>2. CASE r \in levels(parent(p))
    <3>1. r \in Seq(Nat) /\ Len(r) \in 1 .. Len(p) - 1
      BY <1>2, <2>2, Level
    <3>2. r = SubSeq(p, 1, Len(r))
      BY <1>1, <1>2, <2>2, Level
    <3> QED BY <1>1, <3>1, <3>2
  <2> QED BY <2>1, <2>2
<1> DEFINE n == Len(r) + 1
           x == SubSeq(p, 1, n)
<1>4. n \in 1 .. Len(p) /\ n \in 0 .. Len(p) /\ n - 1 \in 0 .. n /\ n - 1 = Len(r)
  BY <1>1, <1>3
<1>5. Len(x) = n /\ SubSeq(x, 1, n - 1) = SubSeq(p, 1, n - 1)
  BY <1>1, <1>4, Prefix
<1>6. x \in levels(p)
  BY <1>4 DEF levels
<1> HIDE DEF n, x
<1>7. parent(x) = r
  BY <1>3, <1>4, <1>5 DEF parent
<1> QED BY <1>6, <1>7

\* Some levels of a path have a longest one.
LEMMA Longest ==
  ASSUME NEW p \in Seq(Nat), NEW R \in SUBSET levels(p), R # {}
  PROVE  \E q \in R : \A o \in R : Len(o) <= Len(q)
<1> DEFINE N == {n \in Nat : \E q \in R : n = Len(p) - Len(q)}
<1>1. \A q \in R : Len(q) \in Nat /\ Len(p) - Len(q) \in Nat /\ Len(p) \in Nat
  BY Level
<1>2. N # {} /\ N \in SUBSET Nat
  BY <1>1
<1>3. PICK n \in N : \A m \in N : n <= m
  <2> HIDE DEF N
  <2> QED BY <1>2, Least
<1>4. PICK q \in R : n = Len(p) - Len(q)
  BY <1>3
<1>5. ASSUME NEW o \in R PROVE Len(o) <= Len(q)
  <2>1. Len(p) - Len(o) \in N
    BY <1>1
  <2>2. Len(p) - Len(q) <= Len(p) - Len(o)
    BY <1>3, <1>4, <2>1
  <2> QED BY <1>1, <1>5, <2>2
<1> QED BY <1>5

-----------------------------------------------------------------------------
(* Updates.                                                                *)

\* The fields of a driver's state.
LEMMA DriverFields ==
  ASSUME NEW d \in DriverState
  PROVE  /\ d.pc \in {"off", "validate", "reserve", "start", "running", "report", "finish", "done"}
         /\ d.count \in Nat /\ d.output \in BOOLEAN /\ d.updateErr \in BOOLEAN
         /\ d.closed \in BOOLEAN /\ d.claim \in Nat /\ d.settled \in BOOLEAN
         /\ d.err \in SUBSET Causes
BY DEF DriverState

LEMMA RunFields ==
  ASSUME NEW s \in RunState
  PROVE  /\ s.pc \in {"off", "turn", "batch", "ended"} /\ s.max \in Nat /\ s.depth \in Nat
         /\ s.own \in Nat /\ s.usage \in Nat /\ s.said \in BOOLEAN /\ s.dispatched \in BOOLEAN
         /\ s.collector \in Nat /\ s.remaining \in Nat /\ s.gate \in BOOLEAN
         /\ s.err \in SUBSET Causes
BY DEF RunState

LEMMA GuardFields ==
  ASSUME NEW g \in GuardState
  PROVE  /\ g.pc \in {"off", "pending", "active", "returned"} /\ g.calls \in Nat
         /\ g.protocolErr \in SUBSET Causes /\ g.err \in SUBSET Causes
BY DEF GuardState

\* An update changes a driver's state d to e.
Updated(d, e) ==
  /\ e.pc = d.pc /\ e.closed = d.closed /\ e.claim = d.claim /\ e.settled = d.settled
  /\ e.err = d.err /\ (d.updateErr => e.updateErr)

\* An update of the run or the driver of p: the drivers on its path may count
\* it or fail, unless they are closed, and the others see nothing of it.
Emission(p, D) ==
  /\ D \in [Calls -> DriverState]
  /\ \A x \in Calls : Updated(driver[x], D[x])
  /\ \A x \in Calls : x \notin levels(p) \/ driver[x].closed => D[x] = driver[x]

\* The level at which an update stops.
LEMMA StopLevel ==
  ASSUME NEW p \in Calls, NEW valid \in BOOLEAN, NEW x \in levels(p)
  PROVE  /\ stop(p, valid) = Root => ~refuses(x)
         /\ refuses(x) => stop(p, valid) \in levels(p) /\ Len(x) <= Len(stop(p, valid))
<1> DEFINE R == {q \in levels(p) : refuses(q) \/ (q = p /\ ~valid)}
<1>1. p \in Seq(Nat) /\ R \in SUBSET levels(p)
  BY CallPath
<1>2. stop(p, valid) = IF R = {} THEN Root
                       ELSE CHOOSE q \in R : \A other \in R : Len(other) <= Len(q)
  BY DEF stop
<1>3. refuses(x) => x \in R
  OBVIOUS
<1> HIDE DEF R
<1>4. R # {} => /\ stop(p, valid) \in R
                /\ \A other \in R : Len(other) <= Len(stop(p, valid))
  <2> SUFFICES ASSUME R # {}
               PROVE  /\ stop(p, valid) \in R
                      /\ \A other \in R : Len(other) <= Len(stop(p, valid))
    OBVIOUS
  <2>1. \E q \in R : \A other \in R : Len(other) <= Len(q)
    BY <1>1, Longest
  <2> QED BY <1>2, <2>1, Zenon
<1>5. \A q \in R : q # Root
  BY <1>1, Level
<1> QED BY <1>1, <1>3, <1>4, <1>5

\* The level that stops an update is on its path, or it is the caller's.
LEMMA StopType ==
  ASSUME NEW p \in Calls, NEW valid \in BOOLEAN
  PROVE  stop(p, valid) = Root \/ stop(p, valid) \in levels(p)
<1> DEFINE R == {q \in levels(p) : refuses(q) \/ (q = p /\ ~valid)}
<1>1. p \in Seq(Nat) /\ R \in SUBSET levels(p)
  BY CallPath
<1>2. stop(p, valid) = IF R = {} THEN Root
                       ELSE CHOOSE q \in R : \A other \in R : Len(other) <= Len(q)
  BY DEF stop
<1> HIDE DEF R
<1>3. CASE R = {}
  BY <1>2, <1>3
<1>4. CASE R # {}
  <2>1. \E q \in R : \A other \in R : Len(other) <= Len(q)
    BY <1>1, <1>4, Longest
  <2>2. stop(p, valid) \in R
    BY <1>2, <1>4, <2>1, Zenon
  <2> QED BY <1>1, <2>2
<1> QED BY <1>3, <1>4

\* emit is such an update, and when the caller's sink fails every level of the
\* path has the failure.
LEMMA Emits ==
  ASSUME Types, NEW p \in Calls, NEW valid \in BOOLEAN, NEW sinkOK \in BOOLEAN
  PROVE  /\ Emission(p, emit(p, valid, sinkOK))
         /\ stop(p, valid) = Root /\ ~sinkOK =>
              \A x \in levels(p) : emit(p, valid, sinkOK)[x].updateErr
         /\ stop(p, valid) = Root => \A x \in levels(p) : ~driver[x].closed
<1> DEFINE at == stop(p, valid)
           passed(q) == q \in levels(p) /\ Len(q) > Len(at)
           fails(q) == ~delivered(p, valid, sinkOK) /\ (passed(q) \/ (q = at /\ ~driver[q].closed))
           D == emit(p, valid, sinkOK)
<1>0. p \in Seq(Nat) /\ at \in levels(p) \cup {Root}
  BY CallPath, StopType
<1>1. D = [q \in Calls |-> [driver[q] EXCEPT !.count = IF passed(q) THEN @ + 1 ELSE @,
                                             !.updateErr = @ \/ fails(q)]]
  BY DEF emit
<1>2. \A q \in Calls : passed(q) \in BOOLEAN /\ fails(q) \in BOOLEAN
  OBVIOUS
<1>t. driver \in [Calls -> DriverState]
  BY DEF Types
<1>3. ASSUME NEW x \in Calls, x \notin levels(p) \/ driver[x].closed
      PROVE  ~passed(x) /\ ~fails(x)
  <2>1. ~passed(x)
    <3> SUFFICES ASSUME x \in levels(p), driver[x].closed PROVE ~(Len(x) > Len(at))
      BY <1>3
    <3>1. refuses(x)
      BY DEF refuses
    <3>2. Len(x) <= Len(at) /\ at \in levels(p)
      BY <3>1, StopLevel
    <3>3. Len(x) \in Nat /\ Len(at) \in Nat
      BY <1>0, <3>2, Level
    <3> QED BY <3>2, <3>3
  <2>2. ~(x = at /\ ~driver[x].closed)
    <3>1. x # Root
      BY CallPath
    <3> QED BY <1>0, <1>3, <3>1
  <2> QED BY <2>1, <2>2
<1> HIDE DEF at, passed, fails, D
<1>4. ASSUME NEW x \in Calls
      PROVE  /\ D[x] \in DriverState /\ Updated(driver[x], D[x])
             /\ ~passed(x) /\ ~fails(x) => D[x] = driver[x]
             /\ fails(x) => D[x].updateErr
  <2>1. D[x] = [driver[x] EXCEPT !.count = IF passed(x) THEN @ + 1 ELSE @,
                                 !.updateErr = @ \/ fails(x)]
    BY <1>1
  <2>2. driver[x] \in DriverState
    BY <1>t
  <2> DEFINE n == IF passed(x) THEN driver[x].count + 1 ELSE driver[x].count
             b == driver[x].updateErr \/ fails(x)
  <2>3. n \in Nat /\ b \in BOOLEAN
    BY <1>2, <2>2, DriverFields
  <2>4. D[x] = [driver[x] EXCEPT !.count = n, !.updateErr = b]
    BY <2>1
  <2>5. (~passed(x) /\ ~fails(x) => n = driver[x].count /\ b = driver[x].updateErr) /\ (fails(x) => b)
    BY <1>2, <2>2, DriverFields
  <2> HIDE DEF n, b
  <2>6. D[x] \in DriverState
    BY <2>2, <2>3, <2>4 DEF DriverState
  <2>7. D[x].updateErr = b
    BY <2>2, <2>4 DEF DriverState
  <2>9. Updated(driver[x], D[x])
    BY <2>2, <2>4, <2>7 DEF DriverState, Updated, b
  <2>8. ~passed(x) /\ ~fails(x) => D[x] = driver[x]
    BY <2>2, <2>4, <2>5 DEF DriverState
  <2> QED BY <2>5, <2>6, <2>7, <2>8, <2>9
<1>5. D \in [Calls -> DriverState]
  <2>1. \A x \in Calls : D[x] \in DriverState
    BY <1>4
  <2>2. D = [x \in Calls |-> D[x]]
    BY <1>1
  <2> QED BY <2>1, <2>2
<1>6. Emission(p, D)
  BY <1>3, <1>4, <1>5 DEF Emission
<1>7. ASSUME at = Root, NEW x \in levels(p) PROVE (~sinkOK => D[x].updateErr) /\ ~driver[x].closed
  <2>1. x \in Calls /\ Len(x) \in 1 .. Len(p) /\ Len(at) = 0
    BY <1>0, <1>7, Above, Level DEF Root
  <2>2. passed(x)
    BY <2>1 DEF passed
  <2>3. ~sinkOK => fails(x)
    BY <2>2 DEF fails, delivered
  <2>4. ~refuses(x)
    BY <1>7, StopLevel DEF at
  <2> QED BY <1>4, <2>1, <2>3, <2>4 DEF refuses
<1> QED BY <1>6, <1>7 DEF at, D

-----------------------------------------------------------------------------
(* One call: its guard, its driver, the run behind it.                     *)

\* Types of what a plan says, and of the run behind a call.
LEMMA PlanTypes ==
  ASSUME Types
  PROVE  /\ plan.calls \subseteq Calls /\ plan.max \in Nat
         /\ \A c \in Calls : interceptor(c) \in {"none", "waits", "masks", "hasty"}
BY DelegationAssumption DEF Types, interceptor

LEMMA NoRunType == NoRun \in RunState /\ NewDriver \in DriverState /\ NewGuard \in GuardState
BY DEF NoRun, NewDriver, NewGuard, RunState, DriverState, GuardState

LEMMA CallTypes ==
  ASSUME Types, NEW c \in Calls
  PROVE  /\ guard[c] \in GuardState /\ driver[c] \in DriverState /\ child(c) \in RunState
         /\ run[parent(c)] \in RunState /\ (c \notin Plain => c \in Runs /\ child(c) = run[c])
BY CallPath, NoRunType DEF Types, child, Runs

\* A call that a step does not concern: its run may change counters only.
LEMMA CallStays ==
  ASSUME NEW x \in Calls, CallInv(x), plan' = plan,
         guard'[x] = guard[x], driver'[x] = driver[x],
         child(x)' = child(x) \/ (child(x).pc # "off" /\ child(x)'.pc = child(x).pc
                                  /\ child(x)'.max = child(x).max),
         run'[parent(x)].max = run[parent(x)].max \/ driver[x].pc = "off"
  PROVE  CallInv(x)'
<1>1. interceptor(x)' = interceptor(x)
  BY DEF interceptor
<1>2. x \in Plain => child(x) = NoRun /\ child(x)' = NoRun
  BY DEF child
<1>3. NoRun.pc = "off" /\ NewDriver.claim = 0 /\ ~NewDriver.settled
  BY DEF NoRun, NewDriver
<1>4. Guarded(interceptor(x), guard[x], driver[x])'
  BY <1>1 DEF CallInv
<1>5. Driven(x, driver[x], child(x))'
  BY <1>2, <1>3 DEF CallInv, Driven
<1>6. Honest(interceptor(x), guard[x], driver[x], child(x))'
  BY <1>1 DEF CallInv, Honest
<1>7. Reserved(x, driver[x], child(x), run[parent(x)].max)'
  <2>1. driver[x].pc = "off" => child(x).pc = "off" /\ child(x)'.pc = "off"
    BY <1>2, <1>3 DEF CallInv, Driven
  <2> QED BY <2>1 DEF CallInv, Reserved
<1> QED BY <1>4, <1>5, <1>6, <1>7 DEF CallInv

\* A call whose driver an update may pass: it has been entered, or nothing
\* changes.
LEMMA CallUpdated ==
  ASSUME Types, NEW x \in Calls, CallInv(x), plan' = plan, guard'[x] = guard[x],
         child(x)' = child(x) \/ (child(x).pc \in {"turn", "batch"}
                                  /\ child(x)'.pc \in {"turn", "batch", "ended"}
                                  /\ child(x)'.max = child(x).max)
                              \/ (child(x).pc # "off" /\ child(x)'.pc = child(x).pc
                                  /\ child(x)'.max = child(x).max),
         run'[parent(x)].max = run[parent(x)].max,
         driver'[x] \in DriverState,
         Updated(driver[x], driver'[x]),
         driver'[x] = driver[x] \/ (/\ driver[x].pc \notin {"off", "done"}
                                    /\ x \in Plain \/ child(x).pc # "off")
  PROVE  CallInv(x)'
<1> DEFINE d == driver[x]
           e == driver'[x]
           s == child(x)
           t == child(x)'
           i == interceptor(x)
           g == guard[x]
<1>0. i' = i /\ (x \in Plain => s = NoRun /\ t = NoRun)
  BY DEF interceptor, child
<1>1. NoRun.pc = "off" /\ g \in GuardState /\ d \in DriverState /\ e \in DriverState /\ s \in RunState
  BY CallTypes DEF NoRun
<1>2. /\ Guarded(i, g, d) /\ Driven(x, d, s) /\ Honest(i, g, d, s)
      /\ Reserved(x, d, s, run[parent(x)].max)
  BY DEF CallInv
<1>3. /\ e.pc = d.pc /\ e.closed = d.closed /\ e.claim = d.claim /\ e.settled = d.settled
      /\ e.err = d.err
  BY DEF Updated
<1>4. e = d \/ (d.pc \notin {"off", "done"} /\ (x \in Plain \/ s.pc # "off"))
  OBVIOUS
<1>5. \/ t = s
      \/ (s.pc \in {"turn", "batch"} /\ t.pc \in {"turn", "batch", "ended"} /\ t.max = s.max)
      \/ (s.pc # "off" /\ t.pc = s.pc /\ t.max = s.max)
  OBVIOUS
<1> SUFFICES /\ Guarded(i, g, e) /\ Driven(x, e, t) /\ Honest(i, g, e, t)
             /\ Reserved(x, e, t, run[parent(x)].max)
  BY <1>0 DEF CallInv
<1> HIDE DEF d, e, s, t, i, g
<1>6. Guarded(i, g, e)
  BY <1>2, <1>3 DEF Guarded
<1>7. Driven(x, e, t)
  BY <1>0, <1>1, <1>2, <1>3, <1>4, <1>5 DEF Driven
<1>8. Honest(i, g, e, t)
  BY <1>1, <1>2, <1>3, <1>4, <1>5, GuardFields DEF Honest, Guarded
<1>9. Reserved(x, e, t, run[parent(x)].max)
  BY <1>2, <1>3, <1>5 DEF Reserved, Driven
<1> QED BY <1>6, <1>7, <1>8, <1>9

\* The driver that has not been entered, and its run.
LEMMA NotEntered ==
  ASSUME Types, NEW c \in Calls, CallInv(c), driver[c].pc = "off"
  PROVE  /\ driver[c] = NewDriver /\ child(c).pc = "off" /\ driver[c].count = 0
         /\ ~driver[c].updateErr /\ ~driver[c].closed /\ ~driver[c].settled /\ driver[c].claim = 0
         /\ driver[c].err = {}
<1>1. driver[c] = NewDriver
  BY DEF CallInv, Driven
<1>2. child(c).pc = "off"
  BY DEF CallInv, Driven, NoRun
<1> QED BY <1>1, <1>2 DEF NewDriver

\* Entering the driver of a call: enter.
LEMMA Entering ==
  ASSUME Types, NEW c \in Calls, CallInv(c), driver[c].pc = "off", plan' = plan, run' = run,
         driver' = enter(c), guard'[c] \in GuardState, guard'[c].pc = "active",
         interceptor(c) # "none" => guard'[c].calls > 0,
         guard'[c].protocolErr = {}
  PROVE  /\ CallInv(c)' /\ driver' \in [Calls -> DriverState]
         /\ \A x \in Calls : x # c => driver'[x] = driver[x]
         /\ driver'[c].pc \in {"running", "validate"}
         /\ driver'[c].claim = 0 /\ ~driver'[c].settled
<1> DEFINE d == driver[c]
           g == guard'[c]
           s == child(c)
           i == interceptor(c)
           pc == IF c \in Plain THEN "running" ELSE "validate"
           e == [d EXCEPT !.pc = pc]
<1>0. /\ d = NewDriver /\ s.pc = "off" /\ d.count = 0 /\ ~d.updateErr /\ ~d.closed
      /\ ~d.settled /\ d.claim = 0 /\ d.err = {} /\ d \in DriverState /\ s \in RunState
  BY NotEntered, CallTypes
<1>1. driver' = [driver EXCEPT ![c] = e]
  BY DEF enter
<1>2. e \in DriverState
  BY <1>0 DEF DriverState
<1>3. driver' \in [Calls -> DriverState] /\ driver'[c] = e /\ \A x \in Calls : x # c => driver'[x] = driver[x]
  BY <1>1, <1>2 DEF Types
<1>4. /\ e.pc = pc /\ e.count = 0 /\ ~e.updateErr /\ ~e.closed
      /\ ~e.settled /\ e.claim = 0 /\ e.err = {}
  BY <1>0 DEF DriverState
<1>5. i' = i /\ child(c)' = s /\ run'[parent(c)].max = run[parent(c)].max
  BY DEF interceptor, child
<1>6. (c \in Plain => s = NoRun) /\ (s.pc = "off" => s = NoRun)
  BY DEF child, CallInv, Driven
<1>7. g \in GuardState /\ g.pc = "active" /\ g.protocolErr = {} /\ (i # "none" => g.calls > 0)
  OBVIOUS
<1>8. pc = IF c \in Plain THEN "running" ELSE "validate"
  OBVIOUS
<1>9. SUFFICES /\ Guarded(i, g, e) /\ Driven(c, e, s) /\ Honest(i, g, e, s)
               /\ Reserved(c, e, s, run[parent(c)].max)
  BY <1>3, <1>4, <1>5 DEF CallInv
<1> HIDE DEF d, e, s, i, g, pc
<1>10. Guarded(i, g, e)
  BY <1>4, <1>7, <1>8, GuardFields DEF Guarded
<1>11. Driven(c, e, s)
  BY <1>0, <1>4, <1>6, <1>8 DEF Driven
<1>12. Honest(i, g, e, s)
  BY <1>4, <1>7, <1>8 DEF Honest
<1>13. Reserved(c, e, s, run[parent(c)].max)
  BY <1>0, <1>4, <1>8 DEF Reserved
<1> QED BY <1>10, <1>11, <1>12, <1>13

\* wrapInterceptor answers a call that does not reach its driver any more, or
\* whose driver is done: Execute of a cancelled call, and Return.
LEMMA Answering ==
  ASSUME Types, NEW c \in Calls, CallInv(c), plan' = plan, run' = run, driver' = driver,
         NEW err \in SUBSET Causes,
         guard' = [guard EXCEPT ![c].pc = "returned", ![c].err = err],
         interceptor(c) # "hasty" => driver[c].pc \in {"off", "done"},
         "notExecuted" \in err => /\ driver[c].pc \in {"off", "done"} /\ driver[c].count = 0
                                  /\ child(c).pc = "off",
         interceptor(c) \notin {"hasty", "masks"} /\ driver[c].updateErr => err # {} /\ "notExecuted" \notin err
  PROVE  /\ CallInv(c)' /\ guard' \in [Calls -> GuardState]
         /\ \A x \in Calls : x # c => guard'[x] = guard[x]
         /\ guard'[c].pc = "returned" /\ guard'[c].err = err
<1> DEFINE d == driver[c]
           g == guard[c]
           h == [g EXCEPT !.pc = "returned", !.err = err]
           s == child(c)
           i == interceptor(c)
<1>0. g \in GuardState /\ d \in DriverState /\ s \in RunState
  BY CallTypes
<1>1. guard' = [guard EXCEPT ![c] = h]
  BY <1>0 DEF Types
<1>2. h \in GuardState
  BY <1>0 DEF GuardState
<1>3. /\ guard' \in [Calls -> GuardState] /\ guard'[c] = h
      /\ \A x \in Calls : x # c => guard'[x] = guard[x]
  BY <1>1, <1>2 DEF Types
<1>4. h.pc = "returned" /\ h.err = err /\ h.calls = g.calls /\ h.protocolErr = g.protocolErr
  BY <1>0 DEF GuardState
<1>5. i' = i /\ child(c)' = s
  BY DEF interceptor, child
<1>6. /\ Guarded(i, g, d) /\ Driven(c, d, s) /\ Honest(i, g, d, s)
      /\ Reserved(c, d, s, run[parent(c)].max)
  BY DEF CallInv
<1>7. /\ i # "hasty" => d.pc \in {"off", "done"}
      /\ "notExecuted" \in err => d.pc \in {"off", "done"} /\ d.count = 0 /\ s.pc = "off"
      /\ i \notin {"hasty", "masks"} /\ d.updateErr => err # {} /\ "notExecuted" \notin err
  OBVIOUS
<1>8. SUFFICES /\ Guarded(i, h, d) /\ Honest(i, h, d, s)
  BY <1>3, <1>4, <1>5, <1>6 DEF CallInv
<1> HIDE DEF d, g, h, s, i
<1>9. Guarded(i, h, d)
  BY <1>4, <1>6, <1>7 DEF Guarded
<1>10. Honest(i, h, d, s)
  BY <1>4, <1>6, <1>7 DEF Honest
<1> QED BY <1>9, <1>10

\* A move of the driver that the guard does not see: from d to e.
LEMMA Moving ==
  ASSUME Types, NEW c \in Calls, CallInv(c), plan' = plan, guard' = guard,
         NEW e \in DriverState, driver' = [driver EXCEPT ![c] = e],
         driver[c].pc \notin {"off", "done"}, e.pc \notin {"off", "done"},
         Driven(c, e, child(c)'), Reserved(c, e, child(c)', run'[parent(c)].max)
  PROVE  /\ CallInv(c)' /\ driver' \in [Calls -> DriverState] /\ driver'[c] = e
         /\ \A x \in Calls : x # c => driver'[x] = driver[x]
<1> DEFINE d == driver[c]
           g == guard[c]
           i == interceptor(c)
           t == child(c)'
<1>1. /\ driver' \in [Calls -> DriverState] /\ driver'[c] = e
      /\ \A x \in Calls : x # c => driver'[x] = driver[x]
  BY DEF Types
<1>2. i' = i /\ guard'[c] = g /\ g \in GuardState
  BY CallTypes DEF interceptor
<1>3. Guarded(i, g, d) /\ d.pc \notin {"off", "done"} /\ Honest(i, g, d, child(c))
  BY DEF CallInv
<1>4. SUFFICES Guarded(i, g, e) /\ Honest(i, g, e, t)
  BY <1>1, <1>2 DEF CallInv
<1> HIDE DEF d, g, i, t
<1>5. g.pc # "returned" \/ i = "hasty"
  BY <1>3 DEF Guarded
<1>6. g.pc = "returned" => "notExecuted" \notin g.err
  BY <1>3 DEF Honest
<1>7. Guarded(i, g, e)
  BY <1>3, <1>5 DEF Guarded
<1>8. Honest(i, g, e, t)
  BY <1>5, <1>6 DEF Honest
<1> QED BY <1>7, <1>8

-----------------------------------------------------------------------------
(* The tree.                                                               *)

LEMMA RunsOf ==
  /\ Root \in Runs
  /\ \A c \in Calls : parent(c) \in Runs /\ levels(parent(c)) \subseteq Runs
  /\ \A r \in Runs : r # Root => r \in Calls \ Plain
  /\ \A c \in Calls : c \notin Plain => c \in Runs
BY CallPath, Above DEF Runs

LEMMA AwaitedStays ==
  ASSUME plan' = plan
  PROVE  /\ awaited' = awaited /\ surfacing' = surfacing /\ (\A r : kids(r)' = kids(r))
         /\ \A c : interceptor(c)' = interceptor(c)
BY DEF awaited, candid, surfacing, kids, interceptor

\* The loops go on: no run is undone, no batch is left.
Onward ==
  \A r \in Runs : /\ run[r].pc # "off" => run'[r].pc # "off"
                  /\ run[r].dispatched => run'[r].dispatched
                  /\ run[r].pc = "batch" => run'[r].pc = "batch"

LEMMA PlacedStays ==
  ASSUME NEW x \in Calls, Placed(x), plan' = plan, Onward,
         guard'[x].pc # "off" => guard[x].pc # "off",
         guard'[x].pc \in {"pending", "active"} => guard[x].pc \in {"pending", "active"}
  PROVE  Placed(x)'
<1>1. parent(x) \in Runs /\ levels(parent(x)) \subseteq Runs /\ Root \in Runs
  BY RunsOf
<1>2. awaited' = awaited
  BY AwaitedStays
<1> QED BY <1>1, <1>2 DEF Placed, Onward

\* Every run above a driver that was entered, and above a run, has started.
LEMMA AboveStarted ==
  ASSUME NEW c \in Calls, CallInv(c), Placed(c), driver[c].pc # "off"
  PROVE  /\ \A q \in levels(parent(c)) : run[q].pc # "off"
         /\ guard[c].pc # "off" /\ c \in plan.calls /\ c \in kids(parent(c))
BY DEF CallInv, Guarded, Placed, kids

\* Above an awaited call whose driver is at work, everybody waits.
LEMMA AboveWaits ==
  ASSUME Types, NEW c \in Calls, CallInv(c), Placed(c), c \in awaited,
         driver[c].pc \notin {"off", "done"}
  PROVE  /\ run[Root].pc = "batch" /\ \A q \in levels(parent(c)) : run[q].pc = "batch"
         /\ run[parent(c)].pc = "batch"
<1>1. c \in levels(c) /\ (parent(c) # Root => parent(c) \in levels(parent(c)))
  BY CallPath
<1>2. interceptor(c) # "hasty"
  BY <1>1 DEF awaited
<1>3. guard[c].pc \notin {"off", "returned"}
  BY <1>2 DEF CallInv, Guarded
<1>4. guard[c].pc \in {"pending", "active"}
  BY <1>3, CallTypes, GuardFields
<1> QED BY <1>1, <1>4 DEF Placed

\* The runs of a path where none is above a driver at work: a run that was
\* dispatched once and is not in its batch has no awaited child at work.
LEMMA NoneAtWork ==
  ASSUME Types, NEW c \in Calls, CallInv(c), Placed(c), kids(parent(c)) \subseteq awaited,
         run[parent(c)].pc # "batch"
  PROVE  driver[c].pc \in {"off", "done"}
<1> SUFFICES ASSUME driver[c].pc \notin {"off", "done"} PROVE FALSE
  OBVIOUS
<1>1. c \in awaited
  BY AboveStarted
<1> QED BY <1>1, AboveWaits

-----------------------------------------------------------------------------
(* Pools and usage.                                                        *)

\* A loop keeps its counters, in the same place or at the end of a turn.
SameCounters(s, t) ==
  /\ t.pc = s.pc \/ (s.pc = "turn" /\ t.pc = "ended")
  /\ t.max = s.max /\ t.usage = s.usage /\ t.own = s.own
  /\ t.dispatched = s.dispatched

\* What a step leaves alone of a call: its reservation, and what its run has
\* used and when that was reported.  Or the run is at work.
KeptCall(c) ==
  /\ driver'[c].claim = driver[c].claim
  /\ driver'[c].settled = driver[c].settled
  /\ returned(c) => returned(c)'
  /\ c \notin Plain =>
       \/ /\ run'[c].pc = "off" <=> run[c].pc = "off"
          /\ run'[c].usage = run[c].usage /\ run'[c].max = run[c].max
          /\ run[c].pc # "off" => (driver'[c].pc \in {"finish", "done"} <=>
                                   driver[c].pc \in {"finish", "done"})
       \/ driver[c].pc \in {"start", "running"} /\ driver'[c].pc = "running"

\* Its reservation alone.
KeptClaim(c) ==
  /\ driver'[c].claim = driver[c].claim
  /\ driver'[c].settled = driver[c].settled
  /\ c \notin Plain => run'[c].usage = run[c].usage \/ driver[c].pc \in {"start", "running"}

\* The children of a run have a finite number.
LEMMA KidsFinite ==
  ASSUME Types, NEW r
  PROVE  /\ kids(r) \subseteq Calls /\ IsFiniteSet(kids(r))
         /\ \A S \in SUBSET kids(r) : IsFiniteSet(S)
         /\ \A c \in kids(r) : /\ usages[c] \in Nat /\ claims[c] \in Nat /\ spent[c] \in Nat
                               /\ overs[c] \in Nat
                               /\ parent(c) = r
<1>1. kids(r) \subseteq Calls
  BY PlanTypes DEF kids
<1>2. IsFiniteSet(Calls)
  BY DelegationAssumption
<1>3. IsFiniteSet(kids(r)) /\ \A S \in SUBSET kids(r) : IsFiniteSet(S)
  BY <1>1, <1>2, FS_Subset
<1>4. ASSUME NEW c \in kids(r)
      PROVE /\ usages[c] \in Nat /\ claims[c] \in Nat /\ spent[c] \in Nat
            /\ overs[c] \in Nat
  <2>1. c \in Calls /\ driver[c].claim \in Nat /\ (c \notin Plain => run[c] \in RunState)
    BY <1>1, CallTypes, DriverFields
  <2>2. c \notin Plain => run[c].usage \in Nat /\ run[c].max \in Nat
    BY <2>1, RunFields
  <2>3. used(c) \in Nat
    BY <2>2 DEF used
  <2> QED BY <2>1, <2>2, <2>3 DEF usages, claims, spent, spentOf, overs, over, bounded
<1> QED BY <1>1, <1>3, <1>4 DEF kids

\* The pool of a run whose calls are left alone.
LEMMA PoolStays ==
  ASSUME Types, Types', NEW r \in Runs, Pooled(r), plan' = plan, SameCounters(run[r], run'[r]),
         run'[r].remaining = run[r].remaining, run'[r].gate = run[r].gate,
         \A c \in kids(r) : CallInv(c) /\ KeptClaim(c)
  PROVE  Pooled(r)'
<1>1. kids(r)' = kids(r) /\ kids(r) \subseteq Calls
  BY AwaitedStays, KidsFinite
<1>2. openClaims(r)' = openClaims(r) /\ settledClaims(r)' = settledClaims(r)
  BY <1>1 DEF openClaims, settledClaims, KeptClaim
<1>3. openClaims(r) \subseteq kids(r) /\ settledClaims(r) \subseteq kids(r)
  BY DEF openClaims, settledClaims
<1>4. total(openClaims(r), claims') = total(openClaims(r), claims)
  <2>1. \A c \in openClaims(r) : claims'[c] = claims[c]
    BY <1>1, <1>3 DEF claims, KeptClaim
  <2> QED BY <2>1, TotalSame
<1>5. total(settledClaims(r), spent') = total(settledClaims(r), spent)
  <2>1. ASSUME NEW c \in settledClaims(r) PROVE spent'[c] = spent[c]
    <3>1. c \in kids(r) /\ c \in Calls /\ driver[c].settled
      BY <1>1 DEF settledClaims
    <3>2. driver[c].pc \notin {"start", "running"}
      BY <3>1 DEF CallInv, Reserved
    <3>3. used(c)' = used(c) /\ driver'[c].claim = driver[c].claim
      BY <3>1, <3>2 DEF used, KeptClaim
    <3>4. spentOf(c, used(c))' = spentOf(c, used(c))
      BY <3>3 DEF spentOf
    <3> QED BY <3>1, <3>4 DEF spent
  <2> QED BY <2>1, TotalSame
<1> QED BY <1>2, <1>4, <1>5 DEF Pooled, bounded, SameCounters

\* The accounts of a run whose calls are left alone.
LEMMA ChargeStays ==
  ASSUME Types, Types', NEW r \in Runs, Looping(run[r]), Charged(r), Ceiling(r), plan' = plan,
         SameCounters(run[r], run'[r]), run'[r].collector = run[r].collector,
         \A c \in kids(r) : CallInv(c) /\ Placed(c) /\ KeptCall(c)
  PROVE  Charged(r)' /\ Ceiling(r)'
<1>1. kids(r)' = kids(r) /\ kids(r) \subseteq Calls /\ awaited' = awaited
      /\ \A c \in kids(r) : parent(c) = r
  BY AwaitedStays, KidsFinite
<1>2. children(r) \subseteq kids(r) /\ reported(r) \subseteq children(r)
      /\ children(r) \cap Plain = {}
  BY DEF children, reported
<1>3. /\ reported(r)' = reported(r)
      /\ \A c \in reported(r) : usages'[c] = usages[c]
  <2>1. ASSUME NEW c \in kids(r)
        PROVE  /\ c \in reported(r)' <=> c \in reported(r)
               /\ c \in reported(r) => usages'[c] = usages[c]
    <3>1. c \in Calls /\ KeptCall(c) /\ CallInv(c)
      BY <1>1
    <3>2. driver[c].pc \in {"finish", "done"} => driver[c].pc \notin {"start", "running"}
      OBVIOUS
    <3> QED BY <1>1, <3>1, <3>2 DEF KeptCall, reported, children, started, usages, used
  <2>2. reported(r)' \subseteq kids(r)
    BY <1>1 DEF reported, children
  <2> QED BY <1>2, <2>1, <2>2
<1>4. total(reported(r), usages') = total(reported(r), usages)
  BY <1>3, TotalSame
<1>5. ASSUME kids(r) \subseteq awaited, run[r].pc # "batch"
      PROVE  /\ children(r)' = children(r)
             /\ \A c \in children(r) : usages'[c] = usages[c] /\ overs'[c] = overs[c]
  <2>1. ASSUME NEW c \in kids(r)
        PROVE  /\ c \in children(r)' <=> c \in children(r)
               /\ c \in children(r) => usages'[c] = usages[c] /\ overs'[c] = overs[c]
    <3>1. driver[c].pc \notin {"start", "running"}
      BY <1>1, <1>5, NoneAtWork
    <3>2. c \in Calls /\ KeptCall(c)
      BY <1>1
    <3> QED BY <1>1, <3>1, <3>2 DEF KeptCall, children, started, usages, used, overs, over, bounded
  <2>2. children(r)' \subseteq kids(r)
    BY <1>1 DEF children
  <2> QED BY <1>2, <2>1, <2>2
<1>6. ASSUME kids(r) \subseteq awaited, run[r].pc # "batch"
      PROVE  /\ total(children(r)', usages') = total(children(r), usages)
             /\ total(children(r)', overs') = total(children(r), overs)
  BY <1>5, <1>6, TotalSame
<1>7. \A c \in kids(r) : returned(c) => returned(c)'
  BY DEF KeptCall
<1>8. Joined(r)' <=> Joined(r)
  BY DEF Joined, SameCounters
<1>9. Charged(r)'
  <2> SUFFICES ASSUME kids(r) \subseteq awaited
               PROVE  /\ ~Joined(r) => run'[r].usage = run'[r].own
                      /\ run'[r].pc = "batch" => run'[r].collector = total(reported(r)', usages')
                      /\ Joined(r) => /\ \A c \in kids(r) : returned(c)'
                                      /\ run'[r].usage = run'[r].own + total(children(r)', usages')
    BY <1>1, <1>8 DEF Charged
  <2>1. Joined(r) => run[r].pc # "batch"
    BY DEF Joined
  <2> QED BY <1>3, <1>4, <1>6, <1>7, <2>1 DEF Charged, SameCounters
<1>10. Ceiling(r)'
  <2> SUFFICES ASSUME bounded(r)', kids(r) \subseteq awaited, run'[r].pc = "ended"
               PROVE  (\E t \in Tokens : over(r)' < t) \/ over(r)' <= total(children(r)', overs')
    BY <1>1 DEF Ceiling
  <2>1. bounded(r) /\ run[r].pc \in {"turn", "ended"} /\ over(r)' = over(r)
    BY DEF bounded, SameCounters, over
  <2>2. CASE run[r].pc = "ended"
    BY <1>6, <2>1, <2>2 DEF Ceiling
  <2>3. CASE run[r].pc = "turn"
    <3>1. over(r) = 0
      BY <2>1, <2>3, RunFields DEF Looping, over, bounded, Types
    <3>2. total(children(r), overs) \in Nat
      BY <1>2, KidsFinite, TotalType
    <3> QED BY <1>6, <2>1, <2>3, <3>1, <3>2
  <2> QED BY <2>1, <2>2, <2>3
<1> QED BY <1>9, <1>10

\* All of them.
LEMMA RunStays ==
  ASSUME Types, Types', NEW r \in Runs, RunInv(r), plan' = plan, SameCounters(run[r], run'[r]),
         run'[r].remaining = run[r].remaining, run'[r].gate = run[r].gate,
         run'[r].collector = run[r].collector,
         \A c \in kids(r) : CallInv(c) /\ Placed(c) /\ KeptCall(c)
  PROVE  RunInv(r)'
<1>1. Looping(run[r])'
  BY DEF RunInv, Looping, SameCounters
<1>2. Charged(r)' /\ Ceiling(r)'
  BY ChargeStays DEF RunInv
<1>3. \A c \in kids(r) : KeptClaim(c)
  BY DEF KeptCall, KeptClaim
<1>4. Pooled(r)'
  BY <1>3, PoolStays DEF RunInv
<1> QED BY <1>1, <1>2, <1>4 DEF RunInv

-----------------------------------------------------------------------------
(* The shapes of a step.                                                   *)

\* The caller's run keeps a failure of its sink.
LEMMA SinkStays ==
  ASSUME IInv, plan' = plan, sinkErr' = sinkErr,
         \A c \in Calls : driver[c].updateErr => driver'[c].updateErr,
         run'[Root].pc = run[Root].pc, run'[Root].err = run[Root].err
  PROVE  SinkKept'
<1>1. kids(Root)' = kids(Root) /\ kids(Root) \subseteq Calls /\ surfacing' = surfacing
  BY AwaitedStays, KidsFinite DEF IInv
<1> QED BY <1>1 DEF SinkKept, IInv

\* A step of one call that no run sees.
LEMMA CallStep ==
  ASSUME IInv, NEW c \in Calls, plan' = plan, run' = run, sinkErr' = sinkErr,
         guard' \in [Calls -> GuardState], driver' \in [Calls -> DriverState],
         \A x \in Calls : x # c => guard'[x] = guard[x] /\ driver'[x] = driver[x],
         CallInv(c)', KeptCall(c),
         guard'[c].pc # "off" => guard[c].pc # "off",
         guard'[c].pc \in {"pending", "active"} => guard[c].pc \in {"pending", "active"},
         driver[c].updateErr => driver'[c].updateErr
  PROVE  IInv'
<1>1. Types'
  BY DEF IInv, Types
<1>2. ASSUME NEW x \in Calls PROVE CallInv(x)' /\ Placed(x)' /\ KeptCall(x)
  <2>1. x # c => guard'[x] = guard[x] /\ driver'[x] = driver[x]
    OBVIOUS
  <2>2. CallInv(x) /\ Placed(x)
    BY DEF IInv
  <2>3. CallInv(x)'
    <3>1. CASE x = c
      BY <3>1
    <3>2. CASE x # c
      <4>1. child(x)' = child(x) /\ run'[parent(x)].max = run[parent(x)].max
        BY DEF child
      <4> QED BY <2>1, <2>2, <3>2, <4>1, CallStays
    <3> QED BY <3>1, <3>2
  <2>4. Onward
    BY DEF Onward
  <2>5. Placed(x)'
    BY <2>1, <2>2, <2>4, PlacedStays
  <2>6. KeptCall(x)
    BY <2>1 DEF KeptCall, returned
  <2> QED BY <2>3, <2>5, <2>6
<1>3. ASSUME NEW r \in Runs PROVE RunInv(r)'
  <2>1. kids(r) \subseteq Calls
    BY KidsFinite DEF IInv
  <2>2. SameCounters(run[r], run'[r])
    BY DEF SameCounters
  <2> QED BY <1>1, <1>2, <2>1, <2>2, RunStays DEF IInv
<1>4. SinkKept'
  BY SinkStays
<1> QED BY <1>1, <1>2, <1>3, <1>4 DEF IInv

\* A step of a driver at work that changes the pool or the collector of its
\* parent.
LEMMA PoolStep ==
  ASSUME IInv, NEW c \in Calls, plan' = plan, sinkErr' = sinkErr, guard' = guard,
         NEW e \in DriverState, driver' = [driver EXCEPT ![c] = e],
         driver[c].pc \notin {"off", "done"}, e.pc \notin {"off", "done"},
         e.updateErr = driver[c].updateErr,
         run' \in [Runs -> RunState],
         \A r \in Runs : r # parent(c) => run'[r] = run[r],
         SameCounters(run[parent(c)], run'[parent(c)]),
         run'[parent(c)].pc = run[parent(c)].pc, run'[parent(c)].err = run[parent(c)].err,
         Driven(c, e, child(c)), Reserved(c, e, child(c), run[parent(c)].max),
         Pooled(parent(c))',
         run[parent(c)].pc = "batch" /\ kids(parent(c)) \subseteq awaited =>
           run'[parent(c)].collector = total(reported(parent(c))', usages')
  PROVE  IInv'
<1> DEFINE p == parent(c)
<1>0. p \in Runs /\ p # c /\ CallInv(c) /\ Placed(c) /\ c \in kids(p)
  BY CallPath, AboveStarted DEF IInv
<1>1. run[p].pc # "off"
  BY AboveStarted, CallPath DEF IInv
<1>2. child(c)' = child(c) /\ run'[p].max = run[p].max
  BY <1>0, RunsOf DEF child, SameCounters
<1>3. /\ CallInv(c)' /\ driver' \in [Calls -> DriverState] /\ driver'[c] = e
      /\ \A x \in Calls : x # c => driver'[x] = driver[x]
  BY <1>0, <1>2, Moving DEF IInv
<1>4. Types'
  BY <1>3 DEF IInv, Types
<1>5. \A r \in Runs : /\ run'[r].pc = run[r].pc /\ run'[r].max = run[r].max
                      /\ run'[r].usage = run[r].usage /\ run'[r].dispatched = run[r].dispatched
                      /\ run'[r].err = run[r].err
  BY DEF SameCounters
<1> HIDE DEF p
<1>6. ASSUME NEW x \in Calls PROVE CallInv(x)' /\ Placed(x)' /\ (x # c => KeptCall(x))
  <2>1. CallInv(x) /\ Placed(x) /\ parent(x) \in Runs /\ (x \notin Plain => x \in Runs)
    BY RunsOf DEF IInv
  <2>2. CallInv(x)'
    <3>1. CASE x = c
      BY <1>3, <3>1
    <3>2. CASE x # c
      <4>1. child(x)' = child(x) \/ (child(x).pc # "off" /\ child(x)'.pc = child(x).pc
                                  /\ child(x)'.max = child(x).max)
        BY <1>1, <1>5, <2>1 DEF child, p
      <4> QED BY <1>3, <1>5, <2>1, <3>2, <4>1, CallStays
    <3> QED BY <3>1, <3>2
  <2>3. Onward
    BY <1>5 DEF Onward
  <2>4. Placed(x)'
    BY <2>1, <2>3, PlacedStays
  <2>5. x # c => KeptCall(x)
    BY <1>3, <1>5, <2>1 DEF KeptCall, returned
  <2> QED BY <2>2, <2>4, <2>5
<1>7. ASSUME NEW r \in Runs, r # p PROVE RunInv(r)'
  <2>1. kids(r) \subseteq Calls \ {c}
    BY <1>7, KidsFinite DEF IInv, p
  <2>2. run'[r] = run[r]
    BY <1>7 DEF p
  <2>3. SameCounters(run[r], run'[r])
    BY <2>2 DEF SameCounters
  <2>4. \A x \in kids(r) : CallInv(x) /\ Placed(x) /\ KeptCall(x)
    BY <1>6, <2>1 DEF IInv
  <2> QED BY <1>4, <2>2, <2>3, <2>4, RunStays DEF IInv
<1>8. RunInv(p)'
  <2>0. RunInv(p)
    BY <1>0 DEF IInv
  <2>1. Looping(run[p])'
    BY <1>0, <1>5, <2>0 DEF RunInv, Looping
  <2>2. awaited' = awaited /\ kids(p)' = kids(p)
    BY AwaitedStays
  <2>3. kids(p) \subseteq awaited => run[p].pc = "batch"
    <3>1. kids(p) \subseteq awaited => c \in awaited
      BY <1>0
    <3> QED BY <1>0, <3>1, AboveWaits DEF IInv, p
  <2>4. run'[p].own = run[p].own
    BY DEF SameCounters, p
  <2>5. Charged(p)'
    <3> SUFFICES ASSUME kids(p) \subseteq awaited
                 PROVE  /\ ~Joined(p)' /\ run'[p].usage = run'[p].own
                        /\ run'[p].collector = total(reported(p)', usages')
      BY <2>2 DEF Charged
    <3>1. run[p].pc = "batch" /\ run'[p].pc = "batch"
      BY <1>0, <1>5, <2>3
    <3>2. ~Joined(p)' /\ ~Joined(p)
      BY <3>1 DEF Joined
    <3>3. run[p].usage = run[p].own
      BY <2>0, <3>2 DEF RunInv, Charged
    <3> QED BY <1>0, <1>5, <2>4, <3>1, <3>2, <3>3 DEF p
  <2>6. Ceiling(p)'
    <3>1. kids(p) \subseteq awaited => run'[p].pc = "batch"
      BY <1>0, <1>5, <2>3
    <3> QED BY <2>2, <3>1 DEF Ceiling
  <2>7. Pooled(p)'
    BY DEF p
  <2> QED BY <2>1, <2>5, <2>6, <2>7 DEF RunInv
<1>9. SinkKept'
  <2>1. Root \in Runs
    BY RunsOf
  <2>2. \A x \in Calls : driver[x].updateErr => driver'[x].updateErr
    BY <1>3
  <2> QED BY <1>5, <2>1, <2>2, SinkStays
<1>10. run'[Root].pc # "off"
  BY <1>5, RunsOf DEF IInv
<1> QED BY <1>4, <1>6, <1>7, <1>8, <1>9, <1>10 DEF IInv

\* An update, and the end of a turn.
LEMMA LoopStep ==
  ASSUME IInv, NEW r \in Runs, plan' = plan, guard' = guard, sinkErr' \in BOOLEAN, SinkKept',
         run' \in [Runs -> RunState],
         run' = run \/ run[r].pc = "turn",
         \A q \in Runs : q # r => run'[q] = run[q],
         SameCounters(run[r], run'[r]), run'[r].remaining = run[r].remaining,
         run'[r].gate = run[r].gate, run'[r].collector = run[r].collector,
         driver' \in [Calls -> DriverState],
         \A x \in Calls : /\ Updated(driver[x], driver'[x])
                          /\ \/ driver'[x] = driver[x]
                             \/ /\ driver[x].pc \notin {"off", "done"}
                                /\ x \in Plain \/ child(x).pc # "off"
  PROVE  IInv'
<1>1. Types'
  BY DEF IInv, Types
<1>2. \A q \in Runs : /\ SameCounters(run[q], run'[q])
                      /\ run'[q].remaining = run[q].remaining
                      /\ run'[q].gate = run[q].gate /\ run'[q].collector = run[q].collector
  BY DEF SameCounters
<1>3. \A q \in Runs : /\ run'[q].max = run[q].max /\ run'[q].usage = run[q].usage
                      /\ run'[q].dispatched = run[q].dispatched
                      /\ \/ run'[q] = run[q]
                         \/ run[q].pc = "turn" /\ run'[q].pc \in {"turn", "ended"}
  BY <1>2 DEF SameCounters
<1>4. Onward
  BY <1>3 DEF Onward
<1>5. ASSUME NEW x \in Calls PROVE CallInv(x)' /\ Placed(x)' /\ KeptCall(x)
  <2>1. /\ CallInv(x) /\ Placed(x) /\ parent(x) \in Runs /\ (x \notin Plain => x \in Runs)
        /\ driver'[x] \in DriverState
    BY RunsOf DEF IInv
  <2>2. \/ child(x)' = child(x)
        \/ /\ child(x).pc \in {"turn", "batch"} /\ child(x)'.pc \in {"turn", "batch", "ended"}
           /\ child(x)'.max = child(x).max
    BY <1>3, <2>1 DEF child
  <2>3. CallInv(x)'
    BY <1>3, <2>1, <2>2, CallUpdated DEF IInv
  <2>4. Placed(x)'
    BY <1>4, <2>1, PlacedStays
  <2>5. /\ driver'[x].pc = driver[x].pc /\ driver'[x].claim = driver[x].claim
        /\ driver'[x].settled = driver[x].settled
    BY DEF Updated
  <2>6. x \notin Plain => /\ run'[x].pc = "off" <=> run[x].pc = "off"
                          /\ run'[x].usage = run[x].usage /\ run'[x].max = run[x].max
    BY <1>3, <2>1
  <2>7. KeptCall(x)
    BY <2>5, <2>6 DEF KeptCall, returned
  <2> QED BY <2>3, <2>4, <2>7
<1>6. ASSUME NEW q \in Runs PROVE RunInv(q)'
  <2>1. kids(q) \subseteq Calls
    BY KidsFinite DEF IInv
  <2>2. \A x \in kids(q) : CallInv(x) /\ Placed(x) /\ KeptCall(x)
    BY <1>5, <2>1 DEF IInv
  <2> QED BY <1>1, <1>2, <2>2, RunStays DEF IInv
<1>7. run'[Root].pc # "off"
  BY <1>3, RunsOf DEF IInv
<1> QED BY <1>1, <1>5, <1>6, <1>7 DEF IInv

-----------------------------------------------------------------------------
(* The steps of a call.                                                    *)

LEMMA ExecuteStep ==
  ASSUME IInv, NEW c \in Calls, Execute(c)
  PROVE  IInv'
<1>0. /\ plan' = plan /\ run' = run /\ sinkErr' = sinkErr /\ guard[c].pc = "pending"
      /\ Types /\ CallInv(c) /\ guard[c] \in GuardState
  BY CallTypes DEF Execute, IInv
<1>1. /\ guard[c].calls = 0 /\ guard[c].protocolErr = {} /\ driver[c].pc = "off"
  BY <1>0 DEF CallInv, Guarded
<1>2. child(c).pc = "off" /\ driver[c].count = 0 /\ ~driver[c].updateErr
  BY <1>0, <1>1, NotEntered
<1>3. CASE canceled(parent(c))
  <2> DEFINE err == notExecuted("canceled")
  <2>1. guard' = [guard EXCEPT ![c].pc = "returned", ![c].err = err] /\ driver' = driver
    BY <1>3 DEF Execute
  <2>2. err \in SUBSET Causes
    BY DEF notExecuted, Causes
  <2> HIDE DEF err
  <2>3. /\ CallInv(c)' /\ guard' \in [Calls -> GuardState]
        /\ \A x \in Calls : x # c => guard'[x] = guard[x]
        /\ guard'[c].pc = "returned"
    BY <1>0, <1>1, <1>2, <2>1, <2>2, Answering
  <2>4. KeptCall(c)
    BY <1>0, <2>1, <2>3 DEF KeptCall, returned
  <2> QED BY <1>0, <2>1, <2>3, <2>4, CallStep DEF Types
<1>4. CASE ~canceled(parent(c))
  <2> DEFINE h == [guard[c] EXCEPT !.pc = "active"]
  <2>1. guard' = [guard EXCEPT ![c] = h]
    BY <1>0, <1>4 DEF Execute, Types
  <2>2. h \in GuardState /\ h.pc = "active" /\ h.calls = 0 /\ h.protocolErr = {}
    BY <1>0, <1>1 DEF GuardState
  <2> HIDE DEF h
  <2>3. /\ guard' \in [Calls -> GuardState] /\ guard'[c] = h
        /\ \A x \in Calls : x # c => guard'[x] = guard[x]
    BY <1>0, <2>1, <2>2 DEF Types
  <2>4. CASE interceptor(c) = "none"
    <3>1. driver' = enter(c)
      BY <1>4, <2>4 DEF Execute
    <3>2. /\ CallInv(c)' /\ driver' \in [Calls -> DriverState]
          /\ \A x \in Calls : x # c => driver'[x] = driver[x]
          /\ driver'[c].claim = 0 /\ ~driver'[c].settled
      <4>1. /\ Types /\ CallInv(c) /\ driver[c].pc = "off" /\ plan' = plan /\ run' = run
            /\ guard'[c] \in GuardState /\ guard'[c].pc = "active"
            /\ interceptor(c) # "none" => guard'[c].calls > 0
            /\ guard'[c].protocolErr = {}
        BY <1>0, <1>1, <2>2, <2>3, <2>4
      <4> QED BY <3>1, <4>1, Entering
    <3>3. driver[c].claim = 0 /\ driver[c].settled = FALSE /\ driver'[c].settled \in BOOLEAN
      BY <1>0, <1>1, <3>2, NotEntered, CallTypes, DriverFields
    <3>4. KeptCall(c)
      BY <1>0, <1>2, <3>2, <3>3 DEF KeptCall, returned, child
    <3> QED BY <1>0, <1>2, <2>2, <2>3, <3>2, <3>4, CallStep
  <2>5. CASE interceptor(c) # "none"
    <3>1. driver' = driver
      BY <1>4, <2>5 DEF Execute
    <3>2. interceptor(c)' = interceptor(c) /\ child(c)' = child(c)
      BY <1>0 DEF interceptor, child
    <3>3. CallInv(c)'
      <4>1. Guarded(interceptor(c), guard'[c], driver[c])
        BY <1>1, <2>2, <2>3 DEF Guarded
      <4>2. Honest(interceptor(c), guard'[c], driver[c], child(c))
        BY <1>1, <2>2, <2>3 DEF Honest
      <4> QED BY <1>0, <3>1, <3>2, <4>1, <4>2 DEF CallInv
    <3>4. KeptCall(c)
      BY <1>0, <3>1 DEF KeptCall, returned
    <3> QED BY <1>0, <2>2, <2>3, <3>1, <3>3, <3>4, CallStep DEF Types
  <2> QED BY <2>4, <2>5
<1> QED BY <1>3, <1>4

LEMMA CallNextStep ==
  ASSUME IInv, NEW c \in Calls, CallNext(c)
  PROVE  IInv'
<1>0. /\ plan' = plan /\ run' = run /\ sinkErr' = sinkErr
      /\ Types /\ CallInv(c) /\ guard[c] \in GuardState /\ driver[c] \in DriverState
      /\ interceptor(c) # "none"
  BY CallTypes DEF CallNext, IInv
<1>1. PICK modified \in BOOLEAN : next(c, modified)
  BY DEF CallNext
<1>2. CASE returned(c)
  <2>1. guard' = guard /\ driver' = driver
    BY <1>1, <1>2 DEF next
  <2>2. child(c)' = child(c) /\ run'[parent(c)].max = run[parent(c)].max
    BY <1>0 DEF child
  <2>3. CallInv(c)'
    BY <1>0, <2>1, <2>2, CallStays
  <2>4. KeptCall(c)
    BY <1>0, <2>1 DEF KeptCall, returned
  <2> QED BY <1>0, <2>1, <2>3, <2>4, CallStep DEF Types
<1>3. CASE ~returned(c)
  <2>0. guard[c].pc = "active"
    BY <1>3 DEF CallNext
  <2> DEFINE v == violation(c, modified)
             n == guard[c].calls + 1
             h == [guard[c] EXCEPT !.calls = n, !.protocolErr = v]
  <2>1. /\ guard' = [guard EXCEPT ![c] = h]
        /\ driver' = IF v = {} THEN enter(c) ELSE driver
    BY <1>0, <1>1, <1>3 DEF next, Types
  <2>n. n \in Nat /\ n > 0
    BY <1>0, GuardFields
  <2>2. v \in SUBSET Causes /\ ("notExecuted" \in v \/ v = {} => guard[c].calls = 0)
    BY <1>0, GuardFields DEF violation, notExecuted, Causes
  <2> HIDE DEF v, n
  <2>3. h \in GuardState /\ h.pc = "active" /\ h.calls > 0 /\ h.protocolErr = v
    <3>1. h \in GuardState
      BY <1>0, <2>2, <2>n DEF GuardState
    <3>2. h.pc = "active" /\ h.calls = n /\ h.protocolErr = v
      BY <1>0, <2>0 DEF GuardState
    <3> QED BY <2>n, <3>1, <3>2
  <2> HIDE DEF h
  <2>4. /\ guard' \in [Calls -> GuardState] /\ guard'[c] = h
        /\ \A x \in Calls : x # c => guard'[x] = guard[x]
    BY <1>0, <2>1, <2>3 DEF Types
  <2>5. CASE v = {}
    <3>0. driver[c].pc = "off"
      BY <1>0, <2>2, <2>5 DEF CallInv, Guarded
    <3>1. driver' = enter(c)
      BY <2>1, <2>5
    <3>2. /\ CallInv(c)' /\ driver' \in [Calls -> DriverState]
          /\ \A x \in Calls : x # c => driver'[x] = driver[x]
          /\ driver'[c].claim = 0 /\ ~driver'[c].settled
      <4>1. /\ Types /\ CallInv(c) /\ driver[c].pc = "off" /\ plan' = plan /\ run' = run
            /\ guard'[c] \in GuardState /\ guard'[c].pc = "active"
            /\ interceptor(c) # "none" => guard'[c].calls > 0
            /\ guard'[c].protocolErr = {}
        BY <1>0, <2>3, <2>4, <2>5, <3>0
      <4> QED BY <3>1, <4>1, Entering
    <3>3. /\ driver[c].claim = 0 /\ driver[c].settled = FALSE /\ driver'[c].settled \in BOOLEAN
          /\ ~driver[c].updateErr /\ child(c).pc = "off"
      BY <1>0, <3>0, <3>2, NotEntered, DriverFields
    <3>4. KeptCall(c)
      BY <1>0, <1>3, <3>2, <3>3 DEF KeptCall, child
    <3> QED BY <1>0, <2>0, <2>3, <2>4, <3>2, <3>3, <3>4, CallStep
  <2>6. CASE v # {}
    <3>1. driver' = driver
      BY <2>1, <2>6
    <3>2. interceptor(c)' = interceptor(c) /\ child(c)' = child(c)
      BY <1>0 DEF interceptor, child
    <3>3. CallInv(c)'
      <4>0. "notExecuted" \in v => driver[c].pc = "off"
        BY <1>0, <2>2 DEF CallInv, Guarded
      <4>1. Guarded(interceptor(c), guard'[c], driver[c])
        BY <2>3, <2>4, <4>0 DEF Guarded
      <4>2. Honest(interceptor(c), guard'[c], driver[c], child(c))
        BY <1>0, <2>3, <2>4 DEF Honest, CallInv
      <4> QED BY <1>0, <3>1, <3>2, <4>1, <4>2 DEF CallInv
    <3>4. KeptCall(c)
      BY <1>0, <1>3, <3>1 DEF KeptCall
    <3> QED BY <1>0, <2>0, <2>3, <2>4, <3>1, <3>3, <3>4, CallStep DEF Types
  <2> QED BY <2>5, <2>6
<1> QED BY <1>2, <1>3

LEMMA ReturnStep ==
  ASSUME IInv, NEW c \in Calls, Return(c)
  PROVE  IInv'
<1>0. /\ plan' = plan /\ run' = run /\ sinkErr' = sinkErr /\ driver' = driver
      /\ Types /\ CallInv(c) /\ guard[c] \in GuardState /\ driver[c] \in DriverState
      /\ interceptor(c) # "none" /\ guard[c].pc = "active"
      /\ interceptor(c) # "hasty" => driver[c].pc \in {"off", "done"}
  BY CallTypes DEF Return, IInv
<1>1. PICK err \in {returnedErr(c, o) : o \in Outcomes(c)} \cup {panicErr(c)} :
        guard' = [guard EXCEPT ![c].pc = "returned", ![c].err = err]
  BY DEF Return
<1>2. \A o \in Outcomes(c) :
        /\ o \in SUBSET Causes
        /\ o = {"interceptor"} \/ (driver[c].pc = "done" /\ o = driver[c].err)
           \/ (guard[c].protocolErr # {} /\ o = guard[c].protocolErr)
           \/ ((guard[c].calls = 0 \/ interceptor(c) # "waits") /\ o = {})
  BY <1>0, DriverFields, GuardFields DEF Outcomes, Causes
<1>3. guard[c].protocolErr \in SUBSET Causes
  BY <1>0, GuardFields
<1>4. guard[c].calls = 0 => driver[c].pc = "off"
  BY <1>0 DEF CallInv, Guarded
<1>5. "notExecuted" \in guard[c].protocolErr => driver[c].pc = "off"
  BY <1>0 DEF CallInv, Guarded
<1>6. driver[c].pc = "off" => child(c).pc = "off" /\ driver[c].count = 0 /\ ~driver[c].updateErr
  BY <1>0, NotEntered
<1>7. /\ driver[c].pc = "done" /\ "notExecuted" \in driver[c].err =>
           driver[c].count = 0 /\ child(c).pc = "off"
      /\ driver[c].pc = "done" /\ driver[c].updateErr => driver[c].err = {"update"}
  BY <1>0 DEF CallInv, Honest, Driven, child, NoRun
<1>8. /\ err \in SUBSET Causes
      /\ "notExecuted" \in err => /\ driver[c].pc \in {"off", "done"} /\ driver[c].count = 0
                                  /\ child(c).pc = "off"
      /\ interceptor(c) \notin {"hasty", "masks"} /\ driver[c].updateErr => err # {} /\ "notExecuted" \notin err
  <2>1. CASE err = panicErr(c)
    BY <1>0, <1>4, <1>6, <2>1 DEF panicErr, notExecuted, Causes
  <2>2. CASE err # panicErr(c)
    <3>1. PICK o \in Outcomes(c) : err = returnedErr(c, o)
      BY <2>2
    <3>2. err \in SUBSET Causes
      BY <1>2, <1>3, <3>1 DEF returnedErr, Causes
    <3>3. "notExecuted" \in err => "notExecuted" \in guard[c].protocolErr
                                   \/ guard[c].calls = 0 \/ "notExecuted" \in o
      BY <3>1 DEF returnedErr
    <3>4. "notExecuted" \in err => driver[c].pc = "off"
                                   \/ (driver[c].pc = "done" /\ "notExecuted" \in driver[c].err)
      BY <1>2, <1>4, <1>5, <3>3
    <3>5. o # {} => err # {}
      BY <3>1 DEF returnedErr
    <3>6. driver[c].updateErr /\ interceptor(c) = "waits" => o # {}
      BY <1>2, <1>4, <1>6, <1>7
    <3>7. interceptor(c) \notin {"hasty", "masks"} => interceptor(c) = "waits"
      BY <1>0, PlanTypes
    <3> QED BY <1>0, <1>6, <1>7, <3>2, <3>4, <3>5, <3>6, <3>7
  <2> QED BY <2>1, <2>2
<1>9. /\ CallInv(c)' /\ guard' \in [Calls -> GuardState]
      /\ \A x \in Calls : x # c => guard'[x] = guard[x]
      /\ guard'[c].pc = "returned"
  BY <1>0, <1>1, <1>8, Answering
<1>10. KeptCall(c)
  BY <1>0, <1>9 DEF KeptCall, returned
<1> QED BY <1>0, <1>9, <1>10, CallStep DEF Types

-----------------------------------------------------------------------------
(* The steps of a driver.                                                  *)

\* A driver's answer.
LEMMA Answer ==
  ASSUME NEW c \in Calls, driver[c] \in DriverState, NEW err \in SUBSET Causes
  PROVE  /\ answer(c, err) \in DriverState
         /\ answer(c, err).pc = "finish" /\ answer(c, err).err = err
         /\ answer(c, err).count = driver[c].count /\ answer(c, err).claim = driver[c].claim
         /\ answer(c, err).closed = driver[c].closed /\ answer(c, err).settled = driver[c].settled
         /\ answer(c, err).updateErr = driver[c].updateErr
BY DEF answer, DriverState

\* A move that keeps the reservation, of a driver without a run.
LEMMA QuietMove ==
  ASSUME IInv, NEW c \in Calls, plan' = plan, run' = run, sinkErr' = sinkErr, guard' = guard,
         NEW e \in DriverState, driver' = [driver EXCEPT ![c] = e],
         driver[c].pc \notin {"off", "done"}, e.pc \notin {"off", "done"},
         e.claim = driver[c].claim, e.settled = driver[c].settled,
         e.updateErr = driver[c].updateErr, child(c).pc = "off",
         Driven(c, e, child(c)), Reserved(c, e, child(c), run[parent(c)].max)
  PROVE  IInv'
<1>0. Types /\ CallInv(c)
  BY DEF IInv
<1>1. child(c)' = child(c)
  BY DEF child
<1>2. /\ CallInv(c)' /\ driver' \in [Calls -> DriverState] /\ driver'[c] = e
      /\ \A x \in Calls : x # c => driver'[x] = driver[x]
  BY <1>0, <1>1, Moving
<1>3. KeptCall(c)
  BY <1>2 DEF KeptCall, returned, child
<1> QED BY <1>0, <1>2, <1>3, CallStep DEF Types

\* A driver answers without a run.
LEMMA Refusal ==
  ASSUME IInv, NEW c \in Calls, plan' = plan, run' = run, sinkErr' = sinkErr, guard' = guard,
         driver[c].pc \in {"validate", "reserve"} \/ (c \in Plain /\ driver[c].pc = "running"),
         NEW err \in SUBSET Causes, driver' = [driver EXCEPT ![c] = answer(c, err)]
  PROVE  IInv'
<1> DEFINE e == answer(c, err)
           d == driver[c]
           s == child(c)
<1>0. d \in DriverState /\ Driven(c, d, s) /\ Reserved(c, d, s, run[parent(c)].max)
  BY CallTypes DEF IInv, CallInv
<1>1. /\ e \in DriverState /\ e.pc = "finish" /\ e.err = err /\ e.count = d.count
      /\ e.claim = d.claim /\ e.closed = d.closed /\ e.settled = d.settled
      /\ e.updateErr = d.updateErr
  BY <1>0, Answer
<1>2. s.pc = "off" /\ (c \in Plain => s = NoRun)
  BY <1>0 DEF Driven, child, NoRun
<1>3. d.pc \in {"validate", "reserve"} \/ (c \in Plain /\ d.pc = "running")
  OBVIOUS
<1>4. driver' = [driver EXCEPT ![c] = e]
  OBVIOUS
<1> HIDE DEF e, d, s
<1>5. Driven(c, e, s)
  BY <1>0, <1>1, <1>2, <1>3 DEF Driven
<1>6. Reserved(c, e, s, run[parent(c)].max)
  BY <1>0, <1>1, <1>2, <1>3 DEF Reserved, Driven
<1>7. d.pc \notin {"off", "done"} /\ e.pc \notin {"off", "done"}
  BY <1>1, <1>3
<1> QED BY <1>1, <1>2, <1>4, <1>5, <1>6, <1>7, QuietMove DEF d, s

LEMMA ValidateStep ==
  ASSUME IInv, NEW c \in Calls, Validate(c)
  PROVE  IInv'
<1>0. /\ driver[c].pc = "validate" /\ plan' = plan /\ run' = run /\ sinkErr' = sinkErr
      /\ guard' = guard
  BY DEF Validate
<1>1. {} \in SUBSET Causes /\ notExecuted("canceled") \in SUBSET Causes
  BY DEF notExecuted, Causes
<1>2. CASE driver' = [driver EXCEPT ![c] = answer(c, {})]
  BY <1>0, <1>1, <1>2, Refusal
<1>3. CASE driver' = [driver EXCEPT ![c] = answer(c, notExecuted("canceled"))]
  BY <1>0, <1>1, <1>3, Refusal
<1>4. CASE moveTo(c, IF tracker(c) THEN "reserve" ELSE "start")
  <2> DEFINE pc == IF tracker(c) THEN "reserve" ELSE "start"
             d == driver[c]
             e == [d EXCEPT !.pc = pc]
             s == child(c)
             max == run[parent(c)].max
  <2>0. d \in DriverState /\ Driven(c, d, s) /\ Reserved(c, d, s, max)
        /\ d.pc = "validate"
    BY <1>0, CallTypes DEF IInv, CallInv
  <2>1. driver' = [driver EXCEPT ![c] = e]
    BY <1>4 DEF moveTo, IInv, Types
  <2>2. pc \in {"reserve", "start"} /\ (pc = "start" => ~(max > 0))
    BY DEF tracker, bounded
  <2>3. s.pc = "off" /\ (c \in Plain => s = NoRun)
    BY <2>0 DEF Driven, child, NoRun
  <2> HIDE DEF pc, d, s, max
  <2>4. /\ e \in DriverState /\ e.pc = pc /\ e.err = d.err /\ e.count = d.count
        /\ e.claim = d.claim /\ e.closed = d.closed /\ e.settled = d.settled
        /\ e.updateErr = d.updateErr
    BY <2>0, <2>2 DEF DriverState
  <2> HIDE DEF e
  <2>5. Driven(c, e, s)
    BY <2>0, <2>2, <2>3, <2>4 DEF Driven
  <2>6. Reserved(c, e, s, max)
    BY <2>0, <2>2, <2>3, <2>4 DEF Reserved, Driven
  <2>7. d.pc \notin {"off", "done"} /\ e.pc \notin {"off", "done"}
    BY <2>0, <2>2, <2>4
  <2> QED BY <1>0, <2>1, <2>3, <2>4, <2>5, <2>6, <2>7, QuietMove DEF d, s, max
<1> QED BY <1>2, <1>3, <1>4 DEF Validate

LEMMA PlainReturnStep ==
  ASSUME IInv, NEW c \in Calls, PlainReturn(c)
  PROVE  IInv'
<1>1. PICK err \in {{}, {"driver"}, {"notExecuted", "driver"}, {"mismatch"}} :
        driver' = [driver EXCEPT ![c] = answer(c, err)]
  BY DEF PlainReturn
<1>2. err \in SUBSET Causes
  BY <1>1 DEF Causes
<1> QED BY <1>1, <1>2, Refusal DEF PlainReturn

LEMMA FinishStep ==
  ASSUME IInv, NEW c \in Calls, Finish(c)
  PROVE  IInv'
<1> DEFINE d == driver[c]
           err == finished(c)
           e == [d EXCEPT !.pc = "done", !.closed = TRUE, !.err = err]
           s == child(c)
           i == interceptor(c)
           g == guard[c]
           h == guard'[c]
           max == run[parent(c)].max
<1>0. /\ Types /\ plan' = plan /\ run' = run /\ sinkErr' = sinkErr /\ d.pc = "finish"
      /\ d \in DriverState /\ g \in GuardState
      /\ Guarded(i, g, d) /\ Driven(c, d, s) /\ Honest(i, g, d, s) /\ Reserved(c, d, s, max)
  BY CallTypes DEF Finish, IInv, CallInv
<1>1. driver' = [driver EXCEPT ![c] = e]
  BY <1>0 DEF Finish, Types
<1>2. /\ err \in SUBSET Causes
      /\ "notExecuted" \in err => "notExecuted" \in d.err /\ d.count = 0 /\ ~d.updateErr
      /\ d.updateErr => err = {"update"}
  BY <1>0, DriverFields DEF finished, normalizeUpdatedResult, Causes
<1>3. /\ interceptor(c)' = i /\ child(c)' = s /\ run'[parent(c)].max = max
      /\ (c \in Plain => s = NoRun) /\ NoRun.pc = "off"
  BY <1>0 DEF interceptor, child, NoRun
<1>4. /\ guard' \in [Calls -> GuardState]
      /\ \A x \in Calls : x # c => guard'[x] = guard[x]
      /\ IF i = "none" THEN /\ h.pc = "returned" /\ h.err = err
                            /\ h.calls = g.calls /\ h.protocolErr = g.protocolErr
         ELSE h = g
  <2>1. CASE i = "none"
    <3> DEFINE k == [g EXCEPT !.pc = "returned", !.err = err]
    <3>1. guard' = [guard EXCEPT ![c] = k]
      BY <1>0, <2>1 DEF Finish, Types
    <3> HIDE DEF err
    <3>2. /\ k \in GuardState /\ k.pc = "returned" /\ k.err = err
          /\ k.calls = g.calls /\ k.protocolErr = g.protocolErr
      BY <1>0, <1>2 DEF GuardState
    <3> HIDE DEF k
    <3> QED BY <1>0, <2>1, <3>1, <3>2 DEF Types
  <2>2. CASE i # "none"
    BY <1>0, <2>2 DEF Finish, Types
  <2> QED BY <2>1, <2>2
<1> HIDE DEF err, d, s, i, g, max
<1>5. /\ e \in DriverState /\ e.pc = "done" /\ e.closed /\ e.err = err /\ e.count = d.count
      /\ e.updateErr = d.updateErr /\ e.claim = d.claim /\ e.settled = d.settled
  BY <1>0, <1>2 DEF DriverState
<1> HIDE DEF e, h
<1>6. /\ driver' \in [Calls -> DriverState] /\ driver'[c] = e
      /\ \A x \in Calls : x # c => driver'[x] = driver[x]
  BY <1>0, <1>1, <1>5 DEF Types
<1>7. Guarded(i, h, e)
  BY <1>0, <1>4, <1>5 DEF Guarded
<1>8. Driven(c, e, s)
  BY <1>0, <1>2, <1>3, <1>5 DEF Driven
<1>9. Honest(i, h, e, s)
  <2>1. "notExecuted" \in err => s.pc = "off"
    BY <1>0, <1>2, <1>3 DEF Driven
  <2>2. CASE i = "none"
    BY <1>2, <1>4, <1>5, <2>1, <2>2 DEF Honest
  <2>3. CASE i # "none"
    <3>1. g.pc = "returned" => "notExecuted" \notin g.err /\ i = "hasty"
      BY <1>0 DEF Honest, Guarded
    <3> QED BY <1>2, <1>4, <1>5, <2>3, <3>1 DEF Honest
  <2> QED BY <2>2, <2>3
<1>10. Reserved(c, e, s, max)
  BY <1>0, <1>5 DEF Reserved
<1>11. CallInv(c)'
  BY <1>3, <1>6, <1>7, <1>8, <1>9, <1>10 DEF CallInv, h
<1>12. KeptCall(c)
  BY <1>0, <1>4, <1>5, <1>6 DEF KeptCall, returned, d, g, h
<1>13. g.pc # "off" /\ (h.pc \in {"pending", "active"} => g.pc \in {"pending", "active"})
  BY <1>0, <1>4 DEF Guarded
<1> QED BY <1>0, <1>4, <1>5, <1>6, <1>11, <1>12, <1>13, CallStep DEF d, g, h

-----------------------------------------------------------------------------
(* The steps of a driver that its parent sees.                             *)

\* The usage of the children that were reported is the same, unless the
\* driver of c reports.
LEMMA ReportedStays ==
  ASSUME IInv, NEW c \in Calls, plan' = plan,
         \A x \in Calls : x # c => driver'[x] = driver[x],
         \A r \in Runs : run'[r].pc = run[r].pc /\ run'[r].usage = run[r].usage,
         started(c) /\ c \notin Plain => (driver'[c].pc \in {"finish", "done"} <=>
                                          driver[c].pc \in {"finish", "done"})
  PROVE  total(reported(parent(c))', usages') = total(reported(parent(c)), usages)
<1> DEFINE p == parent(c)
<1>1. kids(p)' = kids(p) /\ kids(p) \subseteq Calls
  BY AwaitedStays, KidsFinite DEF IInv
<1>2. \A x \in Calls : x \notin Plain => /\ started(x)' = started(x)
                                         /\ run'[x].usage = run[x].usage
  BY RunsOf DEF started
<1>3. usages' = usages
  BY <1>2 DEF usages, used
<1>4. children(p)' = children(p) /\ children(p) \subseteq Calls \ Plain
  BY <1>1, <1>2 DEF children
<1>5. reported(p)' = reported(p)
  BY <1>4 DEF reported, children
<1> QED BY <1>3, <1>5

\* A run whose pool changes.
PoolChange(p, remaining, gate) ==
  run' = [run EXCEPT ![p].remaining = remaining, ![p].gate = gate]

LEMMA PoolFields ==
  ASSUME Types, NEW p \in Runs, NEW n \in Nat, NEW b \in BOOLEAN, PoolChange(p, n, b)
  PROVE  /\ run' \in [Runs -> RunState]
         /\ \A r \in Runs : r # p => run'[r] = run[r]
         /\ SameCounters(run[p], run'[p]) /\ run'[p].pc = run[p].pc /\ run'[p].err = run[p].err
         /\ run'[p].remaining = n /\ run'[p].gate = b /\ run'[p].collector = run[p].collector
         /\ \A r \in Runs : /\ run'[r].pc = run[r].pc /\ run'[r].usage = run[r].usage
                            /\ run'[r].max = run[r].max
<1> DEFINE s == [run[p] EXCEPT !.remaining = n, !.gate = b]
<1>0. run[p] \in RunState
  BY DEF Types
<1>1. run' = [run EXCEPT ![p] = s]
  BY DEF PoolChange, Types
<1>2. s \in RunState
  BY <1>0 DEF RunState
<1>3. /\ s.pc = run[p].pc /\ s.max = run[p].max /\ s.usage = run[p].usage /\ s.own = run[p].own
      /\ s.dispatched = run[p].dispatched /\ s.err = run[p].err
      /\ s.remaining = n /\ s.gate = b /\ s.collector = run[p].collector
  BY <1>0 DEF RunState
<1> HIDE DEF s
<1>4. run' \in [Runs -> RunState] /\ run'[p] = s /\ \A r \in Runs : r # p => run'[r] = run[r]
  BY <1>1, <1>2 DEF Types
<1> QED BY <1>3, <1>4 DEF SameCounters

LEMMA ReserveStep ==
  ASSUME IInv, NEW c \in Calls, Reserve(c)
  PROVE  IInv'
<1> DEFINE p == parent(c)
           k == claimOf(c)
           d == driver[c]
           e == [d EXCEPT !.pc = "start", !.claim = k]
           s == child(c)
<1>0. /\ d.pc = "reserve" /\ plan' = plan /\ sinkErr' = sinkErr /\ guard' = guard
      /\ Types /\ CallInv(c) /\ Placed(c) /\ p \in Runs /\ run[p] \in RunState /\ d \in DriverState
  BY CallPath, CallTypes DEF Reserve, IInv
<1>1. \A x \in {"canceled", "exhausted"} : notExecuted(x) \in SUBSET Causes
  BY DEF notExecuted, Causes
<1>2. CASE \E x \in {"canceled", "exhausted"} :
             driver' = [driver EXCEPT ![c] = answer(c, notExecuted(x))] /\ run' = run
  BY <1>0, <1>1, <1>2, Refusal
<1>3. CASE /\ ~canceled(c) /\ ~run[p].gate /\ run[p].remaining > 0
           /\ driver' = [driver EXCEPT ![c].pc = "start", ![c].claim = k]
           /\ run' = [run EXCEPT ![p].gate = TRUE, ![p].remaining = @ - k]
  <2>1. run[p].remaining \in Nat /\ Budget[c] \in Nat
    BY <1>0, RunFields, DelegationAssumption
  <2>2. k \in Nat /\ k > 0 /\ k <= run[p].remaining
    BY <1>3, <2>1 DEF claimOf
  <2> DEFINE n == run[p].remaining - k
  <2>3. n \in Nat
    BY <2>1, <2>2
  <2>4. PoolChange(p, n, TRUE)
    BY <1>0, <1>3 DEF PoolChange, Types
  <2>5. driver' = [driver EXCEPT ![c] = e]
    BY <1>0, <1>3 DEF Types
  <2>6. Driven(c, d, s) /\ Reserved(c, d, s, run[p].max)
    BY <1>0 DEF CallInv
  <2>n. run[p].remaining = n + k
    BY <2>1, <2>2
  <2>b. ~run[p].gate /\ run[p].gate \in BOOLEAN
    BY <1>0, <1>3, RunFields
  <2> HIDE DEF k, n, d, s, p
  <2>7. /\ e \in DriverState /\ e.pc = "start" /\ e.claim = k /\ e.settled = d.settled
        /\ e.closed = d.closed /\ e.err = d.err /\ e.count = d.count /\ e.updateErr = d.updateErr
    BY <1>0, <2>2 DEF DriverState
  <2> HIDE DEF e
  <2>8. s.pc = "off" /\ ~d.settled
    BY <1>0, <2>6 DEF Driven, Reserved, child, NoRun
  <2>9. Driven(c, e, s)
    BY <1>0, <2>6, <2>7, <2>8 DEF Driven
  <2>10. Reserved(c, e, s, run[p].max)
    BY <2>2, <2>7, <2>8 DEF Reserved
  <2>11. /\ run' \in [Runs -> RunState] /\ \A r \in Runs : r # p => run'[r] = run[r]
    BY <1>0, <2>3, <2>4, PoolFields
  <2>12. /\ SameCounters(run[p], run'[p]) /\ run'[p].pc = run[p].pc /\ run'[p].err = run[p].err
         /\ run'[p].remaining = n /\ run'[p].gate /\ run'[p].collector = run[p].collector
         /\ run'[p].max = run[p].max /\ run'[p].usage = run[p].usage
    BY <1>0, <2>3, <2>4, PoolFields
  <2>13. \A r \in Runs : run'[r].pc = run[r].pc /\ run'[r].usage = run[r].usage
    BY <1>0, <2>3, <2>4, PoolFields
  <2>14. driver'[c] = e /\ \A x \in Calls : x # c => driver'[x] = driver[x]
    BY <1>0, <2>5 DEF Types
  <2>15. ~(started(c) /\ c \notin Plain)
    BY <2>8 DEF started, s, child
  <2>16. total(reported(p)', usages') = total(reported(p), usages)
    BY <1>0, <2>13, <2>14, <2>15, ReportedStays DEF p
  <2>17. Pooled(p)'
    <3> SUFFICES ASSUME bounded(p), run[p].pc = "batch"
                 PROVE  /\ run'[p].remaining + total(openClaims(p)', claims')
                             + total(settledClaims(p)', spent') = run'[p].max - run'[p].usage
                        /\ \A x, y \in openClaims(p)' : x = y
      BY <2>12 DEF Pooled, bounded
    <3>1. kids(p)' = kids(p) /\ kids(p) \subseteq Calls /\ c \in kids(p)
      BY <1>0, AwaitedStays, KidsFinite, AboveStarted DEF p, d
    <3>2. /\ openClaims(p) = {} /\ RunInv(p)
          /\ run[p].remaining + total({}, claims) + total(settledClaims(p), spent)
               = run[p].max - run[p].usage
      BY <1>0, <2>b DEF IInv, RunInv, Pooled
    <3>3. openClaims(p)' = {c}
      BY <2>2, <2>7, <2>8, <2>14, <3>1, <3>2 DEF openClaims
    <3>4. settledClaims(p)' = settledClaims(p) /\ c \notin settledClaims(p)
      BY <2>7, <2>8, <2>14, <3>1 DEF settledClaims, d
    <3>5. ASSUME NEW x \in settledClaims(p) PROVE spent'[x] = spent[x]
      <4>1. x \in Calls /\ x # c /\ (x \notin Plain => x \in Runs)
        BY <3>1, <3>4, RunsOf DEF settledClaims
      <4>2. used(x)' = used(x) /\ driver'[x].claim = driver[x].claim
        BY <2>13, <2>14, <4>1 DEF used
      <4>3. spentOf(x, used(x))' = spentOf(x, used(x))
        BY <4>2 DEF spentOf
      <4> QED BY <4>1, <4>3 DEF spent
    <3>6. total(settledClaims(p)', spent') = total(settledClaims(p), spent)
      BY <3>4, <3>5, TotalSame
    <3>7. total(openClaims(p)', claims') = total({}, claims) + k
      <4>1. claims'[c] = k
        BY <2>7, <2>14 DEF claims
      <4>2. total({} \cup {c}, claims') = total({}, claims') + claims'[c]
        BY <2>2, <4>1, TotalAdd, FS_EmptySet
      <4>3. total({}, claims') = 0 /\ total({}, claims) = 0
        BY TotalEmpty
      <4>4. {} \cup {c} = {c}
        OBVIOUS
      <4> QED BY <2>2, <3>3, <4>1, <4>2, <4>3, <4>4
    <3>8. total(settledClaims(p), spent) \in Nat /\ total({}, claims) = 0
      BY <1>0, KidsFinite, TotalType, TotalEmpty DEF settledClaims
    <3>9. run[p].max \in Nat /\ run[p].usage \in Nat
      BY <1>0, RunFields
    <3>10. n + (total({}, claims) + k) + total(settledClaims(p), spent) = run[p].max - run[p].usage
      BY <2>2, <2>3, <2>n, <3>2, <3>8, <3>9
    <3> QED BY <2>12, <3>3, <3>6, <3>7, <3>10
  <2>18. run[p].pc = "batch" /\ kids(p) \subseteq awaited =>
           run'[p].collector = total(reported(p)', usages')
    BY <1>0, <2>12, <2>16 DEF IInv, RunInv, Charged
  <2>19. d.pc \notin {"off", "done"} /\ e.pc \notin {"off", "done"} /\ e.updateErr = d.updateErr
    BY <1>0, <2>7
  <2> QED BY <1>0, <2>5, <2>7, <2>9, <2>10, <2>11, <2>12, <2>17, <2>18, <2>19, PoolStep DEF p, d, s
<1> QED BY <1>2, <1>3 DEF Reserve

\* The reservation of c is settled with what its run has used.
LEMMA Settling ==
  ASSUME IInv, NEW c \in Calls, c \notin Plain, plan' = plan, sinkErr' = sinkErr, guard' = guard,
         driver[c].pc \in {"start", "running"},
         NEW e \in DriverState, driver' = [driver EXCEPT ![c] = e],
         e.pc \notin {"off", "done"}, e.claim = driver[c].claim, e.settled,
         e.updateErr = driver[c].updateErr,
         child(c).pc = "off" \/ e.pc = "report",
         Driven(c, e, child(c)), Reserved(c, e, child(c), run[parent(c)].max),
         run' = settle(c, used(c))
  PROVE  IInv'
<1> DEFINE p == parent(c)
           d == driver[c]
           k == driver[c].claim
           u == spentOf(c, used(c))
           n == run[p].remaining + (k - u)
<1>0. /\ Types /\ CallInv(c) /\ Placed(c) /\ p \in Runs /\ run[p] \in RunState /\ d \in DriverState
      /\ child(c) \in RunState /\ child(c) = run[c]
  BY CallPath, CallTypes DEF IInv
<1>1. k \in Nat /\ run[p].remaining \in Nat /\ used(c) \in Nat
  BY <1>0, DriverFields, RunFields DEF used
<1>2. u \in Nat /\ u <= k
  BY <1>1 DEF spentOf
<1>3. n \in Nat /\ run[p].remaining + k - u = n
  BY <1>1, <1>2
<1>4. tracker(c) => PoolChange(p, n, FALSE)
  <2>1. run[p].remaining + driver[c].claim - spentOf(c, used(c)) = n
    BY <1>3
  <2> QED BY <1>0, <2>1 DEF PoolChange, settle, Types
<1>5. ~tracker(c) => run' = run
  BY DEF settle
<1>6. driver'[c] = e /\ \A x \in Calls : x # c => driver'[x] = driver[x]
  BY <1>0 DEF Types
<1>d. d.pc \in {"start", "running"} /\ ~d.settled
  BY <1>0 DEF CallInv, Reserved
<1> HIDE DEF n, u, p
<1>7. /\ run' \in [Runs -> RunState] /\ \A r \in Runs : r # p => run'[r] = run[r]
  BY <1>0, <1>3, <1>4, <1>5, PoolFields DEF Types
<1>8. /\ SameCounters(run[p], run'[p]) /\ run'[p].pc = run[p].pc /\ run'[p].err = run[p].err
      /\ run'[p].collector = run[p].collector
      /\ run'[p].max = run[p].max /\ run'[p].usage = run[p].usage
      /\ tracker(c) => run'[p].remaining = n
  BY <1>0, <1>3, <1>4, <1>5, PoolFields DEF SameCounters
<1>9. \A r \in Runs : run'[r].pc = run[r].pc /\ run'[r].usage = run[r].usage
  BY <1>0, <1>3, <1>4, <1>5, PoolFields
<1>10. started(c) /\ c \notin Plain => (driver'[c].pc \in {"finish", "done"} <=>
                                        driver[c].pc \in {"finish", "done"})
  BY <1>0, <1>6, <1>d DEF started
<1>11. total(reported(p)', usages') = total(reported(p), usages)
  BY <1>6, <1>9, <1>10, ReportedStays DEF p
<1>12. Pooled(p)'
  <2> SUFFICES ASSUME bounded(p), run[p].pc = "batch"
               PROVE  /\ run'[p].remaining + total(openClaims(p)', claims')
                           + total(settledClaims(p)', spent') = run'[p].max - run'[p].usage
                      /\ openClaims(p)' = {}
    BY <1>8 DEF Pooled, bounded
  <2>0. tracker(c) /\ run'[p].remaining = n
    BY <1>8 DEF tracker, p
  <2>1. kids(p)' = kids(p) /\ kids(p) \subseteq Calls /\ c \in kids(p)
    BY <1>0, <1>d, AwaitedStays, KidsFinite, AboveStarted DEF p, d
  <2>2. k > 0
    BY <1>0, <1>d DEF CallInv, Reserved, bounded, p
  <2>3. c \in openClaims(p)
    BY <1>d, <2>1, <2>2 DEF openClaims
  <2>4. /\ \A x, y \in openClaims(p) : x = y
        /\ run[p].remaining + total(openClaims(p), claims) + total(settledClaims(p), spent)
             = run[p].max - run[p].usage
    BY <1>0 DEF IInv, RunInv, Pooled
  <2>5. openClaims(p) = {c}
    BY <2>3, <2>4
  <2>6. openClaims(p)' = {}
    BY <1>6, <2>1, <2>5 DEF openClaims
  <2>7. settledClaims(p)' = settledClaims(p) \cup {c} /\ c \notin settledClaims(p)
    BY <1>6, <1>d, <2>1 DEF settledClaims
  <2>8. \A x \in settledClaims(p) \cup {c} : spent'[x] = spent[x] /\ x \in Calls
    <3> TAKE x \in settledClaims(p) \cup {c}
    <3>1. x \in Calls /\ (x \notin Plain => x \in Runs)
      BY <2>1, RunsOf DEF settledClaims
    <3>2. used(x)' = used(x) /\ driver'[x].claim = driver[x].claim
      BY <1>6, <1>9, <3>1 DEF used
    <3>3. spentOf(x, used(x))' = spentOf(x, used(x))
      BY <3>2 DEF spentOf
    <3> QED BY <3>1, <3>3 DEF spent
  <2>9. total(settledClaims(p)', spent') = total(settledClaims(p) \cup {c}, spent)
    BY <2>7, <2>8, TotalSame
  <2>10. /\ IsFiniteSet(settledClaims(p)) /\ \A x \in settledClaims(p) \cup {c} : spent[x] \in Nat
    <3>1. settledClaims(p) \cup {c} \subseteq kids(p)
      BY <2>1 DEF settledClaims
    <3> QED BY <1>0, <3>1, KidsFinite
  <2>11. /\ total(settledClaims(p) \cup {c}, spent) = total(settledClaims(p), spent) + spent[c]
         /\ total(settledClaims(p), spent) \in Nat
    <3> DEFINE S == settledClaims(p)
    <3>1. IsFiniteSet(S) /\ c \notin S /\ \A x \in S \cup {c} : spent[x] \in Nat
      BY <2>7, <2>10
    <3>2. total(S \cup {c}, spent) = total(S, spent) + spent[c]
      <4> HIDE DEF S
      <4> QED BY <3>1, TotalAdd
    <3>3. total(S, spent) \in Nat
      <4> HIDE DEF S
      <4> QED BY <3>1, TotalType
    <3> QED BY <3>2, <3>3
  <2>12. spent[c] = u /\ claims[c] = k
    BY DEF spent, claims, u
  <2>13. total(openClaims(p), claims) = k
    <3>1. total({} \cup {c}, claims) = total({}, claims) + claims[c]
      BY <1>1, <2>12, TotalAdd, FS_EmptySet
    <3>2. total({}, claims) = 0 /\ {} \cup {c} = {c}
      BY TotalEmpty
    <3> QED BY <1>1, <2>5, <2>12, <3>1, <3>2
  <2>14. total(openClaims(p)', claims') = 0
    BY <2>6, TotalEmpty
  <2>15. run[p].max \in Nat /\ run[p].usage \in Nat
    BY <1>0, RunFields
  <2>16. n = run[p].remaining + (k - u)
    BY DEF n
  <2>17. n + 0 + (total(settledClaims(p), spent) + u) = run[p].max - run[p].usage
    BY <1>1, <1>2, <2>4, <2>11, <2>13, <2>15, <2>16
  <2> QED BY <1>8, <2>0, <2>6, <2>9, <2>11, <2>12, <2>14, <2>17
<1>13. run[p].pc = "batch" /\ kids(p) \subseteq awaited =>
         run'[p].collector = total(reported(p)', usages')
  BY <1>0, <1>8, <1>11 DEF IInv, RunInv, Charged
<1>14. driver[c].pc \notin {"off", "done"}
  BY <1>d
<1> QED BY <1>7, <1>8, <1>12, <1>13, <1>14, PoolStep DEF p

LEMMA SettleStep ==
  ASSUME IInv, NEW c \in Calls, Settle(c)
  PROVE  IInv'
<1> DEFINE d == driver[c]
           e == [d EXCEPT !.pc = "report", !.settled = TRUE]
           s == child(c)
           max == run[parent(c)].max
<1>0. /\ c \notin Plain /\ d.pc = "running" /\ s.pc = "ended" /\ plan' = plan /\ sinkErr' = sinkErr
      /\ guard' = guard /\ d \in DriverState /\ Driven(c, d, s) /\ Reserved(c, d, s, max)
  BY CallTypes DEF Settle, child, IInv, CallInv
<1>1. driver' = [driver EXCEPT ![c] = e] /\ run' = settle(c, used(c))
  BY <1>0 DEF Settle, IInv, Types, used
<1> HIDE DEF d, s, max
<1>2. /\ e \in DriverState /\ e.pc = "report" /\ e.settled /\ e.claim = d.claim
      /\ e.closed = d.closed /\ e.err = d.err /\ e.count = d.count /\ e.updateErr = d.updateErr
  BY <1>0 DEF DriverState
<1> HIDE DEF e
<1>3. Driven(c, e, s)
  BY <1>0, <1>2 DEF Driven
<1>4. Reserved(c, e, s, max)
  BY <1>0, <1>2 DEF Reserved
<1>5. e.pc \notin {"off", "done"} /\ d.pc \in {"start", "running"}
  BY <1>0, <1>2
<1> QED BY <1>0, <1>1, <1>2, <1>3, <1>4, <1>5, Settling DEF d, s, max

\* The depth and the ceiling of a child are naturals.
LEMMA ChildType ==
  ASSUME Types, NEW c \in Calls
  PROVE  /\ NewRun(childBudget(c), effectiveMaxDepth(c)) \in RunState
         /\ NewRun(childBudget(c), effectiveMaxDepth(c)).pc = "turn"
         /\ NewRun(childBudget(c), effectiveMaxDepth(c)).max = childBudget(c)
         /\ NewRun(childBudget(c), effectiveMaxDepth(c)).usage = 0
         /\ NewRun(childBudget(c), effectiveMaxDepth(c)).own = 0
         /\ NewRun(childBudget(c), effectiveMaxDepth(c)).dispatched = FALSE
<1> DEFINE k == childBudget(c)
           m == effectiveMaxDepth(c)
<1>1. run[parent(c)] \in RunState /\ driver[c] \in DriverState /\ MaxDepth[c] \in Nat /\ Budget[c] \in Nat
  BY CallTypes, DelegationAssumption
<1>2. k \in Nat /\ m \in Nat
  BY <1>1, RunFields, DriverFields DEF childBudget, effectiveMaxDepth
<1> HIDE DEF k, m
<1>3. /\ NewRun(k, m) \in RunState /\ NewRun(k, m).pc = "turn" /\ NewRun(k, m).max = k
      /\ NewRun(k, m).usage = 0 /\ NewRun(k, m).own = 0 /\ NewRun(k, m).dispatched = FALSE
  BY <1>2 DEF NewRun, NoRun, RunState
<1> QED BY <1>3 DEF k, m

LEMMA StartStep ==
  ASSUME IInv, NEW c \in Calls, Start(c)
  PROVE  IInv'
<1> DEFINE p == parent(c)
           d == driver[c]
           s == child(c)
           max == run[p].max
<1>0. /\ d.pc = "start" /\ plan' = plan /\ sinkErr' = sinkErr /\ guard' = guard
      /\ Types /\ CallInv(c) /\ Placed(c) /\ p \in Runs /\ p # c /\ d \in DriverState
      /\ Driven(c, d, s) /\ Reserved(c, d, s, max)
  BY CallPath, CallTypes DEF Start, IInv, CallInv
<1>1. c \notin Plain /\ c \in Runs /\ s = run[c] /\ s.pc = "off" /\ s = NoRun /\ ~d.settled
  BY <1>0, RunsOf DEF Driven, Reserved, child
<1>2. CASE canceled(c)
  <2> DEFINE a == answer(c, notExecuted("canceled"))
             e == [a EXCEPT !.settled = TRUE]
  <2>1. notExecuted("canceled") \in SUBSET Causes
    BY DEF notExecuted, Causes
  <2>2. used(c) = 0
    BY <1>1 DEF used, NoRun
  <2>3. driver' = [driver EXCEPT ![c] = e] /\ run' = settle(c, used(c))
    BY <1>2, <2>2 DEF Start
  <2>4. /\ a \in DriverState /\ a.pc = "finish" /\ a.err = notExecuted("canceled")
        /\ a.count = d.count /\ a.claim = d.claim
        /\ a.closed = d.closed /\ a.updateErr = d.updateErr
    BY <1>0, <2>1, Answer
  <2> HIDE DEF a, d, s, max, p
  <2>5. /\ e \in DriverState /\ e.pc = "finish" /\ e.settled /\ e.claim = d.claim
        /\ e.closed = d.closed /\ e.count = d.count /\ e.updateErr = d.updateErr
    BY <2>4 DEF DriverState
  <2> HIDE DEF e
  <2>6. Driven(c, e, s)
    BY <1>0, <1>1, <2>5 DEF Driven
  <2>7. Reserved(c, e, s, max)
    BY <1>0, <1>1, <2>5 DEF Reserved
  <2>8. e.pc \notin {"off", "done"} /\ d.pc \in {"start", "running"}
    BY <1>0, <2>5
  <2> QED BY <1>0, <1>1, <2>3, <2>5, <2>6, <2>7, <2>8, Settling DEF d, s, max, p
<1>3. CASE ~canceled(c)
  <2> DEFINE e == [d EXCEPT !.pc = "running"]
             t == NewRun(childBudget(c), effectiveMaxDepth(c))
  <2>1. driver' = [driver EXCEPT ![c] = e] /\ run' = [run EXCEPT ![c] = t]
    BY <1>0, <1>3 DEF Start, moveTo, Types
  <2>2. /\ t \in RunState /\ t.pc = "turn" /\ t.max = childBudget(c) /\ t.usage = 0 /\ t.own = 0
        /\ t.dispatched = FALSE
    BY <1>0, ChildType
  <2>3. max > 0 => t.max = d.claim /\ d.claim > 0
    BY <1>0, <1>1, <2>2 DEF childBudget, tracker, bounded, Reserved
  <2> HIDE DEF t, d, s, p, max
  <2>4. /\ e \in DriverState /\ e.pc = "running" /\ e.settled = d.settled /\ e.claim = d.claim
        /\ e.closed = d.closed /\ e.count = d.count /\ e.updateErr = d.updateErr /\ e.err = d.err
    BY <1>0 DEF DriverState
  <2> HIDE DEF e
  <2>5. /\ run' \in [Runs -> RunState] /\ run'[c] = t
        /\ \A r \in Runs : r # c => run'[r] = run[r]
    BY <1>0, <1>1, <2>1, <2>2 DEF Types
  <2>6. child(c)' = t /\ run'[p].max = max
    BY <1>0, <1>1, <2>5 DEF child, max
  <2>7. Driven(c, e, t)
    BY <1>0, <1>1, <2>2, <2>4 DEF Driven
  <2>8. Reserved(c, e, t, max)
    BY <1>0, <1>1, <2>2, <2>3, <2>4 DEF Reserved
  <2>9. /\ CallInv(c)' /\ driver' \in [Calls -> DriverState] /\ driver'[c] = e
        /\ \A x \in Calls : x # c => driver'[x] = driver[x]
    <3>1. /\ driver[c].pc \notin {"off", "done"} /\ e.pc \notin {"off", "done"}
          /\ Driven(c, e, child(c)') /\ Reserved(c, e, child(c)', run'[parent(c)].max)
      BY <1>0, <2>4, <2>6, <2>7, <2>8 DEF d, p
    <3> QED BY <1>0, <2>1, <2>4, <3>1, Moving
  <2>10. Types'
    BY <1>0, <2>5, <2>9 DEF Types
  <2>11. run[c].pc = "off" /\ ~run[c].dispatched
    BY <1>1 DEF NoRun
  <2>12. Onward
    BY <2>5, <2>11 DEF Onward, IInv, RunInv
  <2>13. ASSUME NEW x \in Calls PROVE CallInv(x)' /\ Placed(x)' /\ KeptCall(x)
    <3>1. CallInv(x) /\ Placed(x) /\ parent(x) \in Runs /\ (x \notin Plain => x \in Runs)
      BY RunsOf DEF IInv
    <3>2. Placed(x)'
      BY <1>0, <2>12, <3>1, PlacedStays
    <3>3. CASE x = c
      <4>1. KeptCall(x)
        BY <1>0, <2>4, <2>9, <3>3 DEF KeptCall, returned, d
      <4> QED BY <2>9, <3>2, <3>3, <4>1
    <3>4. CASE x # c
      <4>1. child(x)' = child(x)
        BY <2>5, <3>1, <3>4 DEF child
      <4>2. parent(x) = c => driver[x].pc = "off"
        BY <2>11, <3>1 DEF Placed, CallInv, Guarded
      <4>3. run'[parent(x)].max = run[parent(x)].max \/ driver[x].pc = "off"
        BY <2>5, <3>1, <4>2
      <4>4. CallInv(x)'
        BY <1>0, <2>9, <3>1, <3>4, <4>1, <4>3, CallStays
      <4>5. KeptCall(x)
        BY <1>0, <2>5, <2>9, <3>1, <3>4 DEF KeptCall, returned
      <4> QED BY <3>2, <4>4, <4>5
    <3> QED BY <3>3, <3>4
  <2>14. ASSUME NEW r \in Runs, r # c PROVE RunInv(r)'
    <3>1. run'[r] = run[r] /\ kids(r) \subseteq Calls
      BY <1>0, <2>5, <2>14, KidsFinite
    <3>2. SameCounters(run[r], run'[r])
      BY <3>1 DEF SameCounters
    <3>3. \A x \in kids(r) : CallInv(x) /\ Placed(x) /\ KeptCall(x)
      BY <2>13, <3>1 DEF IInv
    <3> QED BY <1>0, <2>10, <3>1, <3>2, <3>3, RunStays DEF IInv
  <2>15. RunInv(c)'
    <3>0. run'[c].max \in Nat
      BY <2>2, <2>5, RunFields
    <3>1. Looping(run[c])' /\ Pooled(c)' /\ Ceiling(c)' /\ ~Joined(c)'
      BY <2>2, <2>5, <3>0 DEF Looping, Pooled, Ceiling, Joined
    <3>2. Charged(c)'
      BY <2>2, <2>5, <3>1 DEF Charged
    <3> QED BY <3>1, <3>2 DEF RunInv
  <2>16. run'[Root] = run[Root]
    BY <2>5, CallPath, RunsOf
  <2>17. SinkKept'
    <3>1. \A x \in Calls : driver[x].updateErr => driver'[x].updateErr
      BY <2>4, <2>9 DEF d
    <3> QED BY <1>0, <2>16, <3>1, SinkStays
  <2> QED BY <2>10, <2>13, <2>14, <2>15, <2>16, <2>17 DEF IInv
<1> QED BY <1>2, <1>3

LEMMA ReportStep ==
  ASSUME IInv, NEW c \in Calls, Report(c)
  PROVE  IInv'
<1> DEFINE p == parent(c)
           d == driver[c]
           s == child(c)
           err == (IF canceled(c) THEN {"canceled"} ELSE {})
                  \cup (IF driver[c].updateErr THEN {"update"} ELSE {})
           e == answer(c, err)
           k == run[p].collector + run[c].usage
           t == [run[p] EXCEPT !.collector = k]
           max == run[p].max
<1>0. /\ d.pc = "report" /\ plan' = plan /\ sinkErr' = sinkErr /\ guard' = guard
      /\ Types /\ CallInv(c) /\ Placed(c) /\ p \in Runs /\ p # c /\ d \in DriverState
      /\ Driven(c, d, s) /\ Reserved(c, d, s, max) /\ run[p] \in RunState
  BY CallPath, CallTypes DEF Report, IInv, CallInv
<1>1. c \notin Plain /\ s.pc = "ended" /\ d.settled /\ c \in Runs /\ s = run[c] /\ s \in RunState
  BY <1>0, CallTypes DEF Driven, Reserved
<1>2. err \in SUBSET Causes /\ "notExecuted" \notin err
  BY DEF Causes
<1>3. driver' = [driver EXCEPT ![c] = e] /\ run' = [run EXCEPT ![p] = t]
  BY <1>0 DEF Report, report, Types
<1>4. k \in Nat /\ run[c].usage \in Nat /\ run[p].collector \in Nat
  BY <1>0, <1>1, RunFields
<1> HIDE DEF err
<1>5. /\ e \in DriverState /\ e.pc = "finish" /\ e.err = err /\ e.count = d.count
      /\ e.claim = d.claim /\ e.closed = d.closed /\ e.settled = d.settled
      /\ e.updateErr = d.updateErr
  BY <1>0, <1>2, Answer
<1>k. k = run[p].collector + run[c].usage
  OBVIOUS
<1> HIDE DEF e, k, d, s, p, max
<1>6. /\ t \in RunState /\ t.pc = run[p].pc /\ t.max = run[p].max /\ t.usage = run[p].usage
      /\ t.own = run[p].own /\ t.dispatched = run[p].dispatched /\ t.err = run[p].err
      /\ t.remaining = run[p].remaining /\ t.gate = run[p].gate /\ t.collector = k
  BY <1>0, <1>4 DEF RunState
<1> HIDE DEF t
<1>7. /\ run' \in [Runs -> RunState] /\ run'[p] = t
      /\ \A r \in Runs : r # p => run'[r] = run[r]
  BY <1>0, <1>3, <1>6 DEF Types
<1>8. /\ driver'[c] = e /\ driver' \in [Calls -> DriverState]
      /\ \A x \in Calls : x # c => driver'[x] = driver[x]
  BY <1>0, <1>3, <1>5 DEF Types
<1>9. Types'
  BY <1>0, <1>7, <1>8 DEF Types
<1>10. SameCounters(run[p], run'[p])
  BY <1>6, <1>7 DEF SameCounters
<1>11. \A r \in Runs : run'[r].pc = run[r].pc /\ run'[r].usage = run[r].usage
  BY <1>6, <1>7
<1>12. kids(p)' = kids(p) /\ kids(p) \subseteq Calls /\ c \in kids(p)
  BY <1>0, AwaitedStays, KidsFinite, AboveStarted DEF p, d
<1>13. Pooled(p)'
  <2>1. \A x \in kids(p) : CallInv(x) /\ KeptClaim(x)
    <3> TAKE x \in kids(p)
    <3>1. x \in Calls /\ (x \notin Plain => x \in Runs)
      BY <1>12, RunsOf
    <3>2. driver'[x].claim = driver[x].claim /\ driver'[x].settled = driver[x].settled
      BY <1>5, <1>8, <3>1 DEF d
    <3> QED BY <1>11, <3>1, <3>2 DEF KeptClaim, IInv
  <2> QED BY <1>0, <1>6, <1>7, <1>9, <1>10, <2>1, PoolStays DEF IInv, RunInv
<1>14. usages' = usages
  <2>1. \A x \in Calls : used(x)' = used(x)
    BY <1>11, RunsOf DEF used
  <2> QED BY <2>1 DEF usages
<1>15. children(p)' = children(p)
  <2>1. \A x \in Calls : x \notin Plain => started(x)' = started(x)
    BY <1>11, RunsOf DEF started
  <2> QED BY <1>12, <2>1 DEF children
<1>16. reported(p)' = reported(p) \cup {c} /\ c \notin reported(p)
  <2>1. c \in children(p) /\ children(p) \subseteq Calls
    BY <1>1, <1>12 DEF children, started
  <2> QED BY <1>0, <1>5, <1>8, <1>15, <2>1 DEF reported, d
<1>17. total(reported(p)', usages') = total(reported(p), usages) + run[c].usage
  <2> DEFINE S == reported(p)
  <2>1. S \in SUBSET kids(p)
    BY DEF reported, children
  <2>2. IsFiniteSet(S) /\ \A x \in S \cup {c} : usages[x] \in Nat
    BY <1>0, <1>12, <2>1, KidsFinite
  <2>3. usages[c] = run[c].usage
    BY <1>1 DEF usages, used
  <2>4. c \notin S /\ reported(p)' = S \cup {c}
    BY <1>16
  <2> HIDE DEF S
  <2>5. total(S \cup {c}, usages) = total(S, usages) + usages[c]
    BY <2>2, <2>4, TotalAdd
  <2>6. total(reported(p)', usages') = total(S \cup {c}, usages)
    BY <1>14, <2>4
  <2> QED BY <2>3, <2>5, <2>6 DEF S
<1>18. run[p].pc = "batch" /\ kids(p) \subseteq awaited =>
         run'[p].collector = total(reported(p)', usages')
  <2>1. run[p].pc = "batch" /\ kids(p) \subseteq awaited =>
          run[p].collector = total(reported(p), usages)
    BY <1>0 DEF IInv, RunInv, Charged
  <2> QED BY <1>6, <1>7, <1>17, <1>k, <2>1
<1>19. Driven(c, e, s)
  BY <1>0, <1>1, <1>2, <1>5 DEF Driven
<1>20. Reserved(c, e, s, max)
  BY <1>0, <1>1, <1>5 DEF Reserved
<1>21. d.pc \notin {"off", "done"} /\ e.pc \notin {"off", "done"}
  BY <1>0, <1>5
<1>22. run'[p].pc = run[p].pc /\ run'[p].err = run[p].err
  BY <1>6, <1>7
<1> QED BY <1>0, <1>3, <1>5, <1>7, <1>10, <1>13, <1>18, <1>19, <1>20, <1>21, <1>22, PoolStep
        DEF p, d, s, max

-----------------------------------------------------------------------------
(* Updates.                                                                *)

\* The drivers that an update of p may change are at work.
LEMMA PathAtWork ==
  ASSUME IInv, NEW p \in Calls, driver[p].pc # "off", p \in Plain \/ run[p].pc # "off",
         Emission(p, driver')
  PROVE  \A x \in Calls : /\ Updated(driver[x], driver'[x])
                          /\ \/ driver'[x] = driver[x]
                             \/ /\ driver[x].pc \notin {"off", "done"}
                                /\ x \in Plain \/ child(x).pc # "off"
<1> TAKE x \in Calls
<1>1. CallInv(x) /\ CallInv(p) /\ Placed(p)
  BY DEF IInv
<1>2. Updated(driver[x], driver'[x])
  BY DEF Emission
<1>3. ASSUME driver'[x] # driver[x]
      PROVE  driver[x].pc \notin {"off", "done"} /\ (x \in Plain \/ child(x).pc # "off")
  <2>1. x \in levels(p) /\ ~driver[x].closed
    BY <1>3 DEF Emission
  <2>2. driver[x].pc # "done"
    BY <1>1, <2>1 DEF CallInv, Driven
  <2>3. CASE x = p
    BY <2>2, <2>3 DEF child
  <2>4. CASE x # p
    <3>1. x \in levels(parent(p)) /\ x \notin Plain
      BY <2>1, <2>4, Between
    <3>2. run[x].pc # "off"
      BY <1>1, <3>1, AboveStarted
    <3>3. driver[x].pc # "off"
      BY <1>1, <3>1, <3>2 DEF CallInv, Driven, child
    <3> QED BY <2>2, <3>1, <3>2, <3>3 DEF child
  <2> QED BY <2>3, <2>4
<1> QED BY <1>2, <1>3

\* A failure of the caller's sink is kept.
LEMMA SinkFails ==
  ASSUME IInv, NEW p \in Calls, driver[p].pc # "off", p \in Plain \/ run[p].pc # "off",
         plan' = plan, Emission(p, driver'), run'[Root] = run[Root],
         NEW fails \in BOOLEAN, sinkErr' = (sinkErr \/ fails),
         fails => \A x \in levels(p) : driver'[x].updateErr /\ ~driver[x].closed
  PROVE  SinkKept'
<1>1. \A x \in Calls : driver[x].updateErr => driver'[x].updateErr
  BY DEF Emission, Updated
<1>2. CASE ~fails
  <2>1. sinkErr' = sinkErr
    BY <1>2 DEF IInv, Types
  <2> QED BY <1>1, <2>1, SinkStays
<1>3. CASE fails
  <2>0. surfacing' = surfacing /\ kids(Root)' = kids(Root) /\ p \in levels(p) /\ CallInv(p) /\ Placed(p)
    BY AwaitedStays, CallPath DEF IInv
  <2> SUFFICES ASSUME surfacing
               PROVE  run[Root].pc = "batch" /\ \E c \in kids(Root) : driver'[c].updateErr
    BY <2>0 DEF SinkKept
  <2>1. driver[p].pc # "done"
    BY <1>3, <2>0 DEF CallInv, Driven
  <2>2. run[Root].pc = "batch"
    BY <2>0, <2>1, AboveWaits DEF IInv, surfacing
  <2>3. PICK x \in levels(p) : parent(x) = Root
    BY Below
  <2>4. x \in Calls /\ driver'[x].updateErr
    BY <1>3, <2>3, Between
  <2>5. driver[x].pc # "off"
    <3>1. CASE x = p
      BY <3>1
    <3>2. CASE x # p
      <4>1. x \in levels(parent(p)) /\ x \notin Plain
        BY <2>3, <3>2, Between
      <4>2. run[x].pc # "off"
        BY <2>0, <4>1, AboveStarted
      <4> QED BY <2>4, <4>1, <4>2 DEF IInv, CallInv, Driven, child
    <3> QED BY <3>1, <3>2
  <2>6. x \in kids(Root)
    BY <2>3, <2>4, <2>5, AboveStarted DEF IInv
  <2> QED BY <2>2, <2>4, <2>6
<1> QED BY <1>2, <1>3

LEMMA PlainEmitStep ==
  ASSUME IInv, NEW c \in Calls, PlainEmit(c)
  PROVE  IInv' /\ Emission(c, driver')
<1>0. /\ c \in Plain /\ driver[c].pc # "off" /\ run' = run /\ guard' = guard /\ plan' = plan /\ Types
      /\ sinkErr \in BOOLEAN
  BY DEF PlainEmit, IInv, Types
<1>1. PICK valid \in BOOLEAN, output \in BOOLEAN, sinkOK \in SinkAnswers :
        /\ driver' = [emit(c, valid, sinkOK) EXCEPT ![c].output = @ \/ (output /\ valid /\ ~refuses(c))]
        /\ sinkErr' = (sinkErr \/ (stop(c, valid) = Root /\ ~sinkOK))
  BY DEF PlainEmit
<1> DEFINE D == emit(c, valid, sinkOK)
           out == D[c].output \/ (output /\ valid /\ ~refuses(c))
           e == [D[c] EXCEPT !.output = out]
           fails == stop(c, valid) = Root /\ ~sinkOK
<1>2. sinkOK \in BOOLEAN
  BY <1>0, <1>1 DEF SinkAnswers
<1>3. /\ Emission(c, D)
      /\ fails => \A x \in levels(c) : D[x].updateErr
      /\ fails => \A x \in levels(c) : ~driver[x].closed
  BY <1>0, <1>2, Emits
<1>4. D \in [Calls -> DriverState] /\ D[c] \in DriverState
  BY <1>3 DEF Emission
<1>5. driver' = [D EXCEPT ![c] = e]
  BY <1>1, <1>4
<1>6. out \in BOOLEAN /\ (driver[c].closed => out = D[c].output)
  BY <1>4, DriverFields DEF refuses
<1>s. sinkErr' = (sinkErr \/ fails) /\ fails \in BOOLEAN
  BY <1>1
<1> HIDE DEF D, out, fails
<1>7. /\ e \in DriverState /\ Updated(D[c], e) /\ e.updateErr = D[c].updateErr
      /\ out = D[c].output => e = D[c]
  BY <1>4, <1>6 DEF DriverState, Updated
<1> HIDE DEF e
<1>8. /\ driver' \in [Calls -> DriverState] /\ driver'[c] = e
      /\ \A x \in Calls : x # c => driver'[x] = D[x]
  BY <1>4, <1>5, <1>7
<1>9. Emission(c, driver')
  <2>1. \A x \in Calls : Updated(driver[x], driver'[x])
    BY <1>3, <1>7, <1>8 DEF Emission, Updated
  <2>2. \A x \in Calls : x \notin levels(c) \/ driver[x].closed => driver'[x] = driver[x]
    <3>1. c \in levels(c)
      BY CallPath
    <3> QED BY <1>3, <1>6, <1>7, <1>8, <3>1 DEF Emission
  <2> QED BY <1>8, <2>1, <2>2 DEF Emission
<1>10. fails => \A x \in levels(c) : driver'[x].updateErr /\ ~driver[x].closed
  BY <1>3, <1>7, <1>8, Above
<1>11. SinkKept'
  BY <1>0, <1>9, <1>10, <1>s, SinkFails
<1>12. \A x \in Calls : /\ Updated(driver[x], driver'[x])
                        /\ \/ driver'[x] = driver[x]
                           \/ /\ driver[x].pc \notin {"off", "done"}
                              /\ x \in Plain \/ child(x).pc # "off"
  BY <1>0, <1>9, PathAtWork
<1>13. Root \in Runs /\ SameCounters(run[Root], run'[Root]) /\ run' \in [Runs -> RunState]
       /\ sinkErr' \in BOOLEAN
  BY <1>0, <1>s, RunsOf DEF SameCounters, Types
<1>14. IInv'
  BY <1>0, <1>8, <1>11, <1>12, <1>13, LoopStep
<1> QED BY <1>9, <1>14

LEMMA SayStep ==
  ASSUME IInv, NEW r \in Runs, Say(r)
  PROVE  IInv' /\ r \in Calls /\ Emission(r, driver')
<1>0. /\ r # Root /\ run[r].pc = "turn" /\ guard' = guard /\ plan' = plan /\ Types
      /\ sinkErr \in BOOLEAN /\ r \in Calls \ Plain /\ run[r] \in RunState
  BY RunsOf DEF Say, IInv, Types
<1>1. PICK sinkOK \in SinkAnswers :
        /\ driver' = emit(r, TRUE, sinkOK)
        /\ sinkErr' = (sinkErr \/ (stop(r, TRUE) = Root /\ ~sinkOK))
        /\ run' = [run EXCEPT ![r] = IF delivered(r, TRUE, sinkOK) THEN [@ EXCEPT !.said = TRUE]
                                     ELSE [@ EXCEPT !.pc = "ended", !.err = {"update"}]]
  BY DEF Say
<1> DEFINE fails == stop(r, TRUE) = Root /\ ~sinkOK
           s == run[r]
           t == IF delivered(r, TRUE, sinkOK) THEN [s EXCEPT !.said = TRUE]
                ELSE [s EXCEPT !.pc = "ended", !.err = {"update"}]
<1>2. sinkOK \in BOOLEAN
  BY <1>0, <1>1 DEF SinkAnswers
<1>3. /\ Emission(r, driver')
      /\ fails => \A x \in levels(r) : driver'[x].updateErr /\ ~driver[x].closed
  BY <1>0, <1>1, <1>2, Emits
<1>4. {"update"} \in SUBSET Causes
  BY DEF Causes
<1>5. run' = [run EXCEPT ![r] = t]
  BY <1>0, <1>1 DEF Types
<1>s. sinkErr' = (sinkErr \/ fails) /\ fails \in BOOLEAN /\ s.pc = "turn" /\ s \in RunState
  BY <1>0, <1>1
<1> HIDE DEF fails, s
<1>6. /\ t \in RunState /\ t.pc \in {"turn", "ended"} /\ t.max = s.max /\ t.usage = s.usage
      /\ t.own = s.own /\ t.dispatched = s.dispatched
      /\ t.remaining = s.remaining /\ t.gate = s.gate /\ t.collector = s.collector
  <2>1. CASE delivered(r, TRUE, sinkOK)
    BY <1>s, <2>1 DEF RunState
  <2>2. CASE ~delivered(r, TRUE, sinkOK)
    BY <1>s, <1>4, <2>2 DEF RunState
  <2> QED BY <2>1, <2>2
<1> HIDE DEF t
<1>7. run' \in [Runs -> RunState] /\ run'[r] = t /\ \A q \in Runs : q # r => run'[q] = run[q]
  BY <1>0, <1>5, <1>6 DEF Types
<1>8. SameCounters(run[r], run'[r])
  BY <1>6, <1>7, <1>s DEF SameCounters, s
<1>9. run'[Root] = run[Root]
  BY <1>0, <1>7, RunsOf
<1>10. driver[r].pc # "off"
  BY <1>0 DEF IInv, CallInv, Driven, child
<1>11. SinkKept'
  BY <1>0, <1>3, <1>9, <1>10, <1>s, SinkFails
<1>12. \A x \in Calls : /\ Updated(driver[x], driver'[x])
                        /\ \/ driver'[x] = driver[x]
                           \/ /\ driver[x].pc \notin {"off", "done"}
                              /\ x \in Plain \/ child(x).pc # "off"
  BY <1>0, <1>3, <1>10, PathAtWork
<1>13. driver' \in [Calls -> DriverState] /\ sinkErr' \in BOOLEAN
  BY <1>0, <1>3, <1>s DEF Emission
<1>14. run'[r].remaining = run[r].remaining /\ run'[r].gate = run[r].gate
       /\ run'[r].collector = run[r].collector
  BY <1>6, <1>7 DEF s
<1>15. IInv'
  BY <1>0, <1>7, <1>8, <1>11, <1>12, <1>13, <1>14, LoopStep
<1> QED BY <1>0, <1>3, <1>15

LEMMA TurnCanceledStep ==
  ASSUME IInv, NEW r \in Runs, TurnCanceled(r)
  PROVE  IInv'
<1> DEFINE s == run[r]
           t == finish(s, {"canceled"})
<1>0. /\ s.pc = "turn" /\ guard' = guard /\ driver' = driver /\ plan' = plan /\ sinkErr' = sinkErr
      /\ Types /\ s \in RunState
  BY DEF TurnCanceled, IInv, Types
<1>1. run' = [run EXCEPT ![r] = t]
  BY <1>0 DEF TurnCanceled, Types
<1>2. {"canceled"} \in SUBSET Causes
  BY DEF Causes
<1> HIDE DEF s
<1>3. /\ t \in RunState /\ t.pc = "ended" /\ t.max = s.max /\ t.usage = s.usage
      /\ t.own = s.own /\ t.dispatched = s.dispatched
      /\ t.remaining = s.remaining /\ t.gate = s.gate /\ t.collector = s.collector
  BY <1>0, <1>2 DEF RunState, finish
<1> HIDE DEF t
<1>4. run' \in [Runs -> RunState] /\ run'[r] = t /\ \A q \in Runs : q # r => run'[q] = run[q]
  BY <1>0, <1>1, <1>3 DEF Types
<1>5. SameCounters(run[r], run'[r])
  BY <1>0, <1>3, <1>4 DEF SameCounters, s
<1>6. SinkKept'
  <2>1. CASE r = Root
    <3>1. ~(sinkErr /\ surfacing)
      BY <1>0, <2>1 DEF IInv, SinkKept, s
    <3>2. surfacing' = surfacing
      BY <1>0, AwaitedStays
    <3> QED BY <1>0, <3>1, <3>2 DEF SinkKept
  <2>2. CASE r # Root
    <3>1. run'[Root] = run[Root]
      BY <1>4, <2>2, RunsOf
    <3> QED BY <1>0, <3>1, SinkStays
  <2> QED BY <2>1, <2>2
<1>7. \A x \in Calls : Updated(driver[x], driver'[x]) /\ driver'[x] = driver[x]
  BY <1>0 DEF Updated
<1>8. run'[r].remaining = run[r].remaining /\ run'[r].gate = run[r].gate
      /\ run'[r].collector = run[r].collector
  BY <1>3, <1>4 DEF s
<1> QED BY <1>0, <1>4, <1>5, <1>6, <1>7, <1>8, LoopStep DEF s, Types

-----------------------------------------------------------------------------
(* The steps of a loop.                                                    *)

\* A loop whose counters change: of the others only the run above sees it, as
\* one at work.
LEMMA OtherRuns ==
  ASSUME IInv, Types', NEW r \in Runs, plan' = plan, driver' = driver,
         run[r].pc \in {"turn", "batch"}, run'[r].pc \in {"turn", "batch", "ended"},
         run'[r].max = run[r].max,
         \A q \in Runs : q # r => run'[q] = run[q],
         \A x \in Calls : guard[x].pc # "off" => guard'[x] = guard[x]
  PROVE  /\ \A x \in Calls : guard'[x] = guard[x] => CallInv(x)'
         /\ \A x \in Calls : KeptCall(x)
         /\ \A q \in Runs : q # r => RunInv(q)'
<1>1. ASSUME NEW x \in Calls PROVE KeptCall(x) /\ (guard'[x] = guard[x] => CallInv(x)')
  <2>1. /\ CallInv(x) /\ parent(x) \in Runs /\ (x \notin Plain => x \in Runs)
        /\ driver'[x] \in DriverState
    BY RunsOf DEF IInv, Types
  <2>2. \/ child(x)' = child(x)
        \/ /\ child(x).pc \in {"turn", "batch"} /\ child(x)'.pc \in {"turn", "batch", "ended"}
           /\ child(x)'.max = child(x).max
    BY <2>1 DEF child
  <2>3. run'[parent(x)].max = run[parent(x)].max /\ Updated(driver[x], driver'[x])
    BY <2>1 DEF Updated
  <2>4. guard'[x] = guard[x] => CallInv(x)'
    BY <2>1, <2>2, <2>3, CallUpdated DEF IInv
  <2>5. x = r => driver[x].pc = "running"
    <3> SUFFICES ASSUME x = r PROVE driver[x].pc = "running"
      OBVIOUS
    <3>1. x \notin Plain
      BY CallPath, RunsOf
    <3>2. child(x).pc \in {"turn", "batch"}
      BY <3>1 DEF child
    <3> QED BY <2>1, <3>1, <3>2 DEF CallInv, Driven
  <2>6. KeptCall(x)
    BY <2>1, <2>5 DEF KeptCall, returned
  <2> QED BY <2>4, <2>6
<1>2. ASSUME NEW q \in Runs, q # r PROVE RunInv(q)'
  <2>1. run'[q] = run[q] /\ kids(q) \subseteq Calls
    BY <1>2, KidsFinite DEF IInv
  <2>2. SameCounters(run[q], run'[q])
    BY <2>1 DEF SameCounters
  <2>3. \A x \in kids(q) : CallInv(x) /\ Placed(x) /\ KeptCall(x)
    BY <1>1, <2>1 DEF IInv
  <2> QED BY <2>1, <2>2, <2>3, RunStays DEF IInv
<1> QED BY <1>1, <1>2

\* The levels of a run that is at work.
LEMMA RunLevels ==
  ASSUME IInv, NEW r \in Runs, run[r].pc \in {"turn", "batch"}
  PROVE  /\ \A q \in levels(r) : q \in Runs /\ run[q].pc # "off"
         /\ r \in awaited => /\ r # Root => run[Root].pc = "batch"
                             /\ \A q \in levels(r) : q = r \/ run[q].pc = "batch"
<1>1. CASE r = Root
  BY <1>1, RootLevels
<1>2. CASE r # Root
  <2>1. r \in Calls \ Plain /\ CallInv(r) /\ Placed(r) /\ child(r) = run[r]
    BY <1>2, RunsOf DEF IInv, child
  <2>2. driver[r].pc = "running"
    BY <2>1 DEF CallInv, Driven
  <2>3. levels(r) = levels(parent(r)) \cup {r} /\ levels(parent(r)) \subseteq Runs
    BY <2>1, CallPath, RunsOf
  <2>4. \A q \in levels(parent(r)) : run[q].pc # "off"
    BY <2>1, <2>2, AboveStarted
  <2>5. r \in awaited => run[Root].pc = "batch" /\ \A q \in levels(parent(r)) : run[q].pc = "batch"
    BY <2>1, <2>2, AboveWaits DEF IInv
  <2> QED BY <2>3, <2>4, <2>5
<1> QED BY <1>1, <1>2

\* A run that was not dispatched has no call that was.
LEMMA Undispatched ==
  ASSUME IInv, NEW r \in Runs, ~run[r].dispatched
  PROVE  /\ \A c \in kids(r) : /\ c \in Calls /\ guard[c].pc = "off" /\ driver[c].pc = "off"
                               /\ guard[c].calls = 0 /\ guard[c].protocolErr = {}
                               /\ child(c).pc = "off"
         /\ openClaims(r) = {} /\ settledClaims(r) = {} /\ children(r) = {} /\ reported(r) = {}
<1>1. ASSUME NEW c \in kids(r)
      PROVE  /\ c \in Calls /\ guard[c].pc = "off" /\ driver[c].pc = "off"
             /\ guard[c].calls = 0 /\ guard[c].protocolErr = {} /\ child(c).pc = "off"
             /\ driver[c].claim = 0 /\ ~driver[c].settled
  <2>1. c \in Calls /\ parent(c) = r /\ CallInv(c) /\ Placed(c)
    BY KidsFinite DEF IInv
  <2>2. guard[c].pc = "off"
    BY <2>1 DEF Placed
  <2>3. guard[c].calls = 0 /\ guard[c].protocolErr = {} /\ driver[c].pc = "off"
    BY <2>1, <2>2 DEF CallInv, Guarded
  <2>4. child(c).pc = "off" /\ driver[c].claim = 0 /\ ~driver[c].settled
    BY <2>1, <2>3, NotEntered DEF IInv
  <2> QED BY <2>1, <2>2, <2>3, <2>4
<1>2. openClaims(r) = {} /\ settledClaims(r) = {}
  BY <1>1 DEF openClaims, settledClaims
<1>3. children(r) = {}
  BY <1>1 DEF children, started, child
<1>4. reported(r) = {}
  BY <1>3 DEF reported
<1> QED BY <1>1, <1>2, <1>3, <1>4

LEMMA Dispatched ==
  ASSUME NEW u \in RunState, u.max > 0 => u.usage < u.max
  PROVE  /\ dispatch(u) \in RunState /\ dispatch(u).pc = "batch" /\ dispatch(u).max = u.max
         /\ dispatch(u).usage = u.usage /\ dispatch(u).own = u.own /\ dispatch(u).dispatched
         /\ dispatch(u).collector = 0
         /\ u.max > 0 => dispatch(u).remaining = u.max - u.usage
<1> DEFINE v == [u EXCEPT !.pc = "batch", !.dispatched = TRUE, !.collector = 0]
           k == IF u.max > 0 THEN u.max - u.usage ELSE 0
<1>1. v \in RunState
  BY DEF RunState
<1>2. k \in Nat /\ (u.max > 0 => k = u.max - u.usage)
  BY RunFields
<1>3. dispatch(u) = [v EXCEPT !.gate = FALSE, !.remaining = k]
  BY DEF dispatch, RunState
<1>4. /\ v.pc = "batch" /\ v.max = u.max /\ v.usage = u.usage /\ v.own = u.own
      /\ v.dispatched /\ v.collector = 0
  BY DEF RunState
<1> HIDE DEF v, k
<1>5. dispatch(u) \in RunState
  BY <1>1, <1>2, <1>3 DEF RunState
<1>6. /\ dispatch(u).pc = v.pc /\ dispatch(u).max = v.max /\ dispatch(u).usage = v.usage
      /\ dispatch(u).own = v.own /\ dispatch(u).dispatched = v.dispatched
      /\ dispatch(u).collector = v.collector /\ dispatch(u).remaining = k
  BY <1>1, <1>3 DEF RunState
<1> QED BY <1>2, <1>4, <1>5, <1>6

\* A loop after a turn that used n tokens.
turned(s, n) == [s EXCEPT !.usage = @ + n, !.own = @ + n]

\* What one turn makes of a loop.
LEMMA AfterTurn ==
  ASSUME NEW s \in RunState, s.pc = "turn", NEW n \in Nat, NEW r, NEW asks \in BOOLEAN,
         s.max > 0 => s.usage < s.max,
         NEW u, u = turned(s, n)
  PROVE  /\ afterTurn(r, u, n, asks) \in RunState
         /\ afterTurn(r, u, n, asks).pc \in {"batch", "ended"}
         /\ afterTurn(r, u, n, asks).max = s.max
         /\ afterTurn(r, u, n, asks).usage = s.usage + n
         /\ afterTurn(r, u, n, asks).own = s.own + n
         /\ afterTurn(r, u, n, asks).pc = "ended" =>
              afterTurn(r, u, n, asks).dispatched = s.dispatched
         /\ afterTurn(r, u, n, asks).pc = "batch" =>
              /\ asks /\ afterTurn(r, u, n, asks).dispatched
              /\ afterTurn(r, u, n, asks).collector = 0
              /\ s.max > 0 => /\ s.usage + n < s.max
                              /\ afterTurn(r, u, n, asks).remaining = s.max - (s.usage + n)
<1> DEFINE m == s.usage + n
           o == s.own + n
<1>0. m \in Nat /\ o \in Nat /\ s.max \in Nat
  BY RunFields
<1>1. u = [s EXCEPT !.usage = m, !.own = o]
  BY DEF turned
<1> SUFFICES /\ afterTurn(r, u, n, asks) \in RunState
             /\ afterTurn(r, u, n, asks).pc \in {"batch", "ended"}
             /\ afterTurn(r, u, n, asks).max = s.max
             /\ afterTurn(r, u, n, asks).usage = m
             /\ afterTurn(r, u, n, asks).own = o
             /\ afterTurn(r, u, n, asks).pc = "ended" =>
                  afterTurn(r, u, n, asks).dispatched = s.dispatched
             /\ afterTurn(r, u, n, asks).pc = "batch" =>
                  /\ asks /\ afterTurn(r, u, n, asks).dispatched
                  /\ afterTurn(r, u, n, asks).collector = 0
                  /\ s.max > 0 => /\ m < s.max
                                  /\ afterTurn(r, u, n, asks).remaining = s.max - m
  OBVIOUS
<1> HIDE DEF m, o
<1>2. u \in RunState /\ u.max = s.max /\ u.usage = m /\ u.own = o /\ u.dispatched = s.dispatched
  BY <1>0, <1>1 DEF RunState
<1>3. ASSUME NEW err \in SUBSET Causes
      PROVE  /\ finish(u, err) \in RunState /\ finish(u, err).pc = "ended"
             /\ finish(u, err).max = s.max /\ finish(u, err).usage = m /\ finish(u, err).own = o
             /\ finish(u, err).dispatched = s.dispatched
  BY <1>2 DEF finish, RunState
<1>4. {} \in SUBSET Causes /\ {"canceled"} \in SUBSET Causes /\ {"exhausted"} \in SUBSET Causes
  BY DEF Causes
<1>5. CASE afterTurn(r, u, n, asks) # dispatch(u)
  <2>1. PICK err \in SUBSET Causes : afterTurn(r, u, n, asks) = finish(u, err)
    BY <1>4, <1>5 DEF afterTurn
  <2> QED BY <1>3, <2>1
<1>6. CASE afterTurn(r, u, n, asks) = dispatch(u)
  <2>1. (asks /\ ~exhausted(u)) \/ \E err \in SUBSET Causes : dispatch(u) = finish(u, err)
    BY <1>4, <1>6 DEF afterTurn
  <2>2. CASE \E err \in SUBSET Causes : dispatch(u) = finish(u, err)
    BY <1>3, <1>6, <2>2
  <2>3. CASE asks /\ ~exhausted(u)
    <3>1. u.max > 0 => u.usage < u.max
      BY <1>0, <1>2, <2>3 DEF exhausted
    <3> QED BY <1>2, <1>6, <2>3, <3>1, Dispatched
  <2> QED BY <2>1, <2>2, <2>3
<1> QED BY <1>5, <1>6

LEMMA TurnStep ==
  ASSUME IInv, NEW r \in Runs, Turn(r)
  PROVE  IInv'
<1> DEFINE s == run[r]
<1>0. /\ s.pc = "turn" /\ driver' = driver /\ plan' = plan /\ sinkErr' = sinkErr
      /\ Types /\ s \in RunState /\ RunInv(r) /\ Looping(s)
  BY DEF Turn, IInv, Types, RunInv
<1>1. PICK n \in Tokens, asks \in BOOLEAN :
        LET sp == [run[r] EXCEPT !.usage = @ + n, !.own = @ + n]
            nx == afterTurn(r, sp, n, asks)
        IN  /\ asks => kids(r) # {} /\ ~run[r].dispatched
            /\ run' = [run EXCEPT ![r] = nx]
            /\ guard' = IF nx.pc = "batch"
                        THEN [c \in Calls |-> IF c \in kids(r) THEN [guard[c] EXCEPT !.pc = "pending"]
                                              ELSE guard[c]]
                        ELSE guard
  BY DEF Turn
<1> DEFINE u == [s EXCEPT !.usage = @ + n, !.own = @ + n]
           t == afterTurn(r, u, n, asks)
<1>2. n \in Nat /\ (s.max > 0 => s.usage < s.max)
  BY <1>0, <1>1, DelegationAssumption DEF Looping
<1>u. u = turned(s, n) /\ t = afterTurn(r, u, n, asks)
  BY DEF turned
<1>5. /\ asks => ~s.dispatched
      /\ run' = [run EXCEPT ![r] = t]
      /\ guard' = IF t.pc = "batch"
                  THEN [c \in Calls |-> IF c \in kids(r) THEN [guard[c] EXCEPT !.pc = "pending"]
                                        ELSE guard[c]]
                  ELSE guard
  BY <1>1
<1>e. /\ t \in RunState /\ t.pc \in {"batch", "ended"} /\ t.max = s.max
      /\ t.usage = s.usage + n /\ t.own = s.own + n
      /\ t.pc = "ended" => t.dispatched = s.dispatched
      /\ t.pc = "batch" => /\ asks /\ t.dispatched /\ t.collector = 0
                           /\ s.max > 0 => /\ s.usage + n < s.max
                                           /\ t.remaining = s.max - (s.usage + n)
  <2> HIDE DEF s, u, t
  <2> QED BY <1>0, <1>2, <1>u, AfterTurn
<1>3. /\ t \in RunState /\ t.pc \in {"batch", "ended"} /\ t.max = s.max
      /\ t.usage = s.usage + n /\ t.own = s.own + n
  BY <1>e
<1>4. /\ t.pc = "ended" => t.dispatched = s.dispatched
      /\ t.pc = "batch" => /\ asks /\ t.dispatched /\ t.collector = 0
                           /\ s.max > 0 => /\ s.usage + n < s.max
                                           /\ t.remaining = s.max - (s.usage + n)
  BY <1>e
<1>f. /\ s.usage \in Nat /\ s.own \in Nat /\ s.max \in Nat
      /\ s.dispatched \in BOOLEAN /\ t.dispatched \in BOOLEAN
  BY <1>0, <1>3, RunFields
<1> HIDE DEF u, t
<1>6. run' \in [Runs -> RunState] /\ run'[r] = t /\ \A q \in Runs : q # r => run'[q] = run[q]
  BY <1>0, <1>3, <1>5 DEF Types
<1>7. t.pc = "batch" =>
        \A c \in kids(r) : /\ c \in Calls /\ guard[c].pc = "off" /\ driver[c].pc = "off"
                           /\ guard[c].calls = 0 /\ guard[c].protocolErr = {}
                           /\ child(c).pc = "off"
  BY <1>4, <1>5, Undispatched
<1>8. /\ guard' \in [Calls -> GuardState]
      /\ \A x \in Calls : \/ guard'[x] = guard[x]
                          \/ /\ t.pc = "batch" /\ x \in kids(r) /\ guard'[x].pc = "pending"
                             /\ guard'[x].calls = 0 /\ guard'[x].protocolErr = {}
                             /\ guard[x].pc = "off" /\ driver[x].pc = "off" /\ child(x).pc = "off"
  <2>1. ASSUME NEW x \in Calls
        PROVE  /\ guard'[x] \in GuardState
               /\ \/ guard'[x] = guard[x]
                  \/ /\ t.pc = "batch" /\ x \in kids(r) /\ guard'[x].pc = "pending"
                     /\ guard'[x].calls = 0 /\ guard'[x].protocolErr = {}
                     /\ guard[x].pc = "off" /\ driver[x].pc = "off" /\ child(x).pc = "off"
    <3>1. guard[x] \in GuardState
      BY <1>0 DEF Types
    <3>2. CASE t.pc = "batch" /\ x \in kids(r)
      <4>1. guard'[x] = [guard[x] EXCEPT !.pc = "pending"]
        BY <1>5, <3>2
      <4>2. guard'[x] \in GuardState /\ guard'[x].pc = "pending"
            /\ guard'[x].calls = guard[x].calls /\ guard'[x].protocolErr = guard[x].protocolErr
        BY <3>1, <4>1 DEF GuardState
      <4> QED BY <1>7, <3>2, <4>2
    <3>3. CASE ~(t.pc = "batch" /\ x \in kids(r))
      BY <1>5, <3>1, <3>3
    <3> QED BY <3>2, <3>3
  <2>2. guard' = [x \in Calls |-> guard'[x]]
    BY <1>0, <1>5 DEF Types
  <2> QED BY <2>1, <2>2
<1>9. Types'
  BY <1>0, <1>6, <1>8 DEF Types
<1>10. /\ \A x \in Calls : guard'[x] = guard[x] => CallInv(x)'
       /\ \A x \in Calls : KeptCall(x)
       /\ \A q \in Runs : q # r => RunInv(q)'
  <2>1. /\ run[r].pc \in {"turn", "batch"} /\ run'[r].pc \in {"turn", "batch", "ended"}
        /\ run'[r].max = run[r].max
        /\ \A x \in Calls : guard[x].pc # "off" => guard'[x] = guard[x]
    BY <1>0, <1>3, <1>6, <1>8
  <2> QED BY <1>0, <1>6, <1>9, <2>1, OtherRuns
<1>11. awaited' = awaited /\ kids(r)' = kids(r) /\ kids(r) \subseteq Calls
       /\ \A c : interceptor(c)' = interceptor(c)
  BY <1>0, AwaitedStays, KidsFinite
<1>12. Onward
  <2>1. run[r].dispatched => run'[r].dispatched
    BY <1>3, <1>4, <1>6, <1>f
  <2> QED BY <1>0, <1>3, <1>6, <2>1 DEF Onward
<1>13. ASSUME NEW x \in Calls PROVE CallInv(x)' /\ Placed(x)'
  <2>0. CallInv(x) /\ Placed(x)
    BY DEF IInv
  <2>1. CASE guard'[x] = guard[x]
    BY <1>0, <1>10, <1>12, <2>0, <2>1, PlacedStays
  <2>2. CASE guard'[x] # guard[x]
    <3>0. /\ t.pc = "batch" /\ x \in kids(r) /\ guard'[x].pc = "pending"
          /\ guard'[x].calls = 0 /\ guard'[x].protocolErr = {}
          /\ driver[x].pc = "off" /\ child(x).pc = "off"
      BY <1>8, <2>2
    <3>1. parent(x) = r /\ x \in plan.calls
      BY <3>0 DEF kids
    <3>2. child(x)' = child(x) /\ run'[parent(x)].max = run[parent(x)].max
      <4>1. x # r
        BY <3>1, CallPath
      <4> QED BY <1>3, <1>6, <3>1, <4>1, RunsOf DEF child
    <3>3. Guarded(interceptor(x), guard'[x], driver[x])
      BY <3>0 DEF Guarded
    <3>4. Honest(interceptor(x), guard'[x], driver[x], child(x))
      BY <2>0, <3>0 DEF Honest, CallInv
    <3>5. CallInv(x)'
      BY <1>0, <1>11, <2>0, <3>2, <3>3, <3>4 DEF CallInv
    <3>6. \A q \in levels(r) : q \in Runs /\ run'[q].pc # "off"
      BY <1>0, <1>6, <3>0, RunLevels
    <3>7. ASSUME x \in awaited
          PROVE  run'[Root].pc = "batch" /\ \A q \in levels(r) : run'[q].pc = "batch"
      <4>1. CASE r = Root
        BY <1>6, <3>0, <4>1, RootLevels
      <4>2. CASE r # Root
        <5>1. r \in Calls /\ levels(r) \subseteq levels(x)
          BY <3>1, <4>2, CallPath, RunsOf
        <5>2. r \in awaited
          BY <3>7, <5>1 DEF awaited
        <5>3. run[Root].pc = "batch" /\ \A q \in levels(r) : q \in Runs /\ (q = r \/ run[q].pc = "batch")
          BY <1>0, <4>2, <5>2, RunLevels
        <5>4. Root \in Runs
          BY RunsOf
        <5> QED BY <1>6, <3>0, <4>2, <5>3, <5>4
      <4> QED BY <4>1, <4>2
    <3>8. t.dispatched
      BY <1>4, <3>0
    <3>9. Placed(x)'
      BY <1>0, <1>6, <1>11, <3>1, <3>6, <3>7, <3>8 DEF Placed
    <3> QED BY <3>5, <3>9
  <2> QED BY <2>1, <2>2
<1>14. RunInv(r)'
  <2>1. CASE t.pc = "batch"
    <3>0. ~s.dispatched /\ t.dispatched /\ t.collector = 0
      BY <1>4, <1>5, <2>1
    <3>1. openClaims(r) = {} /\ settledClaims(r) = {} /\ children(r) = {} /\ reported(r) = {}
      BY <3>0, Undispatched
    <3>2. openClaims(r)' = {} /\ settledClaims(r)' = {}
      BY <1>0, <1>11, <3>1 DEF openClaims, settledClaims
    <3>3. reported(r)' = {}
      <4>1. \A c \in kids(r) : c \notin Plain => c \in Runs /\ c # r
        BY <1>11, RunsOf, CallPath DEF kids
      <4>2. children(r)' = {}
        BY <1>6, <1>11, <3>1, <4>1 DEF children, started
      <4> QED BY <4>2 DEF reported
    <3>4. /\ total(openClaims(r)', claims') = 0 /\ total(settledClaims(r)', spent') = 0
          /\ total(reported(r)', usages') = 0
      BY <3>2, <3>3, TotalEmpty
    <3>5. Pooled(r)'
      <4> SUFFICES ASSUME s.max > 0
                   PROVE  t.remaining + 0 + 0 = t.max - t.usage
        BY <1>3, <1>6, <3>2, <3>4 DEF Pooled, bounded
      <4> QED BY <1>2, <1>3, <1>4, <1>f, <2>1
    <3>6. Charged(r)'
      <4>1. ~Joined(r) /\ ~Joined(r)'
        BY <1>6, <2>1, <3>0 DEF Joined
      <4>2. kids(r) \subseteq awaited => s.usage = s.own
        BY <1>0, <4>1 DEF RunInv, Charged
      <4> QED BY <1>3, <1>6, <1>11, <3>0, <3>4, <4>1, <4>2 DEF Charged
    <3>7. Looping(run[r])' /\ Ceiling(r)'
      BY <1>3, <1>4, <1>6, <2>1 DEF Looping, Ceiling
    <3> QED BY <3>5, <3>6, <3>7 DEF RunInv
  <2>2. CASE t.pc = "ended"
    <3>0. t.dispatched = s.dispatched
      BY <1>4, <2>2
    <3>1. Looping(run[r])' /\ Pooled(r)'
      BY <1>6, <2>2 DEF Looping, Pooled
    <3>2. \A c \in kids(r) : CallInv(c) /\ Placed(c) /\ KeptCall(c) /\ parent(c) = r
      BY <1>10, <1>11 DEF IInv, kids
    <3>3. ASSUME kids(r) \subseteq awaited
          PROVE  /\ children(r)' = children(r) /\ children(r) \subseteq kids(r)
                 /\ \A c \in children(r) : usages'[c] = usages[c]
      <4>1. ASSUME NEW c \in kids(r)
            PROVE  c \in Calls /\ (c \notin Plain => run'[c] = run[c])
        BY <1>6, <1>11, <3>2, CallPath, RunsOf
      <4> QED BY <1>11, <4>1 DEF children, started, usages, used
    <3>4. ASSUME kids(r) \subseteq awaited
          PROVE  total(children(r)', usages') = total(children(r), usages)
      BY <3>3, <3>4, TotalSame
    <3>5. Joined(r)' <=> s.dispatched
      BY <1>6, <2>2, <3>0 DEF Joined
    <3>6. Joined(r) <=> s.dispatched
      BY <1>0 DEF Joined
    <3>7. Charged(r)'
      <4> SUFFICES ASSUME kids(r) \subseteq awaited
                   PROVE  /\ ~s.dispatched => t.usage = t.own
                          /\ s.dispatched => /\ \A c \in kids(r) : returned(c)'
                                             /\ t.usage = t.own + total(children(r)', usages')
        BY <1>6, <1>11, <2>2, <3>5 DEF Charged
      <4>1. /\ ~s.dispatched => s.usage = s.own
            /\ s.dispatched => /\ \A c \in kids(r) : returned(c)
                               /\ s.usage = s.own + total(children(r), usages)
        BY <1>0, <3>6 DEF RunInv, Charged
      <4>2. \A c \in kids(r) : returned(c) => returned(c)'
        BY <3>2 DEF KeptCall
      <4>3. total(children(r), usages) \in Nat
        <5>1. children(r) \in SUBSET kids(r)
          BY <3>3
        <5> QED BY <1>0, <5>1, KidsFinite, TotalType
      <4> QED BY <1>2, <1>3, <1>f, <3>4, <4>1, <4>2, <4>3
    <3>8. Ceiling(r)'
      <4> SUFFICES ASSUME s.max > 0
                   PROVE  (\E x \in Tokens : over(r)' < x) \/ over(r)' <= total(children(r)', overs')
        BY <1>3, <1>6 DEF Ceiling, bounded
      <4>1. over(r)' = IF s.usage + n > s.max THEN s.usage + n - s.max ELSE 0
        <5>1. /\ run'[r].max = s.max /\ run'[r].usage = s.usage + n /\ run'[r].max \in Nat
              /\ run'[r].usage \in Nat
          BY <1>2, <1>3, <1>6, <1>f
        <5>2. over(r)' = IF run'[r].max > 0 /\ run'[r].usage > run'[r].max
                         THEN run'[r].usage - run'[r].max ELSE 0
          BY DEF over, bounded
        <5> HIDE DEF s
        <5> QED BY <1>2, <1>f, <5>1, <5>2
      <4>2. CASE s.usage + n > s.max
        BY <1>1, <1>2, <1>f, <4>1, <4>2
      <4>3. CASE ~(s.usage + n > s.max)
        <5>1. children(r)' \in SUBSET kids(r)'
          BY DEF children
        <5>2. \A S \in SUBSET kids(r)' : IsFiniteSet(S) /\ \A c \in S : overs'[c] \in Nat
          <6>1. \A c \in kids(r)' : overs'[c] \in Nat
            <7> TAKE c \in kids(r)'
            <7>1. c \in Calls /\ (c \notin Plain => run'[c] \in RunState)
              BY <1>6, <1>11, RunsOf
            <7>2. c \notin Plain => run'[c].usage \in Nat /\ run'[c].max \in Nat
              BY <7>1, RunFields
            <7> QED BY <7>1, <7>2 DEF overs, over, bounded
          <6>2. \A S \in SUBSET kids(r) : IsFiniteSet(S)
            BY <1>0, KidsFinite
          <6> QED BY <1>11, <6>1, <6>2
        <5>3. total(children(r)', overs') \in Nat
          <6> DEFINE S == children(r)'
                     f == overs'
          <6>1. IsFiniteSet(S) /\ \A c \in S : f[c] \in Nat
            BY <5>1, <5>2
          <6> HIDE DEF S, f
          <6>2. total(S, f) \in Nat
            BY <6>1, TotalType
          <6> QED BY <6>2 DEF S, f
        <5> QED BY <4>1, <4>3, <5>3
      <4> QED BY <4>2, <4>3
    <3> QED BY <3>1, <3>7, <3>8 DEF RunInv
  <2> QED BY <1>3, <2>1, <2>2
<1>15. SinkKept' /\ run'[Root].pc # "off"
  <2>1. CASE r = Root
    <3>1. ~(sinkErr /\ surfacing)
      BY <1>0, <2>1 DEF IInv, SinkKept
    <3>2. surfacing' = surfacing
      BY <1>0, AwaitedStays
    <3> QED BY <1>0, <1>3, <1>6, <1>11, <2>1, <3>1, <3>2 DEF SinkKept
  <2>2. CASE r # Root
    <3>1. run'[Root] = run[Root]
      BY <1>6, <2>2, RunsOf
    <3> QED BY <1>0, <3>1, SinkStays DEF IInv
  <2> QED BY <2>1, <2>2
<1>16. \A q \in Runs : RunInv(q)'
  BY <1>10, <1>14
<1> QED BY <1>9, <1>13, <1>15, <1>16 DEF IInv

\* What the end of a batch makes of a loop.
LEMMA AfterBatch ==
  ASSUME Types, NEW r \in Runs
  PROVE  /\ afterBatch(r) \in RunState /\ afterBatch(r).pc \in {"turn", "ended"}
         /\ afterBatch(r).max = run[r].max /\ afterBatch(r).own = run[r].own
         /\ afterBatch(r).dispatched = run[r].dispatched
         /\ afterBatch(r).usage = run[r].usage + run[r].collector
         /\ afterBatch(r).pc = "turn" /\ run[r].max > 0 => afterBatch(r).usage < run[r].max
         /\ (\E c \in kids(r) : guard[c].err # {}) =>
              afterBatch(r).pc = "ended" /\ afterBatch(r).err # {}
<1> DEFINE s == run[r]
           m == run[r].usage + run[r].collector
           ch == [s EXCEPT !.usage = m]
           failing == \E c \in kids(r) : guard[c].err # {}
           a == afterBatch(r)
<1>0. s \in RunState /\ m \in Nat /\ s.max \in Nat
  BY RunFields DEF Types
<1>1. a = IF failing THEN finish(ch, {"failed"})
          ELSE IF exhausted(ch) THEN finish(ch, {"exhausted"})
          ELSE [ch EXCEPT !.pc = "turn", !.said = FALSE]
  BY DEF afterBatch
<1> SUFFICES /\ a \in RunState /\ a.pc \in {"turn", "ended"}
             /\ a.max = s.max /\ a.own = s.own /\ a.dispatched = s.dispatched /\ a.usage = m
             /\ a.pc = "turn" /\ s.max > 0 => a.usage < s.max
             /\ failing => a.pc = "ended" /\ a.err # {}
  OBVIOUS
<1> HIDE DEF s, m, failing, a
<1>2. ch \in RunState /\ ch.max = s.max /\ ch.own = s.own /\ ch.dispatched = s.dispatched /\ ch.usage = m
  BY <1>0 DEF RunState
<1> HIDE DEF ch
<1>3. {"failed"} \in SUBSET Causes /\ {"exhausted"} \in SUBSET Causes
  BY DEF Causes
<1>4. ASSUME NEW err \in SUBSET Causes
      PROVE  /\ finish(ch, err) \in RunState /\ finish(ch, err).pc = "ended"
             /\ finish(ch, err).max = ch.max /\ finish(ch, err).own = ch.own
             /\ finish(ch, err).dispatched = ch.dispatched /\ finish(ch, err).usage = ch.usage
             /\ finish(ch, err).err = err
  BY <1>2 DEF finish, RunState
<1>5. CASE failing
  BY <1>1, <1>2, <1>3, <1>4, <1>5
<1>6. CASE ~failing /\ exhausted(ch)
  BY <1>1, <1>2, <1>3, <1>4, <1>6
<1>7. CASE ~failing /\ ~exhausted(ch)
  <2>1. a = [ch EXCEPT !.pc = "turn", !.said = FALSE]
    BY <1>1, <1>7
  <2>2. /\ a \in RunState /\ a.pc = "turn" /\ a.max = ch.max /\ a.own = ch.own
        /\ a.dispatched = ch.dispatched /\ a.usage = ch.usage
    BY <1>2, <2>1 DEF RunState
  <2>3. s.max > 0 => m < s.max
    BY <1>0, <1>2, <1>7 DEF exhausted
  <2> QED BY <1>2, <1>7, <2>2, <2>3
<1> QED BY <1>5, <1>6, <1>7

\* A child that has come back from a run below a ceiling: what it used is what
\* was charged to its reservation and what it used beyond it.
LEMMA ChildSplit ==
  ASSUME IInv, NEW r \in Runs, bounded(r), NEW c \in children(r)
  PROVE  usages[c] = spent[c] + overs[c]
<1>1. c \in kids(r) /\ c \in Calls /\ c \notin Plain /\ run[c].pc # "off" /\ parent(c) = r
  BY KidsFinite DEF children, started, IInv
<1>2. run[c].max = driver[c].claim /\ driver[c].claim > 0
  BY <1>1 DEF IInv, CallInv, Reserved, child, bounded
<1>3. run[c].usage \in Nat /\ run[c].max \in Nat
  BY <1>1, RunsOf, RunFields DEF IInv, Types
<1>4. /\ usages[c] = run[c].usage
      /\ spent[c] = IF run[c].usage < run[c].max THEN run[c].usage ELSE run[c].max
      /\ overs[c] = IF run[c].max > 0 /\ run[c].usage > run[c].max THEN run[c].usage - run[c].max ELSE 0
  BY <1>1, <1>2 DEF usages, used, spent, spentOf, overs, over, bounded
<1> QED BY <1>2, <1>3, <1>4

LEMMA JoinStep ==
  ASSUME IInv, NEW r \in Runs, Join(r)
  PROVE  IInv'
<1> DEFINE s == run[r]
           t == afterBatch(r)
<1>0. /\ s.pc = "batch" /\ driver' = driver /\ guard' = guard /\ plan' = plan /\ sinkErr' = sinkErr
      /\ Types /\ s \in RunState /\ RunInv(r) /\ s.dispatched
      /\ \A c \in kids(r) : returned(c)
  BY DEF Join, IInv, Types, RunInv, Looping
<1>1. run' = [run EXCEPT ![r] = t]
  BY DEF Join
<1>2. /\ t \in RunState /\ t.pc \in {"turn", "ended"} /\ t.max = s.max /\ t.own = s.own
      /\ t.dispatched = s.dispatched /\ t.usage = s.usage + s.collector
      /\ t.pc = "turn" /\ s.max > 0 => t.usage < s.max
      /\ (\E c \in kids(r) : guard[c].err # {}) => t.pc = "ended" /\ t.err # {}
  BY <1>0, AfterBatch
<1>f. s.usage \in Nat /\ s.own \in Nat /\ s.max \in Nat /\ s.collector \in Nat /\ s.remaining \in Nat
  BY <1>0, RunFields
<1> HIDE DEF t
<1>3. run' \in [Runs -> RunState] /\ run'[r] = t /\ \A q \in Runs : q # r => run'[q] = run[q]
  BY <1>0, <1>1, <1>2 DEF Types
<1>4. Types'
  BY <1>0, <1>3 DEF Types
<1>5. /\ \A x \in Calls : CallInv(x)'
      /\ \A x \in Calls : KeptCall(x)
      /\ \A q \in Runs : q # r => RunInv(q)'
  <2>1. /\ run[r].pc \in {"turn", "batch"} /\ run'[r].pc \in {"turn", "batch", "ended"}
        /\ run'[r].max = run[r].max
        /\ \A x \in Calls : guard'[x] = guard[x]
    BY <1>0, <1>2, <1>3
  <2> QED BY <1>0, <1>3, <1>4, <2>1, OtherRuns
<1>6. awaited' = awaited /\ kids(r)' = kids(r) /\ kids(r) \subseteq Calls
  BY <1>0, AwaitedStays, KidsFinite
\* An awaited call that has returned has no driver at work.
<1>7. \A c \in kids(r) : c \in awaited => driver[c].pc \in {"off", "done"}
  <2> SUFFICES ASSUME NEW c \in kids(r), c \in awaited PROVE driver[c].pc \in {"off", "done"}
    OBVIOUS
  <2>1. c \in Calls /\ c \in levels(c) /\ guard[c].pc = "returned"
    BY <1>0, <1>6, CallPath DEF returned
  <2>2. interceptor(c) # "hasty"
    BY <2>1 DEF awaited
  <2> QED BY <2>1, <2>2 DEF IInv, CallInv, Guarded
<1>8. ASSUME NEW x \in Calls PROVE Placed(x)'
  <2>0. Placed(x) /\ parent(x) \in Runs /\ levels(parent(x)) \subseteq Runs /\ Root \in Runs
    BY RunsOf DEF IInv
  <2>1. \A q \in Runs : /\ run[q].pc # "off" => run'[q].pc # "off"
                        /\ run[q].dispatched => run'[q].dispatched
    BY <1>2, <1>3
  <2>2. ASSUME x \in awaited, guard[x].pc \in {"pending", "active"}
        PROVE  r # Root /\ r \notin levels(parent(x))
    <3> SUFFICES ASSUME r = Root \/ r \in levels(parent(x)) PROVE FALSE
      OBVIOUS
    <3>1. PICK y \in levels(x) : parent(y) = r
      BY Below
    <3>2. y \in Calls /\ levels(y) \subseteq levels(x)
      BY <3>1, Between
    <3>3. y \in awaited
      BY <2>2, <3>2 DEF awaited
    <3>4. CASE y = x
      <4>1. x \in kids(r)
        BY <2>0, <2>2, <3>1, <3>4 DEF Placed, kids
      <4> QED BY <1>0, <2>2, <4>1 DEF returned
    <3>5. CASE y # x
      <4>1. y \in levels(parent(x)) /\ y \notin Plain
        BY <3>1, <3>5, Between
      <4>2. run[y].pc = "batch"
        BY <2>0, <2>2, <4>1 DEF Placed
      <4>3. driver[y].pc = "running"
        BY <3>2, <4>1, <4>2 DEF IInv, CallInv, Driven, child
      <4>4. y \in kids(r)
        BY <3>1, <3>2, <4>3, AboveStarted DEF IInv
      <4> QED BY <1>7, <3>3, <4>3, <4>4
    <3> QED BY <3>4, <3>5
  <2> QED BY <1>0, <1>3, <1>6, <2>0, <2>1, <2>2 DEF Placed
<1>9. /\ children(r)' = children(r) /\ children(r) \in SUBSET kids(r)
      /\ \A c \in children(r) : usages'[c] = usages[c] /\ overs'[c] = overs[c]
  <2>1. ASSUME NEW c \in kids(r)
        PROVE  c \in Calls /\ (c \notin Plain => run'[c] = run[c])
    <3>1. parent(c) = r
      BY DEF kids
    <3> QED BY <1>3, <1>6, <3>1, CallPath, RunsOf
  <2>2. \A c \in children(r) : c \in kids(r)
    BY DEF children
  <2>3. children(r)' = children(r)
    BY <1>6, <2>1 DEF children, started
  <2> QED BY <2>1, <2>2, <2>3 DEF usages, used, overs, over, bounded
<1>10. /\ total(children(r)', usages') = total(children(r), usages)
       /\ total(children(r)', overs') = total(children(r), overs)
  BY <1>9, TotalSame
<1>11. /\ total(children(r), usages) \in Nat /\ total(children(r), overs) \in Nat
       /\ IsFiniteSet(children(r))
       /\ \A c \in children(r) : usages[c] \in Nat /\ spent[c] \in Nat /\ overs[c] \in Nat
  BY <1>0, <1>9, KidsFinite, TotalType
<1>12. ASSUME kids(r) \subseteq awaited PROVE s.collector = total(children(r), usages) /\ s.usage = s.own
  <2>1. reported(r) = children(r)
    <3>1. ASSUME NEW c \in children(r) PROVE driver[c].pc = "done"
      <4>1. c \in kids(r) /\ c \in Calls /\ c \notin Plain /\ run[c].pc # "off"
        BY <1>6 DEF children, started
      <4>2. driver[c].pc \in {"off", "done"}
        BY <1>7, <1>12, <4>1
      <4>3. driver[c].pc # "off"
        BY <4>1 DEF IInv, CallInv, Driven, child
      <4> QED BY <4>2, <4>3
    <3> QED BY <3>1 DEF reported
  <2>2. ~Joined(r)
    BY <1>0 DEF Joined
  <2> QED BY <1>0, <1>12, <2>1, <2>2 DEF RunInv, Charged
<1>13. Charged(r)'
  <2>1. Joined(r)'
    BY <1>0, <1>2, <1>3 DEF Joined
  <2> SUFFICES ASSUME kids(r) \subseteq awaited
               PROVE  /\ t.pc # "batch" /\ \A c \in kids(r) : returned(c)'
                      /\ t.usage = t.own + total(children(r)', usages')
    BY <1>3, <1>6, <2>1 DEF Charged
  <2>2. \A c \in kids(r) : returned(c)'
    BY <1>0 DEF returned
  <2> QED BY <1>2, <1>10, <1>12, <2>2
<1>14. Ceiling(r)'
  <2> SUFFICES ASSUME bounded(r), kids(r) \subseteq awaited
               PROVE  over(r)' <= total(children(r)', overs')
    BY <1>2, <1>3, <1>6 DEF Ceiling, bounded
  <2>1. total(children(r), usages) = total(children(r), spent) + total(children(r), overs)
    <3> DEFINE S == children(r)
    <3>1. IsFiniteSet(S) /\ \A c \in S : /\ usages[c] \in Nat /\ spent[c] \in Nat /\ overs[c] \in Nat
                                         /\ usages[c] = spent[c] + overs[c]
      BY <1>11, ChildSplit
    <3> HIDE DEF S
    <3>2. total(S, usages) = total(S, spent) + total(S, overs)
      BY <3>1, TotalSplit
    <3> QED BY <3>2 DEF S
  <2>2. total(children(r), spent) = total(settledClaims(r), spent)
    <3>1. ASSUME NEW c \in children(r) PROVE c \in settledClaims(r)
      <4>1. c \in kids(r) /\ c \in Calls /\ c \notin Plain /\ run[c].pc # "off"
        BY <1>6 DEF children, started
      <4>2. driver[c].pc \in {"off", "done"}
        BY <1>7, <4>1
      <4>3. driver[c].pc # "off"
        BY <4>1 DEF IInv, CallInv, Driven, child
      <4>4. driver[c].settled
        BY <4>1, <4>2, <4>3 DEF IInv, CallInv, Reserved, child
      <4> QED BY <4>1, <4>4 DEF settledClaims
    <3>2. ASSUME NEW c \in settledClaims(r) \ children(r) PROVE spent[c] = 0
      <4>1. c \in kids(r) /\ c \in Calls
        BY <1>6 DEF settledClaims
      <4>2. c \in Plain \/ run[c].pc = "off"
        BY <3>2, <4>1 DEF children, started
      <4>3. used(c) = 0
        BY <4>1, <4>2 DEF IInv, CallInv, Driven, child, used, NoRun
      <4>4. driver[c].claim \in Nat
        BY <1>0, <4>1, CallTypes, DriverFields
      <4> QED BY <4>1, <4>3, <4>4 DEF spent, spentOf
    <3> QED BY <3>1, <3>2, TotalSame
  <2>3. /\ s.remaining + total(openClaims(r), claims) + total(settledClaims(r), spent)
             = s.max - s.usage
    BY <1>0 DEF RunInv, Pooled
  <2>4. total(openClaims(r), claims) \in Nat /\ total(settledClaims(r), spent) \in Nat
    <3>1. openClaims(r) \in SUBSET kids(r) /\ settledClaims(r) \in SUBSET kids(r)
      BY DEF openClaims, settledClaims
    <3> QED BY <1>0, <3>1, KidsFinite, TotalType
  <2>5. t.usage = s.usage + total(children(r), usages)
    BY <1>2, <1>12
  <2>6. t.usage - s.max <= total(children(r), overs)
    BY <1>11, <1>f, <2>1, <2>2, <2>3, <2>4, <2>5
  <2>7. over(r)' = IF t.max > 0 /\ t.usage > t.max THEN t.usage - t.max ELSE 0
    BY <1>3 DEF over, bounded
  <2> QED BY <1>2, <1>10, <1>11, <2>6, <2>7
<1>15. Looping(run[r])' /\ Pooled(r)'
  BY <1>2, <1>3 DEF Looping, Pooled
<1>16. SinkKept' /\ run'[Root].pc # "off"
  <2>1. CASE r = Root
    <3>1. ASSUME sinkErr, surfacing
          PROVE  (\E c \in kids(Root) : driver[c].updateErr) /\ t.pc = "ended" /\ t.err # {}
      <4>1. PICK c \in kids(Root) : driver[c].updateErr
        BY <3>1 DEF IInv, SinkKept
      <4>0. c \in kids(r)
        BY <2>1, <4>1
      <4>2. c \in Calls /\ returned(c) /\ c \in levels(c)
        <5>1. c \in Calls
          BY <1>6, <4>0
        <5>2. returned(c)
          BY <1>0, <4>0
        <5> QED BY <5>1, <5>2, CallPath
      <4>3. interceptor(c) \notin {"hasty", "masks"}
        BY <3>1, <4>1, <4>2 DEF awaited, candid, surfacing
      <4>4. guard[c].err # {}
        BY <4>1, <4>2, <4>3 DEF IInv, CallInv, Honest, returned
      <4> QED BY <1>2, <4>0, <4>1, <4>4
    <3>2. surfacing' = surfacing
      BY <1>0, AwaitedStays
    <3> QED BY <1>0, <1>2, <1>3, <1>6, <2>1, <3>1, <3>2 DEF SinkKept
  <2>2. CASE r # Root
    <3>1. run'[Root] = run[Root]
      BY <1>3, <2>2, RunsOf
    <3> QED BY <1>0, <3>1, SinkStays DEF IInv
  <2> QED BY <2>1, <2>2
<1>17. \A q \in Runs : RunInv(q)'
  BY <1>5, <1>13, <1>14, <1>15 DEF RunInv
<1> QED BY <1>4, <1>5, <1>8, <1>16, <1>17 DEF IInv

-----------------------------------------------------------------------------
(* The invariant.                                                          *)

LEMMA InitInv == Init => IInv
<1> SUFFICES ASSUME Init PROVE IInv
  OBVIOUS
<1>0. /\ guard = [c \in Calls |-> NewGuard] /\ driver = [c \in Calls |-> NewDriver]
      /\ sinkErr = FALSE /\ plan \in Plans
      /\ run = [r \in Runs |-> IF r = Root THEN NewRun(plan.max, 0) ELSE NoRun]
  BY DEF Init
<1>1. NewGuard \in GuardState /\ NewDriver \in DriverState /\ NoRun \in RunState
  BY NoRunType
<1>2. plan.max \in Nat
  BY <1>0, DelegationAssumption
<1> DEFINE t == NewRun(plan.max, 0)
<1>3. /\ t \in RunState /\ t.pc = "turn" /\ t.max = plan.max /\ t.usage = 0 /\ t.own = 0
      /\ t.dispatched = FALSE
  BY <1>2 DEF NewRun, NoRun, RunState
<1> HIDE DEF t
<1>4. /\ Root \in Runs /\ run \in [Runs -> RunState] /\ run[Root] = t
      /\ \A r \in Runs : r # Root => run[r] = NoRun
  BY <1>0, <1>1, <1>3, RunsOf DEF t
<1>5. Types
  BY <1>0, <1>1, <1>4 DEF Types
<1>6. /\ NewGuard.pc = "off" /\ NewGuard.calls = 0 /\ NewGuard.protocolErr = {}
      /\ NewDriver.pc = "off" /\ NewDriver.closed = FALSE /\ NewDriver.err = {}
      /\ NewDriver.claim = 0 /\ NewDriver.settled = FALSE /\ NewDriver.count = 0
      /\ NewDriver.updateErr = FALSE
      /\ NoRun.pc = "off" /\ NoRun.max = 0 /\ NoRun.usage = 0 /\ NoRun.own = 0
      /\ NoRun.dispatched = FALSE
  BY DEF NewGuard, NewDriver, NoRun
<1>7. ASSUME NEW c \in Calls PROVE CallInv(c) /\ Placed(c)
  <2>1. guard[c] = NewGuard /\ driver[c] = NewDriver
    BY <1>0
  <2>2. child(c) = NoRun
    BY <1>4, CallPath, RunsOf DEF child
  <2>3. Guarded(interceptor(c), NewGuard, NewDriver)
    BY <1>6 DEF Guarded
  <2>4. Driven(c, NewDriver, NoRun)
    BY <1>6 DEF Driven
  <2>5. Honest(interceptor(c), NewGuard, NewDriver, NoRun)
    BY <1>6 DEF Honest
  <2>6. Reserved(c, NewDriver, NoRun, run[parent(c)].max)
    BY <1>6 DEF Reserved
  <2>7. CallInv(c)
    BY <2>1, <2>2, <2>3, <2>4, <2>5, <2>6 DEF CallInv
  <2>8. Placed(c)
    BY <1>6, <2>1 DEF Placed
  <2> QED BY <2>7, <2>8
<1>8. ASSUME NEW r \in Runs PROVE RunInv(r)
  <2>1. /\ run[r].pc \in {"off", "turn"} /\ run[r].usage = 0 /\ run[r].own = 0
        /\ run[r].dispatched = FALSE /\ run[r].max \in Nat
    BY <1>2, <1>3, <1>4, <1>6
  <2>2. Looping(run[r]) /\ Pooled(r) /\ Ceiling(r)
    BY <2>1 DEF Looping, Pooled, Ceiling
  <2>3. Charged(r)
    BY <2>1 DEF Charged, Joined
  <2> QED BY <2>2, <2>3 DEF RunInv
<1> QED BY <1>0, <1>3, <1>4, <1>5, <1>7, <1>8 DEF IInv, SinkKept

\* Steps that leave everything but the ended contexts alone.
LEMMA SameInv ==
  ASSUME IInv, UNCHANGED <<run, guard, driver, sinkErr, plan>>
  PROVE  IInv'
<1>1. Types'
  BY DEF IInv, Types
<1>2. \A c \in Calls : CallInv(c)' /\ Placed(c)'
  BY DEF IInv, CallInv, Placed, interceptor, child, awaited
<1>3. ASSUME NEW r \in Runs PROVE RunInv(r)'
  <2>1. kids(r) \subseteq Calls
    BY KidsFinite DEF IInv
  <2>2. \A c \in kids(r) : CallInv(c) /\ Placed(c) /\ KeptCall(c)
    BY <2>1 DEF IInv, KeptCall, returned
  <2>3. SameCounters(run[r], run'[r])
    BY DEF SameCounters
  <2> QED BY <1>1, <2>2, <2>3, RunStays DEF IInv
<1>4. SinkKept'
  BY SinkStays
<1> QED BY <1>1, <1>2, <1>3, <1>4 DEF IInv

LEMMA NextInv ==
  ASSUME IInv, [Next]_vars
  PROVE  IInv'
<1>1. ASSUME NEW r \in Runs, Turn(r) \/ TurnCanceled(r) \/ Join(r) PROVE IInv'
  BY <1>1, TurnStep, TurnCanceledStep, JoinStep
<1>2. ASSUME NEW c \in Calls, StepOf(c) PROVE IInv'
  BY <1>2, ExecuteStep, CallNextStep, ReturnStep, ValidateStep, ReserveStep, StartStep, SettleStep,
     ReportStep, PlainReturnStep, FinishStep DEF StepOf
<1>3. ASSUME NEW r \in Runs, Say(r) PROVE IInv'
  BY <1>3, SayStep
<1>4. ASSUME NEW c \in Calls, PlainEmit(c) PROVE IInv'
  BY <1>4, PlainEmitStep
<1>5. ASSUME NEW q \in Cancelable, Cancel(q) PROVE IInv'
  BY <1>5, SameInv DEF Cancel
<1>6. CASE UNCHANGED vars
  BY <1>6, SameInv DEF vars
<1> QED BY <1>1, <1>2, <1>3, <1>4, <1>5, <1>6 DEF Next, Step

\* The inductive invariant of the whole tree of calls: the state of every guard,
\* wrapper, driver, reservation and run, against those it depends on.
THEOREM DelegationInvariant == Spec => []IInv
<1>1. Init => IInv
  BY InitInv
<1>2. IInv /\ [Next]_vars => IInv'
  BY NextInv
<1> QED BY <1>1, <1>2, PTL DEF Spec

-----------------------------------------------------------------------------
(* What it shows.                                                          *)

\* A set all of whose elements are equal has one at most.
LEMMA OneAtMost ==
  ASSUME NEW S, \A x, y \in S : x = y
  PROVE  Cardinality(S) <= 1 /\ (S = {} => Cardinality(S) = 0)
<1>1. CASE S = {}
  BY <1>1, FS_EmptySet
<1>2. CASE S # {}
  <2>1. PICK x \in S : TRUE
    BY <1>2
  <2>2. S = {x}
    BY <2>1
  <2>3. Cardinality(S) = 1
    BY <2>2, FS_Singleton, Zenon
  <2> QED BY <1>2, <2>3
<1> QED BY <1>1, <1>2

\* Pools are conserved: whatever the parallel children of a run reserve, use,
\* return or leave behind when they are cancelled, agentToolTokenTracker neither
\* loses a token nor grants one twice.
THEOREM PoolsConserved == Spec => []PoolConserved
<1>1. ASSUME IInv PROVE PoolConserved
  <2> SUFFICES ASSUME NEW r \in Runs, bounded(r), run[r].pc = "batch"
               PROVE  /\ run[r].remaining >= 0
                      /\ run[r].remaining + total(openClaims(r), claims)
                           + total(settledClaims(r), spent) = run[r].max - run[r].usage
                      /\ Cardinality(openClaims(r)) <= IF run[r].gate THEN 1 ELSE 0
    BY DEF PoolConserved
  <2>1. Pooled(r) /\ run[r] \in RunState
    BY <1>1 DEF IInv, RunInv, Types
  <2>2. run[r].remaining \in Nat /\ run[r].gate \in BOOLEAN
    BY <2>1, RunFields
  <2>3. /\ ~run[r].gate => openClaims(r) = {}
        /\ \A c, d \in openClaims(r) : c = d
    BY <2>1 DEF Pooled
  <2>4. Cardinality(openClaims(r)) <= 1 /\ (openClaims(r) = {} => Cardinality(openClaims(r)) = 0)
    BY <2>3, OneAtMost
  <2> QED BY <2>1, <2>2, <2>3, <2>4 DEF Pooled
<1> QED BY <1>1, DelegationInvariant, PTL

\* A run passes the ceiling of its RunBudget by one turn of its own, or by what
\* its children passed theirs: nested and parallel reservations promise no token
\* twice.
THEOREM CeilingsHold == Spec => []CeilingHeld
<1>1. ASSUME IInv PROVE CeilingHeld
  <2> SUFFICES ASSUME NEW r \in Runs, bounded(r), kids(r) \subseteq awaited
               PROVE  (\E t \in Tokens : over(r) < t) \/ over(r) <= total(children(r), overs)
    BY DEF CeilingHeld
  <2>1. RunInv(r) /\ run[r] \in RunState
    BY <1>1 DEF IInv, Types
  <2>2. run[r].pc \in {"off", "turn", "batch", "ended"} /\ run[r].max \in Nat /\ run[r].usage \in Nat
    BY <2>1, RunFields
  <2>3. CASE run[r].pc = "ended"
    BY <2>1, <2>3 DEF RunInv, Ceiling
  <2>4. CASE run[r].pc \in {"turn", "batch"}
    <3>1. over(r) = 0
      BY <2>1, <2>2, <2>4 DEF RunInv, Looping, over, bounded
    <3>2. children(r) \in SUBSET kids(r)
      BY DEF children
    <3>3. total(children(r), overs) \in Nat
      BY <1>1, <3>2, KidsFinite, TotalType DEF IInv
    <3> QED BY <3>1, <3>3
  <2>5. CASE run[r].pc = "off"
    <3>1. r # Root
      BY <1>1, <2>5 DEF IInv
    <3>2. r \in Calls \ Plain
      BY <3>1, RunsOf
    <3>3. run[r] = NoRun
      BY <1>1, <2>5, <3>2 DEF IInv, CallInv, Driven, child
    <3> QED BY <3>3 DEF bounded, NoRun
  <2> QED BY <2>2, <2>3, <2>4, <2>5
<1> QED BY <1>1, DelegationInvariant, PTL

\* A finished run has counted every token of its own turns and of the runs it
\* started once: reportAgentToolUsage, and the collector that is charged after
\* the batch, lose none and repeat none, also when children fail.
THEOREM UsageCountedOnce == Spec => []UsageOnce
<1>1. ASSUME IInv PROVE UsageOnce
  <2> SUFFICES ASSUME NEW r \in Runs, run[r].pc = "ended", kids(r) \subseteq awaited
               PROVE  run[r].usage = run[r].own + total(children(r), usages)
    BY DEF UsageOnce
  <2>1. Charged(r) /\ run[r] \in RunState
    BY <1>1 DEF IInv, RunInv, Types
  <2>2. CASE run[r].dispatched
    <3>1. Joined(r)
      BY <2>2 DEF Joined
    <3> QED BY <2>1, <3>1 DEF Charged
  <2>3. CASE ~run[r].dispatched
    <3>1. ~Joined(r)
      BY <2>3 DEF Joined
    <3>2. run[r].usage = run[r].own
      BY <2>1, <3>1 DEF Charged
    <3>3. children(r) = {}
      BY <1>1, <2>3, Undispatched
    <3>4. total(children(r), usages) = 0
      BY <3>3, TotalEmpty
    <3>5. run[r].own \in Nat
      BY <2>1, RunFields
    <3> QED BY <3>2, <3>4, <3>5
  <2> QED BY <2>2, <2>3
<1> QED BY <1>1, DelegationInvariant, PTL

\* A call that answers with ErrNotExecuted has had no effect: its agent has not
\* run and no update of it was counted, through wrapInterceptor and the update
\* wrapper, even when an interceptor returned before its next.
THEOREM NotExecutedIsTrue == Spec => []NotExecutedTrue
<1>1. ASSUME IInv PROVE NotExecutedTrue
  <2> SUFFICES ASSUME NEW c \in Calls, returned(c), "notExecuted" \in guard[c].err
               PROVE  driver[c].count = 0 /\ (c \notin Plain => ~started(c))
    BY DEF NotExecutedTrue
  <2>1. Honest(interceptor(c), guard[c], driver[c], child(c))
    BY <1>1 DEF IInv, CallInv
  <2> QED BY <2>1 DEF Honest, returned, child, started
<1> QED BY <1>1, DelegationInvariant, PTL

-----------------------------------------------------------------------------
(* Updates and answers.                                                    *)

\* Only an emission counts an update or fails.
LEMMA QuietUpdates ==
  ASSUME IInv, Step \/ (\E q \in Cancelable : Cancel(q)) \/ UNCHANGED vars
  PROVE  /\ \A x \in Calls : /\ driver'[x].count = driver[x].count
                             /\ driver'[x].updateErr = driver[x].updateErr
         /\ sinkErr' = sinkErr /\ plan' = plan
<1>0. driver \in [Calls -> DriverState]
  BY DEF IInv, Types
<1>1. ASSUME NEW c \in Calls, NEW e, driver' = [driver EXCEPT ![c] = e],
             e.count = driver[c].count, e.updateErr = driver[c].updateErr
      PROVE  \A x \in Calls : /\ driver'[x].count = driver[x].count
                              /\ driver'[x].updateErr = driver[x].updateErr
  BY <1>0, <1>1
<1>2. ASSUME NEW c \in Calls, StepOf(c)
      PROVE  \/ driver' = driver
             \/ \E e : /\ driver' = [driver EXCEPT ![c] = e]
                       /\ e.count = driver[c].count /\ e.updateErr = driver[c].updateErr
  <2>0. driver[c] \in DriverState
    BY <1>0
  <2>1. ASSUME NEW pc PROVE /\ [driver[c] EXCEPT !.pc = pc].count = driver[c].count
                            /\ [driver[c] EXCEPT !.pc = pc].updateErr = driver[c].updateErr
    BY <2>0 DEF DriverState
  <2>2. ASSUME NEW err PROVE /\ answer(c, err).count = driver[c].count
                             /\ answer(c, err).updateErr = driver[c].updateErr
                             /\ [answer(c, err) EXCEPT !.settled = TRUE].count = driver[c].count
                             /\ [answer(c, err) EXCEPT !.settled = TRUE].updateErr = driver[c].updateErr
    BY <2>0 DEF DriverState, answer
  <2>3. CASE driver' = enter(c)
    <3> DEFINE pc == IF c \in Plain THEN "running" ELSE "validate"
    <3>1. driver' = [driver EXCEPT ![c] = [driver[c] EXCEPT !.pc = pc]]
      BY <1>0, <2>3 DEF enter
    <3> QED BY <2>1, <3>1
  <2>4. CASE Execute(c) \/ CallNext(c) \/ Return(c)
    BY <2>3, <2>4 DEF Execute, CallNext, next, Return
  <2>5. CASE \E err : driver' = [driver EXCEPT ![c] = answer(c, err)]
    BY <2>2, <2>5
  <2>6. CASE \E pc : moveTo(c, pc)
    <3>1. PICK pc : driver' = [driver EXCEPT ![c] = [driver[c] EXCEPT !.pc = pc]]
      BY <1>0, <2>6 DEF moveTo
    <3> QED BY <2>1, <3>1
  <2>7. CASE Validate(c) \/ Report(c) \/ PlainReturn(c)
    BY <2>5, <2>6, <2>7 DEF Validate, Report, PlainReturn
  <2>8. CASE Reserve(c)
    <3>1. CASE driver' = [driver EXCEPT ![c].pc = "start", ![c].claim = claimOf(c)]
      <4> DEFINE k == claimOf(c)
                 e == [driver[c] EXCEPT !.pc = "start", !.claim = k]
      <4>1. driver' = [driver EXCEPT ![c] = e]
        BY <1>0, <3>1
      <4> HIDE DEF k
      <4>2. e.count = driver[c].count /\ e.updateErr = driver[c].updateErr
        BY <2>0 DEF DriverState
      <4> QED BY <4>1, <4>2
    <3> QED BY <2>5, <2>8, <3>1 DEF Reserve
  <2>9. CASE Start(c)
    <3>1. CASE driver' = [driver EXCEPT ![c] = [answer(c, notExecuted("canceled")) EXCEPT !.settled = TRUE]]
      BY <2>2, <3>1
    <3> QED BY <2>6, <2>9, <3>1 DEF Start
  <2>10. CASE Settle(c)
    <3> DEFINE e == [driver[c] EXCEPT !.pc = "report", !.settled = TRUE]
    <3>1. driver' = [driver EXCEPT ![c] = e]
      BY <1>0, <2>10 DEF Settle
    <3>2. e.count = driver[c].count /\ e.updateErr = driver[c].updateErr
      BY <2>0 DEF DriverState
    <3> QED BY <3>1, <3>2
  <2>11. CASE Finish(c)
    <3> DEFINE err == finished(c)
               e == [driver[c] EXCEPT !.pc = "done", !.closed = TRUE, !.err = err]
    <3>1. driver' = [driver EXCEPT ![c] = e]
      BY <1>0, <2>11 DEF Finish
    <3> HIDE DEF err
    <3>2. e.count = driver[c].count /\ e.updateErr = driver[c].updateErr
      BY <2>0 DEF DriverState
    <3> QED BY <3>1, <3>2
  <2> QED BY <1>2, <2>4, <2>7, <2>8, <2>9, <2>10, <2>11 DEF StepOf
<1>3. ASSUME NEW c \in Calls, StepOf(c) PROVE sinkErr' = sinkErr /\ plan' = plan
  BY <1>3 DEF StepOf, Execute, CallNext, Return, Validate, Reserve, Start, Settle, Report,
              PlainReturn, Finish
<1>4. ASSUME NEW r \in Runs, Turn(r) \/ TurnCanceled(r) \/ Join(r)
      PROVE  driver' = driver /\ sinkErr' = sinkErr /\ plan' = plan
  BY <1>4 DEF Turn, TurnCanceled, Join
<1>5. ASSUME (\E q \in Cancelable : Cancel(q)) \/ UNCHANGED vars
      PROVE  driver' = driver /\ sinkErr' = sinkErr /\ plan' = plan
  BY <1>5 DEF Cancel, vars
<1> QED BY <1>1, <1>2, <1>3, <1>4, <1>5 DEF Step

\* An emission of p passes drivers at work, and changes no answer.
LEMMA Emitting ==
  ASSUME IInv, (\E r \in Runs : Say(r)) \/ (\E c \in Calls : PlainEmit(c))
  PROVE  /\ plan' = plan /\ (sinkErr => sinkErr')
         /\ \A x \in Calls : /\ Updated(driver[x], driver'[x])
                             /\ \/ driver'[x] = driver[x]
                                \/ driver[x].pc \notin {"off", "done"}
<1>1. CASE \E r \in Runs : Say(r)
  <2>1. PICK r \in Runs : Say(r)
    BY <1>1
  <2>2. r \in Calls /\ Emission(r, driver') /\ run[r].pc = "turn" /\ r \notin Plain
    BY <2>1, SayStep, RunsOf DEF Say
  <2>3. driver[r].pc # "off"
    BY <2>2 DEF IInv, CallInv, Driven, child
  <2>4. plan' = plan /\ (sinkErr => sinkErr')
    BY <2>1 DEF Say
  <2> QED BY <2>2, <2>3, <2>4, PathAtWork
<1>2. CASE \E c \in Calls : PlainEmit(c)
  <2>1. PICK c \in Calls : PlainEmit(c)
    BY <1>2
  <2>2. Emission(c, driver') /\ c \in Plain /\ driver[c].pc # "off"
    BY <2>1, PlainEmitStep DEF PlainEmit
  <2>3. plan' = plan /\ (sinkErr => sinkErr')
    BY <2>1 DEF PlainEmit
  <2> QED BY <2>2, <2>3, PathAtWork
<1> QED BY <1>1, <1>2

\* An update that fails is not lost: every call that has one and that no
\* interceptor masks answers with an error that claims no "not executed", and
\* the caller's run ends with an error when the caller's sink has failed and no
\* interceptor of its own calls masks failures.
THEOREM FailuresSurface == Spec => UpdateFailureSurfaces
<1> DEFINE surfaces ==
      /\ \A c \in candid : driver[c].updateErr /\ ~returned(c) /\ returned(c)' =>
           guard'[c].err # {} /\ "notExecuted" \notin guard'[c].err
      /\ sinkErr /\ awaited = Calls /\ kids(Root) \subseteq candid
           /\ run[Root].pc # "ended" /\ run'[Root].pc = "ended" => run'[Root].err # {}
<1>1. ASSUME IInv, IInv', [Next]_vars PROVE surfaces
  <2>1. /\ plan' = plan /\ (sinkErr => sinkErr')
        /\ \A x \in Calls : driver[x].updateErr => driver'[x].updateErr
    <3>1. CASE (\E r \in Runs : Say(r)) \/ (\E c \in Calls : PlainEmit(c))
      BY <1>1, <3>1, Emitting DEF Updated
    <3>2. CASE Step \/ (\E q \in Cancelable : Cancel(q)) \/ UNCHANGED vars
      BY <1>1, <3>2, QuietUpdates
    <3> QED BY <1>1, <3>1, <3>2 DEF Next
  <2>2. surfacing' = surfacing /\ \A c : interceptor(c)' = interceptor(c)
    BY <2>1, AwaitedStays
  <2>3. ASSUME NEW c \in candid, driver[c].updateErr, returned(c)'
        PROVE  guard'[c].err # {} /\ "notExecuted" \notin guard'[c].err
    <3>1. c \in Calls /\ c \in levels(c)
      BY CallPath DEF awaited, candid
    <3>2. interceptor(c) \notin {"hasty", "masks"}
      BY <3>1 DEF awaited, candid
    <3>3. Honest(interceptor(c)', guard'[c], driver'[c], child(c)')
      BY <1>1, <3>1 DEF IInv, CallInv
    <3>4. driver'[c].updateErr /\ guard'[c].pc = "returned" /\ interceptor(c)' \notin {"hasty", "masks"}
      BY <2>1, <2>2, <2>3, <3>1, <3>2 DEF returned
    <3> QED BY <3>3, <3>4 DEF Honest
  <2>4. ASSUME sinkErr, surfacing, run'[Root].pc = "ended" PROVE run'[Root].err # {}
    BY <1>1, <2>1, <2>2, <2>4 DEF IInv, SinkKept
  <2> QED BY <2>3, <2>4 DEF surfacing
<1>2. IInv /\ IInv' /\ [Next]_vars => [surfaces]_vars
  BY <1>1
<1>3. UpdateFailureSurfaces <=> [][surfaces]_vars
  BY PTL DEF UpdateFailureSurfaces
<1> HIDE DEF surfaces
<1> QED BY <1>2, <1>3, DelegationInvariant, PTL DEF Spec

\* No update passes the wrapper of a call that was answered, at any level: what
\* toolUpdateState lets through comes before the result it belongs to.
THEOREM UpdatesBeforeResult == Spec => NoLateUpdate
<1> DEFINE early == \A c \in awaited : driver'[c].count # driver[c].count =>
                                         \A q \in levels(c) : ~returned(q)
<1>1. ASSUME IInv, [Next]_vars PROVE early
  <2> SUFFICES ASSUME NEW c \in awaited, driver'[c].count # driver[c].count, NEW q \in levels(c)
               PROVE  ~returned(q)
    OBVIOUS
  <2>0. c \in Calls /\ c \in levels(c) /\ q \in Calls /\ levels(q) \subseteq levels(c) /\ q \in levels(q)
    BY CallPath, Between DEF awaited
  <2>1. (\E r \in Runs : Say(r)) \/ (\E x \in Calls : PlainEmit(x))
    BY <1>1, <2>0, QuietUpdates DEF Next
  <2>2. driver[c].pc \notin {"off", "done"}
    BY <1>1, <2>0, <2>1, Emitting
  <2>3. driver[q].pc \notin {"off", "done"}
    <3>1. CASE q = c
      BY <2>2, <3>1
    <3>2. CASE q # c
      <4>1. q \in levels(parent(c)) /\ q \notin Plain
        BY <2>0, <3>2, Between
      <4>2. run[q].pc = "batch"
        BY <1>1, <2>0, <2>2, <4>1, AboveWaits DEF IInv
      <4>3. driver[q].pc = "running"
        BY <1>1, <2>0, <4>1, <4>2 DEF IInv, CallInv, Driven, child
      <4> QED BY <4>3
    <3> QED BY <3>1, <3>2
  <2>4. interceptor(q) # "hasty"
    BY <2>0 DEF awaited
  <2> QED BY <1>1, <2>0, <2>3, <2>4 DEF IInv, CallInv, Guarded, returned
<1>2. IInv /\ [Next]_vars => [early]_vars
  BY <1>1
<1>3. NoLateUpdate <=> [][early]_vars
  BY PTL DEF NoLateUpdate
<1> HIDE DEF early
<1> QED BY <1>2, <1>3, DelegationInvariant, PTL DEF Spec

=============================================================================
