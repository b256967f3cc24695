---------------------------- MODULE MCDelegation ----------------------------
(* A model-checking instance of Delegation. *)
EXTENDS Delegation

Tree == {<<1>>, <<2>>, <<1, 1>>, <<1, 1, 1>>, <<1, 1, 2>>}

PlainCalls == {<<1, 1, 1>>}

\* <<1, 1, 2>> allows three levels, the agents above it two.
Depths == [c \in Calls |-> IF c = <<1, 1, 2>> THEN 3 ELSE 2]

OwnBudgets == [c \in Calls |-> IF c = <<2>> THEN 2 ELSE 0]

Direct == [c \in Calls |-> "none"]

Plan(calls, max, layers) == [calls |-> calls, max |-> max, interceptor |-> layers]

\* Two agents on one pool, two agents without one, an ordinary tool in an
\* agent in an agent, a pool in a pool, an agent refused for its depth, a hasty
\* interceptor below a pool, and one that masks failures inside an agent.
Shapes ==
  {Plan({<<1>>, <<2>>}, 5, Direct),
   Plan({<<1>>, <<2>>}, 0, [Direct EXCEPT ![<<1>>] = "waits"]),
   Plan({<<1>>, <<1, 1>>, <<1, 1, 1>>}, 0, Direct),
   Plan({<<1>>, <<1, 1>>, <<2>>}, 7, Direct),
   Plan({<<1>>, <<1, 1>>, <<1, 1, 2>>}, 0, Direct),
   Plan({<<1>>, <<1, 1>>}, 7, [Direct EXCEPT ![<<1, 1>>] = "hasty"]),
   Plan({<<1>>, <<1, 1>>}, 0, [Direct EXCEPT ![<<1, 1>>] = "masks"])}

Contexts == {<<>>, <<1>>}

=============================================================================
