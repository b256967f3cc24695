-------------------------- MODULE MCDurableRuntime --------------------------
(* Model-checking instances of DurableRuntime. *)
EXTENDS DurableRuntime, TLC

CONSTANTS c1, c2, w1, w2, o1, o2

\* Two processes that compete for the execution.
TwoProcesses == c1 :> w1 @@ c2 :> w2

\* One process that calls twice.
OneProcess == c1 :> w1 @@ c2 :> w1

OneCall == c1 :> w1

OneEffect == <<{o1}>>

Turns == <<{o1}, {o2}>>

FailingResults == {r \in EngineResults : r.failed}

=============================================================================
