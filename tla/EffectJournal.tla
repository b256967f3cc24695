---------------------------- MODULE EffectJournal ----------------------------
(***************************************************************************)
(* What a durable Backend promises about effects, with leases, versions,   *)
(* claims and attempt numbers hidden: every operation gets at most one     *)
(* outcome, which is final; an operation is in doubt from the moment it may *)
(* have been executed until its outcome is recorded or it is given up; and *)
(* the execution gets at most one result, only when nothing is in doubt,   *)
(* after which no operation begins.                                        *)
(***************************************************************************)
CONSTANTS Operations, Outcomes, Results, None

VARIABLES
  outcome,   \* outcome[op], or None
  doubt,     \* operations that may have been executed without an outcome
  final      \* the execution's result, or None

Init ==
  /\ outcome = [op \in Operations |-> None]
  /\ doubt = {}
  /\ final = None

Begin(op) ==
  /\ outcome[op] = None
  /\ op \notin doubt
  /\ final = None
  /\ doubt' = doubt \cup {op}
  /\ UNCHANGED <<outcome, final>>

Settle(op, o) ==
  /\ op \in doubt
  /\ outcome' = [outcome EXCEPT ![op] = o]
  /\ doubt' = doubt \ {op}
  /\ UNCHANGED final

GiveUp(op) ==
  /\ op \in doubt
  /\ doubt' = doubt \ {op}
  /\ UNCHANGED <<outcome, final>>

Complete(result) ==
  /\ final = None
  /\ doubt = {}
  /\ final' = result
  /\ UNCHANGED <<outcome, doubt>>

Next ==
  \/ \E op \in Operations : Begin(op)
  \/ \E op \in Operations, o \in Outcomes : Settle(op, o)
  \/ \E op \in Operations : GiveUp(op)
  \/ \E result \in Results : Complete(result)

Spec == Init /\ [][Next]_<<outcome, doubt, final>>
=============================================================================
