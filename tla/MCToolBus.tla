----------------------------- MODULE MCToolBus -----------------------------
(* Model-checking instances of ToolBus. *)
EXTENDS ToolBus, TLC

CONSTANTS b1, b2, read, write, ask, lost, files

\* ask is an agent: its driver runs batch b2 on a clone of the bus.
Delegating == b1 :> <<ask, write, write>> @@ b2 :> <<write, read, lost>>

Delegated == b1 :> None @@ b2 :> <<b1, 1>>

\* read is sequential: it has a limiter of its own name, with one permit.
OrderedReads == write :> files @@ read :> read @@ ask :> None @@ lost :> None

OneFileOneRead == files :> 1 @@ read :> 1

=============================================================================
