------------------------ MODULE MCOrchestrationDrive ------------------------
(* Model-checking instances of OrchestrationDrive. *)
EXTENDS OrchestrationDrive

=============================================================================
