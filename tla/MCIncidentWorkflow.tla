------------------------- MODULE MCIncidentWorkflow -------------------------
(* Instances of IncidentWorkflow for TLC. *)
EXTENDS IncidentWorkflow, TLC

WorkflowSymmetry == Permutations(Operators) \cup Permutations(Incidents)
=============================================================================
