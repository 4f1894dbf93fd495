----------------------------- MODULE MCPlannings -----------------------------
(* Instances of Plannings for TLC. *)
EXTENDS Plannings, TLC

\* Descriptions are only compared for equality.
Symmetry == Permutations(Names)
=============================================================================
