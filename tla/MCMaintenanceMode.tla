------------------------- MODULE MCMaintenanceMode -------------------------
(* Instances of MaintenanceMode for TLC: rack a with the pod a0, rack b     *)
(* with b0, at first on the workers n1 and n2.  The workers are alike, so   *)
(* that this placement stands for all.                                      *)
EXTENDS MaintenanceMode, TLC

CONSTANTS a, b, a0, b0, n1, n2

MCRackOf == [p \in Pods |-> IF p = b0 THEN b ELSE a]

MCPlacements == {[p \in Pods |-> IF p = b0 THEN n2 ELSE n1]}

Symmetry == Permutations(Nodes)

=============================================================================
