--------------------------- MODULE MCRackScaling ---------------------------
(* Instances of RackScaling for TLC. *)
EXTENDS RackScaling

\* A datacenter that was just created, and one brought up with two racks.
NewOrUp == {<<>>, <<2, 1>>}
\* Also racks that were scaled by hand, as the integration test
\* scale_down_unbalanced_racks does.
LifecycleSizes == NewOrUp \cup {<<1, 3>>}
\* Two racks brought up evenly.
Even == {<<1, 1>>}
===========================================================================
