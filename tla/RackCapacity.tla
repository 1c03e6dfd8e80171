---------------------------- MODULE RackCapacity ----------------------------
(***************************************************************************)
(* What the scaling of racks promises, with no passes in it: the replicas  *)
(* of the racks, and the one node that is leaving.  Racks are added at any *)
(* time, but no rack grows or is emptied while a node leaves, and its      *)
(* replica goes only once the node has left the ring.  RackScaling         *)
(* implements this.                                                        *)
(***************************************************************************)
EXTENDS Integers, Sequences

VARIABLES
    nodes,    \* replicas of each rack
    leaving   \* the node that is leaving, its rack and ordinal

capacity == <<nodes, leaving>>

Nobody == [rack |-> 0, ord |-> 0, phase |-> "none"]

Init == nodes \in Seq(Nat) /\ leaving = Nobody

AddRack == nodes' = Append(nodes, 0) /\ UNCHANGED leaving

Grow ==
    /\ leaving = Nobody
    /\ \E r \in DOMAIN nodes :
          /\ nodes'[r] > nodes[r]
          /\ nodes' = [nodes EXCEPT ![r] = nodes'[r]]
    /\ UNCHANGED leaving

Stop ==
    /\ leaving = Nobody
    /\ \E r \in DOMAIN nodes : nodes' = [nodes EXCEPT ![r] = 0]
    /\ UNCHANGED leaving

(* The last node of a rack is told to leave,                                *)
Leave ==
    /\ leaving = Nobody
    /\ \E r \in DOMAIN nodes :
          /\ nodes[r] > 0
          /\ leaving' = [rack |-> r, ord |-> nodes[r] - 1, phase |-> "leaving"]
    /\ UNCHANGED nodes

(* has handed over its data,                                                *)
Left ==
    /\ leaving.phase = "leaving"
    /\ leaving' = [leaving EXCEPT !.phase = "left"]
    /\ UNCHANGED nodes

(* loses its replica,                                                       *)
Remove ==
    /\ leaving.phase = "left"
    /\ leaving.ord = nodes[leaving.rack] - 1
    /\ nodes' = [nodes EXCEPT ![leaving.rack] = @ - 1]
    /\ UNCHANGED leaving

(* and its pod.                                                             *)
Gone ==
    /\ leaving # Nobody
    /\ leaving.ord >= nodes[leaving.rack]
    /\ leaving' = Nobody
    /\ UNCHANGED nodes

Next == AddRack \/ Grow \/ Stop \/ Leave \/ Left \/ Remove \/ Gone

Spec == Init /\ [][Next]_capacity
=============================================================================
