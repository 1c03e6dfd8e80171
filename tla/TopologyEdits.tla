---------------------------- MODULE TopologyEdits ----------------------------
(***************************************************************************)
(* The topologies a user can reach by editing the spec of a datacenter,    *)
(* with the admission webhook checking every edit, and what                *)
(* CalculateRackInformation and CalculateRackInfoForDecomm make of them.   *)
(***************************************************************************)
EXTENDS RackTopology

CONSTANTS
    MaxSize,   \* largest size the user asks for
    MaxRacks   \* largest number of racks

ASSUME TopologyAssumption == MaxSize \in Nat \ {0} /\ MaxRacks \in Nat \ {0}

VARIABLES size, racks, stopped

vars == <<size, racks, stopped>>

Init ==
    /\ size \in 1..MaxSize
    /\ racks \in 1..MaxRacks
    /\ stopped = FALSE

(* The schema of the resource asks for a size of at least one, the webhook  *)
(* for a valid change.                                                      *)
EditTopology ==
    /\ size' \in 1..MaxSize
    /\ racks' \in 1..MaxRacks
    /\ ValidTopologyChange(size, racks, size', racks')
    /\ UNCHANGED stopped

EditStopped ==
    /\ stopped' = ~stopped
    /\ UNCHANGED <<size, racks>>

Next == EditTopology \/ EditStopped

Spec == Init /\ [][Next]_vars

-----------------------------------------------------------------------------
Info == RackInformation(size, racks, stopped)

(* Sizes and rack counts stay in their ranges; the webhook rejects an edit  *)
(* that removes racks.                                                      *)
TypeOK ==
    /\ size \in 1..MaxSize
    /\ racks \in 1..MaxRacks
    /\ stopped \in BOOLEAN

(* CalculateRackInformation splits nodes and seeds separately; still, every *)
(* rack of a running datacenter gets a seed, no rack gets more seeds than   *)
(* nodes, and the racks differ by one node at most.                         *)
SeedsFitRacks ==
    ~TooFewNodes(size, racks) /\ ~stopped =>
        \A r \in 1..racks :
            /\ 1 <= Info[r].seeds
            /\ Info[r].seeds <= Info[r].nodes
            /\ \A q \in 1..racks : Info[r].nodes <= Info[q].nodes + 1

(* From an even topology CalculateRackInfoForDecomm takes one node from one *)
(* rack, and the topology stays even.                                       *)
DecommissionTakesOneNode ==
    size > racks =>
        \E r \in 1..racks :
            \A q \in 1..racks :
                RackInfoForDecomm(size, racks)[q] =
                    SplitRacks(size, racks)[q] - (IF q = r THEN 1 ELSE 0)

(* Adding racks moves no node: an edit that the webhook lets through gives  *)
(* every rack that was there before at least the nodes it had.              *)
AddedRacksMoveNoNode ==
    racks' > racks =>
        \A r \in 1..racks :
            SplitRacks(size, racks)[r] <= SplitRacks(size', racks')[r]
RacksAddedSafely == [][AddedRacksMoveNoNode]_vars
=============================================================================
