---------------------------- MODULE RackTopology ----------------------------
(***************************************************************************)
(* The arithmetic that spreads the nodes and the seeds of a                *)
(* CassandraDatacenter over its racks.  Racks are numbered 1..rackCount in *)
(* the order of the rack list of the spec (the Go code counts from 0).     *)
(***************************************************************************)
EXTENDS Integers

(* SplitRacks: every rack gets nodeCount / rackCount nodes, and the first  *)
(* nodeCount % rackCount racks one more.                                   *)
SplitRacks(nodeCount, rackCount) ==
    [r \in 1..rackCount |->
        (nodeCount \div rackCount)
            + (IF r <= nodeCount % rackCount THEN 1 ELSE 0)]

(* CalculateRackInformation, first check: the pass ends with an error.     *)
TooFewNodes(size, rackCount) == size < rackCount

(* A stopped datacenter wants no pods at all.                              *)
DesiredNodeCount(size, stopped) == IF stopped THEN 0 ELSE size

\* Mutant: three seeds whatever the number of racks.
SeedCountThree(nodeCount, rackCount) == IF nodeCount < 3 THEN nodeCount ELSE 3

(* Three seeds per datacenter, or all the nodes if there are fewer than    *)
(* three, or one per rack when there are four racks or more.               *)
SeedCount(nodeCount, rackCount) ==
    IF nodeCount < 3 THEN nodeCount
    ELSE IF rackCount > 3 THEN rackCount
    ELSE 3

(* The node and the seed count CalculateRackInformation asks of each rack. *)
RackInformation(size, rackCount, stopped) ==
    LET nodeCount      == DesiredNodeCount(size, stopped)
        rackNodeCounts == SplitRacks(nodeCount, rackCount)
        rackSeedCounts == SplitRacks(SeedCount(nodeCount, rackCount), rackCount)
    IN  [r \in 1..rackCount |->
            [nodes |-> rackNodeCounts[r], seeds |-> rackSeedCounts[r]]]

(* CalculateRackInfoForDecomm: the racks of a datacenter one node smaller. *)
RackInfoForDecomm(currentSize, rackCount) ==
    SplitRacks(currentSize - 1, rackCount)

\* Mutant: asks for one new node per added rack.
RacksNeedOneNode(oldSize, oldRacks, newSize, newRacks) ==
    /\ newRacks >= oldRacks
    /\ newRacks > oldRacks => newSize - oldSize >= newRacks - oldRacks

(* The topology part of ValidateDatacenterFieldChanges: racks are never    *)
(* removed, and adding racks needs enough new nodes.  The admission        *)
(* webhook rejects the edit otherwise.                                     *)
ValidTopologyChange(oldSize, oldRacks, newSize, newRacks) ==
    LET newRackCount         == newRacks - oldRacks
        newSizeDifference    == newSize - oldSize
        minNodesFromOldRacks == SplitRacks(oldSize, oldRacks)[oldRacks]
        minSizeAdjustment    == minNodesFromOldRacks * newRackCount
    IN  /\ newRackCount >= 0
        /\ newRackCount > 0 =>
              /\ newSizeDifference > 0
              /\ newSizeDifference >= minSizeAdjustment
=============================================================================
