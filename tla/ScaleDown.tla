------------------------------ MODULE ScaleDown ------------------------------
(***************************************************************************)
(* Scaling a rack down, call by call: the space check, the call that tells *)
(* the last node to leave, the label that remembers it, and, when it has   *)
(* left, the replica, the volume claim and the recorded host ID, each      *)
(* removed by a write of its own (decommission_node.go).  RackScaling has  *)
(* the choice of the rack and the conditions; here there is one rack.      *)
(*                                                                         *)
(* A node lives on its volume: a node that starts on an empty volume joins *)
(* with a new host ID, one that starts on its old volume is a member       *)
(* again, unless it had left: such a node does not come up.                *)
(*                                                                         *)
(* A pod record holds                                                      *)
(*   phase   gone, present or terminating                                  *)
(*   label   Ready-to-Start, Started (also for Starting), Decommissioning  *)
(*   ready   the cassandra container is ready                              *)
(*   joined  the ring knows the pod's address                              *)
(* and a node record the state of the node on the pod's volume, the number *)
(* of nodes that the pod has had, which is the host ID, and the load.      *)
(***************************************************************************)
EXTENDS Naturals, FiniteSets, Functions

CONSTANTS
    MaxSize,
    InitialSizes,
    Loads, Capacity,  \* of a node's data, and of a volume
    Digits,           \* what a capacity without its decimal exponent may be
    Evictable,        \* the states of a node in which its pod may be evicted
    AbortSteps,       \* the steps that a crash or an error may hit
    MaxEdits,
    MaxEvents         \* pods evicted, passes cut short, failed calls and queries

Ordinals == 0..(MaxSize - 1)
States   == {"none", "normal", "leaving", "left"}
Steps    == {"idle", "updateStatus", "decommissioning", "deletePvcs", "deleteStatus",
             "rackScale", "podsReady", "nodeStatuses", "decommissionNodes", "onRack",
             "label", "clear"}

ASSUME ConstantsAssumption ==
    /\ MaxSize \in Nat \ {0} /\ InitialSizes \subseteq 1..MaxSize
    /\ Capacity \in Nat /\ Loads \subseteq 0..Capacity /\ Digits \subseteq 0..Capacity
    /\ Evictable \subseteq States
    /\ AbortSteps \subseteq Steps \ {"idle"}
    /\ {MaxEdits, MaxEvents} \subseteq Nat

VARIABLES
    size,         \* spec.size
    total,        \* the capacity of a volume as the operator reads it
    replicas,     \* of the StatefulSet
    scalingDown,  \* the ScalingDown condition is True
    valid,        \* the Valid condition is not False
    hostId,       \* the host IDs in status.nodeStatuses, 0 for none
    pods, claim, node,
    pc,           \* the next step of the running pass, or "idle"
    desired,      \* the nodes of the rack, computed when the pass began
    rcSize,       \* spec.size as the pass holds it
    rcPods,       \* rc.dcPods
    rcNode,       \* the endpoint data
    unseen,       \* history: pods taken for gone without data of their node
    unchecked,    \* history: nodes whose room for the data was not checked
    edits, events

dc     == <<scalingDown, valid, hostId>>
world  == <<pods, claim, node>>
rc     == <<desired, rcSize, rcPods, rcNode>>
history == <<unseen, unchecked>>
bounds == <<edits, events>>
vars   == <<size, total, replicas, dc, world, pc, rc, history, bounds>>

GonePod == [phase |-> "gone", label |-> "Ready-to-Start", ready |-> FALSE, joined |-> FALSE]
UpPod   == [phase |-> "present", label |-> "Started", ready |-> TRUE, joined |-> TRUE]
NoNode  == [state |-> "none", id |-> 0, load |-> 0]

(* A rack of nodes that are up.                                             *)
Init ==
    /\ size \in InitialSizes /\ replicas = size /\ total \in Digits
    /\ \E load \in [Ordinals -> Loads] :
          node = [i \in Ordinals |->
                    IF i < size THEN [state |-> "normal", id |-> 1, load |-> load[i]] ELSE NoNode]
    /\ pods = [i \in Ordinals |-> IF i < size THEN UpPod ELSE GonePod]
    /\ claim = [i \in Ordinals |-> IF i < size THEN "bound" ELSE "none"]
    /\ hostId = [i \in Ordinals |-> IF i < size THEN 1 ELSE 0]
    /\ scalingDown = FALSE /\ valid = TRUE
    /\ pc = "idle" /\ desired = 0 /\ rcSize = 0
    /\ rcPods = [i \in Ordinals |-> GonePod] /\ rcNode = [i \in Ordinals |-> NoNode]
    /\ unseen = {} /\ unchecked = {} /\ edits = 0 /\ events = 0

-----------------------------------------------------------------------------
(* The user, the StatefulSet controller, the kubelet and Cassandra.         *)

EditSize ==
    /\ edits < MaxEdits /\ edits' = edits + 1
    /\ size' \in 1..MaxSize \ {size}
    /\ UNCHANGED <<total, replicas, dc, world, pc, rc, history, events>>

Event == events < MaxEvents /\ events' = events + 1

(* A pod gets the claim of its name, which is made if there is none.  The   *)
(* case of a claim that is still being deleted is in NodeReplacement.       *)
CreatePod(i) ==
    /\ i < replicas /\ pods[i].phase = "gone" /\ claim[i] # "deleting"
    /\ pods' = [pods EXCEPT ![i].phase = "present"]
    /\ claim' = [claim EXCEPT ![i] = "bound"]
    /\ UNCHANGED <<size, total, replicas, dc, node, pc, rc, history, bounds>>

TerminatePod(i) ==
    /\ i >= replicas /\ pods[i].phase = "present"
    /\ pods' = [pods EXCEPT ![i].phase = "terminating"]
    /\ UNCHANGED <<size, total, replicas, dc, claim, node, pc, rc, history, bounds>>

EvictPod(i) ==
    /\ Event
    /\ pods[i].phase = "present" /\ node[i].state \in Evictable
    /\ pods' = [pods EXCEPT ![i].phase = "terminating"]
    /\ UNCHANGED <<size, total, replicas, dc, claim, node, pc, rc, history, edits>>

PodRemoved(i) ==
    /\ pods[i].phase = "terminating"
    /\ pods' = [pods EXCEPT ![i] = GonePod]
    /\ UNCHANGED <<size, total, replicas, dc, claim, node, pc, rc, history, bounds>>

(* A claim that is deleted stays as long as its pod.                        *)
ClaimRemoved(i) ==
    /\ claim[i] = "deleting" /\ pods[i].phase = "gone"
    /\ claim' = [claim EXCEPT ![i] = "none"]
    /\ node' = [node EXCEPT ![i] = [NoNode EXCEPT !.id = node[i].id]]
    /\ UNCHANGED <<size, total, replicas, dc, pods, pc, rc, history, bounds>>

NodeComesUp(i) ==
    /\ pods[i].phase = "present" /\ pods[i].label = "Started" /\ ~pods[i].ready
    /\ node[i].state # "left"
    /\ pods' = [pods EXCEPT ![i].ready = TRUE, ![i].joined = TRUE]
    /\ node' = [node EXCEPT ![i].state = "normal",
                            ![i].id = IF node[i].state = "none" THEN @ + 1 ELSE @]
    /\ UNCHANGED <<size, total, replicas, dc, claim, pc, rc, history, bounds>>

(* The node hands its data to the other members, and is no longer ready.    *)
(* Terminating a pod drains its node first, which then leaves no more.      *)
Members == {i \in Ordinals : node[i].state \in {"normal", "leaving"}}

NodeLeaves(i) ==
    /\ node[i].state = "leaving" /\ pods[i].phase = "present" /\ pods[i].ready
    /\ \E part \in [Members \ {i} -> 0..node[i].load] :
          /\ SumFunction(part) = node[i].load
          /\ node' = [j \in Ordinals |->
                        CASE j = i -> [node[i] EXCEPT !.state = "left", !.load = 0]
                          [] j \in DOMAIN part -> [node[j] EXCEPT !.load = @ + part[j]]
                          [] OTHER -> node[j]]
    /\ pods' = [pods EXCEPT ![i].ready = FALSE]
    /\ UNCHANGED <<size, total, replicas, dc, claim, pc, rc, history, bounds>>

-----------------------------------------------------------------------------
(* A pass.                                                                  *)

EndPass ==
    /\ pc' = "idle" /\ desired' = 0 /\ rcSize' = 0
    /\ rcPods' = [i \in Ordinals |-> GonePod] /\ rcNode' = [i \in Ordinals |-> NoNode]

Goto(step) == pc' = step /\ UNCHANGED rc

(* A patch of the datacenter leaves the pass with the datacenter of now.    *)
GotoPatched(step) == pc' = step /\ rcSize' = size /\ UNCHANGED <<desired, rcPods, rcNode>>

Listed == {i \in Ordinals : rcPods[i].phase # "gone"}

(* The endpoint data, which has the node under the address of the pod.      *)
Endpoint(i) == IF rcPods[i].joined THEN rcNode[i] ELSE NoNode

(* getCassMetadataEndpoints asks a pod that is ready.  If none is, or none  *)
(* answers, there is no data.                                               *)
EndpointData ==
    \/ rcNode' = node /\ (\E i \in Ordinals : pods[i].ready) /\ UNCHANGED events
    \/ /\ rcNode' = [i \in Ordinals |-> NoNode]
       /\ IF \E i \in Ordinals : pods[i].ready THEN Event ELSE UNCHANGED events

BeginPass ==
    /\ pc = "idle" /\ valid
    /\ pc' = "updateStatus"
    /\ desired' = size /\ rcSize' = size /\ rcPods' = pods /\ EndpointData
    /\ unseen' = {i \in unseen : i >= replicas \/ claim[i] # "bound"}
    /\ UNCHANGED <<size, total, replicas, dc, world, unchecked, edits>>

(* A pod without a host ID is asked for it, if it is still there.           *)
UpdateCassandraNodeStatus ==
    [i \in Ordinals |->
        IF hostId[i] = 0 /\ i \in Listed /\ rcPods[i].joined /\ pods[i].joined
          THEN node[i].id ELSE hostId[i]]

(* An entry without a host ID may be new, and is then patched too.          *)
UpdateStatus ==
    /\ pc = "updateStatus"
    /\ hostId' = UpdateCassandraNodeStatus
    /\ \/ hostId' = hostId /\ Goto("decommissioning")
       \/ (\E i \in Listed : hostId[i] = 0) /\ GotoPatched("decommissioning")
    /\ UNCHANGED <<size, total, replicas, scalingDown, valid, world, history, bounds>>

HasStartedDecommissioning(i) == Endpoint(i).state = "leaving"

\* Mutant: takes a node that is leaving for one that has left.
DoneWhenLeaving(i) == Endpoint(i).state # "normal"

(* A node that the endpoint data does not have counts as gone.              *)
IsDoneDecommissioning(i) == Endpoint(i).state \in {"left", "none"}

(* The call takes effect on a member that is up; its failure is logged.     *)
CallDecommissionNodeEndpoint(i) ==
    \/ /\ node' = IF pods[i].ready /\ node[i].state = "normal"
                    THEN [node EXCEPT ![i].state = "leaving"] ELSE node
       /\ UNCHANGED events
    \/ Event /\ UNCHANGED node

(* The pod is the last of the StatefulSet; otherwise it has been removed.   *)
RemovesReplicaOf(i) == i = replicas - 1

CheckDecommissioningNodes ==
    /\ pc = "decommissioning"
    /\ LET labelled == {i \in Listed : rcPods[i].label = "Decommissioning"}
       IN  \/ /\ ~scalingDown /\ Goto("rackScale")
              /\ UNCHANGED <<replicas, scalingDown, node, unseen, events>>
           \/ /\ scalingDown /\ labelled = {}
              /\ scalingDown' = FALSE /\ GotoPatched("rackScale")
              /\ UNCHANGED <<replicas, node, unseen, events>>
           \/ \E i \in labelled :
                 /\ scalingDown /\ ~IsDoneDecommissioning(i)
                 /\ IF HasStartedDecommissioning(i) THEN UNCHANGED <<node, events>>
                    ELSE CallDecommissionNodeEndpoint(i)
                 /\ EndPass
                 /\ UNCHANGED <<replicas, scalingDown, unseen>>
           \/ \E i \in labelled :
                 /\ scalingDown /\ IsDoneDecommissioning(i)
                 /\ replicas' = IF RemovesReplicaOf(i) THEN replicas - 1 ELSE replicas
                 /\ Goto("deletePvcs")
                 /\ unseen' = unseen \cup IF Endpoint(i).state = "none" THEN {i} ELSE {}
                 /\ UNCHANGED <<scalingDown, node, events>>
    /\ UNCHANGED <<size, total, valid, hostId, pods, claim, unchecked, edits>>

(* The pod that cleanUpAfterDecommissionedPod is about.                     *)
Cleaned == CHOOSE i \in Listed : rcPods[i].label = "Decommissioning"

\* Mutant: the claim is left to the user.
KeepPodPvcs ==
    /\ pc = "deletePvcs"
    /\ Goto("deleteStatus") /\ UNCHANGED <<size, total, replicas, dc, world, history, bounds>>

(* It is an error if the claim is not there any more.                       *)
DeletePodPvcs ==
    /\ pc = "deletePvcs"
    /\ IF claim[Cleaned] = "none" THEN EndPass /\ UNCHANGED claim
       ELSE Goto("deleteStatus") /\ claim' = [claim EXCEPT ![Cleaned] = "deleting"]
    /\ UNCHANGED <<size, total, replicas, dc, pods, node, history, bounds>>

DeleteNodeStatus ==
    /\ pc = "deleteStatus"
    /\ hostId' = [hostId EXCEPT ![Cleaned] = 0]
    /\ EndPass
    /\ UNCHANGED <<size, total, replicas, scalingDown, valid, world, history, bounds>>

CheckRackScale ==
    /\ pc = "rackScale"
    /\ IF replicas < desired
         THEN replicas' = desired /\ GotoPatched("podsReady")
         ELSE Goto("podsReady") /\ UNCHANGED replicas
    /\ UNCHANGED <<size, total, dc, world, history, bounds>>

(* The outcome of CheckPodsReady: a node that is not up is started if it    *)
(* has not been, and the pass goes on only if all are up.                   *)
CheckPodsReady ==
    /\ pc = "podsReady"
    /\ LET down  == {i \in Listed : ~rcPods[i].ready}
           fresh == {i \in down : rcPods[i].label = "Ready-to-Start" /\ pods[i].phase = "present"}
       IN  IF down # {}
             THEN /\ EndPass
                  /\ IF fresh = {} THEN UNCHANGED pods
                     ELSE \E i \in fresh : pods' = [pods EXCEPT ![i].label = "Started"]
             ELSE /\ IF Cardinality(Listed) >= rcSize THEN Goto("nodeStatuses") ELSE EndPass
                  /\ UNCHANGED pods
    /\ UNCHANGED <<size, total, replicas, dc, claim, node, history, bounds>>

CheckCassandraNodeStatuses ==
    /\ pc = "nodeStatuses"
    /\ IF \A i \in Listed : hostId[i] # 0 THEN Goto("decommissionNodes") ELSE EndPass
    /\ UNCHANGED <<size, total, replicas, dc, world, history, bounds>>

DecommissionNodes ==
    /\ pc = "decommissionNodes"
    /\ IF replicas <= rcSize THEN Goto("clear") /\ UNCHANGED scalingDown
       ELSE /\ scalingDown' = TRUE
            /\ IF scalingDown THEN Goto("onRack") ELSE GotoPatched("onRack")
    /\ UNCHANGED <<size, total, replicas, valid, hostId, world, history, bounds>>

Last == replicas - 1

\* Mutant: compares with the size of the volume, not with what is free.
FitsVolume(i) == Endpoint(Last).load <= total

(* A pod that the endpoint data does not have counts with no load.          *)
FreeSpaceSuffices(i) == Endpoint(Last).load <= total - Endpoint(i).load

(* Any one of the other nodes must have room for all of the data.           *)
EnsurePodsCanAbsorbDecommData == \A i \in Listed \ {Last} : FreeSpaceSuffices(i)

(* What was not looked at: nothing was if the node that leaves has no data. *)
NotLookedAt ==
    IF Endpoint(Last).state = "none" THEN Ordinals
    ELSE {i \in Members : Endpoint(i).state = "none"}

(* If a volume or its capacity cannot be read the pass ends: Abort.         *)
DecommissionNodeOnRack ==
    /\ pc = "onRack"
    /\ IF Last \notin Listed
         THEN EndPass /\ UNCHANGED <<valid, node, events, unchecked>>
       ELSE IF ~EnsurePodsCanAbsorbDecommData
         THEN valid' = FALSE /\ EndPass /\ UNCHANGED <<node, events, unchecked>>
       ELSE /\ CallDecommissionNodeEndpoint(Last)
            /\ Goto("label") /\ UNCHANGED valid
            /\ unchecked' = unchecked \cup NotLookedAt
    /\ UNCHANGED <<size, total, replicas, scalingDown, hostId, pods, claim, unseen, edits>>

(* The patch goes to the pod that has the name by now.                      *)
LabelDecommissioning ==
    /\ pc = "label"
    /\ pods' = IF pods[Last].phase = "gone" THEN pods
               ELSE [pods EXCEPT ![Last].label = "Decommissioning"]
    /\ EndPass
    /\ UNCHANGED <<size, total, replicas, dc, claim, node, history, bounds>>

CheckClearActionConditions ==
    /\ pc = "clear"
    /\ scalingDown' = FALSE
    /\ EndPass
    /\ UNCHANGED <<size, total, replicas, valid, hostId, world, history, bounds>>

(* A crash of the operator or an error of a call.  Between the call that    *)
(* makes a node leave and the label nobody remembers that its data moves.   *)
Abort ==
    /\ pc \in AbortSteps
    /\ Event
    /\ EndPass
    /\ unchecked' = IF pc = "label" THEN Ordinals ELSE unchecked
    /\ UNCHANGED <<size, total, replicas, dc, world, unseen, edits>>

-----------------------------------------------------------------------------
PassStep ==
    \/ UpdateStatus \/ CheckDecommissioningNodes \/ DeletePodPvcs \/ DeleteNodeStatus
    \/ CheckRackScale \/ CheckPodsReady \/ CheckCassandraNodeStatuses \/ DecommissionNodes
    \/ DecommissionNodeOnRack \/ LabelDecommissioning \/ CheckClearActionConditions

Pass == BeginPass \/ PassStep

Cluster(i) ==
    TerminatePod(i) \/ PodRemoved(i) \/ ClaimRemoved(i) \/ NodeComesUp(i) \/ NodeLeaves(i)

Next ==
    \/ Pass \/ Abort \/ EditSize
    \/ \E i \in Ordinals : CreatePod(i) \/ EvictPod(i) \/ Cluster(i)

Spec == Init /\ [][Next]_vars

(* Passes are repeated until nothing is left to do, and Kubernetes and      *)
(* Cassandra finish what they begin.                                        *)
Fairness ==
    /\ WF_vars(Pass)
    /\ \A i \in Ordinals : WF_vars(Cluster(i)) /\ WF_vars(CreatePod(i))

FairSpec == Spec /\ Fairness

-----------------------------------------------------------------------------
(* Properties.                                                              *)

TypeOK ==
    /\ size \in 1..MaxSize /\ replicas \in 1..MaxSize /\ total \in Digits
    /\ scalingDown \in BOOLEAN /\ valid \in BOOLEAN
    /\ hostId \in [Ordinals -> Nat]
    /\ \A p \in {pods, rcPods} :
          p \in [Ordinals -> [phase  : {"gone", "present", "terminating"},
                              label  : {"Ready-to-Start", "Started", "Decommissioning"},
                              ready  : BOOLEAN,
                              joined : BOOLEAN]]
    /\ \A n \in {node, rcNode} :
          n \in [Ordinals -> [state : States, id : Nat, load : Nat]]
    /\ claim \in [Ordinals -> {"none", "bound", "deleting"}]
    /\ pc \in Steps /\ unseen \subseteq Ordinals /\ unchecked \subseteq Ordinals
    /\ desired \in 0..MaxSize /\ rcSize \in 0..MaxSize
    /\ edits \in 0..MaxEdits /\ events \in 0..MaxEvents

(* cleanUpAfterDecommissionedPod: as long as a node is a member of the ring *)
(* the StatefulSet has its pod and nobody deletes its volume, whatever is   *)
(* edited, evicted, repeated or cut short while nodes leave and come back,  *)
(* and pods recreated while passes run; unless IsDoneDecommissioning took   *)
(* the node for gone because the endpoint data did not have its pod.        *)
MembersKeepVolumes ==
    \A i \in Members \ unseen : i < replicas /\ claim[i] = "bound"

(* "If we got here, we could not find endpoint metadata on the node.  This  *)
(* should mean that it no longer exists": the same without the exception.   *)
NoMemberTakenForGone ==
    \A i \in Members : i < replicas /\ claim[i] = "bound"

(* EnsurePodsCanAbsorbDecommData: "the remaining nodes have enough storage  *)
(* capacity to absorb the data from the decommissioned nodes", wherever the *)
(* data of one node after another goes; unless the endpoint data did not    *)
(* have the node, or the one that leaves, when the others were checked, or  *)
(* the pass was cut off before it recorded that the node leaves.            *)
NodesFit == \A i \in Ordinals \ unchecked : node[i].load <= Capacity

(* A scale down, undone, resumed or interrupted, comes to its end: the pods *)
(* of the size asked for are up, and nothing is left of the others that a   *)
(* later node could mistake for its own.  If it is refused for lack of room *)
(* nothing more happens to the datacenter, and no node is told to leave.    *)
Settled ==
    /\ replicas = size /\ ~scalingDown
    /\ \A i \in Ordinals :
          IF i < size THEN pods[i] = UpPod /\ node[i].state = "normal"
                      ELSE pods[i] = GonePod /\ claim[i] = "none"

Refused == ~valid /\ \A i \in Ordinals : pods[i].label # "Decommissioning"

ScaleDownEnds == <>[](Settled \/ Refused)

(* UpdateCassandraNodeStatus, "if we already have a HostID, don't bother.   *)
(* This would only change if something has gone horribly horribly wrong":   *)
(* the host ID on record for a pod is that of the node it runs.             *)
HostIdsCurrent ==
    \A i \in Ordinals : pods[i].joined /\ hostId[i] # 0 => hostId[i] = node[i].id

=============================================================================
