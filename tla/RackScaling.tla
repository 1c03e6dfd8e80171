----------------------------- MODULE RackScaling -----------------------------
(***************************************************************************)
(* How a reconcile pass brings the StatefulSets of a datacenter (one per   *)
(* rack) to the size the spec asks for, and which conditions it reports    *)
(* meanwhile: creating racks, scaling up, stopping, resuming, and scaling  *)
(* down one decommissioned node at a time.                                 *)
(*                                                                         *)
(* A pass works on rc.Datacenter, a copy of the resource that every patch  *)
(* of the resource refreshes from the API server, on the rack information  *)
(* computed when the pass began, and on the pods listed when it began.     *)
(* The user edits the spec at any time.  A pass may be cut short at any    *)
(* write by an API error or by a crash of the operator.                    *)
(*                                                                         *)
(* Pods appear here only as numbers: how many pods of each rack are        *)
(* started and ready, and the one that is being decommissioned.            *)
(***************************************************************************)
EXTENDS RackTopology, Sequences

CONSTANTS
    MaxSize,        \* largest size the user asks for
    MaxRacks,       \* largest number of racks
    MaxGeneration,  \* bound on the number of spec edits
    MaxAborts,      \* bound on the number of passes cut short
    Edits,          \* which spec fields the user edits
    RoomOutcomes,   \* whether the other nodes can absorb a node's data
    Reads,          \* what a pass may fail to learn about pods and ring
    InitialSizes    \* rack sizes of the datacenters to start from

(* The nodes of all racks.                                                  *)
Total(s) ==
    LET sum[n \in 0..Len(s)] == IF n = 0 THEN 0 ELSE sum[n - 1] + s[n]
    IN  sum[Len(s)]

ASSUME BoundsAssumption ==
    /\ MaxSize \in Nat \ {0}
    /\ MaxRacks \in Nat \ {0}
    /\ MaxGeneration \in Nat
    /\ MaxAborts \in Nat
    /\ Edits \subseteq {"size", "racks", "stopped"}
    /\ RoomOutcomes \subseteq BOOLEAN
    /\ Reads \subseteq {"complete", "noEndpoints", "noPods"}
    /\ InitialSizes \subseteq Seq(0..MaxSize)
    /\ \A s \in InitialSizes :
          s # <<>> => Len(s) \in 1..MaxRacks /\ Total(s) \in 1..MaxSize

VARIABLES
    dc,        \* the CassandraDatacenter in the API server
    sts,       \* replicas of each rack's StatefulSet
    up,        \* started and ready pods of each rack
    decomm,    \* the pod labelled Decommissioning, if any
    pc,        \* the next step of the running pass, or "idle"
    rcDc,      \* rc.Datacenter
    desired,   \* rc.desiredRackInformation: nodes per rack
    rcSts,     \* rc.statefulSets: replicas, as read or written by this pass
    rcUp,      \* rc.dcPods: started and ready pods per rack
    rcDecomm,  \* rc.dcPods: the pod labelled Decommissioning, with its
               \* phase according to the endpoint data
    idx,       \* the rack a loop over the racks is at
    touched,   \* racksUpdated of CheckRackStoppedState
    aborts     \* passes cut short so far

apiVars  == <<dc, sts, up, decomm>>
passVars == <<pc, rcDc, desired, rcSts, rcUp, rcDecomm, idx, touched>>
vars     == <<apiVars, passVars, aborts>>

ConditionTypes ==
    {"Ready", "Initialized", "ScalingUp", "ScalingDown", "Stopped", "Resuming",
     "Valid"}
ConditionStatus == {"Unknown", "True", "False"}

None == [rack |-> 0, ord |-> 0, phase |-> "none"]

Steps == {"idle", "updateStatus", "rackCreation", "decommissioning",
          "stoppedState", "stopRack", "rackScale", "scaleRack", "podsReady",
          "decommissionNodes", "decommissionOnRack", "clearConditions",
          "conditionReady", "progressReady"}

(* A datacenter that was just created has no StatefulSets; any other one has *)
(* been brought up with the given rack sizes.                                *)
Init ==
    /\ \E s \in InitialSizes, racks \in 1..MaxRacks :
          LET created == s = <<>> IN
          /\ ~created => racks = Len(s)
          /\ sts = s
          /\ up = s
          /\ dc = [size     |-> IF created THEN MaxSize ELSE Total(s),
                   racks    |-> racks,
                   stopped  |-> FALSE,
                   gen      |-> 0,
                   progress |-> IF created THEN "" ELSE "Ready",
                   observed |-> 0,
                   conds    |-> [c \in ConditionTypes |->
                      IF created THEN "Unknown"
                      ELSE IF c \in {"Ready", "Initialized", "Valid"}
                           THEN "True" ELSE "False"]]
    /\ decomm = None
    /\ pc = "idle"
    /\ rcDc = dc
    /\ desired = <<>> /\ rcSts = <<>> /\ rcUp = <<>>
    /\ rcDecomm = None
    /\ idx = 1
    /\ touched = FALSE
    /\ aborts = 0

-----------------------------------------------------------------------------
(* The environment: the user, the StatefulSet controller with the pods, and *)
(* Cassandra.                                                               *)

(* An edit of the spec that the admission webhook lets through.             *)
EditSpec ==
    /\ dc.gen < MaxGeneration
    /\ \E size    \in (IF "size" \in Edits THEN 1..MaxSize ELSE {dc.size}),
          racks   \in (IF "racks" \in Edits THEN 1..MaxRacks ELSE {dc.racks}),
          stopped \in (IF "stopped" \in Edits THEN BOOLEAN ELSE {dc.stopped}) :
          /\ <<size, racks, stopped>> # <<dc.size, dc.racks, dc.stopped>>
          /\ ValidTopologyChange(dc.size, dc.racks, size, racks)
          /\ dc' = [dc EXCEPT !.size = size, !.racks = racks,
                              !.stopped = stopped, !.gen = @ + 1]
    /\ UNCHANGED <<sts, up, decomm, passVars, aborts>>

(* The StatefulSet controller keeps a pod for every ordinal below the       *)
(* replicas: this many of rack r, besides the decommissioning one.          *)
Wanted(r) ==
    sts[r] - (IF decomm.rack = r /\ decomm.ord < sts[r] THEN 1 ELSE 0)

(* It creates a missing pod, and the pod comes up.                          *)
PodStarts ==
    /\ \E r \in DOMAIN sts :
          /\ up[r] < Wanted(r)
          /\ up' = [up EXCEPT ![r] = @ + 1]
    /\ UNCHANGED <<dc, sts, decomm, passVars, aborts>>

(* It terminates a pod whose ordinal is no longer below the replicas.       *)
PodTerminates ==
    /\ \E r \in DOMAIN sts :
          \/ /\ up[r] > Wanted(r)
             /\ up' = [up EXCEPT ![r] = @ - 1]
             /\ UNCHANGED decomm
          \/ /\ decomm.rack = r /\ decomm.ord >= sts[r]
             /\ decomm' = None
             /\ UNCHANGED up
    /\ UNCHANGED <<dc, sts, passVars, aborts>>

(* The decommissioning node has handed over its data and left the ring.     *)
NodeLeaves ==
    /\ decomm.phase = "leaving"
    /\ decomm' = [decomm EXCEPT !.phase = "left"]
    /\ UNCHANGED <<dc, sts, up, passVars, aborts>>

-----------------------------------------------------------------------------
(* Pieces of a pass.                                                        *)

(* Returning from ReconcileAllRacks drops the reconciliation context.       *)
EndPass ==
    /\ pc' = "idle"
    /\ idx' = 1 /\ touched' = FALSE
    /\ desired' = <<>> /\ rcSts' = <<>> /\ rcUp' = <<>> /\ rcDecomm' = None

Goto(step) ==
    /\ pc' = step
    /\ UNCHANGED <<desired, rcSts, rcUp, rcDecomm, idx, touched>>

(* Move a loop over the racks to the next rack, or to the next check.       *)
NextRack(here, after) ==
    IF idx < Len(desired) THEN pc' = here /\ idx' = idx + 1
                          ELSE pc' = after /\ idx' = 1

(* A status patch with new conditions, when there is anything to patch; the *)
(* answer of the API server replaces rc.Datacenter, the spec included.      *)
PatchConditions(conds) ==
    IF conds = rcDc.conds
    THEN UNCHANGED <<dc, rcDc>>
    ELSE dc' = [dc EXCEPT !.conds = conds] /\ rcDc' = dc'

(* The listed pod's node has left, and the pod is the last of its rack.     *)
RemovableFromSts ==
    /\ rcDecomm.phase = "left"
    /\ rcDecomm.ord = rcSts[rcDecomm.rack] - 1

(* setOperatorProgressStatus(Updating), which UpdateRackNodeCount,          *)
(* ReconcileNextRack and DecommissionNodes call before they write; the step *)
(* it precedes waits for it.                                                *)
SetProgressUpdating ==
    /\ \/ pc \in {"stopRack", "scaleRack", "decommissionOnRack"}
       \/ pc = "rackCreation" /\ idx > Len(sts)
       \/ pc = "decommissioning" /\ rcDc.conds["ScalingDown"] = "True"
             /\ RemovableFromSts
    /\ rcDc.progress # "Updating"
    /\ dc' = [dc EXCEPT !.progress = "Updating"]
    /\ rcDc' = dc'
    /\ Goto(pc)
    /\ UNCHANGED <<sts, up, decomm, aborts>>

-----------------------------------------------------------------------------
(* The checks of a pass, in the order of calculateReconciliationActions and *)
(* ReconcileAllRacks.                                                       *)

(* CheckForInvalidState.                                                    *)
InvalidState == dc.conds["Valid"] = "False"

(* The pod labelled Decommissioning, as the pass sees it.  A failure to list *)
(* the pods is only logged, and the list is empty.  The endpoint data is     *)
(* empty when no node answers, and IsDoneDecommissioning takes a node that   *)
(* it does not list for one that has left.                                   *)
SeenDecomm(reads) ==
    CASE reads = "noPods" -> None
      [] reads = "noEndpoints" /\ decomm # None -> [decomm EXCEPT !.phase = "left"]
      [] OTHER -> decomm

(* The pass reads the resource, computes the rack information, lists the    *)
(* pods and asks the nodes for their endpoint data.  It fails at once on a  *)
(* size below the number of racks, and on a datacenter whose Valid          *)
(* condition is False.                                                      *)
BeginPass ==
    /\ pc = "idle"
    /\ ~TooFewNodes(dc.size, dc.racks)
    /\ ~InvalidState
    /\ pc' = "updateStatus"
    /\ rcDc' = dc
    /\ desired' = [r \in 1..dc.racks |->
                     RackInformation(dc.size, dc.racks, dc.stopped)[r].nodes]
    /\ \E reads \in Reads :
          /\ rcUp' = IF reads = "noPods" THEN <<>> ELSE up
          /\ rcDecomm' = SeenDecomm(reads)
    /\ UNCHANGED <<apiVars, rcSts, idx, touched, aborts>>

(* UpdateStatus patches the resource only when a host id or a replacement   *)
(* changed; either way is possible here, and a patch refreshes the copy.    *)
UpdateStatus ==
    /\ pc = "updateStatus"
    /\ rcDc' \in {rcDc, dc}
    /\ Goto("rackCreation")
    /\ UNCHANGED <<apiVars, aborts>>

(* Read the StatefulSet of every rack, creating the missing ones empty.     *)
CheckRackCreation ==
    /\ pc = "rackCreation"
    /\ IF idx <= Len(sts)
       THEN /\ rcSts' = Append(rcSts, sts[idx])
            /\ UNCHANGED <<sts, up>>
       ELSE /\ rcDc.progress = "Updating"
            /\ sts' = Append(sts, 0)
            /\ up' = Append(up, 0)
            /\ rcSts' = Append(rcSts, 0)
    /\ NextRack("rackCreation", "decommissioning")
    /\ UNCHANGED <<dc, decomm, rcDc, desired, rcUp, rcDecomm, touched, aborts>>

\* Mutant: a node that has left the ring no longer counts.
NoPodLeaving == rcDecomm.phase # "leaving"

(* No listed pod is labelled Decommissioning.                               *)
NoPodDecommissioning == rcDecomm = None

(* While a pod is labelled Decommissioning the pass goes no further: once   *)
(* the node has left the ring its replica is removed.                       *)
CheckDecommissioningNodes ==
    /\ pc = "decommissioning"
    /\ IF rcDc.conds["ScalingDown"] # "True"
       THEN Goto("stoppedState") /\ UNCHANGED <<dc, rcDc, sts>>
       ELSE IF NoPodDecommissioning
       THEN /\ PatchConditions([rcDc.conds EXCEPT !["ScalingDown"] = "False"])
            /\ Goto("stoppedState")
            /\ UNCHANGED sts
       ELSE /\ IF RemovableFromSts
               THEN /\ rcDc.progress = "Updating"
                    /\ sts' = [sts EXCEPT ![rcDecomm.rack] =
                                              rcSts[rcDecomm.rack] - 1]
               ELSE UNCHANGED sts
            /\ EndPass
            /\ UNCHANGED <<dc, rcDc>>
    /\ UNCHANGED <<up, decomm, aborts>>

(* The conditions of a datacenter that is being stopped.                    *)
StoppedConditions == [rcDc.conds EXCEPT !["Stopped"] = "True", !["Ready"] = "False"]

(* A stopped datacenter has every rack set to zero replicas, after the      *)
(* conditions say so; the pass ends if any rack was changed.                *)
CheckRackStoppedState ==
    /\ pc = "stoppedState"
    /\ IF rcDc.stopped /\ rcSts[idx] > 0
       THEN /\ IF touched
               THEN UNCHANGED <<dc, rcDc>>
               ELSE PatchConditions(StoppedConditions)
            /\ Goto("stopRack")
       ELSE /\ IF touched /\ idx = Len(desired)
               THEN EndPass
               ELSE /\ NextRack("stoppedState", "rackScale")
                    /\ UNCHANGED <<desired, rcSts, rcUp, rcDecomm, touched>>
            /\ UNCHANGED <<dc, rcDc>>
    /\ UNCHANGED <<sts, up, decomm, aborts>>

StopRack ==
    /\ pc = "stopRack"
    /\ rcDc.progress = "Updating"
    /\ sts' = [sts EXCEPT ![idx] = 0]
    /\ IF idx = Len(desired)
       THEN EndPass
       ELSE /\ pc' = "stoppedState"
            /\ idx' = idx + 1
            /\ rcSts' = [rcSts EXCEPT ![idx] = 0]
            /\ touched' = TRUE
            /\ UNCHANGED <<desired, rcUp, rcDecomm>>
    /\ UNCHANGED <<dc, rcDc, up, decomm, aborts>>

\* Mutant: off by one.
BelowShareByTwo == rcSts[idx] + 1 < desired[idx]

BelowShare == rcSts[idx] < desired[idx]

(* A rack below its share is scaled up; the condition tells resuming from   *)
(* growing by the Stopped condition.                                        *)
CheckRackScale ==
    /\ pc = "rackScale"
    /\ IF BelowShare
       THEN /\ PatchConditions(
                  IF rcDc.conds["Stopped"] = "True"
                  THEN [rcDc.conds EXCEPT !["Stopped"] = "False",
                                          !["Resuming"] = "True"]
                  ELSE [rcDc.conds EXCEPT !["ScalingUp"] = "True"])
            /\ Goto("scaleRack")
       ELSE /\ NextRack("rackScale", "podsReady")
            /\ UNCHANGED <<dc, rcDc, desired, rcSts, rcUp, rcDecomm, touched>>
    /\ UNCHANGED <<sts, up, decomm, aborts>>

ScaleRack ==
    /\ pc = "scaleRack"
    /\ rcDc.progress = "Updating"
    /\ sts' = [sts EXCEPT ![idx] = desired[idx]]
    /\ rcSts' = [rcSts EXCEPT ![idx] = desired[idx]]
    /\ NextRack("rackScale", "podsReady")
    /\ UNCHANGED <<dc, rcDc, up, decomm, desired, rcUp, rcDecomm, touched, aborts>>

(* CheckPodsReady, CheckCassandraNodeStatuses and CheckRollingRestart, seen *)
(* from here: a running datacenter gets past them only when the listed pods *)
(* that are started and ready number at least the size; the pass may also   *)
(* have to wait for a listed pod beyond these.                              *)
CheckPodsReady ==
    /\ pc = "podsReady"
    /\ \/ /\ rcDc.stopped \/ rcDc.size <= Total(rcUp)
          /\ Goto("decommissionNodes")
       \/ /\ ~rcDc.stopped
          /\ rcDc.size > Total(rcUp) \/ Total(rcUp) < Total(rcSts)
          /\ EndPass
    /\ UNCHANGED <<apiVars, rcDc, aborts>>

\* Mutant: off by one.
RacksNotBelow ==
    {r \in DOMAIN rcSts :
        rcSts[r] >= RackInfoForDecomm(Total(rcSts), rcDc.racks)[r]}

(* The racks with more replicas than a datacenter one node smaller would    *)
(* give them; the loop takes the first.                                     *)
RacksOver ==
    {r \in DOMAIN rcSts :
        rcSts[r] > RackInfoForDecomm(Total(rcSts), rcDc.racks)[r]}

DecommissionNodes ==
    /\ pc = "decommissionNodes"
    /\ \/ /\ Total(rcSts) <= rcDc.size \/ RacksOver = {}
          /\ Goto("clearConditions")
          /\ UNCHANGED <<dc, rcDc>>
       \/ /\ Total(rcSts) > rcDc.size
          /\ TooFewNodes(Total(rcSts) - 1, rcDc.racks)
          /\ EndPass
          /\ UNCHANGED <<dc, rcDc>>
       \/ /\ Total(rcSts) > rcDc.size
          /\ ~TooFewNodes(Total(rcSts) - 1, rcDc.racks)
          /\ \E r \in RacksOver :
                /\ \A q \in RacksOver : r <= q
                /\ idx' = r
          /\ PatchConditions([rcDc.conds EXCEPT !["ScalingDown"] = "True"])
          /\ pc' = "decommissionOnRack"
          /\ UNCHANGED <<desired, rcSts, rcUp, rcDecomm, touched>>
    /\ UNCHANGED <<sts, up, decomm, aborts>>

(* The listed pods of a rack; a rack created by this pass has none.         *)
ListedUp(r) == IF r \in DOMAIN rcUp THEN rcUp[r] ELSE 0

(* DecommissionNodeOnRack: the last pod of the rack has to be listed, with  *)
(* its management API up, and the other pods must have room for its data;   *)
(* then the node is told to leave and its pod is labelled.                  *)
DecommissionNodeOnRack ==
    /\ pc = "decommissionOnRack"
    /\ rcDc.progress = "Updating"
    /\ \/ /\ ListedUp(idx) < rcSts[idx]
          /\ UNCHANGED <<dc, rcDc, up, decomm>>
       \/ /\ rcSts[idx] > 0 /\ ListedUp(idx) > 0 /\ up[idx] > 0
          /\ \E room \in RoomOutcomes :
                IF room
                THEN /\ decomm' = [rack |-> idx, ord |-> rcSts[idx] - 1,
                                   phase |-> "leaving"]
                     /\ up' = [up EXCEPT ![idx] = @ - 1]
                     /\ UNCHANGED <<dc, rcDc>>
                ELSE /\ PatchConditions([rcDc.conds EXCEPT !["Valid"] = "False"])
                     /\ UNCHANGED <<up, decomm>>
    /\ EndPass
    /\ UNCHANGED <<sts, aborts>>

(* Everything asked for is done: clear the conditions of finished actions.  *)
ClearedConditions ==
    [c \in ConditionTypes |->
        CASE c \in {"ScalingDown", "Resuming"} -> "False"
          [] c = "ScalingUp" /\ rcDc.conds[c] = "True" -> "False"
          [] c = "Stopped" -> IF rcDc.stopped THEN "True" ELSE "False"
          [] c = "Valid" -> "True"
          [] OTHER -> rcDc.conds[c]]

CheckClearActionConditions ==
    /\ pc = "clearConditions"
    /\ PatchConditions(ClearedConditions)
    /\ IF ClearedConditions = rcDc.conds THEN Goto("conditionReady") ELSE EndPass
    /\ UNCHANGED <<sts, up, decomm, aborts>>

\* Mutant: does not look at the Stopped condition.
ReadyWhenStopped ==
    [rcDc.conds EXCEPT !["Initialized"] = "True", !["Ready"] = "True"]

ReadyConditions ==
    [rcDc.conds EXCEPT
        !["Initialized"] = "True",
        !["Ready"] = IF rcDc.conds["Stopped"] = "False" THEN "True" ELSE @]

CheckConditionInitializedAndReady ==
    /\ pc = "conditionReady"
    /\ PatchConditions(ReadyConditions)
    /\ IF ReadyConditions = rcDc.conds THEN Goto("progressReady") ELSE EndPass
    /\ UNCHANGED <<sts, up, decomm, aborts>>

(* setOperatorProgressStatus(Ready) also records the generation; it does    *)
(* nothing when the progress is Ready already.                              *)
SetProgressReady ==
    /\ pc = "progressReady"
    /\ IF rcDc.progress = "Ready"
       THEN UNCHANGED <<dc, rcDc>>
       ELSE /\ dc' = [dc EXCEPT !.progress = "Ready", !.observed = rcDc.gen]
            /\ rcDc' = dc'
    /\ EndPass
    /\ UNCHANGED <<sts, up, decomm, aborts>>

(* An API call fails, or the operator crashes and restarts.                 *)
Abort ==
    /\ pc # "idle"
    /\ aborts < MaxAborts
    /\ aborts' = aborts + 1
    /\ EndPass
    /\ UNCHANGED <<apiVars, rcDc>>

-----------------------------------------------------------------------------
PassStep ==
    \/ UpdateStatus \/ CheckRackCreation \/ CheckDecommissioningNodes
    \/ CheckRackStoppedState \/ StopRack \/ CheckRackScale \/ ScaleRack
    \/ CheckPodsReady \/ DecommissionNodes \/ DecommissionNodeOnRack
    \/ CheckClearActionConditions \/ CheckConditionInitializedAndReady
    \/ SetProgressReady \/ SetProgressUpdating

Environment == PodStarts \/ PodTerminates \/ NodeLeaves

Next == BeginPass \/ PassStep \/ Environment \/ EditSpec \/ Abort

Spec == Init /\ [][Next]_vars

(* The work queue runs a pass again after every result it returns and every *)
(* event; a pass in progress goes on; pods and nodes do what they are asked.*)
FairSpec ==
    /\ Spec
    /\ WF_vars(BeginPass) /\ WF_vars(PassStep)
    /\ WF_vars(PodStarts) /\ WF_vars(PodTerminates) /\ WF_vars(NodeLeaves)

-----------------------------------------------------------------------------
(* Properties.                                                              *)

Pod == [rack : 0..MaxRacks, ord : 0..MaxSize, phase : {"none", "leaving", "left"}]

Datacenter ==
    [size : 1..MaxSize, racks : 1..MaxRacks, stopped : BOOLEAN,
     gen : 0..MaxGeneration, progress : {"", "Ready", "Updating"},
     observed : 0..MaxGeneration, conds : [ConditionTypes -> ConditionStatus]]

(* Every variable keeps its type, and the copies of a pass their shape.     *)
TypeOK ==
    /\ dc \in Datacenter /\ rcDc \in Datacenter
    /\ sts \in Seq(0..MaxSize) /\ up \in Seq(0..MaxSize)
    /\ Len(up) = Len(sts)
    /\ desired \in Seq(0..MaxSize) /\ rcSts \in Seq(0..MaxSize)
    /\ rcUp \in Seq(0..MaxSize)
    /\ decomm \in Pod /\ rcDecomm \in Pod
    /\ pc \in Steps
    /\ idx \in 1..MaxRacks
    /\ touched \in BOOLEAN
    /\ aborts \in 0..MaxAborts

(* A pod labelled Decommissioning is never forgotten: as long as there is   *)
(* one, the ScalingDown condition is True, which is what makes              *)
(* CheckDecommissioningNodes look for it before anything else is done.      *)
DecommissioningIsTracked ==
    decomm # None => dc.conds["ScalingDown"] = "True"

(* A datacenter whose scale down was refused for lack of space has no node  *)
(* leaving: EnsurePodsCanAbsorbDecommData runs before the node is told to   *)
(* leave, and CheckForInvalidState keeps every later pass from trying.      *)
InvalidMeansUntouched ==
    dc.conds["Valid"] = "False" => decomm = None

(* A datacenter that reports Ready has nodes.  CheckRackStoppedState clears *)
(* Ready before it empties the first rack, and only a pass that saw enough  *)
(* pods sets it again.  There is one way around that: a pass that began     *)
(* when the datacenter was stopped, and that a status patch told of its     *)
(* being resumed, asks for no nodes and counts the ones still going away.   *)
ReadyOnlyWithNodes ==
    dc'.conds["Ready"] = "True" /\ Total(sts') = 0 =>
        \/ dc.conds["Ready"] = "True" /\ Total(sts) = 0
        \/ pc = "conditionReady" /\ ~rcDc.stopped /\ Total(desired) = 0
ReadyHasNodes == [][ReadyOnlyWithNodes]_vars

(* Without that way around: a datacenter that reports Ready has nodes.      *)
ReadyAlwaysHasNodes ==
    dc.conds["Ready"] = "True" => Total(sts) > 0

(* A rack gets smaller in two ways only: by the one pod that was labelled   *)
(* Decommissioning, is the rack's last and has left the ring, or by being   *)
(* emptied in a datacenter that reports Stopped and not Ready while no node *)
(* is being decommissioned.                                                 *)
ShrinksSafely ==
    \A r \in DOMAIN sts :
        sts'[r] < sts[r] =>
            \/ /\ decomm = [rack |-> r, ord |-> sts[r] - 1, phase |-> "left"]
               /\ sts'[r] = sts[r] - 1
            \/ /\ sts'[r] = 0
               /\ dc.conds["Stopped"] = "True"
               /\ dc.conds["Ready"] # "True"
               /\ decomm = None
RacksShrinkSafely == [][ShrinksSafely]_vars

(* DecommissionNodes picks a rack only if the rack keeps, one node smaller, *)
(* its share of the size the pass has last read, however uneven the racks   *)
(* are and whatever racks the user has added since the pass began.          *)
KeepsShare ==
    pc = "decommissionNodes" /\ pc' = "decommissionOnRack" =>
        rcSts[idx'] - 1 >= SplitRacks(rcDc.size, rcDc.racks)[idx']
DecommissionKeepsShare == [][KeepsShare]_vars

(* Whenever a pass finds more nodes than the size, and more than racks,     *)
(* DecommissionNodes has a rack to take one from: its loop over the racks   *)
(* never falls through, and a scale down ends only at the size.             *)
ScaleDownFindsRack ==
    pc = "decommissionNodes" /\ Total(rcSts) > rcDc.size
            /\ ~TooFewNodes(Total(rcSts) - 1, rcDc.racks) =>
        RacksOver # {}

(* What the spec asks of the racks.                                         *)
Converged ==
    /\ sts = SplitRacks(DesiredNodeCount(dc.size, dc.stopped), dc.racks)
    /\ up = sts
    /\ decomm = None
    /\ dc.progress = "Ready"
    /\ \A c \in {"ScalingUp", "ScalingDown", "Resuming"} :
          dc.conds[c] # "True"
    /\ dc.conds["Stopped"] = IF dc.stopped THEN "True" ELSE "False"
    /\ ~dc.stopped => dc.conds["Ready"] = "True"

(* Once the user stops editing, a datacenter with a size the racks allow    *)
(* gets, and keeps, the racks, pods and conditions its spec asks for, from  *)
(* wherever edits and cut-short passes left it, unless a scale down was     *)
(* refused for lack of space.                                               *)
ReachesSpec == <>[](dc.size >= dc.racks => Converged \/ dc.conds["Valid"] = "False")

(* Resuming a stopped datacenter is not reported as scaling up.             *)
ResumeIsNotScaleUp ==
    ~(dc.conds["Resuming"] = "True" /\ dc.conds["ScalingUp"] = "True")

Capacity == INSTANCE RackCapacity WITH nodes <- sts, leaving <- decomm

(* The passes implement RackCapacity, the promise of the scaling code:      *)
(* whatever the edits and cut-short passes, no rack grows or is emptied     *)
(* while a node leaves, one node leaves at a time, and its replica is       *)
(* removed only after it has left the ring.                                 *)
ImplementsCapacity == Capacity!Spec
=============================================================================
