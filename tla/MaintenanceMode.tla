--------------------------- MODULE MaintenanceMode ---------------------------
(***************************************************************************)
(* Enter maintenance mode (EMM): how a reconcile pass answers the taints   *)
(* that vSphere puts on Kubernetes workers, by moving pods off a tainted   *)
(* worker or by refusing with a failure annotation on the pods there       *)
(* (psp.CheckEMM, pkg/psp/emm.go), and how a pod whose volume is bound to  *)
(* an evacuated worker has its node replaced (StartNodeReplace).           *)
(*                                                                         *)
(* A pass works on the pods it listed when it began (rc.dcPods); taints    *)
(* and volume claims are read again by every helper.  Updating a pod fails *)
(* when the pod changed since the list, deleting one does not.  Each       *)
(* worker holds at most one pod (the operator's pod anti-affinity).        *)
(*                                                                         *)
(* A pod record holds                                                      *)
(*   phase    gone, present, or terminating (deletion asked, still listed) *)
(*   node     the worker it is scheduled on, or NoNode                     *)
(*   unsched  the scheduler reported it unschedulable                      *)
(*   started  its node-state label is not Ready-to-Start                   *)
(*   ready    the cassandra container is reported ready                    *)
(*   failure  the value of the EMM failure annotation, or NoFailure        *)
(* A volume claim is none, bound or deleting, with its selected worker.    *)
(***************************************************************************)
EXTENDS Naturals, FiniteSets

CONSTANTS
    Nodes,         \* the workers, all with the role "agent"
    NoNode,
    Pods,
    Racks,
    NoRack,
    RackOf,        \* the rack label of each pod
    Movable,       \* the pods whose volume can follow them to another worker
    NewPods,       \* the pods that may be new: created, never bootstrapped
    Placements,    \* where the pods may be at first
    MaxTaints,     \* bound on the number of taints put on workers
    MaxEvents      \* bound on the number of pods that lose readiness and of
                   \* passes cut short

EvacuateAllData == "drain"
PlannedDowntime == "planned-downtime"
Taints   == {EvacuateAllData, PlannedDowntime}
NoTaint  == "none"
Failures == {"GenericFailure", "NotEnoughResources", "TooManyExistingFailures"}
NoFailure == "none"

Steps == {"idle", "caughtUp", "status", "cleanup", "processing", "checks",
          "notReady", "replace", "evacuate", "planned", "start"}

ASSUME ConstantsAssumption ==
    /\ NoNode \notin Nodes /\ NoRack \notin Racks
    /\ IsFiniteSet(Nodes) /\ IsFiniteSet(Pods)
    /\ RackOf \in [Pods -> Racks]
    /\ Movable \subseteq Pods /\ NewPods \subseteq Pods
    /\ Placements \subseteq [Pods -> Nodes]
    /\ MaxTaints \in Nat /\ MaxEvents \in Nat

VARIABLES
    taint,        \* the EMM taint of each worker
    pods,
    claims,       \* the server-data volume claim of each pod
    hostIds,      \* the pods with a host ID in status.nodeStatuses
    initialized,  \* the Initialized condition is True
    stopped,      \* the Stopped condition is True
    pc,           \* the next step of the running pass, or "idle"
    rcPods,       \* rc.dcPods
    downRack,     \* downRack of checkNodeEMM
    takenDown,    \* history: the ready pods CheckEMM deleted, until ready again
    overlooked,   \* history: those of them that a pass could not see to be down
    taints, failures, aborts

history == <<takenDown, overlooked>>
world  == <<taint, pods, claims, stopped, history>>
bounds == <<taints, failures, aborts>>
vars   == <<world, hostIds, initialized, pc, rcPods, downRack, bounds>>

GonePod   == [phase |-> "gone", node |-> NoNode, unsched |-> FALSE,
              started |-> FALSE, ready |-> FALSE, failure |-> NoFailure]
NewPod    == [GonePod EXCEPT !.phase = "present"]
UpPod(n)  == [NewPod EXCEPT !.node = n, !.started = TRUE, !.ready = TRUE]
NoClaim   == [state |-> "none", node |-> NoNode]
NewClaim  == [state |-> "bound", node |-> NoNode]

(* All pods are up, each on a worker of its own, but for at most one that   *)
(* was just created.                                                        *)
Init ==
    /\ \E at \in Placements, new \in SUBSET NewPods :
          /\ Cardinality(new) <= 1
          /\ \A p, q \in Pods : at[p] = at[q] => p = q
          /\ pods = [p \in Pods |-> IF p \in new THEN NewPod ELSE UpPod(at[p])]
          /\ claims = [p \in Pods |->
                          IF p \in new THEN NewClaim
                          ELSE [NewClaim EXCEPT !.node = at[p]]]
          /\ hostIds = Pods \ new
          /\ initialized \in IF new = {} THEN {TRUE} ELSE BOOLEAN
    /\ taint = [n \in Nodes |-> NoTaint]
    /\ stopped = FALSE /\ takenDown = {} /\ overlooked = {}
    /\ pc = "idle" /\ rcPods = [p \in Pods |-> GonePod] /\ downRack = NoRack
    /\ taints = 0 /\ failures = 0 /\ aborts = 0

-----------------------------------------------------------------------------
(* The environment: the StatefulSet controller, the scheduler, the kubelet, *)
(* Cassandra, and vSphere.                                                  *)

operator == <<hostIds, initialized, pc, rcPods, downRack, aborts>>

PodTurns(p, pod) ==
    /\ pods' = [pods EXCEPT ![p] = pod]
    /\ UNCHANGED <<taint, stopped, history, operator, taints>>

PodRemoved(p) ==
    /\ pods[p].phase = "terminating"
    /\ PodTurns(p, GonePod)
    /\ UNCHANGED <<claims, failures>>

(* The StatefulSet controller makes the missing pod, and its claim unless   *)
(* one of that name is still there.                                         *)
CreatePod(p) ==
    /\ pods[p].phase = "gone" /\ ~stopped
    /\ PodTurns(p, NewPod)
    /\ claims' = [claims EXCEPT ![p] = IF @.state = "none" THEN NewClaim ELSE @]
    /\ UNCHANGED failures

Fits(p, n) ==
    /\ taint[n] = NoTaint
    /\ \A q \in Pods : pods[q].node # n
    /\ claims[p].state = "bound"
    /\ claims[p].node \in {NoNode, n} \/ p \in Movable

Schedule(p, n) ==
    /\ pods[p].phase = "present" /\ pods[p].node = NoNode
    /\ Fits(p, n)
    /\ PodTurns(p, [pods[p] EXCEPT !.node = n, !.unsched = FALSE])
    /\ claims' = [claims EXCEPT ![p].node = IF @ = NoNode THEN n ELSE @]
    /\ UNCHANGED failures

Unschedulable(p) ==
    /\ pods[p].phase = "present" /\ pods[p].node = NoNode /\ ~pods[p].unsched
    /\ \A n \in Nodes : ~Fits(p, n)
    /\ PodTurns(p, [pods[p] EXCEPT !.unsched = TRUE])
    /\ UNCHANGED <<claims, failures>>

(* A deleted claim goes away once no scheduled pod uses it.                 *)
ClaimRemoved(p) ==
    /\ claims[p].state = "deleting" /\ pods[p].node = NoNode
    /\ claims' = [claims EXCEPT ![p] = NoClaim]
    /\ UNCHANGED <<taint, pods, stopped, history, operator, taints, failures>>

(* Cassandra, once started on the pod, becomes ready.                       *)
PodComesUp(p) ==
    /\ pods[p].phase = "present" /\ pods[p].started /\ ~pods[p].ready
    /\ pods' = [pods EXCEPT ![p].ready = TRUE]
    /\ takenDown' = takenDown \ {p} /\ overlooked' = overlooked \ {p}
    /\ UNCHANGED <<taint, claims, stopped, operator, taints, failures>>

PodFails(p) ==
    /\ failures + aborts < MaxEvents
    /\ pods[p].phase = "present" /\ pods[p].ready
    /\ PodTurns(p, [pods[p] EXCEPT !.ready = FALSE])
    /\ failures' = failures + 1
    /\ UNCHANGED claims

Taint(n, t) ==
    /\ taints < MaxTaints
    /\ taint[n] = NoTaint
    /\ taint' = [taint EXCEPT ![n] = t]
    /\ taints' = taints + 1
    /\ UNCHANGED <<pods, claims, stopped, history, operator, failures>>

(* vSphere cancels an operation that the operator refused, takes a planned  *)
(* downtime off once the worker is back, and ends an evacuation when the    *)
(* worker is empty.                                                         *)
On(n)      == {p \in Pods : pods[p].node = n}
Refused(n) == \E p \in On(n) : pods[p].failure # NoFailure

Untaint(n) ==
    /\ taint[n] # NoTaint
    /\ On(n) = {} \/ Refused(n)
    /\ taint' = [taint EXCEPT ![n] = NoTaint]
    /\ UNCHANGED <<pods, claims, stopped, history, operator, taints, failures>>

-----------------------------------------------------------------------------
(* What the pass sees: the listed pods, and the taints and claims as they   *)
(* are when a helper reads them.                                            *)

Listed == {p \in Pods : rcPods[p].phase # "gone"}

GetPodPVC(p) == claims[p].state # "none"

GetAllNodesInDC ==
    ({claims[p].node : p \in Listed} \cup {rcPods[p].node : p \in Listed}) \ {NoNode}

(* A claim that cannot be read fails the pass.                              *)
NodesReadable == \A p \in Listed : GetPodPVC(p)

NodesTainted(t) == {n \in GetAllNodesInDC : taint[n] = t}

EMMNodes == NodesTainted(EvacuateAllData) \cup NodesTainted(PlannedDowntime)

PodsOn(nodes) == {p \in Listed : rcPods[p].node \in nodes}

(* Mutant: the node-state label alone tells.                                *)
LabelTellsBootstrapped(p) == rcPods[p].started

HasPodPotentiallyBootstrapped(p) == p \in hostIds \/ rcPods[p].started

DownPods == {p \in Listed : ~rcPods[p].ready /\ HasPodPotentiallyBootstrapped(p)}

RacksWithDownPods == {RackOf[p] : p \in DownPods}

RackNodes(r) == {rcPods[p].node : p \in {q \in Listed : RackOf[q] = r}}

-----------------------------------------------------------------------------
(* What the pass does.                                                      *)

EndPass ==
    /\ pc' = "idle"
    /\ rcPods' = [p \in Pods |-> GonePod]
    /\ downRack' = NoRack

Goto(step) ==
    /\ pc' = step
    /\ UNCHANGED <<world, hostIds, initialized, rcPods, downRack, bounds>>

CutShort == failures + aborts < MaxEvents /\ aborts' = aborts + 1

(* A pod without a worker is removed at once, another one terminates.       *)
Removed(pod) ==
    IF pod.phase = "present" /\ pod.node # NoNode
      THEN [pod EXCEPT !.phase = "terminating"] ELSE
    IF pod.phase = "present" THEN GonePod ELSE pod

(* RemovePod, for each of some pods: a failing call or a crash leaves the   *)
(* others in place.                                                         *)
RemovePods(ps) ==
    \E done \in SUBSET ps :
        /\ \/ done = ps /\ UNCHANGED aborts
           \/ done # ps /\ CutShort
        /\ pods' = [p \in Pods |-> IF p \in done THEN Removed(pods[p]) ELSE pods[p]]
        /\ takenDown' = takenDown \cup
              {p \in done : rcPods[p].ready /\ pods[p].phase = "present"}
        /\ EndPass
        /\ UNCHANGED <<taint, claims, stopped, overlooked, hostIds, initialized,
                       taints, failures>>

(* Updates to pods that changed since they were listed are conflicts.       *)
UpdatePods(ps, failure) ==
    \E done \in SUBSET {p \in ps : pods[p] = rcPods[p]} :
        /\ \/ done = ps /\ UNCHANGED aborts
           \/ (\E p \in ps : pods[p] # rcPods[p]) /\ UNCHANGED aborts
           \/ done # ps /\ CutShort
        /\ pods' = [p \in Pods |-> IF p \in done
                                     THEN [pods[p] EXCEPT !.failure = failure]
                                     ELSE pods[p]]
        /\ EndPass
        /\ UNCHANGED <<taint, claims, stopped, history, hostIds, initialized,
                       taints, failures>>

-----------------------------------------------------------------------------
(* The steps of a pass up to CheckEMM.                                      *)

(* ReconcileAllRacks lists the pods of the datacenter.  A pod that still    *)
(* terminates is listed with its containers ready, one that is not back is  *)
(* not listed, and a new one does not count without a host ID.              *)
NotSeenDown ==
    {p \in takenDown : \/ pods[p].phase # "present"
                       \/ p \notin hostIds /\ ~pods[p].started}

ListPods ==
    /\ pc = "idle"
    /\ pc' = "caughtUp" /\ rcPods' = pods
    /\ overlooked' = overlooked \cup NotSeenDown
    /\ UNCHANGED <<taint, pods, claims, stopped, takenDown, hostIds, initialized,
                   downRack, bounds>>

(* CalculateRackInformation leaves rc.statefulSets with one nil entry per   *)
(* rack; CheckRackCreation fills them in, after this check.                 *)
FilledStatefulSets == {}

HasStatefulSetControllerCaughtUp ==
    \A r \in FilledStatefulSets : {p \in Pods : RackOf[p] = r} \subseteq Listed

IsNodeStuckWithoutPVC(p) ==
    p \in Listed /\ rcPods[p].node = NoNode /\ ~GetPodPVC(p)

(* fixMissingPVC deletes one pod that waits for a claim that does not exist.*)
CheckStatefulSetControllerCaughtUp ==
    /\ pc = "caughtUp"
    /\ IF ~HasStatefulSetControllerCaughtUp
         THEN /\ EndPass
              /\ UNCHANGED <<world, hostIds, initialized, bounds>>
         ELSE \/ \E p \in Pods : IsNodeStuckWithoutPVC(p) /\ RemovePods({p})
              \/ /\ \A p \in Pods : ~IsNodeStuckWithoutPVC(p)
                 /\ Goto("status")

(* UpdateStatus records the host IDs the management API reports; a failing  *)
(* call is only logged.  Passes stop before CheckEMM while the datacenter   *)
(* is being stopped.                                                        *)
UpdateCassandraNodeStatus ==
    /\ pc = "status"
    /\ \E known \in SUBSET {p \in Listed : rcPods[p].ready} : hostIds' = hostIds \cup known
    /\ pc' = "cleanup"
    /\ UNCHANGED <<world, initialized, rcPods, downRack, bounds>>

(* CheckRackStoppedState: the pass that stops the datacenter scales every   *)
(* StatefulSet to zero.                                                     *)
Stop ==
    /\ pc = "idle" /\ initialized /\ ~stopped
    /\ stopped' = TRUE
    /\ pods' = [p \in Pods |-> Removed(pods[p])]
    /\ UNCHANGED <<taint, claims, history, operator, taints, failures>>

-----------------------------------------------------------------------------
(* checkNodeEMM.                                                            *)

Failed == {p \in Listed : rcPods[p].failure # NoFailure}

(* A step that reads the workers of the datacenter fails when a claim is    *)
(* missing.                                                                 *)
IfReadable(next) ==
    \/ NodesReadable /\ next
    \/ /\ ~NodesReadable
       /\ EndPass
       /\ UNCHANGED <<world, hostIds, initialized, bounds>>

(* Mutant: failure annotations are never taken off.                         *)
CleanupForgotten ==
    /\ pc = "cleanup"
    /\ IfReadable(Goto("processing"))

CleanupEMMAnnotations ==
    /\ pc = "cleanup"
    /\ IfReadable(
        LET stale == {p \in Failed : rcPods[p].node \notin EMMNodes}
        IN  IF stale = {} THEN Goto("processing") ELSE UpdatePods(stale, NoFailure))

EmmFailureStillProcessing ==
    /\ pc = "processing"
    /\ IfReadable(
        IF \E p \in Failed : rcPods[p].node \in EMMNodes
          THEN EndPass /\ UNCHANGED <<world, hostIds, initialized, bounds>>
          ELSE Goto(IF initialized THEN "checks" ELSE "start"))

(* failEMM on some workers: whether it annotates, or finds annotated as     *)
(* wanted, any pod; and the pods it has to annotate.                        *)
DidUpdate(nodes, failure) ==
    \E p \in PodsOn(nodes) : rcPods[p].failure \in {NoFailure, failure}

FailEMM(nodes, failure) ==
    UpdatePods(PodsOn(nodes) \ Failed, failure)

NotEnoughNodes == Cardinality(Listed) > Cardinality(Nodes \ EMMNodes)

(* The refusals, in their order; each ends the pass when it annotates.      *)
CheckFailures ==
    LET evacuate == NodesTainted(EvacuateAllData)
        noSpace  == NotEnoughNodes /\ DidUpdate(EMMNodes, "NotEnoughResources")
        noRun    == stopped /\ DidUpdate(evacuate, "GenericFailure")
        noRacks  == /\ Cardinality(RacksWithDownPods) > 1
                    /\ DidUpdate(EMMNodes, "TooManyExistingFailures")
        others(r) == EMMNodes \ RackNodes(r)
    IN  /\ pc = "checks"
        /\ IfReadable(
          \/ noSpace /\ FailEMM(EMMNodes, "NotEnoughResources")
          \/ ~noSpace /\ noRun /\ FailEMM(evacuate, "GenericFailure")
          \/ ~noSpace /\ ~noRun /\ noRacks /\ FailEMM(EMMNodes, "TooManyExistingFailures")
          \/ /\ ~noSpace /\ ~noRun /\ ~noRacks
             /\ \/ \E r \in RacksWithDownPods :
                      IF DidUpdate(others(r), "TooManyExistingFailures")
                        THEN FailEMM(others(r), "TooManyExistingFailures")
                        ELSE /\ pc' = "notReady" /\ downRack' = r
                             /\ UNCHANGED <<world, hostIds, initialized, rcPods, bounds>>
                \/ RacksWithDownPods = {} /\ Goto("notReady"))

RemoveAllNotReadyPodsOnEMMNodes ==
    /\ pc = "notReady"
    /\ IfReadable(
        LET doomed == {p \in PodsOn(EMMNodes) : ~rcPods[p].ready}
        IN  IF doomed = {}
              THEN Goto(IF downRack = NoRack THEN "evacuate" ELSE "replace")
              ELSE RemovePods(doomed))

(* The down pods that cannot be scheduled and whose claim selected a worker *)
(* that is being evacuated.                                                 *)
StuckOnEvacuated ==
    {p \in DownPods : /\ rcPods[p].unsched
                      /\ claims[p].node # NoNode
                      /\ claims[p].node # rcPods[p].node
                      /\ claims[p].node \in NodesTainted(EvacuateAllData)}

(* StartNodeReplace records the pod in the specification (NodeReplacement), *)
(* then deletes the claim, then the pod; a cut leaves one pod half done.    *)
StartNodeReplace(unclaimed, removed) ==
    /\ claims' = [p \in Pods |-> IF p \in unclaimed
                                   THEN [claims[p] EXCEPT !.state = "deleting"]
                                   ELSE claims[p]]
    /\ pods' = [p \in Pods |-> IF p \in removed THEN Removed(pods[p]) ELSE pods[p]]
    /\ EndPass
    /\ UNCHANGED <<taint, stopped, history, hostIds, initialized, taints, failures>>

PerformEvacuateDataPodReplace ==
    /\ pc = "replace"
    /\ IfReadable(
        \/ StuckOnEvacuated = {} /\ Goto("start")
        \/ /\ StuckOnEvacuated # {}
           /\ \/ /\ StartNodeReplace(StuckOnEvacuated, StuckOnEvacuated)
                 /\ UNCHANGED aborts
              \/ \E done \in SUBSET StuckOnEvacuated, cut \in StuckOnEvacuated :
                    /\ cut \notin done /\ CutShort
                    /\ \/ StartNodeReplace(done, done)
                       \/ StartNodeReplace(done \cup {cut}, done))

RemoveNextPodFromEvacuateDataNode ==
    /\ pc = "evacuate"
    /\ IfReadable(
        LET here == PodsOn(NodesTainted(EvacuateAllData))
        IN  IF here = {} THEN Goto("planned") ELSE \E p \in here : RemovePods({p}))

(* Mutant: only pods that are not ready leave for a planned downtime.       *)
PlannedDowntimeSkipsReady ==
    /\ pc = "planned"
    /\ IfReadable(
        LET used == {n \in NodesTainted(PlannedDowntime) : \E p \in PodsOn({n}) : ~rcPods[p].ready}
        IN  IF used = {} THEN Goto("start")
            ELSE \E n \in used : RemovePods(PodsOn({n})))

RemoveAllPodsFromOnePlannedDowntimeNode ==
    /\ pc = "planned"
    /\ IfReadable(
        LET used == {n \in NodesTainted(PlannedDowntime) : PodsOn({n}) # {}}
        IN  IF used = {} THEN Goto("start")
            ELSE \E n \in used : RemovePods(PodsOn({n})))

(* The rest of the pass: CheckPodsReady starts Cassandra on one pod that is *)
(* scheduled and waits, or every pod is up and the datacenter is initialized*)
StartNode ==
    /\ pc = "start"
    /\ LET waiting == {p \in Listed : rcPods[p].node # NoNode /\ ~rcPods[p].started}
       IN  \/ \E p \in waiting :
                 pods' = [pods EXCEPT ![p].started =
                            @ \/ (pods[p].phase = "present" /\ pods[p].node # NoNode)]
           \/ waiting = {} /\ UNCHANGED pods
    /\ initialized' = (initialized \/ \A p \in Pods : rcPods[p].ready)
    /\ EndPass
    /\ UNCHANGED <<taint, claims, stopped, history, hostIds, bounds>>

(* The pass is cut short between two writes.                                *)
Abort ==
    /\ pc # "idle" /\ CutShort
    /\ EndPass
    /\ UNCHANGED <<world, hostIds, initialized, taints, failures>>

CheckEMM ==
    \/ CleanupEMMAnnotations \/ EmmFailureStillProcessing \/ CheckFailures
    \/ RemoveAllNotReadyPodsOnEMMNodes \/ PerformEvacuateDataPodReplace
    \/ RemoveNextPodFromEvacuateDataNode \/ RemoveAllPodsFromOnePlannedDowntimeNode

Pass == ListPods \/ CheckStatefulSetControllerCaughtUp
        \/ UpdateCassandraNodeStatus \/ CheckEMM \/ StartNode

Cluster(p) ==
    \/ PodRemoved(p) \/ CreatePod(p) \/ Unschedulable(p)
    \/ ClaimRemoved(p) \/ PodComesUp(p)
    \/ \E n \in Nodes : Schedule(p, n)

Next ==
    \/ Pass \/ Abort \/ Stop
    \/ \E p \in Pods : Cluster(p) \/ PodFails(p)
    \/ \E n \in Nodes : Untaint(n) \/ \E t \in Taints : Taint(n, t)

Spec == Init /\ [][Next]_vars

(* Passes run to their end and are queued again, the cluster makes progress,*)
(* and vSphere takes the taint off a worker that was refused or is done.    *)
Fairness ==
    /\ WF_vars(Pass)
    /\ \A p \in Pods : WF_vars(Cluster(p))
    /\ \A n \in Nodes : WF_vars(Untaint(n))

FairSpec == Spec /\ Fairness

-----------------------------------------------------------------------------
PodRecords == [phase : {"gone", "present", "terminating"}, node : Nodes \cup {NoNode},
               unsched : BOOLEAN, started : BOOLEAN, ready : BOOLEAN,
               failure : Failures \cup {NoFailure}]

(* Types, and: no pod is started or ready without a worker.                 *)
TypeOK ==
    /\ taint \in [Nodes -> Taints \cup {NoTaint}]
    /\ pods \in [Pods -> PodRecords] /\ rcPods \in [Pods -> PodRecords]
    /\ claims \in [Pods -> [state : {"none", "bound", "deleting"}, node : Nodes \cup {NoNode}]]
    /\ hostIds \subseteq Pods /\ takenDown \subseteq Pods /\ overlooked \subseteq takenDown
    /\ initialized \in BOOLEAN /\ stopped \in BOOLEAN
    /\ pc \in Steps /\ downRack \in Racks \cup {NoRack}
    /\ taints \in 0..MaxTaints /\ failures \in 0..MaxEvents /\ aborts \in 0..MaxEvents
    /\ \A p \in Pods : pods[p].started \/ pods[p].ready => pods[p].node # NoNode

(* checkNodeEMM: the ready pods that CheckEMM deleted and that are not back *)
(* yet all belong to one rack, whatever workers are tainted, pods fail or   *)
(* passes are cut short meanwhile; but for those a pass could not see to be *)
(* down, since it listed them while they terminated, before they were       *)
(* recreated, or new and without a host ID.                                 *)
OneRackTakenDown ==
    \A p, q \in takenDown \ overlooked : RackOf[p] = RackOf[q]

(* emm.go:9-12, "we will never allow more than 1 rack to have bootstrapped  *)
(* pods that are not ready": CheckEMM takes ready pods of one rack down at  *)
(* a time.  Its passes are two seconds apart, a pod terminates for longer.  *)
NeverTwoRacksDown ==
    \A p, q \in takenDown : RackOf[p] = RackOf[q]

(* emm.go:670-672, "all pods that are down belong to the same rack as the  *)
(* tainted nodes": when checkNodeEMM replaces nodes, deleting their volumes,*)
(* the pass saw down pods in one rack only.                                 *)
ReplacesInOneRack ==
    pc = "replace" /\ StuckOnEvacuated # {} => Cardinality(RacksWithDownPods) <= 1

(* Every maintenance request is answered: a tainted worker with pods of the *)
(* datacenter is emptied, or refused by an annotation, or released.         *)
RequestAnswered ==
    \A n \in Nodes :
        (taint[n] # NoTaint /\ On(n) # {}) ~> (On(n) = {} \/ Refused(n) \/ taint[n] = NoTaint)

(* cleanupEMMAnnotations: no refusal outlives its taint for ever; a stale   *)
(* annotation would refuse the next maintenance of that worker unseen.      *)
RefusalWithdrawn ==
    \A p \in Pods : (pods[p].failure # NoFailure) ~> (pods[p].failure = NoFailure)

=============================================================================
