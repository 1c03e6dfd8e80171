--------------------------- MODULE NodeReplacement ---------------------------
(***************************************************************************)
(* Replacing the Cassandra node of a pod: a request in spec.replaceNodes,  *)
(* from the user or from StartNodeReplace when maintenance strands a       *)
(* volume, moves to status.nodeReplacements (UpdateStatus), the volume and *)
(* the pod are deleted, and the recreated pod is started with the address  *)
(* of the member whose place it takes (startCassandra); the request ends   *)
(* when the new incarnation of the pod is started.                         *)
(*                                                                         *)
(* The ring is a set of host IDs.  An ID is drawn by a node that starts on *)
(* an empty volume and is kept on that volume; it leaves the ring when a   *)
(* node takes its place, and stays, down, when its volume is lost.         *)
(*                                                                         *)
(* A pod record holds                                                      *)
(*   phase   gone, present or terminating                                  *)
(*   placed  it is scheduled, its management API answers                   *)
(*   label   its node-state label                                          *)
(*   proc    how Cassandra was started in it: off, normal, replace, failed *)
(*   takes   the ID it was told to replace, or NoId                        *)
(*   up      the cassandra container is ready                              *)
(*   newer   it was created no earlier than the ReplacingNodes condition   *)
(*           last turned True                                              *)
(***************************************************************************)
EXTENDS Naturals, FiniteSets

CONSTANTS
    Pods,
    NewPods,      \* the pods that may not have joined the ring yet
    UserAsks,     \* the user may ask for replacements
    Evacuates,    \* maintenance may strand volumes
    MaxRequests, MaxFailures, MaxAborts

ASSUME ConstantsAssumption ==
    /\ IsFiniteSet(Pods) /\ NewPods \subseteq Pods
    /\ {UserAsks, Evacuates} \subseteq BOOLEAN
    /\ {MaxRequests, MaxFailures, MaxAborts} \subseteq Nat

NoId == 0
Ids  == 1 .. (Cardinality(Pods) + MaxRequests)

Labels == {"Ready-to-Start", "Starting", "Started", "Started-not-Ready"}

VARIABLES
    specReplace,   \* spec.replaceNodes
    replacements,  \* status.nodeReplacements
    replacing,     \* the ReplacingNodes condition is True
    overdue,       \* for more than 30 minutes
    hostId,        \* the host IDs in status.nodeStatuses
    pod,
    volume,        \* the data volume of each pod
    ring,          \* the host IDs of the members, up or down
    todo,          \* what the user still has to delete for a request
    pc,            \* the next step of the running pass, or "idle"
    rcPods,        \* rc.dcPods
    rcSpec,        \* spec.replaceNodes as the pass read it
    rcRing,        \* the endpoint data the pass read
    lost,          \* history: the pods whose request UpdateStatus took from the
                   \* specification and did not record in the status
    requests, failures, aborts

status  == <<replacements, replacing, overdue, hostId>>
cluster == <<pod, volume, ring>>
rc      == <<rcPods, rcSpec, rcRing>>
bounds  == <<requests, failures, aborts>>
vars    == <<specReplace, status, cluster, todo, pc, rc, lost, bounds>>

GonePod  == [phase |-> "gone", placed |-> FALSE, label |-> "Ready-to-Start",
             proc |-> "off", takes |-> NoId, up |-> FALSE, newer |-> FALSE]
NewPod   == [GonePod EXCEPT !.phase = "present", !.newer = TRUE]
UpPod    == [GonePod EXCEPT !.phase = "present", !.placed = TRUE, !.label = "Started",
                            !.proc = "normal", !.up = TRUE]
NoVolume == [state |-> "none", id |-> NoId, stranded |-> FALSE]
Empty    == [NoVolume EXCEPT !.state = "bound"]

UnusedId ==
    CHOOSE i \in Ids \ ring : \A p \in Pods : i \notin {volume[p].id, hostId[p]}

(* The nodes are up and their host IDs known, but for the new pods.         *)
Init ==
    /\ \E new \in SUBSET NewPods, id \in [Pods -> Ids \cup {NoId}] :
          /\ \A p \in Pods : id[p] = NoId <=> p \in new
          /\ \A p, q \in Pods \ new : id[p] = id[q] => p = q
          /\ \A p \in Pods : id[p] <= Cardinality(Pods)
          /\ pod = [p \in Pods |-> IF p \in new THEN NewPod ELSE UpPod]
          /\ volume = [p \in Pods |-> [Empty EXCEPT !.id = id[p]]]
          /\ hostId = id /\ ring = {id[p] : p \in Pods \ new}
    /\ specReplace = {} /\ replacements = {} /\ replacing = FALSE /\ overdue = FALSE
    /\ todo = [p \in Pods |-> "none"]
    /\ pc = "idle" /\ rcPods = [p \in Pods |-> GonePod] /\ rcSpec = {} /\ rcRing = {}
    /\ lost = {} /\ requests = 0 /\ failures = 0 /\ aborts = 0

-----------------------------------------------------------------------------
(* The cluster.                                                             *)

operator == <<status, pc, rc, lost, aborts>>

PodRemoved(p) ==
    /\ pod[p].phase = "terminating"
    /\ pod' = [pod EXCEPT ![p] = GonePod]
    /\ UNCHANGED <<specReplace, operator, volume, ring, todo, requests, failures>>

(* The StatefulSet controller recreates the pod, and its claim when there   *)
(* is none.                                                                 *)
CreatePod(p) ==
    /\ pod[p].phase = "gone"
    /\ pod' = [pod EXCEPT ![p] = NewPod]
    /\ volume' = [volume EXCEPT ![p] = IF @.state = "none" THEN Empty ELSE @]
    /\ UNCHANGED <<specReplace, operator, ring, todo, requests, failures>>

PlacePod(p) ==
    /\ pod[p].phase = "present" /\ ~pod[p].placed
    /\ volume[p].state = "bound" /\ ~volume[p].stranded
    /\ pod' = [pod EXCEPT ![p].placed = TRUE]
    /\ UNCHANGED <<specReplace, operator, volume, ring, todo, requests, failures>>

(* A deleted claim goes away when no placed pod uses it.                    *)
ClaimRemoved(p) ==
    /\ volume[p].state = "deleting" /\ ~pod[p].placed
    /\ volume' = [volume EXCEPT ![p] = NoVolume]
    /\ UNCHANGED <<specReplace, operator, pod, ring, todo, requests, failures>>

(* Cassandra comes up: it rejoins with the ID of its volume, joins with a   *)
(* new one, or takes the place of a member.  It fails without its volume,   *)
(* and refuses to replace when the volume already holds a node.             *)
NodeComesUp(p) ==
    /\ pod[p].phase = "present" /\ pod[p].proc \in {"normal", "replace"} /\ ~pod[p].up
    /\ LET id == IF volume[p].id = NoId THEN UnusedId ELSE volume[p].id
       IN  IF volume[p].state = "none" \/ (pod[p].proc = "replace" /\ volume[p].id # NoId)
             THEN /\ pod' = [pod EXCEPT ![p].proc = "failed"]
                  /\ UNCHANGED <<volume, ring>>
             ELSE /\ pod' = [pod EXCEPT ![p].up = TRUE]
                  /\ volume' = [volume EXCEPT ![p].id = id]
                  /\ ring' = (ring \ {pod[p].takes}) \cup {id}
    /\ UNCHANGED <<specReplace, operator, todo, requests, failures>>

(* Cassandra fails, up or starting; some other node stays up.               *)
NodeFails(p) ==
    /\ failures < MaxFailures
    /\ pod[p].phase = "present" /\ pod[p].proc \in {"normal", "replace"}
    /\ \E q \in Pods \ {p} : pod[q].up
    /\ pod' = [pod EXCEPT ![p].up = FALSE, ![p].proc = "failed"]
    /\ failures' = failures + 1
    /\ UNCHANGED <<specReplace, operator, volume, ring, todo, requests>>

(* A worker is evacuated: the pod moves off, its local volume cannot; some  *)
(* other node stays up.                                                     *)
Strand(p) ==
    /\ Evacuates /\ requests < MaxRequests
    /\ pod[p].phase = "present" /\ pod[p].up
    /\ volume[p].state = "bound" /\ \E q \in Pods \ {p} : pod[q].up
    /\ pod' = [pod EXCEPT ![p] = NewPod]
    /\ volume' = [volume EXCEPT ![p].stranded = TRUE]
    /\ requests' = requests + 1
    /\ UNCHANGED <<specReplace, operator, ring, todo, failures>>

(* The user asks to replace a node that failed and whose host ID is known   *)
(* and, once the status lists it, deletes its claim without waiting for     *)
(* finalizers, then its pod.                                                *)
UserAsksFor(p) ==
    /\ UserAsks /\ requests < MaxRequests
    /\ pod[p].phase = "present" /\ pod[p].proc = "failed" /\ todo[p] = "none"
    /\ hostId[p] # NoId
    /\ specReplace' = specReplace \cup {p}
    /\ todo' = [todo EXCEPT ![p] = "claim"]
    /\ requests' = requests + 1
    /\ UNCHANGED <<operator, pod, volume, ring, failures>>

UserDeletesClaim(p) ==
    /\ todo[p] = "claim" /\ p \in replacements
    /\ volume' = [volume EXCEPT ![p] = NoVolume]
    /\ todo' = [todo EXCEPT ![p] = "pod"]
    /\ UNCHANGED <<specReplace, operator, pod, ring, requests, failures>>

UserDeletesPod(p) ==
    /\ todo[p] = "pod" /\ pod[p].phase = "present"
    /\ pod' = [pod EXCEPT ![p].phase = "terminating"]
    /\ todo' = [todo EXCEPT ![p] = "none"]
    /\ UNCHANGED <<specReplace, operator, volume, ring, requests, failures>>

(* Thirty minutes pass, longer than a pass and than the labels need to      *)
(* follow the pods.                                                         *)
ThirtyMinutes ==
    /\ pc = "idle" /\ replacing /\ ~overdue
    /\ \A p \in Pods : pod[p].label = "Started" => pod[p].up
    /\ overdue' = TRUE
    /\ UNCHANGED <<specReplace, replacements, replacing, hostId, cluster, todo,
                   pc, rc, lost, bounds>>

-----------------------------------------------------------------------------
(* The pass.                                                                *)

EndPass ==
    /\ pc' = "idle" /\ rcSpec' = {} /\ rcRing' = {}
    /\ rcPods' = [p \in Pods |-> GonePod]

CutShort == aborts < MaxAborts /\ aborts' = aborts + 1

Listed == {p \in Pods : rcPods[p].phase # "gone"}

(* The pass reads the datacenter, the pods, and the endpoints from a pod    *)
(* that is ready.                                                           *)
BeginPass ==
    /\ pc = "idle" /\ pc' = "claims"
    /\ rcPods' = pod /\ rcSpec' = specReplace
    /\ rcRing' = IF \E p \in Pods : pod[p].up THEN ring ELSE {}
    /\ UNCHANGED <<specReplace, status, cluster, todo, lost, bounds>>

(* RemovePod and Delete: a pod that was never placed is gone at once.       *)
Deleted(p) ==
    [pod EXCEPT ![p] = IF @.phase = "gone" \/ ~@.placed THEN GonePod
                       ELSE [@ EXCEPT !.phase = "terminating"]]

\* Mutant: does not look for pending pods without a claim.
PVCNotChecked ==
    /\ pc = "claims" /\ pc' = "requests"
    /\ UNCHANGED <<specReplace, status, cluster, todo, rc, lost, bounds>>

(* fixMissingPVC.                                                           *)
FixMissingPVC ==
    /\ pc = "claims"
    /\ \/ \E p \in Listed :
             /\ ~rcPods[p].placed /\ volume[p].state = "none"
             /\ pod' = Deleted(p)
             /\ EndPass
       \/ /\ \A p \in Listed : rcPods[p].placed \/ volume[p].state # "none"
          /\ pc' = "requests" /\ UNCHANGED <<pod, rc>>
    /\ UNCHANGED <<specReplace, status, volume, ring, todo, lost, bounds>>

(* UpdateCassandraNodeStatus: a host ID is fetched once, from a pod whose   *)
(* management API runs, and found when the node is up.                      *)
NodeStatuses ==
    [p \in Pods |->
        IF hostId[p] = NoId /\ p \in Listed /\ rcPods[p].placed /\ pod[p].up
          THEN volume[p].id ELSE hostId[p]]

\* Mutant: takes any incarnation that is started for the new one.
FinishedWhenStarted ==
    {p \in replacements : p \in Listed /\ rcPods[p].label = "Started" /\ replacing}

(* updateCurrentReplacePodsProgress.                                        *)
Finished ==
    {p \in replacements : /\ p \in Listed /\ rcPods[p].label = "Started"
                          /\ replacing /\ (overdue \/ rcPods[p].newer)}

(* startReplacePodsIfReplacePodsSpecified: the requests the pass read go to *)
(* its copy of the status, and spec.replaceNodes is blanked, whatever it    *)
(* holds by now: what was added since is lost.  The patch keeps the copy of *)
(* the status.                                                              *)
TakeRequests ==
    /\ pc = "requests" /\ pc' = "status"
    /\ IF rcSpec = {}
         THEN UNCHANGED <<specReplace, lost>>
         ELSE specReplace' = {} /\ lost' = lost \cup (specReplace \ rcSpec)
    /\ UNCHANGED <<status, cluster, todo, rc, bounds>>

\* Mutant: the status that is patched has lost the requests that were taken.
RequestsForgotten ==
    /\ pc = "status" /\ pc' = "emm"
    /\ hostId' = NodeStatuses
    /\ replacements' = replacements \ Finished
    /\ replacing' = (replacing \/ rcSpec # {})
    /\ UNCHANGED <<specReplace, overdue, cluster, todo, rc, lost, bounds>>

(* The rest of UpdateStatus: the status is patched.  Turning the condition  *)
(* True makes every pod there is an older one.                              *)
UpdateStatus ==
    /\ pc = "status" /\ pc' = "emm"
    /\ hostId' = NodeStatuses
    /\ replacements' = (replacements \ Finished) \cup rcSpec
    /\ replacing' = (replacing \/ rcSpec # {})
    /\ LET turned == replacing' /\ ~replacing
           Older(f) == [p \in Pods |-> [f[p] EXCEPT !.newer = @ /\ ~turned]]
       IN  pod' = Older(pod) /\ rcPods' = Older(rcPods)
    /\ UNCHANGED <<specReplace, overdue, volume, ring, todo, rcSpec, rcRing, lost, bounds>>

(* StartNodeReplace, for a pod that maintenance stranded: the request, the  *)
(* claim, the pod; the pass may be cut after each.  The update fails when   *)
(* the user changed the specification meanwhile.                            *)
ToReplace(p) ==
    ~rcPods[p].placed /\ volume[p].stranded /\ hostId[p] # NoId

StartNodeReplace ==
    /\ pc = "emm"
    /\ \/ \E p \in Listed :
             /\ ToReplace(p)
             /\ \/ /\ specReplace # {}
                   /\ UNCHANGED <<specReplace, volume, pod, aborts>>
                \/ /\ specReplace = {} /\ specReplace' = {p}
                   /\ \/ CutShort /\ UNCHANGED <<volume, pod>>
                      \/ /\ volume' = [volume EXCEPT ![p].state = "deleting"]
                         /\ \/ CutShort /\ UNCHANGED pod
                            \/ pod' = Deleted(p) /\ UNCHANGED aborts
             /\ EndPass
       \/ /\ \A p \in Listed : ~ToReplace(p)
          /\ pc' = "ready" /\ UNCHANGED <<specReplace, volume, pod, rc, aborts>>
    /\ UNCHANGED <<status, ring, todo, lost, requests, failures>>

-----------------------------------------------------------------------------
(* CheckPodsReady: the rest of the pass.                                    *)

Present(p) == pod[p].phase = "present"

(* findStartedNotReadyNodes: a started pod that lost its readiness, or a    *)
(* pod that has it back, is labelled so.                                    *)
LostReadiness == {p \in Listed : rcPods[p].label = "Started" /\ ~rcPods[p].up}
Recovered     == {p \in Listed : rcPods[p].label = "Started-not-Ready" /\ rcPods[p].up}

Labelled(p, l) == [pod EXCEPT ![p] = IF Present(p) THEN [@ EXCEPT !.label = l] ELSE @]

FindStartedNotReadyNodes ==
    /\ pc = "ready"
    /\ \/ \E p \in LostReadiness :
             pod' = Labelled(p, "Started-not-Ready") /\ EndPass
       \/ \E p \in Recovered :
             pod' = Labelled(p, "Started") /\ pc' = "stuck" /\ UNCHANGED rc
       \/ /\ LostReadiness \cup Recovered = {}
          /\ pc' = "stuck" /\ UNCHANGED <<pod, rc>>
    /\ UNCHANGED <<specReplace, status, volume, ring, todo, lost, bounds>>

(* deleteStuckNodes, for a container that terminated and for a pod without  *)
(* readiness: ten minutes are enough for a node to come up, so that a node  *)
(* that is coming up is never stuck.                                        *)
Stuck ==
    {p \in Listed : /\ rcPods[p].placed /\ ~rcPods[p].up
                    /\ rcPods[p].label # "Ready-to-Start"
                    /\ \/ rcPods[p].proc = "failed"
                       \/ rcPods[p].proc = "off" /\ rcPods[p].label = "Started-not-Ready"}

DeleteStuckNodes ==
    /\ pc = "stuck"
    /\ \/ \E p \in Stuck : pod' = Deleted(p) /\ EndPass
       \/ Stuck = {} /\ pc' = "start" /\ UNCHANGED <<pod, rc>>
    /\ UNCHANGED <<specReplace, status, volume, ring, todo, lost, bounds>>

(* findStartingNodes: at most one pod starts at a time.                     *)
Starting == {p \in Listed : rcPods[p].label = "Starting"}

FindStartingNodes ==
    /\ pc = "start" /\ Starting # {}
    /\ \E p \in Starting : pod' = IF rcPods[p].up THEN Labelled(p, "Started") ELSE pod
    /\ EndPass
    /\ UNCHANGED <<specReplace, status, volume, ring, todo, lost, bounds>>

(* startCassandra: a pod in status.nodeReplacements is started with the     *)
(* address of the member with its recorded host ID, and like any other when *)
(* no such ID is recorded or the endpoints do not list it.                  *)
ReplaceAddress(p) ==
    IF p \in replacements /\ hostId[p] \in rcRing THEN hostId[p] ELSE NoId

NoEndpoints(p) == p \in replacements /\ hostId[p] # NoId /\ rcRing = {}

ToStart == {p \in Listed : rcPods[p].placed /\ rcPods[p].label = "Ready-to-Start"}

StartCassandra ==
    /\ pc = "start" /\ Starting = {} /\ ToStart # {}
    /\ \E p \in ToStart :
          pod' = IF NoEndpoints(p) \/ ~Present(p) \/ ~pod[p].placed THEN pod
                 ELSE [pod EXCEPT
                         ![p].label = "Starting",
                         ![p].proc  = IF ReplaceAddress(p) # NoId THEN "replace" ELSE "normal",
                         ![p].takes = ReplaceAddress(p)]
    /\ EndPass
    /\ UNCHANGED <<specReplace, status, volume, ring, todo, lost, bounds>>

(* Nothing to start: with no replacement left, every pod up and every host  *)
(* ID known, the ReplacingNodes condition is cleared                        *)
(* (CheckCassandraNodeStatuses, CheckClearActionConditions).                *)
AllReady == \A p \in Pods : p \in Listed /\ rcPods[p].up /\ rcPods[p].label = "Started"

FinishPass ==
    /\ pc = "start" /\ Starting = {} /\ ToStart = {}
    /\ LET clear == replacements = {} /\ AllReady /\ \A p \in Pods : hostId[p] # NoId
       IN  /\ replacing' = (replacing /\ ~clear)
           /\ overdue' = (overdue /\ ~clear)
    /\ EndPass
    /\ UNCHANGED <<specReplace, replacements, hostId, cluster, todo, lost, bounds>>

(* A pass is cut short.  Between the two patches of UpdateStatus the        *)
(* requests are in neither the specification nor the status.                *)
Abort ==
    /\ pc # "idle" /\ CutShort
    /\ lost' = IF pc = "status" THEN lost \cup rcSpec ELSE lost
    /\ EndPass
    /\ UNCHANGED <<specReplace, status, cluster, todo, requests, failures>>

CheckPodsReady ==
    \/ FindStartedNotReadyNodes \/ DeleteStuckNodes \/ FindStartingNodes
    \/ StartCassandra \/ FinishPass

Pass ==
    \/ BeginPass \/ FixMissingPVC \/ TakeRequests \/ UpdateStatus
    \/ StartNodeReplace \/ CheckPodsReady

Environment(p) ==
    \/ PodRemoved(p) \/ CreatePod(p) \/ PlacePod(p) \/ ClaimRemoved(p)
    \/ NodeComesUp(p)

UserDeletes(p) == UserDeletesClaim(p) \/ UserDeletesPod(p)

Next ==
    \/ Pass \/ Abort \/ ThirtyMinutes
    \/ \E p \in Pods : Environment(p) \/ UserDeletes(p) \/ NodeFails(p) \/ Strand(p) \/ UserAsksFor(p)

Spec == Init /\ [][Next]_vars

(* Passes run and are queued again, the cluster makes progress, time        *)
(* passes, and the user does what a request leaves to do.                   *)
Fairness ==
    /\ WF_vars(Pass) /\ SF_vars(ThirtyMinutes)
    /\ \A p \in Pods : /\ WF_vars(ClaimRemoved(p)) /\ WF_vars(Environment(p))
                       /\ WF_vars(UserDeletesClaim(p)) /\ SF_vars(UserDeletesPod(p))

FairSpec == Spec /\ Fairness

-----------------------------------------------------------------------------
PodRecords ==
    [phase : {"gone", "present", "terminating"}, placed : BOOLEAN, label : Labels,
     proc : {"off", "normal", "replace", "failed"}, takes : Ids \cup {NoId},
     up : BOOLEAN, newer : BOOLEAN]

(* Types, and: a node that is up was started and has its ID in the ring.    *)
TypeOK ==
    /\ specReplace \subseteq Pods /\ replacements \subseteq Pods
    /\ replacing \in BOOLEAN /\ overdue \in BOOLEAN
    /\ hostId \in [Pods -> Ids \cup {NoId}]
    /\ pod \in [Pods -> PodRecords] /\ rcPods \in [Pods -> PodRecords]
    /\ volume \in [Pods -> [state : {"none", "bound", "deleting"},
                            id : Ids \cup {NoId}, stranded : BOOLEAN]]
    /\ ring \subseteq Ids /\ rcRing \subseteq Ids /\ rcSpec \subseteq Pods
    /\ todo \in [Pods -> {"none", "claim", "pod"}]
    /\ pc \in {"idle", "claims", "requests", "status", "emm", "ready", "stuck", "start"}
    /\ lost \subseteq Pods
    /\ requests \in 0..MaxRequests /\ failures \in 0..MaxFailures /\ aborts \in 0..MaxAborts
    /\ \A p \in Pods : volume[p].id # NoId => volume[p].id \in ring

Requested   == specReplace \cup rcSpec \cup replacements
DeadMembers == {id \in ring : \A p \in Pods : volume[p].id # id}

(* "If we do this wrong and start the node we replaced normally, we will    *)
(* end up with an additional node in our cluster": every member of the ring *)
(* has its volume, or is the recorded host ID of a pod whose replacement is *)
(* asked for, so that no dead member is left behind; but for the requests   *)
(* that UpdateStatus lost.  This is about one replacement: the pod keeps    *)
(* the host ID of the member that was replaced, and a second request finds  *)
(* no member of that ID.                                                    *)
ReplacedNotAdded ==
    \A id \in DeadMembers : \E p \in Requested \cup lost : hostId[p] = id

(* "Now that we've recorded these nodes in the status, we can blank out     *)
(* this field on the spec": no request is lost.  The field is blanked by    *)
(* the first patch of UpdateStatus, the nodes are recorded by the second.   *)
RequestsRecorded == lost = {}

(* updateCurrentReplacePodsProgress: a request is dropped only when the     *)
(* member to be replaced has left the ring, unless it is given up after     *)
(* thirty minutes.                                                          *)
FinishedMeansReplaced ==
    [][\A p \in replacements \ replacements' :
          overdue \/ hostId[p] \notin ring]_vars

(* A request ends: the pod's node is up, no dead member is left in the     *)
(* ring, and the pod is not listed as being replaced any more; unless       *)
(* UpdateStatus lost the request.                                           *)
ReplacementEnds ==
    \A p \in Pods : p \in specReplace ~>
        \/ pod[p].up /\ DeadMembers = {} /\ p \notin Requested
        \/ p \in lost

=============================================================================
