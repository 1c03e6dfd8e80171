---------------------------- MODULE RollingUpdate ----------------------------
(***************************************************************************)
(* Rolling a changed configuration out: the datacenter's specification is  *)
(* written to the StatefulSets rack by rack (CheckRackPodTemplate), to     *)
(* part of the first rack only (canaryUpgrade), or at once to the racks    *)
(* named in forceUpgradeRacks (CheckRackForceUpgrade), while the           *)
(* StatefulSet controller replaces the pods and the operator starts        *)
(* Cassandra in the new ones.                                              *)
(*                                                                         *)
(* What a StatefulSet is built from is a version, which is also what its   *)
(* hash annotation tells apart; nodes of a broken version never come up.   *)
(* A StatefulSet record holds                                              *)
(*   template   the version of its pod template: updateRevision            *)
(*   partition  the partition of its update strategy                       *)
(*   base       the version of its currentRevision                         *)
(*   observed   the controller has seen the last update of the object      *)
(*   ready, current, updated   the counts of its status                    *)
(* A deleted pod and its successor: nothing here tells a pod that is        *)
(* missing from one that has not been started.                              *)
(***************************************************************************)
EXTENDS RackTopology, FiniteSets, FiniteSetsExt

CONSTANTS
    NumRacks, Size,
    MaxVersion,
    Broken,        \* the versions with which no node comes up
    CanaryCounts,  \* the values of canaryUpgradeCount if canaryUpgrade is set
    MaxEvents      \* pods evicted, passes cut short, upgrades forced, canaries set or lifted

Racks     == 1..NumRacks
NodeCount == SplitRacks(Size, NumRacks)
Ordinals(r) == 0..(NodeCount[r] - 1)
Nodes     == UNION {{<<r, i>> : i \in Ordinals(r)} : r \in Racks}
Versions  == 0..MaxVersion

ASSUME ConstantsAssumption ==
    /\ NumRacks \in Nat \ {0} /\ Size \in Nat /\ ~TooFewNodes(Size, NumRacks)
    /\ {MaxVersion, MaxEvents} \subseteq Nat
    /\ Broken \subseteq Versions \ {0}
    /\ CanaryCounts \subseteq Nat

VARIABLES
    spec,      \* [version, canary, count, force] of the datacenter
    updating,  \* the Updating condition is True
    sts,       \* the StatefulSets
    pods,      \* the pod with each ordinal of each rack
    pc,        \* the next step of the running pass, or "idle"
    rcSpec,    \* the datacenter's specification as the pass holds it
    rcPods,    \* the state of each pod in rc.dcPods
    rolled,    \* the racks whose StatefulSet in rc.statefulSets is rolled out
    forceLeft, \* the racks CheckRackForceUpgrade has not reached
    forced,    \* the user forced an upgrade
    asked,     \* the versions that were asked for, each with its canary
    events

rc      == <<rcSpec, rcPods, rolled, forceLeft>>
history == <<forced, asked>>
bounds  == <<history, events>>
vars    == <<spec, updating, sts, pods, pc, rc, bounds>>

NewPod(v) == [phase |-> "present", version |-> v, started |-> FALSE, up |-> FALSE]
NewSts(n) == [template |-> 0, partition |-> 0, base |-> 0, observed |-> TRUE,
              ready |-> n, current |-> n, updated |-> n]

NoSpec == [version |-> 0, canary |-> FALSE, count |-> 0, force |-> {}]
NoPods == [p \in Nodes |-> "ready"]

Asking(s) == [version |-> s.version, canary |-> s.canary, count |-> s.count]

(* A datacenter whose racks run version 0.                                  *)
Init ==
    /\ spec \in {NoSpec} \cup {[NoSpec EXCEPT !.canary = TRUE, !.count = n] :
                                  n \in CanaryCounts}
    /\ updating = FALSE
    /\ sts = [r \in Racks |-> NewSts(NodeCount[r])]
    /\ pods = [p \in Nodes |-> [NewPod(0) EXCEPT !.started = TRUE, !.up = TRUE]]
    /\ pc = "idle" /\ rcSpec = NoSpec /\ rcPods = NoPods
    /\ rolled = {} /\ forceLeft = {}
    /\ forced = FALSE /\ asked = {Asking(spec)} /\ events = 0

-----------------------------------------------------------------------------
Event == events < MaxEvents /\ events' = events + 1

(* The user.                                                                *)

EditVersion ==
    /\ spec.version < MaxVersion
    /\ spec' = [spec EXCEPT !.version = @ + 1]
    /\ asked' = asked \cup {Asking(spec')}
    /\ UNCHANGED <<updating, sts, pods, pc, rc, forced, events>>

(* canaryUpgrade is set, with a count, or lifted.                           *)
EditCanary(canary, count) ==
    /\ Event
    /\ spec' = [spec EXCEPT !.canary = canary, !.count = count]
    /\ asked' = asked \cup {Asking(spec')}
    /\ UNCHANGED <<updating, sts, pods, pc, rc, forced>>

AskForce(F) ==
    /\ Event /\ forced' = TRUE
    /\ spec' = [spec EXCEPT !.force = F]
    /\ UNCHANGED <<updating, sts, pods, pc, rc, asked>>

-----------------------------------------------------------------------------
(* Kubernetes and Cassandra.                                                *)

operator == <<spec, updating, pc, rc, history>>

(* The controller replaces the outdated pods from the highest ordinal down  *)
(* to the partition, waiting for each to be ready.                          *)
ReplacePod(p) ==
    LET s == sts[p[1]]
    IN  /\ p[2] >= s.partition
        /\ pods[p].phase = "present" /\ pods[p].version # s.template
        /\ \A q \in Nodes : q[1] = p[1] /\ q[2] > p[2] =>
              pods[q].up /\ pods[q].version = s.template
        /\ pods' = [pods EXCEPT ![p].phase = "terminating"]
        /\ UNCHANGED <<operator, sts, events>>

(* The pod goes and is created again, from the template or, below the       *)
(* partition, from the current version.                                     *)
Successor(p) ==
    LET s == sts[p[1]]
    IN  NewPod(IF p[2] < s.partition THEN s.base ELSE s.template)

PodRemoved(p) ==
    /\ pods[p].phase = "terminating"
    /\ pods' = [pods EXCEPT ![p] = Successor(p)]
    /\ UNCHANGED <<operator, sts, events>>

(* The controller writes the status; a rollout that is over makes the new   *)
(* version the current one.                                                 *)
StatusOf(r) ==
    LET Having(v) == {i \in Ordinals(r) : pods[<<r, i>>].phase = "present"
                                          /\ pods[<<r, i>>].version = v}
        ready   == Cardinality({i \in Ordinals(r) : pods[<<r, i>>].up})
        current == Cardinality(Having(sts[r].base))
        updated == Cardinality(Having(sts[r].template))
        over    == updated = NodeCount[r] /\ ready = NodeCount[r]
    IN  [sts[r] EXCEPT !.observed = TRUE, !.ready = ready, !.updated = updated,
                       !.current = IF over THEN updated ELSE current,
                       !.base = IF over THEN sts[r].template ELSE @]

WriteStatus(r) ==
    /\ StatusOf(r) # sts[r]
    /\ sts' = [sts EXCEPT ![r] = StatusOf(r)]
    /\ UNCHANGED <<operator, pods, events>>

(* Cassandra comes up in a pod it was started in.                           *)
NodeComesUp(p) ==
    /\ pods[p].phase = "present" /\ pods[p].started /\ ~pods[p].up
    /\ pods[p].version \notin Broken
    /\ pods' = [pods EXCEPT ![p].up = TRUE]
    /\ UNCHANGED <<operator, sts, events>>

(* A pod is evicted.                                                        *)
PodFails(p) ==
    /\ Event
    /\ pods[p].phase = "present"
    /\ pods' = [pods EXCEPT ![p] = Successor(p)]
    /\ UNCHANGED <<operator, sts>>

-----------------------------------------------------------------------------
(* The pass.                                                                *)

EndPass ==
    /\ pc' = "idle" /\ rcSpec' = NoSpec /\ rcPods' = NoPods
    /\ rolled' = {} /\ forceLeft' = {}

(* The pass reads the datacenter and lists its pods.                        *)
PodState(p) ==
    CASE p.up -> "ready" [] ~p.up /\ p.started -> "starting" [] OTHER -> "stopped"

BeginPass ==
    /\ pc = "idle" /\ pc' = "racks"
    /\ rcSpec' = spec
    /\ rcPods' = [p \in Nodes |-> PodState(pods[p])]
    /\ UNCHANGED <<spec, updating, sts, pods, rolled, forceLeft, bounds>>

\* Mutant: does not ask whether the pods run the template.
RolledOutWhenReady(r) == sts[r].observed /\ sts[r].ready = NodeCount[r]

RolledOut(r) ==
    sts[r].observed /\ {sts[r].ready, sts[r].current, sts[r].updated} = {NodeCount[r]}

\* Mutant: forced racks wait for the pods to be ready.
ForceWhenReady ==
    /\ pc = "racks" /\ pc' = "ready"
    /\ rolled' = {r \in Racks : RolledOut(r)}
    /\ forceLeft' = rcSpec.force
    /\ UNCHANGED <<spec, updating, sts, pods, rcSpec, rcPods, bounds>>

(* CheckRackCreation reads the StatefulSets, and CheckRackForceUpgrade has  *)
(* work for the racks that are named.                                       *)
CheckRackCreation ==
    /\ pc = "racks" /\ pc' = IF rcSpec.force = {} THEN "ready" ELSE "force"
    /\ rolled' = {r \in Racks : RolledOut(r)}
    /\ forceLeft' = rcSpec.force
    /\ UNCHANGED <<spec, updating, sts, pods, rcSpec, rcPods, bounds>>

(* The StatefulSet that the specification asks for.  Its hash is kept in an *)
(* annotation; the partition, set later, is not part of it.  The object is  *)
(* built anew, with no resource version, so that the update is not refused  *)
(* for what changed since it was read; the API server keeps the status.     *)
Desired(r, partition) ==
    [sts[r] EXCEPT !.template = rcSpec.version, !.partition = partition, !.observed = FALSE]

UpdateSts(r, partition) == sts' = [sts EXCEPT ![r] = Desired(r, partition)]

(* CheckRackForceUpgrade, for the next rack: the condition is patched,      *)
(* which reads the datacenter again, then the StatefulSet is updated.       *)
CheckRackForceUpgrade ==
    /\ pc = "force" /\ forceLeft # {}
    /\ LET r == Min(forceLeft)
       IN  /\ updating' = TRUE
           /\ \/ /\ Event /\ UNCHANGED sts /\ EndPass
              \/ /\ UpdateSts(r, 0)
                 /\ forceLeft' = forceLeft \ {r} /\ rcSpec' = spec
                 /\ UNCHANGED <<pc, rcPods, rolled, events>>
    /\ UNCHANGED <<spec, pods, history>>

(* Once every rack has been forced the list is blanked.                     *)
ClearForceUpgradeRacks ==
    /\ pc = "force" /\ forceLeft = {}
    /\ spec' = [spec EXCEPT !.force = IF rcSpec.force = {} THEN @ ELSE {}]
    /\ EndPass
    /\ UNCHANGED <<updating, sts, pods, bounds>>

(* CheckPodsReady: a pod that has not been started is started, one that is  *)
(* not up is waited for.                                                    *)
Seen(state) == {p \in Nodes : rcPods[p] = state}

StartNode ==
    /\ pc = "ready" /\ Seen("starting") = {}
    /\ \E p \in Seen("stopped") :
          pods' = [pods EXCEPT ![p].started = @ \/ pods[p].phase = "present"]
    /\ EndPass
    /\ UNCHANGED <<spec, updating, sts, bounds>>

WaitForNodes ==
    /\ pc = "ready" /\ Seen("starting") # {}
    /\ EndPass
    /\ UNCHANGED <<spec, updating, sts, pods, bounds>>

AllPodsReady ==
    /\ pc = "ready" /\ Seen("ready") = Nodes
    /\ pc' = "template"
    /\ UNCHANGED <<spec, updating, sts, pods, rc, bounds>>

\* Mutant: no partition.
NoPartition(s) == 0

(* CheckRackPodTemplate: the pods from this ordinal on get the version.     *)
Partition(s) ==
    CASE ~s.canary                                           -> 0
      [] s.canary /\ s.count \in 1..NodeCount[1]             -> NodeCount[1] - s.count
      [] s.canary /\ s.count \notin 1..NodeCount[1]          -> NodeCount[1]

SameHash(r) == sts[r].template = rcSpec.version

\* Mutants: moves on while a rack is being updated; never gets past the first.
FirstOutdated ==
    LET pending == {r \in Racks : (rcSpec.canary => r = 1) /\ ~SameHash(r)}
    IN  IF pending = {} THEN 0 ELSE Min(pending)
FirstRackOnly == IF SameHash(1) /\ 1 \in rolled THEN 0 ELSE 1

(* The first rack that needs an update or is being updated, among those     *)
(* that canaryUpgrade leaves; no rack, 0.                                   *)
FirstPending ==
    LET pending == {r \in Racks : /\ rcSpec.canary => r = 1
                                  /\ ~SameHash(r) \/ r \notin rolled}
    IN  IF pending = {} THEN 0 ELSE Min(pending)

UpdateRack ==
    /\ pc = "template" /\ FirstPending # 0 /\ ~SameHash(FirstPending)
    /\ updating' = TRUE
    /\ \/ /\ Event /\ UNCHANGED sts
       \/ /\ UpdateSts(FirstPending, Partition(rcSpec))
          /\ UNCHANGED events
    /\ EndPass
    /\ UNCHANGED <<spec, pods, history>>

WaitForUpgrade ==
    /\ pc = "template" /\ FirstPending # 0 /\ SameHash(FirstPending)
    /\ EndPass
    /\ UNCHANGED <<spec, updating, sts, pods, bounds>>

(* CheckClearActionConditions.                                              *)
ClearConditions ==
    /\ pc = "template" /\ FirstPending = 0
    /\ updating' = FALSE
    /\ EndPass
    /\ UNCHANGED <<spec, sts, pods, bounds>>

Abort ==
    /\ pc # "idle" /\ Event
    /\ EndPass
    /\ UNCHANGED <<spec, updating, sts, pods, history>>

CheckRackPodTemplate == UpdateRack \/ WaitForUpgrade \/ ClearConditions
CheckPodsReady == StartNode \/ WaitForNodes \/ AllPodsReady

Pass ==
    \/ BeginPass \/ CheckRackCreation \/ CheckRackForceUpgrade
    \/ ClearForceUpgradeRacks \/ CheckPodsReady \/ CheckRackPodTemplate

Cluster(p) == ReplacePod(p) \/ PodRemoved(p) \/ NodeComesUp(p)

Next ==
    \/ Pass \/ Abort \/ EditVersion
    \/ \E n \in CanaryCounts : EditCanary(TRUE, n)
    \/ EditCanary(FALSE, 0)
    \/ \E F \in SUBSET Racks : AskForce(F)
    \/ \E r \in Racks : WriteStatus(r)
    \/ \E p \in Nodes : Cluster(p) \/ PodFails(p)

Spec == Init /\ [][Next]_vars

(* Passes are queued again as long as something is to be done, and          *)
(* Kubernetes and Cassandra do their part.                                  *)
Fairness ==
    /\ WF_vars(Pass)
    /\ \A r \in Racks : WF_vars(WriteStatus(r))
    /\ \A p \in Nodes : WF_vars(Cluster(p))

FairSpec == Spec /\ Fairness

-----------------------------------------------------------------------------
Specs == [version : Versions, canary : BOOLEAN, count : CanaryCounts \cup {0},
          force : SUBSET Racks]
AskedRecords == [version : Versions, canary : BOOLEAN, count : CanaryCounts \cup {0}]
StsRecords == [template : Versions, partition : 0..Size, base : Versions,
               observed : BOOLEAN, ready : 0..Size, current : 0..Size, updated : 0..Size]
PodRecords == [phase : {"present", "terminating"}, version : Versions,
               started : BOOLEAN, up : BOOLEAN]

(* Types, and: no pod runs a version its StatefulSet was not built from yet.*)
TypeOK ==
    /\ spec \in Specs /\ rcSpec \in Specs /\ updating \in BOOLEAN
    /\ sts \in [Racks -> StsRecords]
    /\ pods \in [Nodes -> PodRecords]
    /\ rcPods \in [Nodes -> {"ready", "starting", "stopped"}]
    /\ rolled \subseteq Racks
    /\ pc \in {"idle", "racks", "force", "ready", "template"}
    /\ forceLeft \subseteq Racks
    /\ forced \in BOOLEAN /\ events \in 0..MaxEvents
    /\ asked \subseteq AskedRecords
    /\ \A p \in Nodes : pods[p].version <= sts[p[1]].template

Outdated(r) == \E i \in Ordinals(r) : pods[<<r, i>>].version # sts[r].template

(* "we should not move onto the next rack, because there's an upgrade in    *)
(* progress": CheckRackPodTemplate changes the template of a rack only when *)
(* the pods of the racks before it run theirs.                              *)
RacksInOrder ==
    [][\A r \in Racks : pc = "template" /\ sts'[r].template # sts[r].template
          => \A q \in 1..(r - 1) : ~Outdated(q)]_vars

(* The same of every other rack: one rack is updated at a time.             *)
OneRackUpdating ==
    [][\A r \in Racks : pc = "template" /\ sts'[r].template # sts[r].template
          => \A q \in Racks \ {r} : ~Outdated(q)]_vars

(* The version was asked for of the pod: of all, or as a canary of the last *)
(* canaryUpgradeCount of the first rack.                                    *)
AskedOf(p, v) ==
    \E a \in asked : /\ a.version = v
                     /\ a.canary => p[1] = 1 /\ p[2] + a.count >= NodeCount[1]

(* A canary is contained: no pod runs a version that was only asked for of  *)
(* others, whatever fails, and whenever canaryUpgrade is set, lifted or set *)
(* with another count, unless an upgrade is forced.                         *)
CanaryContained ==
    ~forced => \A p \in Nodes : pods[p].version # 0 => AskedOf(p, pods[p].version)

(* CheckClearActionConditions: the Updating condition is cleared only when  *)
(* the pods run the version that the pass read.                             *)
ClearedMeansRolledOut ==
    [][updating /\ ~updating' =>
          \A r \in Racks : (rcSpec.canary => r = 1) =>
              sts[r].template = rcSpec.version /\ ~Outdated(r)]_vars

Runs(p) == pods[p].up /\ pods[p].version = spec.version

Done ==
    IF spec.canary
      THEN /\ sts[1].template = spec.version
           /\ \A p \in Nodes : p[1] = 1 /\ p[2] >= Partition(spec) => Runs(p)
      ELSE ~updating /\ \A p \in Nodes : Runs(p)

BrokenNode == \E p \in Nodes : pods[p].version \in Broken

(* A rack has the version from a canary that was lifted or widened since:   *)
(* its hash is right, so that its partition stays.                          *)
Stranded ==
    \E r \in Racks : /\ spec.canary => r = 1
                     /\ sts[r].template = spec.version
                     /\ sts[r].partition > Partition(spec)

(* The last version asked for is rolled out, unless a node of a broken one  *)
(* is in the way or a rack is stranded by an edit of the canary.            *)
RollsOut == spec.version = MaxVersion ~> Done \/ BrokenNode \/ Stranded

(* The same without that exception, which does not hold: a canary that is   *)
(* lifted, with no other edit, is never rolled out to the rest.             *)
LiftedRollsOut == spec.version = MaxVersion ~> Done \/ BrokenNode

(* "Note that the value is either 0 or greater than the rack size, then all *)
(* nodes in the rack will get updated", cassandradatacenter_types.go:157.   *)
(* They do not: for these counts CheckRackPodTemplate sets the partition to *)
(* the size of the rack, and no node is updated.                            *)
CanaryUpdatesRack ==
    spec.canary /\ spec.count \notin 1..NodeCount[1] /\ spec.version = MaxVersion
        ~> (\A p \in Nodes : p[1] = 1 => Runs(p)) \/ BrokenNode \/ ~spec.canary

(* "Rack names in this list are set to the latest StatefulSet configuration *)
(* even if Cassandra nodes are down.  Use this to recover from an upgrade   *)
(* that couldn't roll out": naming the racks with a broken version leads to *)
(* the version asked for being rolled out.                                  *)
ForceRecovers ==
    /\ pc = "idle" /\ spec.version = MaxVersion /\ ~spec.canary
    /\ spec.force # {} /\ \A r \in Racks : sts[r].template \in Broken => r \in spec.force
    ~> Done \/ Stranded

=============================================================================
