# cass-operator: a TLA+ verification project

cass-operator runs Apache Cassandra on Kubernetes. A user describes a
datacenter in a `CassandraDatacenter` resource; the operator creates one
StatefulSet per rack and, pass after pass of its reconcile loop, brings pods,
Cassandra nodes and the status of the resource to what the spec asks for. This
project models how it does that, checks the models with TLC and proves their
main safety properties with TLAPS.

## 1. The system

### Parts

| part | source (`src/operator/pkg/...`) | state it owns | modelled in |
|---|---|---|---|
| rack arithmetic | `reconciliation/reconcile_racks.go`, `decommission_node.go`, `apis/.../cassandradatacenter_types.go` | none (pure) | `RackTopology` |
| admission webhook | `apis/.../webhook.go` | none; guards edits of the spec | `RackTopology`, `TopologyEdits`, `StatefulSets` |
| StatefulSet and pod template construction | `construct_statefulset.go`, `construct_podtemplatespec.go`, `psp/labels_annotations.go`, `httphelper/security.go` | the StatefulSets' specs | `StatefulSets` |
| rack scaling: create, grow, stop, resume, decommission, conditions | `reconcile_racks.go`, `decommission_node.go`, `constructor.go` | StatefulSet replicas, status conditions, progress | `RackScaling`, `RackCapacity` |
| decommission of a node: space, volume, host ID | `decommission_node.go`, `reconcile_racks.go` | volume claims, `NodeStatuses`, the `Decommissioning` label | `ScaleDown` |
| pod start-up, rolling restart | `reconcile_racks.go` (`CheckPodsReady`, `CheckRollingRestart`) | pod labels, calls to the management API, `LastRollingRestart` | `PodStartup` |
| rolling update, canary, forced upgrade | `reconcile_racks.go` (`CheckRackPodTemplate`, `CheckRackForceUpgrade`) | StatefulSet templates and partitions, `forceUpgradeRacks` | `RollingUpdate` |
| node replacement | `reconcile_racks.go`, `check_nodes.go`, `reconcile_racks_helpers.go` | `replaceNodes`, `nodeReplacements`, `NodeStatuses`, volume claims | `NodeReplacement` |
| maintenance mode (EMM) | `psp/emm.go`, `check_nodes.go` | pod annotations, deletions | `MaintenanceMode` |
| services, endpoints, network policy, disruption budget, labels | `reconcile_services.go`, `reconcile_endpoints.go`, `construct_service.go`, `psp/networkpolicies.go`, `utils/hash_annotation.go` | these objects | `ManagedObjects` |
| configuration secret, internode secrets | `reconcile_configsecret.go`, `serverconfig/configgen.go`, `secrets.go` | the copy of the config, its hash, CA and keystore | `ManagedObjects` |
| reconcile loop, controller, watches | `handler.go`, `context.go`, `controller/...`, `dynamicwatch/watch.go` | work queue, node map, watch annotations | `OperatorLoop` |
| deletion, finalizer, users | `reconcile_datacenter.go`, `secrets.go` | finalizer, claims, secrets, roles | `OperatorLoop` |
| PSP health | `psp/psp_status.go` | shared health document | `OperatorLoop` |
| management API client, images, start-up, utilities, generated code | `httphelper/client.go`, `images`, `cmd/manager`, `utils`, `generated` | none | not modelled |

### How they interact, and what is hard

A single worker (`MaxConcurrentReconciles` is 1) runs one pass at a time. A pass
(`Reconcile` → `calculateReconciliationActions` → `ReconcileAllRacks`) is a
fixed sequence of checks. A check continues, ends the pass (to be requeued), or
fails; every pass starts from nothing but what the API server holds. So all the
memory between passes is in the resource, its status conditions, the
StatefulSets, annotations and the pod labels. What makes this hard:

* the pass works on snapshots: the rack information and the pod list of its
  beginning, and a copy of the resource that *every* patch silently refreshes,
  the spec included;
* the user edits the spec, secrets and objects, pods die and are recreated under
  the same name, workers are tainted, and nodes join or leave the ring, all while
  a pass runs;
* a crash or an API error may fall between any two writes, or between a call to
  a node and the label that records it;
* what was started in one pass (a bootstrap, a decommission, a restart, a
  replacement, a rollout) is finished by another, which has to recognise it;
* some failures to read or write are only logged, and the pass goes on;
* datacenters of a cluster share secrets, workers and the health document.

The hazards that follow, each with its line and the properties that cover it,
are listed in `PROJECT.json`.

## 2. Modules

| module | contents |
|---|---|
| `RackTopology` | the arithmetic as operators, and the topology rule of the webhook |
| `TopologyEdits` | the topologies a user can reach through the webhook |
| `StatefulSets` | extends `TopologyEdits` by the rest of the spec and the StatefulSets built from it |
| `RackCapacity` | abstract: what the scaling of racks promises, without passes |
| `RackScaling`, `MCRackScaling` | a reconcile pass, seen from the StatefulSets and the conditions; implements `RackCapacity` |
| `ScaleDown` | a pass that scales one rack down, call by call, with volumes, host IDs and the ring |
| `PodStartup` | a reconcile pass, seen from the pods of a datacenter of fixed size |
| `RollingUpdate` | a pass that rolls a new version out, with the StatefulSet controller |
| `NodeReplacement` | a pass that replaces nodes, with host IDs, volumes and the ring |
| `MaintenanceMode`, `MCMaintenanceMode` | `CheckEMM` over workers, pods and claims |
| `ManagedObjects` | a pass over the objects beside the StatefulSets, and the config secret |
| `OperatorLoop` | the work queue and the passes over several datacenters |
| `*_proofs` | the theorems about the module named first; those about `TopologyEdits` are in `StatefulSets_proofs` |

All models of a pass have the same shape. A variable `pc` says which check the
pass has got to; variables named `rc...` hold the reconciliation context, that
is, what the pass has read; every write to the API server and every call to a
node is a step of its own, so that edits, pod events, failed calls and restarts
of the operator (`Abort`, or `Event` where several kinds of fault share one
bound) fall between any two of them. Actions are named after the functions they
model. Kubernetes controllers, the kubelet, Cassandra and the user are actions
of the environment, marked external in `PROJECT.json`.

### RackScaling and RackCapacity

`dc` is the resource (spec, generation, conditions, progress), `sts` the
replicas of the StatefulSets, `up` the number of pods of each rack that are
started and ready, `decomm` the pod labelled `Decommissioning` with the state
of its node. `rcDc`, `desired`, `rcSts`, `rcUp`, `rcDecomm` are the
reconciliation context; `idx` is the rack a loop has got to.

| action | code |
|---|---|
| `BeginPass` | `Reconcile`, `CalculateRackInformation`, `CheckForInvalidState`, `listPods`, `getCassMetadataEndpoints` |
| `UpdateStatus` | the refresh of the copy by `UpdateStatus`' patches |
| `CheckRackCreation`, `SetProgressUpdating` | `CheckRackCreation`, `ReconcileNextRack`, `setOperatorProgressStatus` |
| `CheckDecommissioningNodes` | the same, with `RemoveDecommissionedPodFromSts` |
| `CheckRackStoppedState`, `StopRack` | the same, with `UpdateRackNodeCount` |
| `CheckRackScale`, `ScaleRack` | the same, with `UpdateRackNodeCount` |
| `CheckPodsReady` | only its outcome: enough pods are up or the pass ends |
| `DecommissionNodes`, `DecommissionNodeOnRack` | the same; `EnsurePodsCanAbsorbDecommData` is a choice from `RoomOutcomes` |
| `CheckClearActionConditions`, `CheckConditionInitializedAndReady`, `SetProgressReady` | the same |
| `EditSpec` | the user, through `ValidTopologyChange` |
| `PodStarts`, `PodTerminates`, `NodeLeaves` | StatefulSet controller, kubelet and Cassandra |

The constant `Reads` says what a pass may fail to learn: with `"noEndpoints"`
the endpoint data may come back empty, with `"noPods"` the pod list may. Both are
errors that the code only logs. The decommission call and the pod label are one
step here, and volumes and host IDs are left out: `ScaleDown` has them.

`RackCapacity` has only the replicas and the leaving node: racks are added at any
time, but none grows or is emptied while a node leaves, and a replica goes only
after its node has left. The mapping is `nodes <- sts`, `leaving <- decomm`; all
steps of a pass that write neither are stutters.

### ScaleDown

One rack. A node lives on the volume of its pod: on an empty volume it joins the
ring with a new host ID (`node[i].id` counts them), on its old one it is a member
again, and on the volume of a node that has left Cassandra does not come up.
`pods`, `claim` and `node` are the cluster, `rcPods` and `rcNode` the pod list and
the endpoint data of the pass. A node that leaves spreads its load over the other
members in any way.

| action | code |
|---|---|
| `BeginPass` | `ReconcileAllRacks` up to the endpoint data, `CheckForInvalidState` |
| `UpdateStatus` | the host IDs of `UpdateCassandraNodeStatus` and its patch |
| `CheckDecommissioningNodes`, `DeletePodPvcs`, `DeleteNodeStatus` | `CheckDecommissioningNodes` and the three writes of `cleanUpAfterDecommissionedPod` |
| `CheckRackScale`, `CheckPodsReady`, `CheckCassandraNodeStatuses` | the same; of `CheckPodsReady` the start of a pod and the outcome |
| `DecommissionNodes`, `DecommissionNodeOnRack`, `LabelDecommissioning` | the condition, then the space check and the call, then the label |
| `CheckClearActionConditions` | the clearing of `ScalingDown` |
| `CreatePod`, `TerminatePod`, `EvictPod`, `PodRemoved`, `ClaimRemoved` | Kubernetes |
| `NodeComesUp`, `NodeLeaves` | Cassandra |

The check at the start of a pass that the StatefulSet controller has caught up
passes always, because the pass has not read the StatefulSets yet, and is left
out. `AbortSteps` are the steps that a crash may hit, `Evictable` the states of a
node in which its pod may be evicted. Pods may be recreated at any time, also
while a pass runs. The counterpart of `Reads` of `RackScaling` is `EndpointData`:
no node may be ready, or none answer, and then a pass has no endpoint data; that
the pod list comes back empty is left to `RackScaling`. What follows from missing
data is recorded, not assumed away: `unseen` are the nodes that
`IsDoneDecommissioning` took for gone because the data did not have their pod,
`unchecked` those whose space was not looked at, and properties except them by
name.

`EnsurePodsCanAbsorbDecommData` reads the capacity of a volume as a decimal number
without its exponent (`resource.Quantity.AsDec`): a volume of `5G` counts as 5, one
of `5Gi` as what it is. `total`, chosen from `Digits`, is what the code reads, and
`Capacity` what the volume holds. Capacities come from the API server in canonical
form, whole numbers with a suffix, so that `total` is at most `Capacity`: a scale
down may be refused although there is room, never the other way round.

### StatefulSets

The spec beside the topology is a record of what ends up in a StatefulSet:
cluster name, storage config, the user's pod template (containers, volumes,
mounts, labels), node labels of datacenter and racks, the logger sidecar, manual
management API authentication, and whether workers may be shared. Volumes, mounts
and labels are sets and maps of names; images, environment, probes and resources
are left out. `Immutable` is what the API server lets nobody change. A
StatefulSet may have been created by an early version with the wrong
`managed-by` label on its claims, which has to be kept. One action creates a
rack, one updates a rack once the racks before it are up to date, and one forces
the racks of `forceUpgradeRacks`: `CheckRackForceUpgrade` builds the StatefulSet
without a look at the old one, and a refused update ends the pass with the list as
it was. `ForceLists` are the lists a user may set.

### PodStartup

The size is fixed and positive, and the datacenter is not stopped. `label`,
`seed` and `pods` are the pods as the API server and the nodes have them;
`rcLabel`, `rcSeed`, `rcPods` are `rc.dcPods`. Every patch of a pod refreshes its
entry in the list, and patches, deletions and calls go to whatever pod has the
name by then. The list has no order, so a Go loop that acts on the first match
is a choice. Time is abstracted to facts that become true: ten minutes have
passed (`died`, `long`), the cooldown is over. `CheckRollingRestart` compares
creation times with `LastRollingRestart`; `old` records the outcome.
`checkSeedLabels` makes its patches one by one (`LabelSeedPods`),
`startCassandra` is three steps (`StartCassandra`, `LabelServerPodStarting`,
`PatchLastServerNodeStarted`).

Assumed: one datacenter per cluster, so that `clusterPods` and `dcPods` are the
same pods; no `additionalSeeds`; volume claims exist; a failed pod list makes a
pass do nothing, which `Abort` covers. `SwapsMidPass = FALSE` means that no pod
is recreated *and* found by name within one pass; a pass takes seconds, and
termination has a grace period. With `TRUE` a pod that is recreated between the
start call and its label is labelled Starting without having been started, and
waits for ever.

### RollingUpdate

What a StatefulSet is built from is a version, and versions in `Broken` give
nodes that never come up. The StatefulSet controller replaces pods from the
highest ordinal down to the partition, one at a time and only while the others
are ready, and its status counts lag behind (`observed`). `CheckRackPodTemplate`
updates the first rack that differs and waits for it; `CheckRackForceUpgrade`
comes before `CheckPodsReady` and writes the named racks at once. Both write an
object built anew, without a resource version, so that the update never conflicts.
The user may set, change and lift the canary at any time (`EditCanary`); `asked`
records what was asked for of which pods. The quiet period after an update only
delays the next pass and is left out.

`Partition` is the code's, for all counts. The comment of `canaryUpgradeCount`
(`cassandradatacenter_types.go` lines 157-158) says that for 0, or a count greater
than the rack size, "all nodes in the rack will get updated"; the code makes the
partition as large as the rack then, and no pod is updated. The properties state
what the code does: of such a canary no pod has to be updated
(`RollingUpdate_canary` has the other reading).

### NodeReplacement

The ring is a set of host IDs; an ID is drawn on an empty volume and stays with
the volume. A request goes from `specReplace` (user, or `StartNodeReplace`) to
`replacements`, its claim and pod are deleted, and the recreated pod is started
with the address of the member whose ID is recorded for it (`hostId`, that is
`NodeStatuses`). `newer` is the comparison of the pod's creation with the time of
the condition, and `overdue` the thirty minutes after which a request is given
up. `UpdateStatus` makes two patches: the first empties `spec.replaceNodes`, the
second records the replacements. `lost` records the requests of a pass that was cut
off between them; they are in neither place, and properties except them by name.

### MaintenanceMode

A pass of `CheckEMM`: annotations of released workers are taken off, requests
outside the rack with down pods are refused, pods that are not ready are removed
from tainted workers, stranded pods have their node replaced, and at last a ready
pod is deleted. `rcPods` is the list of the pass; taints and claims are read anew
by each helper. `takenDown` records the ready pods that the operator deleted and
that are not back yet. `Movable` pods have volumes that can follow them,
`NewPods` may never have bootstrapped, and `Placements` are where the pods may be at
first. A pass may begin while a deleted pod is still terminating, or gone and not
yet recreated, and a ready pod need not answer when it is asked for its host ID:
`overlooked` records the pods taken down that a pass could not see to be down for
one of these reasons. What becomes of a node whose volume `StartNodeReplace` deletes
is in `NodeReplacement`. `CheckPVCHealth` is not modelled: its call in
`ReconcileAllRacks` is commented out.

### ManagedObjects

Each service, the endpoints of additional seeds, the network policy and the
disruption budget is a record with its content, its hash annotation and labels
that a user added. A pass goes through them in the order of
`calculateReconciliationActions`; an object that is missing is created, one whose
hash differs is updated with the version it was read at (a conflict fails the
pass), the budget is deleted and created. The config secret is a version number,
the copy has what `GetConfigAsJSON` makes of it, and the hash of the *old* copy is
written to the datacenter and from there into the pod template.
`checkDatacenterNameAnnotation` and `updateConfigHashAnnotation` assign to the
annotations of the user's secret and of the datacenter; an object without any
(`bare`) has no map to assign to, and the pass panics (`CheckConfigSecretPanics`).

What no later pass notices is recorded instead of hidden: `lost` (an object
changed without an event the operator watches, or a write whose failure was only
logged) and `torn` (a pass cut off between two writes that are not retried as a
pair: hash and copy of the config, CA and keystore). Properties except them by
name.

### OperatorLoop

Two datacenters, each with a pod and a claim, a queue of requests and one worker.
Events of datacenters, StatefulSets, pods, watched secrets and workers enqueue
what the controller's map functions say. `nodeToDc` is the in-memory map, lost in
a restart. A pass has the finalizer, the superuser secret, the StatefulSet, the
watch annotations, the users and the health document; a deletion pass has
`RemoveWatcher`, `deletePVCs` and the finalizer's removal. `unpatched` and
`unmapped` record the datacenters whose last patch or pod listing failed and was
only logged. `Reconcile` validates the user secrets before anything else, a
deletion included; a pass over a datacenter with a missing secret ends there
(`Valid`), and the user may put the secret back, but need not.


## 3. Runs

Each run is one `.cfg`; `PROJECT.json` lists its properties and, for each
property, a mutant of the model that breaks it.

| run | instance | what it shows |
|---|---|---|
| `topology_edits` | sizes to 6, racks to 4, any edits of the topology one of each other field, one list of forced racks (0.50 million states) | nodes and seeds are spread as the operator needs them whatever edits the webhook lets through; adding racks moves none; the API server accepts every update of a StatefulSet, but a forced one if its claims have the old label; selectors match their own pods |
| `scaling` | sizes to 4, racks to 2, two edits, one abort; new, even and uneven datacenters (1.06 million states) | a leaving node is never forgotten; nodes are taken only from racks that can spare them; no pass reports Ready without nodes, but for one that planned for a stopped datacenter and is told of a resume; `RackCapacity` is implemented; once edits and aborts stop, racks, pods and conditions reach what the spec asks for |
| `scale_down` | a rack of up to three nodes, two edits of the size, one eviction, failed call, query without answer or abort (1.01 million states) | no member of the ring loses its replica or its volume, but one that the endpoint data did not have; no volume that was looked at is overfilled; a scale down ends with nothing left of the nodes that went, or is refused with no node leaving |
| `startup` | one rack with two pods, a restart, one disruption, one abort (0.59 million states) | one pod at most is labelled Starting; an interrupted restart is not forgotten; every node comes up for good |
| `startup_order` | two racks with three pods, one disruption, one abort (0.41 million states) | one node bootstraps at a time, and none is started without a seed |
| `rolling_update` | two racks with three pods, two edits, the first version broken, with or without canary, one eviction, abort, edit of the canary or forced upgrade (0.15 million states) | racks are updated in order, no pod runs a version that was asked for of others only, Updating is cleared only when all is rolled out, a good version is rolled out, forced past a broken one if need be, unless the canary is edited once its rack has the version |
| `replacement` | two pods, one not yet in the ring, one request by user or maintenance, one failure, one abort (0.11 million states) | no dead member stays in the ring without a request that will replace it; a request is dropped only when its member is gone; every request ends with the node up; both but for a request lost between the two patches of `UpdateStatus` |
| `maintenance` | two racks, four workers, two taints, one failure, one abort, a volume that can move and one that cannot (2.12 million states) | maintenance takes ready pods down in one rack only, but for pods that a pass could not see to be down |
| `maintenance_answers` | two racks of one pod, three workers, two taints, no failures or aborts (0.17 million states) | every taint is answered; every refusal is taken back |
| `managed_objects` | two edits of spec, objects or config, one failed call, restart or lost pod, objects with and without annotations (1.21 million states) | when no pass is asked for, all objects are what the spec says, and the pods run the user's config; equal hashes mean equal configs; labels of users stay; passes come to an end, unless one panics for lack of annotations |
| `operator_loop` | a running and a new datacenter of one cluster, two secrets, two workers, two edits or an edit and a fault (0.67 million states) | a deleted datacenter goes and leaves no claim, watch or map entry; the database follows the secrets; taints are seen across restarts; watches of the other datacenter stay; passes come to an end; but for a datacenter whose user secret is missing |

### Why the bounds are enough

Two racks and three nodes give every case the code distinguishes: racks of
different size, a rack below and one above its share, a first rack that changes
what the second sees, a rack added while a pass runs. In `scale_down` two nodes may
leave one after the other onto a third, or a node leave and its pod's name come
back; volumes of size 4 with loads of 1 and 2 make some scale downs fit, some be
refused at once and some at the second node. Two edits
and one abort are the least that let an edit be overtaken by another with a pass
cut short in between. With two pods in a rack one is a node that runs while the
other is started, deleted or replaced. `replacement` has one request, since its
promise is about one: see `NodeReplacement_twice` below. In `rolling_update` the canary counts 0, 1
and 3 are none, part of and more than the first rack. Two taints and
four workers let maintenance of two racks overlap with a free worker to go to. One
pod per rack is enough for `maintenance`, which is about pods of different racks,
and its theorem is for any; `maintenance_answers` does not cover a rack with
several pods, nor, in the run, failures and passes cut short. An instance of it
with one failure and one abort (1.5 million states, 22 minutes) passes too. The same
holds for `OperatorLoop` with two edits and a fault together (`MaxChanges = 3`: 6.2
million states, 23 minutes).
Two datacenters are the least that share something. What the small instances
leave open, larger racks and more faults, is what the theorems are for.

`RackScaling_lifecycle.cfg` is a larger instance without liveness: three racks,
so that an edit can add racks beside two existing ones (2.5 million states). It
also checks `InvalidMeansUntouched`, `RacksShrinkSafely` and
`ScaleDownFindsRack`, which are proved.

Bounds: `MaxSize`, `MaxRacks`, `MaxGeneration` and `MaxEdits` (edits),
`MaxAborts`, `MaxDisruptions`, `MaxFailures`, `MaxEvents` (faults),
`MaxRequests` (restarts, replacements), `MaxTaints`, `MaxVersion`, `MaxChanges`
(edits and faults together).

Deadlock is not checked for `RackScaling`, `ScaleDown`, `ManagedObjects` and `OperatorLoop`: a
datacenter whose passes have nothing to do, or end at once because it has fewer
nodes than racks or its `Valid` condition is False, stops until the user or the
environment acts, and the bounds end that.

`TypeOK` of `TopologyEdits`, `RackScaling`, `PodStartup`, `RollingUpdate`,
`ManagedObjects`, `OperatorLoop` and `MaintenanceMode` is proved. In the other
modules it was model-checked on the instances above (add `INVARIANT TypeOK` to a
`.cfg`).

### The run that ends in a violation

`operator_health`. "Keep in mind that this config map is shared between _all_
the CassandraDatacenter instances" (`psp_status.go` line 50). The document that
`PSPHealthUpdater.Update` writes in every pass (`handler.go` line 171) has the entry
of the pass's own datacenter only, so that a pass over one datacenter removes the
entries of the others.

### Counterexamples kept beside the runs

These `.cfg` files are not runs of `PROJECT.json`. Each instance shows why an
assumption of a run or a theorem is there, and TLC ends in a violation of its one
property.

* `RackScaling_resume`, `ResumeIsNotScaleUp`. `CHANGELOG.md` line 115: resuming
  "should not use the ScalingUp condition". With two racks it does: the first
  resumed rack clears `Stopped`, and the second takes itself for growing.
* `RackScaling_endpoints`, `RacksShrinkSafely`. `IsDoneDecommissioning` takes a
  node missing from the endpoint data for one that no longer exists (comment at
  line 239 of `decommission_node.go`). The data is empty when no node answers,
  and the StatefulSet of a node that is still leaving is shrunk.
* `RackScaling_nopods`, `DecommissioningIsTracked`. "Wait for decommissioning
  nodes to finish before continuing to reconcile" (`decommission_node.go` line
  152). If listing the pods fails the pass goes on without pods, finds none
  labelled and clears `ScalingDown`.
* `RackScaling_stops`, `ReadyAlwaysHasNodes`. A pass that begins while the
  datacenter is stopped plans for no nodes. A patch of the status returns the spec
  as it is by then, so that the rest of the pass may take the datacenter for
  running; it then counts the pods that are still terminating as started and ready,
  which is at least none, and reports Ready. `ReadyHasNodes` excepts this case.
* `ScaleDown_label`, `ScaleDownEnds`. The decommission attempt "will be retried
  later" if it fails (`decommission_node.go` lines 130-131). A crash after a call
  that succeeded and before the label leaves a node that leaves the ring
  unlabelled; its pod is never ready again, and no pass gets past
  `CheckPodsReady`.
* `ScaleDown_claim`, `ScaleDownEnds`. The replica is removed before the claim. If
  the pass is cut off in between and the pod is gone before the next, nobody
  looks for the claim, and a later node of that name starts on the volume of one
  that has left.
* `ScaleDown_evict`, `ScaleDownEnds`. A pod evicted after its node has left, and
  before its replica is removed, comes back on the volume without its label, and
  is never ready.
* `ScaleDown_endpoints`, `NoMemberTakenForGone`. "This should mean that it no longer
  exists" (`decommission_node.go` lines 239-242). No node answers when the pass asks
  for the endpoint data, so that it does not have the node that leaves, and the
  replica and the volume of a member are deleted. The same happens when the label
  goes to a pod that was recreated and has not joined.
* `StatefulSets_forced`, `ForcedUpdatesAccepted`. "we must preserve the old labels in
  this case" (`reconcile_racks.go` line 174). `CheckRackForceUpgrade` does not: its
  update of a StatefulSet with the old label is refused, the pass ends, and since the
  list of racks stays every later pass ends there too.
* `ScaleDown_hostid`, `HostIdsCurrent`. A host ID "would only change if something
  has gone horribly horribly wrong" (`reconcile_racks.go` lines 982-983). Until
  the pod of a node that has left is gone, `UpdateStatus` records its host ID
  again. If pod and claim are gone by the time `DeletePodPvcs` reads the claim,
  the pass fails, and the next node of that name keeps the ID of the old one.
* `PodStartup_bootstrap`, `OneBootstrapping`. "only one node bootstrapping at a
  time" (`README.md` line 242). The start call precedes the Starting label; when
  the label is not written another node is started. The first one also stays
  `Ready-to-Start` for good, so that no later pass gets past the count at the end
  of `CheckPodsReady`; the startup runs therefore leave out aborts at this step.
* `PodStartup_noseed`, `StartsWithSeed`. "if the DC has no ready seeds, label a
  pod as a seed before we start Cassandra on it" (`reconcile_racks.go` line
  1807). `startAllNodes` does not do that, and a node that lost its readiness has
  lost its seed label. `startup_order` has no loss of readiness for this reason.
  A pod recreated while a pass runs (`SwapsMidPass`) and a pass cut short between
  the start call and the label break the property too.
* `PodStartup_rolling`, `RollsOneAtATime`. "one node at a time"
  (`docs/user/README.md` line 532). The pod deleted by the last pass is listed as
  ready until its probe fails, and the next pass takes another node down.
* `RollingUpdate_racks`, `OneRackUpdating`. "we should not move onto the next
  rack" while an upgrade is in progress (`reconcile_racks.go` lines 297-299).
  When the spec is edited while the second rack is rolled out, the first rack is
  updated at once, and both lose pods; `RacksInOrder` states what does hold.
* `RollingUpdate_canary`, `CanaryUpdatesRack`. "The number of nodes that will be
  updated when CanaryUpgrade is true. Note that the value is either 0 or greater than
  the rack size, then all nodes in the rack will get updated"
  (`cassandradatacenter_types.go` lines 157-158). For such a count
  `CheckRackPodTemplate` (lines 235-236) makes the partition the size of the rack,
  and no node is updated.
* `RollingUpdate_lifted`, `LiftedRollsOut`. When the canary is lifted or widened once
  its rack has the version, the hash of the StatefulSet is right already, so that it
  is not updated and its partition stays: the rest of the rack keeps the old version.
* `NodeReplacement_lost`, `RequestsRecorded`. "Now that we've recorded these nodes in
  the status, we can blank out this field on the spec" (`reconcile_racks.go` lines
  1078-1079).
  The patch that blanks the field comes before the one that writes the status; a pass
  cut off in between loses the request.
* `NodeReplacement_twice`, `ReplacedNotAdded`. A replaced node has a new host ID,
  but the recorded one "would only change if something has gone horribly horribly
  wrong" (`reconcile_racks.go` lines 982-983) and stays. The second replacement of
  the same pod finds no member of that ID, starts the node as a new one, and its
  dead member stays in the ring.
* `ManagedObjects_config`, `ConfigSecretRollsOut`. A change of the config secret
  should reach the pods (`cassandradatacenter_types.go` lines 109-110). The hash
  put on the datacenter is that of the copy *before* its update; a pass cut off
  between the two writes leaves a hash that the next pass writes again, and the
  pods are never restarted.
* `ManagedObjects_bare`, `QuiescesBare`. A config secret or a datacenter that was made
  without annotations makes every pass panic, and passes go on for ever.
* `OperatorLoop_deleted`, `DeletedGoes`. A datacenter that is deleted after its user
  secret is found invalid before its deletion is looked at, and stays with its
  finalizer until the secret is put back.
* `MaintenanceMode_requeue`, `NeverTwoRacksDown`. "we will never allow more than 1
  rack to have bootstrapped pods that are not ready" (`emm.go` lines 9-12). The next
  pass, two seconds later, may still list a deleted pod as ready, and takes a pod of
  another rack.
* `MaintenanceMode_fallthrough`, `ReplacesInOneRack`. "all pods that are down
  belong to the same rack as the tainted nodes" (`emm.go` lines 670-672). With
  down pods in two racks the requests are refused, but the pass ends only if an
  annotation was written: when they are all there already, it goes on and replaces
  nodes.

### Fairness

Liveness is checked under `FairSpec`.

* Weak fairness of the pass: every result of a pass but success requeues it,
  events on owned objects queue it again, and the single worker goes on. In
  `ManagedObjects` and `OperatorLoop`, where requests are modelled, a pass is
  enabled only when one is queued. `SF(Request(d))` in `OperatorLoop`: the queue
  is served in order, so no datacenter waits for ever for the worker.
* `WF(CooldownEnds)`, `WF(TenMinutesPass)` in `PodStartup`: time passes.
  `SF(ThirtyMinutes)` in `NodeReplacement`: the thirty minutes count from the
  condition and do pass, although the action is enabled only between passes and when
  the labels agree with the pods, again and again.
* `WF` on pod creation, termination, readiness, joining and leaving, on the
  StatefulSet controller (`WriteStatus`, `RollPod`) and on the removal of claims:
  Kubernetes and Cassandra finish what they begin. `SF(CreatePod)`: with
  `SwapsMidPass = FALSE` the action is enabled only between passes, again and
  again. `SF(ClusterHealthy)`: the quorum probe may fail, but not for ever.
* The user finishes what a request needs: `WF(Untaint)` (maintenance comes to an
  end), `WF(UserDeletesClaim)` and `SF(UserDeletesPod)` (the deletions that go with a
  replacement that the user began by hand).

None is assumed of user edits (also not of `RestoreSecret`, which puts a missing
secret back), aborts, disruptions or taints; the bounds end
them.

## 4. Theorems

TLAPS proves the following for every value of the constants that satisfies the
assumptions of the modules (`TopologyAssumption`, `BoundsAssumption`,
`ConstantsAssumption`, `EditsAssumption`: sizes, rack counts and bounds are
natural numbers in their ranges).

* **TopologyEdits** (in `StatefulSets_proofs`): `TypeCorrect`, `SeedsAlwaysFit`,
  `DecommissionAlwaysTakesOne`, `RacksAlwaysAddedSafely`. They rest on lemmas
  about division with remainder: the quotient and remainder of `n` and of `n - 1`,
  monotony of `SplitRacks`; and on `AddedRacksKeepOldRacks`, what the rule of the
  webhook means for each old rack.
* **StatefulSets**: `BuiltFromSpec` says that the invariant `BuildInv` holds:
  every StatefulSet is `NewStatefulSet` of *some* spec that agrees with the spec
  of now in the fields the webhook protects, and of the claim label it was
  created with. The spec a StatefulSet was built from is the strengthening: racks
  are updated one after the other, so that they are built from different ones.
  From it follow `UpdatesNeverRefused` (a forced update excepted if the claims have
  the old label), `SelectorsAlwaysMatch`,
  `MountsAlwaysResolve` (for users who mount what there is), `PodsStaySpread` and
  `RacksKeepTheirZone`.
* **RackScaling**: `InvAlways`, `TypeCorrect`, `DecommissioningAlwaysTracked`,
  `InvalidAlwaysUntouched`, assuming that listing the pods does not fail
  (`"noPods" \notin Reads`); `RacksAlwaysShrinkSafely` and
  `ScalingImplementsCapacity`, assuming also that the endpoint data is complete.
  Both assumptions are needed: `RackScaling_nopods` and `RackScaling_endpoints`
  are the counterexamples.
  The inductive invariant `Inv` adds to the properties what a pass knows: what it
  has read of the StatefulSets is still so, since nothing but the pass writes
  them; the pod it saw labelled is the one that is labelled, unless it has been
  removed; beyond `CheckDecommissioningNodes` no pod is labelled; at
  `stopRack` and `scaleRack` the condition and the comparison that led there
  still hold. The refinement takes one step per action: those that write neither
  replicas nor the label are stutters, and for the others `Inv` gives the guard of
  the abstract action.
  `DecommissionAlwaysKeepsShare`, `ScaleDownAlwaysFindsRack` and
  `ReadyOnlyEverWithNodes` need no complete endpoint data. They rest on a second
  invariant, `NodesInv`: beyond the scaling of the racks no rack has fewer nodes than
  the pass planned for it, the spec it has read since has no fewer racks than that,
  and the pod that leaves is never the first of its rack.
  `DecommissionAlwaysKeepsShare` uses `DecommissionKeepsRackShare`: a rack above its
  share of one node fewer keeps its share of every smaller size, however uneven the
  racks are.
  That the shares of the racks add up to the size (`SplitTotal`) is an induction; it
  is done on a set of numbers (`SetInduction`, from the least element of a
  well-founded set), since the library's induction theorems take an operator.
* **ScaleDown**: `VolumesKept` and `DataFits`, without assumptions on pods, endpoint
  data or crashes; `unseen` and `unchecked` name the nodes they except. The invariant
  says what the label `Decommissioning` stands for: at most one pod has it, its node
  joined, the pod is or was the last of the StatefulSet, and `ScalingDown` is True;
  where a claim is not bound there is neither a member, but an unseen one, nor a pod
  that may become one; and what a pass listed of the pods and nodes that are still
  there is so. For `DataFits` it adds that every other member whose space was looked
  at has room for all that the leaving node has left, and that a pass that finds no
  node leaving has the loads of now; or that nothing counts as looked at.
* **PodStartup**: `InvAlways`, `TypeCorrect`, `StartingLabelAlwaysUnique`,
  `RestartAlwaysTracked`; `AlwaysOneBootstrapping`, assuming no abort between
  the start call and the label (`"labelStarting" \notin AbortSteps`), which
  `PodStartup_bootstrap` shows to be needed.
  The uniqueness of the Starting label needs, as an invariant, that a
  pod labelled Starting is in the pass's list with that label
  (`StartingIsListed`), and that beyond `findStartingNodes` there is none
  (`NoneStarting`): labels are written by passes only, and a recreated pod has
  the label of the template. `RestartIsTracked` needs that an old pod is listed
  as old (`OldIsListed`) so that the pass that clears the condition has seen it.
  `AlwaysStartsWithSeed` assumes that no pod is recreated while a pass runs, that no
  node loses its readiness by itself, and no abort between the start call and the
  label; each of the three is needed. Its invariant (`KnownInv`, `SeedInv`): the
  list has the labels of every pod there is; a pod that was listed as not ready and
  is not being started stays down; so no rack counts as started unless a seed was
  counted, and a pass that knows no seed is at its first node, which it labels.
* **RollingUpdate**: `TypeCorrect`, `CanaryAlwaysContained`, `RacksAlwaysInOrder`,
  `ClearedAlwaysRolledOut`, for any racks, versions and canary counts. The
  invariant: counts in a status show a StatefulSet as rolled out only if its pods
  and their successors have the version of its template (`CountsInv`); a pass that
  gets to `CheckRackPodTemplate` has changed no template since it read them
  (`PassInv`); versions only grow from the pods to the datacenter; and every pod from
  a StatefulSet's partition on is one of which its version was asked for, as is every
  pod that runs it (`CanaryInv`), through all edits of the canary.
* **ManagedObjects**: `TypeCorrect`, `SettledAlwaysMatches`, `HashAlwaysIdentifies`,
  `SettledConfigAlwaysRuns`, `UserLabelsAlwaysKept`. The invariant: whatever changes
  a thing that a pass has looked at asks for another pass, or is in `lost` or `torn`,
  so that without a request what the pass has passed by is still as the spec says;
  and the hash of the datacenter is one copy behind, except between the two writes.
* **OperatorLoop**: `TypeCorrect`, `DeletionLeavesNothing`, `WatchersAlwaysKept`, for
  any sets of datacenters, secrets and workers. The invariant: a datacenter has
  claims, map entries and watches only while it has the finalizer
  (`FinalizerInv`), and at each step of a deletion pass what the steps before it
  removed is gone (`StepsInv`).
* **MaintenanceMode**: `TypeCorrect` and `OneRackAlwaysTakenDown`, for any workers,
  racks and pods and any number of taints, failing pods and passes cut short. The
  invariant (`DownInv`): a pass that runs has listed every pod that is taken down and
  not overlooked, as not ready, and knows that it joined, so it counts as down; hence a pass that takes ready pods off a worker
  found none taken down, and a worker holds one pod (`SpreadInv`).

Each inductive invariant was model-checked as an invariant of the run's instance, or
a larger one, before it was proved.

Most steps are checked by Zenon, the default that all proof modules but
`StatefulSets_proofs` set; a step that needs arithmetic or records names SMT.

Only model-checked: liveness, out of the prover's reach as is `ENABLED`; and the
safety of `NodeReplacement`: `ReplacedNotAdded` is not true of every instance
(`NodeReplacement_twice`), and `FinishedMeansReplaced` has been checked with up to
two requests.

## 5. What else the models show

Met while modelling, and excepted by name in the property or constant concerned:

* the keystore for internode encryption is made only in the pass that makes the
  CA; if that pass is cut off between them, no later one makes it (`torn`);
* endpoints, network policies and labels of pods that are changed by hand are put
  back only by the next pass, which nothing asks for (`lost`);
* a claim that is created after `deletePVCs` listed the claims outlives its
  datacenter (`NothingLeft` is about the claims there were);
* failing to patch a watch annotation, and failing to list the pods for the map of
  workers, is only logged, and secrets or taints of that datacenter go unnoticed
  until something else asks for a pass (`unpatched`, `unmapped`);
* a member that the endpoint data does not have counts as empty when space is
  checked, and may get more data than its volume holds (`unchecked`);
* a capacity with a decimal suffix is read without its exponent, and the scale down
  is refused although there is room (`Digits`);
* a replacement that the user asked for is lost if the operator stops between the two
  patches of `UpdateStatus` (`lost`);
* a canary that is lifted or widened once its rack has the version leaves the rest of
  the rack with the old one (`Stranded`);
* maintenance may take pods of a second rack while those of the first still terminate
  (`overlooked`);
* a forced upgrade of a StatefulSet with the old claim label is refused for ever;
* a datacenter with a missing user secret is neither reconciled nor deleted;
* a config secret or datacenter without annotations makes the pass panic (`bare`);
* a scale down refused for lack of space sets `Valid` to False, which ends every
  later pass, also after the user has taken the scale down back (`ReachesSpec` and
  `ScaleDownEnds` except it);
* a replacement asked for when the `ReplacingNodes` condition has been True for
  thirty minutes, because of an earlier request, is given up at once if the pod is
  still labelled Started: the time is that of the condition, not of the request
  (`updateCurrentReplacePodsProgress`; runs have one request);
* a size below the number of racks ends every pass at once, also those that would
  finish a decommission under way (`ReachesSpec` excepts such sizes);
* `Quiesces` of `OperatorLoop` excepts the case that all workers are tainted: the
  pod cannot be scheduled and passes go on waiting for it.

## 6. Not modelled

* Combinations of replacement, restart, update and decommission: each has a module
  of its own, in which the others are idle.
* The rules of the webhook for a single datacenter (`ValidateSingleDatacenter`:
  server versions, config sections), which relate no two states, and the
  installation of the webhook and its certificates.
* Images, environment, probes and resources of containers, the content of keys,
  passwords and certificates, and the catalog in the health document: data that
  no step of the operator looks at again.
* The HTTP client of the management API and its TLS set-up, image names, start-up
  of the operator process, generated clients, mocks and build scripts: no state
  that a model would tell apart. The calls of the client appear as steps, with
  their failures.
* Clusters of several datacenters inside `PodStartup`, in which passes also look
  at the pods of the others; the staleness of the informer cache beyond a pass's
  own snapshot; quiet periods, which only delay passes.
