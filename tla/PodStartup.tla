----------------------------- MODULE PodStartup -----------------------------
(***************************************************************************)
(* How a reconcile pass brings up Cassandra on the pods of a datacenter of *)
(* a fixed size (CheckPodsReady) and restarts them one by one on request   *)
(* (CheckRollingRestart): the node-state and the seed label of every pod,  *)
(* the start calls to the management API, and the deletion of stuck pods.  *)
(*                                                                         *)
(* A pass works on the pods it listed when it began; patching a pod        *)
(* refreshes that one pod of the list.  Patches, deletions and calls reach *)
(* whatever pod has the name by then.  The list comes from a cache in no   *)
(* particular order, so a loop that acts on the first match acts on any.   *)
(*                                                                         *)
(* A pod is <<rack, ordinal>>.  Its labels are functions of their own; the *)
(* record holds what the kubelet reports and what Cassandra does:          *)
(*   phase  gone, running or terminating (deletion asked, still reported)  *)
(*   mgmt   the management API has run for ten seconds                     *)
(*   cass   down, joining (start was called), ready, draining (drained but *)
(*          still reported ready), drained, or unready                     *)
(*   died   whether the container terminated before: no, recent, or old    *)
(*          (more than ten minutes ago)                                    *)
(*   long   the pod has been unready for more than ten minutes             *)
(*   old    the pod was created before LastRollingRestart                  *)
(***************************************************************************)
EXTENDS RackTopology, FiniteSets

CONSTANTS
    Size,            \* spec.size
    Racks,           \* the number of racks
    FirstStart,      \* whether the datacenters to start from are new
    Disruptions,     \* what may befall a pod
    SwapsMidPass,    \* whether a pod may be recreated while a pass runs
    MaxDisruptions,  \* bound on the number of disruptions
    MaxRequests,     \* bound on the number of rolling restarts
    AbortSteps,      \* the steps of a pass that a crash or an error may hit
    MaxAborts        \* bound on the number of passes cut short

Info == RackInformation(Size, Racks, FALSE)
Pods == UNION {{<<r, i>> : i \in 0..Info[r].nodes - 1} : r \in 1..Racks}

Labels == {"Ready-to-Start", "Starting", "Started", "Started-not-Ready"}

Steps == {"idle", "startedNotReady", "stuckNodes", "seeds", "labelSeeds",
          "refreshSeeds", "startingNodes", "rackNodes", "firstSeed", "start",
          "labelStarting", "lastStarted", "healthy", "allNodes", "count",
          "restart", "restartSpec", "restartPods", "deletePod", "clear", "done"}

ASSUME ConstantsAssumption ==
    /\ Size \in Nat /\ Racks \in Nat \ {0} /\ Racks <= Size
    /\ FirstStart \subseteq BOOLEAN
    /\ Disruptions \subseteq {"container", "readiness", "eviction"}
    /\ SwapsMidPass \in BOOLEAN
    /\ MaxDisruptions \in Nat /\ MaxRequests \in Nat
    /\ AbortSteps \subseteq Steps \ {"idle", "done"}
    /\ MaxAborts \in Nat

VARIABLES
    label,        \* the node-state label of each pod
    seed,         \* which pods have the seed label
    pods,         \* the other state of each pod
    requested,    \* spec.rollingRestartRequested
    restarting,   \* the RollingRestart condition is True
    cooldown,     \* a node was started less than twenty seconds ago
    pc,           \* the next step of the running pass, or "idle"
    rcLabel,      \* rc.dcPods: node-state labels
    rcSeed,       \* rc.dcPods: seed labels
    rcPods,       \* rc.dcPods: the rest
    rcRequested,  \* rc.Datacenter.Spec.RollingRestartRequested
    todo,         \* seed label patches still to be made by checkSeedLabels
    seeded,       \* checkSeedLabels counted a ready seed
    target,       \* the pod being started, or deleted for a restart
    disruptions, requests, aborts

podVars   == <<label, seed, pods>>
dcVars    == <<requested, restarting, cooldown>>
listVars  == <<rcLabel, rcSeed, rcPods>>
passVars  == <<rcRequested, todo, seeded, target>>
bounds    == <<disruptions, requests, aborts>>
vars      == <<podVars, dcVars, pc, listVars, passVars, bounds>>

GonePod == [phase |-> "gone", mgmt |-> FALSE, cass |-> "down", died |-> "no",
            long |-> FALSE, old |-> FALSE]
NewPod  == [GonePod EXCEPT !.phase = "running"]
UpPod   == [NewPod EXCEPT !.mgmt = TRUE, !.cass = "ready"]
NoPod   == <<0, 0>>

NoLabels == [p \in Pods |-> "Ready-to-Start"]
NoSeeds  == [p \in Pods |-> FALSE]
NoPods   == [p \in Pods |-> GonePod]

(* A new datacenter has no pods yet; another one has all its nodes up, with *)
(* the first pods of each rack as seeds.                                    *)
Init ==
    /\ \E new \in FirstStart :
          /\ label = [p \in Pods |-> IF new THEN "Ready-to-Start" ELSE "Started"]
          /\ seed  = [p \in Pods |-> ~new /\ p[2] < Info[p[1]].seeds]
          /\ pods  = [p \in Pods |-> IF new THEN GonePod ELSE UpPod]
    /\ requested = FALSE /\ restarting = FALSE /\ cooldown = FALSE
    /\ pc = "idle"
    /\ rcLabel = NoLabels /\ rcSeed = NoSeeds /\ rcPods = NoPods
    /\ rcRequested = FALSE /\ todo = {} /\ seeded = FALSE /\ target = NoPod
    /\ disruptions = 0 /\ requests = 0 /\ aborts = 0

Ready(pod) == pod.cass \in {"ready", "draining"}
Exists(p)  == pods[p].phase # "gone"
Listed     == {p \in Pods : rcPods[p].phase # "gone"}

-----------------------------------------------------------------------------
(* The environment: the StatefulSet controller, the kubelet, Cassandra, and *)
(* the user.                                                                *)

PodTurns(p, pod) ==
    /\ pods' = [pods EXCEPT ![p] = pod]
    /\ UNCHANGED <<label, seed, dcVars, pc, listVars, passVars, requests, aborts>>

(* A missing pod is created from the StatefulSet's template.                *)
CreatePod(p) ==
    /\ ~Exists(p)
    /\ SwapsMidPass \/ pc = "idle"
    /\ PodTurns(p, NewPod)
    /\ UNCHANGED disruptions

(* A deleted pod is gone after its grace period.                            *)
PodRemoved(p) ==
    /\ pods[p].phase = "terminating"
    /\ pods' = [pods EXCEPT ![p] = GonePod]
    /\ label' = [label EXCEPT ![p] = "Ready-to-Start"]
    /\ seed' = [seed EXCEPT ![p] = FALSE]
    /\ UNCHANGED <<dcVars, pc, listVars, passVars, bounds>>

(* The management API comes up, Cassandra joins the ring, an unready node   *)
(* recovers, the readiness probe notices that a node was drained.           *)
MgmtApiStarts(p) ==
    /\ Exists(p) /\ ~pods[p].mgmt
    /\ PodTurns(p, [pods[p] EXCEPT !.mgmt = TRUE])
    /\ UNCHANGED disruptions

CassandraTurns(p, from, to) ==
    /\ pods[p].cass = from
    /\ PodTurns(p, [pods[p] EXCEPT !.cass = to, !.long = FALSE])
    /\ UNCHANGED disruptions

NodeJoins(p)    == CassandraTurns(p, "joining", "ready")
NodeRecovers(p) == CassandraTurns(p, "unready", "ready")
ProbeFails(p)   == CassandraTurns(p, "draining", "drained")

(* Ten minutes pass after the container terminated, or with the pod unready *)
(* (which matters only once it has been started).                           *)
TenMinutesPass(p) ==
    /\ Exists(p)
    /\ \/ pods[p].died = "recent"
       \/ ~pods[p].long /\ ~Ready(pods[p]) /\ label[p] # "Ready-to-Start"
    /\ PodTurns(p, [pods[p] EXCEPT !.died = IF @ = "recent" THEN "old" ELSE @,
                                   !.long = ~Ready(pods[p])])
    /\ UNCHANGED disruptions

Disrupt(kind) ==
    /\ kind \in Disruptions
    /\ disruptions < MaxDisruptions
    /\ disruptions' = disruptions + 1

(* The Cassandra container, which runs the management API, terminates and   *)
(* is restarted by the kubelet.                                             *)
ContainerDies(p) ==
    /\ Disrupt("container")
    /\ pods[p].phase = "running" /\ pods[p].mgmt
    /\ PodTurns(p, [pods[p] EXCEPT !.mgmt = FALSE, !.cass = "down",
                                   !.died = "recent"])

LosesReadiness(p) ==
    /\ Disrupt("readiness")
    /\ pods[p].cass = "ready"
    /\ PodTurns(p, [pods[p] EXCEPT !.cass = "unready"])

PodEvicted(p) ==
    /\ Disrupt("eviction")
    /\ pods[p].phase = "running"
    /\ PodTurns(p, [pods[p] EXCEPT !.phase = "terminating"])

RequestRollingRestart ==
    /\ requests < MaxRequests /\ ~requested
    /\ requested' = TRUE
    /\ requests' = requests + 1
    /\ UNCHANGED <<podVars, restarting, cooldown, pc, listVars, passVars,
                   disruptions, aborts>>

CooldownEnds ==
    /\ cooldown
    /\ cooldown' = FALSE
    /\ UNCHANGED <<podVars, requested, restarting, pc, listVars, passVars, bounds>>
-----------------------------------------------------------------------------
(* What the steps of a pass are made of.                                    *)

Goto(step) == pc' = step /\ UNCHANGED <<listVars, rcRequested, todo, seeded, target>>

(* A merge patch of one label of pod p, whose answer refreshes the pod in   *)
(* the list.  It fails if there is no such pod any more.                    *)
PatchPod(p, newLabel, newSeed, step) ==
    /\ IF Exists(p)
       THEN /\ label' = [label EXCEPT ![p] = newLabel]
            /\ seed' = [seed EXCEPT ![p] = newSeed]
            /\ rcLabel' = [rcLabel EXCEPT ![p] = newLabel]
            /\ rcSeed' = [rcSeed EXCEPT ![p] = newSeed]
            /\ rcPods' = [rcPods EXCEPT ![p] = pods[p]]
            /\ pc' = step
       ELSE pc' = "done" /\ UNCHANGED <<label, seed, listVars>>
    /\ UNCHANGED pods

LabelState(p, state, step) == PatchPod(p, state, seed[p], step)
LabelSeed(p, isSeed, step) == PatchPod(p, label[p], isSeed, step)

(* Deletion of the pod that has the name now, if there is one.              *)
Deleted(p) ==
    IF Exists(p) THEN [pods EXCEPT ![p].phase = "terminating"] ELSE pods

-----------------------------------------------------------------------------
(* The steps of a pass, in the order of CheckPodsReady.                     *)

(* The pass lists the pods, unless a node was started a short while ago.    *)
BeginPass ==
    /\ pc = "idle" /\ ~cooldown
    /\ pc' = "startedNotReady"
    /\ rcLabel' = label /\ rcSeed' = seed /\ rcPods' = pods
    /\ rcRequested' = requested
    /\ UNCHANGED <<podVars, dcVars, todo, seeded, target, bounds>>

LostReadiness(p) == rcLabel[p] = "Started" /\ ~Ready(rcPods[p])
GotReadinessBack(p) == rcLabel[p] = "Started-not-Ready" /\ Ready(rcPods[p])

(* The first pod of the list that lost its readiness or got it back is      *)
(* labelled so; the pass goes on only in the latter case.                   *)
FindStartedNotReadyNodes ==
    /\ pc = "startedNotReady"
    /\ \/ \E p \in Listed :
             \/ LostReadiness(p) /\ LabelState(p, "Started-not-Ready", "done")
             \/ GotReadinessBack(p) /\ LabelState(p, "Started", "stuckNodes")
          /\ UNCHANGED <<rcRequested, todo, seeded, target>>
       \/ /\ \A p \in Listed : ~LostReadiness(p) /\ ~GotReadinessBack(p)
          /\ Goto("stuckNodes")
          /\ UNCHANGED podVars
    /\ UNCHANGED <<dcVars, bounds>>

\* Mutant: forgets pods whose container terminated.
StuckUnready(p) ==
    rcLabel[p] = "Started-not-Ready" /\ ~Ready(rcPods[p]) /\ rcPods[p].long

(* The pod's container terminated, or the pod lost its readiness, more than *)
(* ten minutes ago.                                                         *)
Stuck(p) ==
    \/ /\ ~Ready(rcPods[p]) /\ rcLabel[p] # "Ready-to-Start"
       /\ rcPods[p].died = "old"
    \/ /\ rcLabel[p] = "Started-not-Ready"
       /\ ~Ready(rcPods[p]) /\ rcPods[p].long

DeleteStuckNodes ==
    /\ pc = "stuckNodes"
    /\ \/ \E p \in Listed :
             Stuck(p) /\ pods' = Deleted(p) /\ Goto("done")
       \/ /\ \A p \in Listed : ~Stuck(p)
          /\ UNCHANGED pods
          /\ Goto("seeds")
    /\ UNCHANGED <<label, seed, dcVars, bounds>>

(* The first ready pods of each rack, as many as the rack has seeds.        *)
SeedPods ==
    {p \in Listed :
        /\ Ready(rcPods[p])
        /\ Cardinality({q \in Listed : q[1] = p[1] /\ q[2] < p[2]
                                       /\ Ready(rcPods[q])}) < Info[p[1]].seeds}

(* What checkSeedLabels has to patch; a starting pod keeps its seed label.  *)
SeedPatches ==
    {<<p, TRUE>> : p \in {q \in SeedPods : ~rcSeed[q]}}
    \cup
    {<<p, FALSE>> : p \in {q \in Listed \ SeedPods :
                              rcSeed[q] /\ rcLabel[q] # "Starting"}}

CheckSeedLabels ==
    /\ pc = "seeds"
    /\ pc' = "labelSeeds"
    /\ todo' = SeedPatches
    /\ seeded' = (SeedPods # {})
    /\ UNCHANGED <<podVars, dcVars, listVars, rcRequested, target, bounds>>

(* labelSeedPods patches the pods in the order of racks and names.          *)
LabelSeedPods ==
    /\ pc = "labelSeeds"
    /\ IF todo = {}
       THEN Goto("refreshSeeds") /\ UNCHANGED podVars
       ELSE /\ \E t \in todo :
                  /\ \A u \in todo :
                        \/ t[1][1] < u[1][1]
                        \/ t[1][1] = u[1][1] /\ t[1][2] <= u[1][2]
                  /\ LabelSeed(t[1], t[2], "labelSeeds")
                  /\ todo' = todo \ {t}
            /\ UNCHANGED <<rcRequested, seeded, target>>
    /\ UNCHANGED <<dcVars, bounds>>

(* Every started node reloads its seeds; one that cannot fails the pass.    *)
RefreshSeeds ==
    /\ pc = "refreshSeeds"
    /\ Goto(IF \A p \in Listed : rcLabel[p] = "Started" => pods[p].cass # "down"
            THEN "startingNodes" ELSE "done")
    /\ UNCHANGED <<podVars, dcVars, bounds>>

\* Mutant: does not wait for a node that is starting.
StartingNodesIgnored ==
    /\ pc = "startingNodes"
    /\ Goto("rackNodes")
    /\ UNCHANGED <<podVars, dcVars, bounds>>

(* While a node is starting the pass waits for it to become ready.          *)
FindStartingNodes ==
    /\ pc = "startingNodes"
    /\ \/ \E p \in Listed :
             /\ rcLabel[p] = "Starting"
             /\ IF Ready(rcPods[p])
                THEN /\ LabelState(p, "Started", "rackNodes")
                     /\ UNCHANGED <<rcRequested, todo, seeded, target>>
                ELSE Goto("done") /\ UNCHANGED podVars
       \/ /\ \A p \in Listed : rcLabel[p] # "Starting"
          /\ Goto("rackNodes")
          /\ UNCHANGED podVars
    /\ UNCHANGED <<dcVars, bounds>>

ChooseTarget(p, step) ==
    /\ target' = p
    /\ pc' = step
    /\ UNCHANGED <<podVars, listVars, rcRequested, todo, seeded>>

(* A rack without a ready node gets one first.  The racks are visited in    *)
(* any order; without a ready seed the node is made a seed beforehand.      *)
StartOneNodePerRack ==
    /\ pc = "rackNodes"
    /\ LET empty == {r \in 1..Racks :
                       \A p \in Listed : p[1] = r => ~Ready(rcPods[p])}
           startable == {p \in Listed :
                           /\ p[1] \in empty
                           /\ rcLabel[p] = "Ready-to-Start" /\ rcPods[p].mgmt}
       IN  \/ \E p \in startable :
                 ChooseTarget(p, IF seeded THEN "start" ELSE "firstSeed")
           \/ /\ startable = {}
              /\ Goto(IF empty = {} THEN "healthy" ELSE "done")
              /\ UNCHANGED podVars
    /\ UNCHANGED <<dcVars, bounds>>

\* Mutant: starts the first node without making it a seed.
FirstSeedNotLabelled ==
    /\ pc = "firstSeed"
    /\ Goto("start")
    /\ UNCHANGED <<podVars, dcVars, bounds>>

LabelFirstSeed ==
    /\ pc = "firstSeed"
    /\ LabelSeed(target, TRUE, "start")
    /\ UNCHANGED <<dcVars, rcRequested, todo, seeded, target, bounds>>

(* The start call: it does nothing to a Cassandra that is running, and      *)
(* fails without a management API.                                          *)
StartCassandra ==
    /\ pc = "start"
    /\ pods' = IF pods[target].mgmt /\ pods[target].cass = "down"
               THEN [pods EXCEPT ![target].cass = "joining"] ELSE pods
    /\ Goto(IF pods[target].mgmt THEN "labelStarting" ELSE "done")
    /\ UNCHANGED <<label, seed, dcVars, bounds>>

(* labelServerPodStarting: the label, then LastServerNodeStarted.           *)
LabelServerPodStarting ==
    /\ pc = "labelStarting"
    /\ LabelState(target, "Starting", "lastStarted")
    /\ UNCHANGED <<dcVars, rcRequested, todo, seeded, target, bounds>>

PatchLastServerNodeStarted ==
    /\ pc = "lastStarted"
    /\ cooldown' = TRUE
    /\ Goto("done")
    /\ UNCHANGED <<podVars, requested, restarting, bounds>>

(* isClusterHealthy asks the nodes whether LOCAL_QUORUM can be served.      *)
ClusterHealthy ==
    /\ pc = "healthy"
    /\ Goto("allNodes")
    /\ UNCHANGED <<podVars, dcVars, bounds>>

ClusterUnhealthy ==
    /\ pc = "healthy"
    /\ Goto("done")
    /\ UNCHANGED <<podVars, dcVars, bounds>>

IsStarted(p) == rcLabel[p] \in {"Started", "Started-not-Ready"}

StartAllNodes ==
    /\ pc = "allNodes"
    /\ LET startable == {p \in Listed :
              rcPods[p].mgmt /\ ~Ready(rcPods[p]) /\ ~IsStarted(p)}
       IN  \/ \E p \in startable : ChooseTarget(p, "start")
           \/ /\ startable = {}
              /\ Goto(IF \A p \in Listed : rcPods[p].mgmt THEN "count" ELSE "done")
              /\ UNCHANGED podVars
    /\ UNCHANGED <<dcVars, bounds>>

(* The sanity check at the end of CheckPodsReady; spec.size is the number   *)
(* of pods of all racks.                                                    *)
CountReadyAndStarted ==
    /\ pc = "count"
    /\ Goto(IF /\ Cardinality(Pods) <= Cardinality({p \in Listed : Ready(rcPods[p])})
               /\ Cardinality(Pods) <= Cardinality({p \in Listed : IsStarted(p)})
            THEN "restart" ELSE "done")
    /\ UNCHANGED <<podVars, dcVars, bounds>>
-----------------------------------------------------------------------------
(* CheckRollingRestart, and the clearing of its condition when the pass     *)
(* gets to its end.                                                         *)

(* A requested restart: LastRollingRestart is set to the current time, with *)
(* the condition, and only then is the request taken back.                  *)
CheckRollingRestart ==
    /\ pc = "restart"
    /\ IF rcRequested
       THEN /\ restarting' = TRUE
            /\ pods' = [p \in Pods |-> IF Exists(p) THEN [pods[p] EXCEPT !.old = TRUE]
                                     ELSE pods[p]]
            /\ rcPods' = [p \in Pods |-> [rcPods[p] EXCEPT !.old = TRUE]]
            /\ pc' = "restartSpec"
            /\ UNCHANGED <<rcLabel, rcSeed, passVars>>
       ELSE Goto("restartPods") /\ UNCHANGED <<pods, restarting>>
    /\ UNCHANGED <<label, seed, requested, cooldown, bounds>>

\* Mutant: leaves the pods for a later pass.
RequestTakenBackOnly ==
    /\ pc = "restartSpec"
    /\ requested' = FALSE
    /\ rcRequested' = FALSE
    /\ pc' = "clear"
    /\ UNCHANGED <<podVars, restarting, cooldown, listVars, todo, seeded, target,
                   bounds>>

TakeRequestBack ==
    /\ pc = "restartSpec"
    /\ requested' = FALSE
    /\ rcRequested' = FALSE
    /\ pc' = "restartPods"
    /\ UNCHANGED <<podVars, restarting, cooldown, listVars, todo, seeded, target,
                   bounds>>

(* The first listed pod older than the restart is drained, and then deleted.*)
DrainOldPod ==
    /\ pc = "restartPods"
    /\ \/ \E p \in {q \in Listed : rcPods[q].old} :
             /\ target' = p
             /\ pods' = IF pods[p].cass \in {"joining", "ready", "unready"}
                        THEN [pods EXCEPT ![p].cass =
                                 IF @ = "ready" THEN "draining" ELSE "drained"]
                        ELSE pods
             /\ pc' = "deletePod"
             /\ UNCHANGED <<listVars, rcRequested, todo, seeded>>
       \/ /\ \A p \in Listed : ~rcPods[p].old
          /\ Goto("clear")
          /\ UNCHANGED pods
    /\ UNCHANGED <<label, seed, dcVars, bounds>>

DeleteOldPod ==
    /\ pc = "deletePod"
    /\ pods' = Deleted(target)
    /\ Goto("done")
    /\ UNCHANGED <<label, seed, dcVars, bounds>>

CheckClearActionConditions ==
    /\ pc = "clear"
    /\ restarting' = FALSE
    /\ Goto("done")
    /\ UNCHANGED <<podVars, requested, cooldown, bounds>>

(* The pass returns.                                                        *)
EndPass ==
    /\ pc = "done"
    /\ pc' = "idle"
    /\ rcLabel' = NoLabels /\ rcSeed' = NoSeeds /\ rcPods' = NoPods
    /\ rcRequested' = FALSE /\ todo' = {} /\ seeded' = FALSE /\ target' = NoPod
    /\ UNCHANGED <<podVars, dcVars, bounds>>

(* An API error or a crash of the operator.                                 *)
Abort ==
    /\ pc \in AbortSteps
    /\ aborts < MaxAborts
    /\ aborts' = aborts + 1
    /\ Goto("done")
    /\ UNCHANGED <<podVars, dcVars, disruptions, requests>>

-----------------------------------------------------------------------------
PassStep ==
    \/ FindStartedNotReadyNodes \/ DeleteStuckNodes \/ CheckSeedLabels
    \/ LabelSeedPods \/ RefreshSeeds \/ FindStartingNodes \/ StartOneNodePerRack
    \/ LabelFirstSeed \/ StartCassandra \/ LabelServerPodStarting
    \/ PatchLastServerNodeStarted \/ ClusterHealthy \/ ClusterUnhealthy
    \/ StartAllNodes \/ CountReadyAndStarted \/ CheckRollingRestart
    \/ TakeRequestBack \/ DrainOldPod \/ DeleteOldPod
    \/ CheckClearActionConditions \/ EndPass

PodStep(p) ==
    \/ CreatePod(p) \/ PodRemoved(p) \/ MgmtApiStarts(p) \/ NodeJoins(p)
    \/ NodeRecovers(p) \/ ProbeFails(p) \/ TenMinutesPass(p)

Disruption(p) == ContainerDies(p) \/ LosesReadiness(p) \/ PodEvicted(p)

Next ==
    \/ BeginPass \/ PassStep \/ Abort \/ CooldownEnds \/ RequestRollingRestart
    \/ \E p \in Pods : PodStep(p) \/ Disruption(p)

Spec == Init /\ [][Next]_vars

(* Passes are requeued and go on; the quorum probe does not fail for ever;  *)
(* what Kubernetes and Cassandra have begun they finish.                    *)
FairSpec ==
    /\ Spec
    /\ WF_vars(BeginPass) /\ WF_vars(PassStep) /\ SF_vars(ClusterHealthy)
    /\ WF_vars(CooldownEnds)
    /\ \A p \in Pods :
          /\ SF_vars(CreatePod(p)) /\ WF_vars(PodRemoved(p))
          /\ WF_vars(MgmtApiStarts(p)) /\ WF_vars(NodeJoins(p))
          /\ WF_vars(NodeRecovers(p)) /\ WF_vars(ProbeFails(p))
          /\ WF_vars(TenMinutesPass(p))

-----------------------------------------------------------------------------
(* Properties.                                                              *)

PodState ==
    [phase : {"gone", "running", "terminating"}, mgmt : BOOLEAN,
     cass : {"down", "joining", "ready", "draining", "drained", "unready"},
     died : {"no", "recent", "old"}, long : BOOLEAN, old : BOOLEAN]

(* Every variable keeps its type.                                           *)
TypeOK ==
    /\ label \in [Pods -> Labels] /\ rcLabel \in [Pods -> Labels]
    /\ seed \in [Pods -> BOOLEAN] /\ rcSeed \in [Pods -> BOOLEAN]
    /\ pods \in [Pods -> PodState] /\ rcPods \in [Pods -> PodState]
    /\ requested \in BOOLEAN /\ restarting \in BOOLEAN /\ cooldown \in BOOLEAN
    /\ pc \in Steps
    /\ rcRequested \in BOOLEAN /\ seeded \in BOOLEAN
    /\ todo \subseteq Pods \X BOOLEAN
    /\ target \in Pods \cup {NoPod}
    /\ disruptions \in 0..MaxDisruptions
    /\ requests \in 0..MaxRequests
    /\ aborts \in 0..MaxAborts

(* At most one pod is labelled Starting, whatever crashes, pod deletions    *)
(* and recreations happen: findStartingNodes looks at one such pod only,    *)
(* and lets the pass go on to start another node as soon as that one is     *)
(* ready.                                                                   *)
OneStartingLabel ==
    \A p, q \in Pods : label[p] = "Starting" /\ label[q] = "Starting" => p = q

(* Only one node bootstraps at a time.                                      *)
OneBootstrapping ==
    \A p, q \in Pods :
        pods[p].cass = "joining" /\ pods[q].cass = "joining" => p = q

(* While a pod is older than the last rolling restart, the RollingRestart   *)
(* condition stays True, however often the restart is interrupted: the pass *)
(* that clears it has seen every pod, and none is old.                      *)
RestartIsTracked ==
    (\E p \in Pods : pods[p].old) => restarting

(* A pass tells a node to start only if it knows a pod with the seed label: *)
(* if it counted no ready seed it makes the node itself one.                *)
StartsWithSeed ==
    pc = "start" => \E p \in Listed : rcSeed[p]

(* Another node is drained for a rolling restart only while every other     *)
(* node of the datacenter serves.                                           *)
DrainsOneAtATime ==
    pc = "restartPods" /\ pc' = "deletePod" =>
        \A p \in Pods \ {target'} : pods[p].phase = "running" /\ pods[p].cass = "ready"
RollsOneAtATime == [][DrainsOneAtATime]_vars

(* Every node is up, with the label that says so and the seeds in place,    *)
(* and no restart is outstanding.                                           *)
AllUp ==
    /\ \A p \in Pods :
          /\ pods[p].phase = "running" /\ pods[p].cass = "ready"
          /\ ~pods[p].old
          /\ label[p] = "Started"
          /\ seed[p] = (p[2] < Info[p[1]].seeds)
    /\ ~requested /\ ~restarting

(* Every node is eventually up, and stays up, whatever state disruptions    *)
(* and cut-short passes leave the pods and their labels in.                 *)
NodesComeUp == <>[]AllUp
=============================================================================
