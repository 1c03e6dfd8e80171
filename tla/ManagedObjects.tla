--------------------------- MODULE ManagedObjects ---------------------------
(***************************************************************************)
(* The objects beside the StatefulSets that a pass keeps in step with the  *)
(* datacenter: services, the endpoints of the additional seeds, the        *)
(* network policy, the disruption budget, the secrets for internode        *)
(* encryption, the labels of the racks' resources, and the copy of the     *)
(* user's config secret, whose changes reach the pods through a hash in an *)
(* annotation of the datacenter.  The user edits all of these while passes *)
(* run, calls fail and the operator restarts.                              *)
(***************************************************************************)
EXTENDS Integers, Sequences

CONSTANTS
    NodePorts,   \* native ports of the NodePort service, 0 without it
    Workloads,   \* of DSE, which have ports of their own
    SeedLists,   \* additional seeds, 0 for none
    Sizes,       \* of the datacenter
    MaxEdits,    \* by the user
    MaxEvents    \* failed calls, restarts and lost pods

ASSUME ConstantsAssumption ==
    /\ NodePorts \cup Workloads \cup SeedLists \cup Sizes \subseteq Nat
    /\ 0 \in NodePorts \cap Workloads /\ {MaxEdits, MaxEvents} \subseteq Nat

VARIABLES
    spec,      \* of the datacenter
    config,    \* the user's config secret: version of its content
    bare,      \* what has no annotations at all: the user's secret, the datacenter
    named,     \* the secret has the annotation that names the datacenter
    obj,       \* services, endpoints, network policy and disruption budget
    copy,      \* the operator's copy of the config secret
    dcHash,    \* the config hash annotation of the datacenter
    template,  \* the config hash in the StatefulSet's pod template
    pod,       \* the hash and the config the pod started with
    ca,        \* the internode CA secret exists
    keystore,  \* so does the keystore made from it
    labelled,  \* the rack resources with the operator's labels
    progress,  \* cassandraOperatorProgress in the status
    queue,     \* a pass is asked for
    pc,        \* the step of the running pass, or "idle"
    rc,        \* the spec as the pass holds it
    built,     \* the spec that the objects in hand were built from
    todo,      \* the objects still to be looked at
    missing,   \* the objects to be created
    got,       \* what was read of the object that is being updated
    made,      \* the config made from what was read of the user's secret
    lost,      \* what was taken away, or not written, unseen by a later pass
    torn,      \* a pass ended between two writes that belong together
    edits, events

user    == <<spec, config, bare>>
secrets == <<ca, keystore>>
rollout == <<named, copy, dcHash, template, pod>>
stage   == <<built, todo, missing, got, made>>
bounds  == <<edits, events>>
history == <<lost, torn>>
vars    == <<user, secrets, rollout, obj, labelled, progress, queue, pc, rc, stage,
             history, bounds>>

Resources == {"sts", "pod", "pvc"}
Services  == {"cql", "seed", "all", "additional", "nodeport"}
Objects   == Services \cup {"endpoints", "policy", "budget"}
Watched   == Services \cup {"budget"}

NoSpec == [nodePort |-> 0, workloads |-> 0, seeds |-> 0, size |-> 0, extra |-> FALSE]

Specs == [nodePort : NodePorts, workloads : Workloads, seeds : SeedLists,
          size : Sizes, extra : BOOLEAN]

-----------------------------------------------------------------------------
(* The objects as they are built from a spec.  An object has its content,   *)
(* the labels and annotations that the spec adds to services, those that a  *)
(* user added to the object, and the hash of it all in an annotation.       *)

NoObject == [exists |-> FALSE, content |-> <<>>, extra |-> FALSE, user |-> FALSE,
             hash |-> <<>>]

MakeGenericHeadlessService == [NoObject EXCEPT !.exists = TRUE]

AddAdditionalOptions(o, s) == [o EXCEPT !.extra = s.extra]

AddHashAnnotation(o) == [o EXCEPT !.hash = <<o.content, o.extra>>]

With(content) == [MakeGenericHeadlessService EXCEPT !.content = content]

NewService(s) ==
    AddHashAnnotation(AddAdditionalOptions(With(<<s.nodePort, s.workloads>>), s))

NewSeedService(s) == AddHashAnnotation(AddAdditionalOptions(With(<<>>), s))

\* Mutant: the hash is taken before the options are added.
NewAllPodsHashedFirst(s) ==
    AddAdditionalOptions(AddHashAnnotation(With(<<s.nodePort>>)), s)

NewAllPodsService(s) == AddHashAnnotation(AddAdditionalOptions(With(<<s.nodePort>>), s))

NewAdditionalSeedService(s) == AddHashAnnotation(AddAdditionalOptions(With(<<>>), s))

(* This one has no hash.                                                    *)
NewNodePortService(s) == AddAdditionalOptions(With(<<s.nodePort>>), s)

NewEndpoints(s) == AddHashAnnotation(With(<<s.seeds>>))

NewNetworkPolicy == AddHashAnnotation(With(<<>>))

NewPodDisruptionBudget(s) == AddHashAnnotation(With(<<s.size - 1>>))

Desired(o, s) ==
    CASE o = "cql"        -> NewService(s)
      [] o = "seed"       -> NewSeedService(s)
      [] o = "all"        -> NewAllPodsService(s)
      [] o = "additional" -> NewAdditionalSeedService(s)
      [] o = "nodeport"   -> NewNodePortService(s)
      [] o = "endpoints"  -> NewEndpoints(s)
      [] o = "policy"     -> NewNetworkPolicy
      [] o = "budget"     -> NewPodDisruptionBudget(s)

If(b, list) == IF b THEN list ELSE <<>>

ServicesOf(s) ==
    <<"cql", "seed", "all">> \o If(s.seeds # 0, <<"additional">>)
                             \o If(s.nodePort # 0, <<"nodeport">>)

(* Without a single annotation there is no hash to be the same.             *)
HasAnnotations(o) == o.hash # <<>> \/ o.extra \/ o.user

ResourcesHaveSameHash(r1, r2) ==
    HasAnnotations(r1) /\ HasAnnotations(r2) /\ r1.hash = r2.hash

(* Labels and annotations that are there stay unless they are set anew.     *)
Merged(current, desired) ==
    [desired EXCEPT !.extra = @ \/ current.extra,
                    !.user  = current.user,
                    !.hash  = IF @ = <<>> THEN current.hash ELSE @]

(* GetConfigAsJSON adds what the spec says to the user's config.            *)
ConfigAsJSON(s) ==
    <<config, s.nodePort, s.workloads, IF s.seeds = 0 THEN 0 ELSE 1>>

-----------------------------------------------------------------------------
(* The datacenter starts small and without the optional parts but, maybe,   *)
(* seeds.                                                                   *)
Init ==
    /\ spec \in {s \in Specs : /\ s.nodePort = 0 /\ s.workloads = 0 /\ ~s.extra
                               /\ \A n \in Sizes : s.size <= n
                               /\ s.seeds = 0 \/ \A l \in SeedLists : l <= s.seeds}
    /\ config = 0 /\ named = FALSE /\ bare \in SUBSET {"config", "datacenter"}
    /\ obj = [o \in Objects |-> NoObject]
    /\ copy = [exists |-> FALSE, config |-> <<>>, version |-> 0]
    /\ dcHash = -1 /\ template = -1 /\ pod = [hash |-> -1, config |-> <<>>]
    /\ ca = FALSE /\ keystore = FALSE
    /\ labelled = Resources /\ progress = "none"
    /\ queue = TRUE /\ pc = "idle" /\ rc = NoSpec
    /\ built = NoSpec /\ todo = <<>> /\ missing = <<>> /\ got = NoObject
    /\ made = <<>>
    /\ lost = {} /\ torn = {}
    /\ edits = 0 /\ events = 0

Event == events < MaxEvents /\ events' = events + 1
Edit  == edits < MaxEdits /\ edits' = edits + 1

-----------------------------------------------------------------------------
(* The user and Kubernetes.                                                 *)

EditSpec(f, v) ==
    /\ Edit /\ spec[f] # v
    /\ spec' = [spec EXCEPT ![f] = v] /\ queue' = TRUE
    /\ UNCHANGED <<config, bare, secrets, rollout, obj, labelled, progress, pc, rc, stage,
                   history, events>>

EditSpecField ==
    \/ \E v \in NodePorts : EditSpec("nodePort", v)
    \/ \E v \in Workloads : EditSpec("workloads", v)
    \/ \E v \in SeedLists : EditSpec("seeds", v)
    \/ \E v \in Sizes     : EditSpec("size", v)
    \/ \E v \in BOOLEAN   : EditSpec("extra", v)

(* The content is one of two.  The change is seen by way of the annotation, *)
(* which a new manifest may not have, as it may have none.                  *)
EditConfig(keeps) ==
    /\ Edit
    /\ config' = 1 - config
    /\ named' = (named /\ keeps) /\ queue' = (queue \/ named)
    /\ \E b \in SUBSET {"config"} :
          bare' = (bare \ {"config"}) \cup b /\ (named' => b = {})
    /\ UNCHANGED <<spec, secrets, copy, dcHash, template, pod, obj, labelled, progress, pc,
                   rc, stage, history, events>>

(* An annotation does not change the datacenter's generation: no event.     *)
AnnotateDatacenter ==
    /\ Edit /\ "datacenter" \in bare
    /\ bare' = bare \ {"datacenter"}
    /\ UNCHANGED <<spec, config, secrets, rollout, obj, labelled, progress, queue, pc, rc,
                   stage, history, events>>

LabelObject(o) ==
    /\ Edit /\ obj[o].exists /\ ~obj[o].user
    /\ obj' = [obj EXCEPT ![o].user = TRUE]
    /\ queue' = (queue \/ o \in Watched)
    /\ UNCHANGED <<user, secrets, rollout, labelled, progress, pc, rc, stage, history,
                   events>>

DeleteObject(o) ==
    /\ Edit /\ obj[o].exists
    /\ obj' = [obj EXCEPT ![o] = NoObject]
    /\ queue' = (queue \/ o \in Watched)
    /\ lost' = lost \cup ({o} \ Watched)
    /\ UNCHANGED <<user, secrets, rollout, labelled, progress, pc, rc, stage, torn, events>>

(* The managed-by label is taken off.  Pods are not watched.                *)
StripLabel(r) ==
    /\ Edit /\ r \in labelled
    /\ labelled' = labelled \ {r}
    /\ queue' = (queue \/ r # "pod")
    /\ lost' = lost \cup ({r} \cap {"pod"})
    /\ UNCHANGED <<user, secrets, rollout, obj, progress, pc, rc, stage, torn, events>>

(* A pod reads the config from the operator's secret when it starts, and    *)
(* needs the keystore for it.                                               *)
StartPod ==
    /\ copy.exists /\ keystore /\ queue' = TRUE
    /\ pod' = [hash |-> template, config |-> copy.config]
    /\ UNCHANGED <<user, secrets, named, copy, dcHash, template, obj, labelled, progress,
                   pc, rc, stage, history, edits>>

RollPod    == pod.hash # template /\ StartPod /\ UNCHANGED events
RestartPod == Event /\ pod.hash # -1 /\ pod.config # copy.config /\ StartPod

-----------------------------------------------------------------------------
(* The pass.                                                                *)

EndPass ==
    /\ pc' = "idle" /\ rc' = NoSpec
    /\ built' = NoSpec /\ todo' = <<>> /\ missing' = <<>> /\ got' = NoObject
    /\ made' = <<>>

(* An error puts the request back into the queue.                           *)
Retry == EndPass /\ queue' = TRUE

BeginPass ==
    /\ pc = "idle" /\ queue
    /\ queue' = FALSE /\ pc' = "begin" /\ rc' = spec
    /\ UNCHANGED <<user, secrets, rollout, obj, labelled, progress, stage, history, bounds>>

(* A patch of the datacenter's status leaves the pass with the datacenter   *)
(* as it is now.                                                            *)
SetProgress(p) ==
    /\ progress' = p
    /\ rc' = IF progress = p THEN rc ELSE spec

StartStage(next, list) ==
    /\ pc' = next /\ todo' = list /\ built' = rc
    /\ UNCHANGED <<user, secrets, rollout, obj, labelled, progress, queue, rc, missing, got,
                   made, history, bounds>>

StageDone(s) == pc = s /\ todo = <<>> /\ missing = <<>>

CheckHeadlessServices ==
    pc = "begin" /\ StartStage("services", ServicesOf(rc))

CheckAdditionalSeedEndpoints ==
    StageDone("services") /\ StartStage("endpoints", If(rc.seeds # 0, <<"endpoints">>))

CheckNetworkPolicies ==
    StageDone("endpoints") /\ StartStage("policies", <<"policy">>)

Writes(o, new) ==
    /\ obj' = [obj EXCEPT ![o] = new]
    /\ queue' = (queue \/ (o \in Watched /\ obj' # obj))

(* An object that is missing is created after the others are checked.       *)
CheckObject ==
    /\ todo # <<>> /\ got = NoObject
    /\ LET o == Head(todo)
       IN  CASE ~obj[o].exists ->
                  /\ missing' = Append(missing, o) /\ todo' = Tail(todo)
                  /\ UNCHANGED got
             [] obj[o].exists /\ ResourcesHaveSameHash(obj[o], Desired(o, built)) ->
                  todo' = Tail(todo) /\ UNCHANGED <<missing, got>>
             [] OTHER -> got' = obj[o] /\ UNCHANGED <<todo, missing>>
    /\ UNCHANGED <<user, secrets, rollout, obj, labelled, progress, queue, pc, rc, built,
                   made, history, bounds>>

\* Mutant: the update does not say which version it is of.
UpdateObjectUnconditionally ==
    /\ got # NoObject
    /\ Writes(Head(todo), Merged(got, Desired(Head(todo), built)))
    /\ todo' = Tail(todo) /\ got' = NoObject
    /\ UNCHANGED <<user, secrets, rollout, labelled, progress, pc, rc, built, missing,
                   made, history, bounds>>

(* The update fails if the object is no longer what was read.               *)
UpdateObject ==
    /\ got # NoObject
    /\ LET o == Head(todo)
       IN  IF obj[o] = got
             THEN /\ Writes(o, Merged(got, Desired(o, built)))
                  /\ todo' = Tail(todo) /\ got' = NoObject
                  /\ UNCHANGED <<pc, rc, built, missing, made>>
             ELSE Retry /\ UNCHANGED obj
    /\ UNCHANGED <<user, secrets, rollout, labelled, progress, history, bounds>>

CreateObject ==
    /\ todo = <<>> /\ missing # <<>>
    /\ LET o == Head(missing)
       IN  /\ Writes(o, Desired(o, built))
           /\ lost' = lost \ {o}
    /\ missing' = Tail(missing)
    /\ IF pc = "policies" THEN UNCHANGED <<progress, rc>> ELSE SetProgress("Updating")
    /\ UNCHANGED <<user, secrets, rollout, labelled, pc, built, todo, got, made,
                   torn, bounds>>

(* The status is patched if it is out of date.  The keystore is made only   *)
(* in a pass that made the CA.                                              *)
CheckInternodeCredentialCreation ==
    /\ StageDone("policies")
    /\ rc' \in {rc, spec}
    /\ ca' = TRUE /\ pc' = IF ca THEN "config" ELSE "keystore"
    /\ built' = NoSpec
    /\ UNCHANGED <<user, keystore, rollout, obj, labelled, progress, queue, todo, missing,
                   got, made, history, bounds>>

CreateCABootstrappingSecret ==
    /\ pc = "keystore" /\ pc' = "config" /\ keystore' = TRUE
    /\ UNCHANGED <<user, ca, rollout, obj, labelled, progress, queue, rc, stage, history,
                   bounds>>

-----------------------------------------------------------------------------
(* CheckConfigSecret.  Failing to annotate the user's secret is logged only.*)

(* Annotations that are nil cannot be written to.                           *)

CheckDatacenterNameAnnotation ==
    /\ "config" \notin bare
    /\ \/ named' = TRUE /\ lost' = lost \ {"config"} /\ UNCHANGED events
       \/ ~named /\ Event /\ lost' = lost \cup {"config"} /\ UNCHANGED named

\* Mutant: the hash is of a new copy always.
HashOfNewCopy == dcHash' = 0

(* The hash is of the copy as it was read: of an empty one the first time.  *)
UpdateConfigHashAnnotation ==
    /\ "datacenter" \notin bare
    /\ dcHash' = IF copy.exists THEN copy.version ELSE 0

CopyIsCurrent == copy.exists /\ copy.config = ConfigAsJSON(rc)

(* The operator panics, and makes a pass when it is started again.          *)
CheckConfigSecretPanics ==
    /\ pc = "config"
    /\ \/ "config" \in bare /\ UNCHANGED <<named, lost, events>>
       \/ CheckDatacenterNameAnnotation /\ ~CopyIsCurrent /\ "datacenter" \in bare
    /\ Retry
    /\ UNCHANGED <<user, secrets, copy, dcHash, template, pod, obj, labelled, progress,
                   torn, edits>>

(* Patching the datacenter reads it again.                                  *)
CheckConfigSecret ==
    /\ pc = "config"
    /\ CheckDatacenterNameAnnotation /\ queue' = (queue \/ named' # named)
    /\ IF CopyIsCurrent
         THEN pc' = "rack" /\ UNCHANGED <<dcHash, rc, made>>
         ELSE /\ UpdateConfigHashAnnotation
              /\ made' = ConfigAsJSON(rc) /\ rc' = spec
              /\ pc' = "copy"
    /\ UNCHANGED <<user, secrets, copy, template, pod, obj, labelled, progress, built, todo,
                   missing, got, torn, edits>>

\* Mutant: a copy that exists is not updated.
CreateConfigCopy ==
    /\ pc = "copy"
    /\ IF copy.exists
         THEN Retry /\ UNCHANGED copy
         ELSE /\ copy' = [exists |-> TRUE, config |-> made, version |-> copy.version + 1]
              /\ pc' = "rack" /\ UNCHANGED <<queue, rc, stage>>
    /\ UNCHANGED <<user, secrets, named, dcHash, template, pod, obj, labelled, progress,
                   history, bounds>>

\* Mutant: an update that fails is logged only.
WriteConfigCopyBestEffort ==
    /\ pc = "copy"
    /\ \/ /\ copy' = [exists |-> TRUE, config |-> made, version |-> copy.version + 1]
          /\ UNCHANGED events
       \/ copy.exists /\ Event /\ UNCHANGED copy
    /\ pc' = "rack" /\ UNCHANGED <<queue, rc, stage>>
    /\ UNCHANGED <<user, secrets, named, dcHash, template, pod, obj, labelled, progress,
                   history, edits>>

(* A copy that exists is updated and then created, which is an error.       *)
WriteConfigCopy ==
    /\ pc = "copy"
    /\ copy' = [exists |-> TRUE, config |-> made, version |-> copy.version + 1]
    /\ IF copy.exists THEN Retry
       ELSE pc' = "rack" /\ UNCHANGED <<queue, rc, stage>>
    /\ UNCHANGED <<user, secrets, named, dcHash, template, pod, obj, labelled, progress,
                   history, bounds>>

-----------------------------------------------------------------------------
(* The racks: the StatefulSet is created, and labelled by merging labels    *)
(* in; until its pod is up the pass is repeated.                            *)

CheckRackCreation ==
    /\ pc = "rack" /\ template = -1
    /\ template' = dcHash /\ Retry
    /\ UNCHANGED <<user, secrets, named, copy, dcHash, pod, obj, labelled, progress, history,
                   bounds>>

CheckRackLabels ==
    /\ pc = "rack" /\ template # -1
    /\ labelled' = labelled \cup {"sts"}
    /\ IF pod.hash = template
         THEN pc' = "budget" /\ queue' = (queue \/ "sts" \notin labelled) /\ UNCHANGED <<rc, stage>>
         ELSE Retry
    /\ UNCHANGED <<user, secrets, rollout, obj, progress, history, bounds>>

(* A disruption budget cannot be updated: it is deleted and created anew.   *)
CheckDcPodDisruptionBudget ==
    /\ pc = "budget"
    /\ LET desired == Desired("budget", rc)
       IN  IF obj["budget"].exists
             THEN IF ResourcesHaveSameHash(obj["budget"], desired)
                    THEN pc' = "template" /\ UNCHANGED <<obj, queue>>
                    ELSE Writes("budget", NoObject) /\ UNCHANGED pc
             ELSE Writes("budget", desired) /\ pc' = "template"
    /\ UNCHANGED <<user, secrets, rollout, labelled, progress, rc, stage, history, bounds>>

CheckRackPodTemplate ==
    /\ pc = "template"
    /\ template' = dcHash
    /\ IF template = dcHash
         THEN pc' = "podlabels" /\ UNCHANGED <<progress, queue, rc, stage>>
         ELSE progress' = "Updating" /\ Retry
    /\ UNCHANGED <<user, secrets, named, copy, dcHash, pod, obj, labelled, history, bounds>>

(* ReconcilePods goes on when a patch fails.                                *)
ReconcilePods ==
    /\ pc = "podlabels" /\ pc' = "ready"
    /\ \E failed \in SUBSET ({"pod", "pvc"} \ labelled) :
          /\ IF failed = {} THEN UNCHANGED events ELSE Event
          /\ labelled' = labelled \cup ({"pod", "pvc"} \ failed)
          /\ lost' = (lost \ {"pod", "pvc"}) \cup failed
          /\ queue' = (queue \/ "pvc" \in labelled' \ labelled)
    /\ UNCHANGED <<user, secrets, rollout, obj, progress, rc, stage, torn, edits>>

FinishPass ==
    /\ pc = "ready" /\ progress' = "Ready" /\ EndPass
    /\ UNCHANGED <<user, secrets, rollout, obj, labelled, queue, history, bounds>>

(* A call fails or the operator restarts.                                   *)
Abort ==
    /\ Event /\ Retry
    /\ torn' = torn \cup ({pc} \cap {"copy", "keystore"})
    /\ UNCHANGED <<user, secrets, rollout, obj, labelled, progress, lost, edits>>

CheckObjects == CheckObject \/ UpdateObject \/ CreateObject

ReconcileAllRacks ==
    \/ CheckInternodeCredentialCreation \/ CreateCABootstrappingSecret
    \/ CheckConfigSecret \/ CheckConfigSecretPanics \/ WriteConfigCopy
    \/ CheckRackCreation \/ CheckRackLabels \/ CheckDcPodDisruptionBudget
    \/ CheckRackPodTemplate \/ ReconcilePods \/ FinishPass

Pass ==
    \/ BeginPass
    \/ CheckHeadlessServices \/ CheckAdditionalSeedEndpoints \/ CheckNetworkPolicies
    \/ CheckObjects \/ ReconcileAllRacks

Next ==
    \/ Pass \/ Abort \/ RollPod \/ RestartPod
    \/ EditSpecField \/ AnnotateDatacenter \/ \E keeps \in BOOLEAN : EditConfig(keeps)
    \/ \E o \in Objects : LabelObject(o) \/ DeleteObject(o)
    \/ \E r \in Resources : StripLabel(r)

Spec == Init /\ [][Next]_vars

(* The worker goes on, and Kubernetes rolls the pods.                       *)
FairSpec == Spec /\ WF_vars(Pass) /\ WF_vars(RollPod)

-----------------------------------------------------------------------------
Records == [exists : BOOLEAN, extra : BOOLEAN, user : BOOLEAN]

(* Types, and: what does not exist has no content, a pod has what a         *)
(* template had, and no more than one object is in hand.                    *)
TypeOK ==
    /\ spec \in Specs /\ {rc, built} \subseteq Specs \cup {NoSpec}
    /\ config \in 0..1 /\ named \in BOOLEAN /\ bare \subseteq {"config", "datacenter"}
    /\ (named => "config" \notin bare) /\ (dcHash # -1 => "datacenter" \notin bare)
    /\ DOMAIN obj = Objects
    /\ \A o \in Objects : [f \in {"exists", "extra", "user"} |-> obj[o][f]] \in Records
    /\ \A o \in Objects : ~obj[o].exists => obj[o] = NoObject
    /\ {dcHash, template, pod.hash} \subseteq -1..copy.version
    /\ ca \in BOOLEAN /\ keystore \in BOOLEAN /\ (keystore => ca)
    /\ labelled \subseteq Resources
    /\ progress \in {"none", "Updating", "Ready"} /\ queue \in BOOLEAN
    /\ (got # NoObject => todo # <<>>)
    /\ lost \subseteq Objects \cup Resources \cup {"config"}
    /\ torn \subseteq {"copy", "keystore"}
    /\ edits \in 0..MaxEdits /\ events \in 0..MaxEvents

Settled == pc = "idle" /\ ~queue

(* The node port service has no hash: with annotations of its own, it looks *)
(* up to date always.                                                       *)
Tracked(o) == o # "nodeport" \/ ~spec.extra

UpToDate(o) ==
    /\ obj[o].exists
    /\ Tracked(o) => /\ obj[o].content = Desired(o, spec).content
                     /\ Desired(o, spec).extra => obj[o].extra

Wanted == {"cql", "seed", "all", "policy", "budget"}
             \cup IF spec.seeds # 0 THEN {"additional", "endpoints"} ELSE {}
             \cup IF spec.nodePort # 0 THEN {"nodeport"} ELSE {}

(* calculateReconciliationActions: when no pass is asked for, every object  *)
(* the spec asks for is what it says now, whatever was edited, deleted or   *)
(* failed while passes ran, the resources have their labels, and the status *)
(* says Ready.  Left out are objects the spec no longer asks for, which     *)
(* nothing deletes, and what no event or error reports.                     *)
SettledMatchesSpec ==
    Settled =>
        /\ \A o \in Wanted \ lost : UpToDate(o)
        /\ Resources \ lost \subseteq labelled
        /\ progress = "Ready"

(* CheckConfigSecret, CheckRackPodTemplate: when no pass is asked for, the  *)
(* pods run the user's config, unless a pass was cut off between the hash   *)
(* and the copy or the user's secret could not be annotated.                *)
SettledConfigRuns ==
    Settled /\ "copy" \notin torn /\ "config" \notin lost =>
        pod.config = ConfigAsJSON(spec)

(* The hash in the pod template: a pod that started with the hash that the  *)
(* datacenter has now started with the config that the copy has now.        *)
HashIdentifiesConfig ==
    pod.hash = dcHash /\ dcHash # -1 /\ "copy" \notin torn => pod.config = copy.config

(* "preserve any labels and annotations that were added to the service      *)
(* post-creation": only the user takes them away, or the replacement of the *)
(* disruption budget.                                                       *)
UserLabelsKept ==
    [][\A o \in Objects \ {"budget"} :
          obj[o].user /\ edits' = edits => obj'[o].user]_vars

(* Reconcile: the passes come to an end, though each update is an event     *)
(* that asks for a pass, and errors do; unless the keystore was never made, *)
(* or the operator panics because the user's secret or the datacenter has   *)
(* no annotations.                                                          *)
Quiesces == <>[]Settled \/ <>("keystore" \in torn) \/ <>[](bare # {})

(* The same for manifests without annotations: a counterexample.            *)
QuiescesBare == <>[]Settled \/ <>("keystore" \in torn)

(* "The operator sets a watch such that an update to the secret will        *)
(* trigger an update of the StatefulSets."                                  *)
ConfigSecretRollsOut ==
    <>[](Settled /\ "config" \notin lost => pod.config = ConfigAsJSON(spec))

=============================================================================
