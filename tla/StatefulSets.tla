---------------------------- MODULE StatefulSets ----------------------------
(***************************************************************************)
(* The StatefulSets of the racks, built from the spec of the datacenter    *)
(* while the user edits it: the admission webhook checks every edit, a     *)
(* pass creates the StatefulSets that are missing and updates, rack after  *)
(* rack, those that differ from what the spec asks for, after those that   *)
(* the user wants updated by force.  The API server refuses an update of   *)
(* the selector, the service or the claim templates.                       *)
(***************************************************************************)
EXTENDS TopologyEdits

CONSTANTS
    Clusters,     \* cluster names
    Names,        \* of volumes that the user adds or mounts
    Labels,       \* label keys that the user sets on pods
    NodeLabels,   \* label keys of workers, "zone" among them
    ZonedRacks,   \* racks with a zone in the spec
    PSP,          \* the operator runs on PSP
    ForceLists,   \* lists of racks, there or not, that the user wants forced
    MaxEdits      \* of the spec, beside those of the topology

ASSUME EditsAssumption ==
    /\ "zone" \in NodeLabels /\ PSP \in BOOLEAN /\ MaxEdits \in Nat
    /\ ForceLists \subseteq SUBSET Nat

VARIABLES
    dc,     \* the spec but for the topology
    forced, \* racks of the spec to update by force
    sts,    \* the StatefulSets, by rack; the domain are the racks that have one
    edits

allVars == <<vars, dc, forced, sts, edits>>

-----------------------------------------------------------------------------
(* The spec, with the pod template of the user: its labels, volumes and     *)
(* containers, which have the mounts of the user.                           *)
Containers == {"server-config-init", "cassandra", "server-system-logger"}

Fields ==
    [cluster    |-> Clusters,
     storage    |-> SUBSET Names,
     multiple   |-> BOOLEAN,
     sidecar    |-> BOOLEAN,
     manualAuth |-> BOOLEAN,
     pinned     |-> SUBSET NodeLabels,
     rackPinned |-> SUBSET NodeLabels,
     labels     |-> SUBSET Labels,
     volumes    |-> SUBSET Names,
     mounts     |-> SUBSET Names,
     containers |-> SUBSET Containers]

(* What the webhook says of a change; the racks are in ValidTopologyChange. *)
ValidateDatacenterFieldChanges(old, new) ==
    /\ old.cluster = new.cluster
    /\ old.multiple = new.multiple
    /\ old.storage = new.storage

-----------------------------------------------------------------------------
(* Maps and lists with names are functions; the second one of Merge wins.   *)
Merge(f, g) ==
    [k \in DOMAIN f \cup DOMAIN g |-> IF k \in DOMAIN g THEN g[k] ELSE f[k]]

All(keys, value) == [k \in keys |-> value]

RackLabels(d, r) ==
    [k \in {"cluster", "datacenter", "rack"} |->
        CASE k = "cluster"    -> <<d.cluster, 0>>
          [] k = "datacenter" -> <<"dc", 0>>
          [] k = "rack"       -> <<"rack", r>>]

ManagedBy(defunct) ==
    All({"managed-by"}, <<IF defunct THEN "cassandra-operator" ELSE "cass-operator", 0>>)

RackNodeAffinityLabels(d, r) ==
    Merge(Merge(All(d.rackPinned, <<"rack", r>>), All(d.pinned, <<"dc", 0>>)),
          All(IF r \in ZonedRacks THEN {"zone"} ELSE {}, <<"zone", r>>))

(* The keys that the pods on the same worker must not have all together;    *)
(* with none there is no rule.                                              *)
PodAntiAffinity(allow) ==
    IF allow THEN {} ELSE {"cluster", "datacenter", "rack"}

DefaultVolumes == {"server-config", "server-logs", "encryption-cred-storage"}
CertsVolume    == "management-api-server-certs-volume"
PvcName        == "server-data"

(* The volumes of the operator and the user, without those that the storage *)
(* config turns into claims.                                                *)
AddVolumes(d) == (DefaultVolumes \cup d.volumes) \ d.storage

UserMounts(d, c) == IF c \in d.containers THEN d.mounts ELSE {}

BuildInitContainers(d) ==
    All({"server-config-init"}, {"server-config"} \cup UserMounts(d, "server-config-init"))

(* The logger of the user's template is there even without the sidecar.     *)
BuildContainers(d) ==
    Merge(All({"cassandra"},
              DefaultVolumes \cup {PvcName} \cup UserMounts(d, "cassandra") \cup d.storage),
          All({c \in {"server-system-logger"} : d.sidecar \/ c \in d.containers},
              {"server-logs"} \cup UserMounts(d, "server-system-logger") \cup d.storage))

\* Mutant: the labels of the user's template win.
PodLabelsOfUser(d, r) ==
    Merge(Merge(RackLabels(d, r), ManagedBy(FALSE)), All(d.labels, <<"user", 0>>))

PodLabels(d, r) ==
    Merge(All(d.labels, <<"user", 0>>), Merge(RackLabels(d, r), ManagedBy(FALSE)))

BuildPodTemplateSpec(d, r) ==
    [labels       |-> PodLabels(d, r),
     nodes        |-> RackNodeAffinityLabels(d, r),
     antiAffinity |-> PodAntiAffinity(d.multiple),
     volumes      |-> AddVolumes(d),
     mounts       |-> Merge(BuildInitContainers(d), BuildContainers(d))]

(* Certificates for a management API that asks for them.                    *)
AddManagementApiServerSecurity(d, t) ==
    IF d.manualAuth
      THEN [t EXCEPT !.volumes = @ \cup {CertsVolume},
                     !.mounts  = Merge(@, All({"cassandra"}, @["cassandra"] \cup {CertsVolume}))]
      ELSE t

AddPSPLabels(labels) ==
    IF PSP THEN Merge(labels, All({"extension-id", "instance-id"}, <<"psp", 0>>)) ELSE labels

AddStatefulSetChanges(s) ==
    [s EXCEPT !.claimLabels     = AddPSPLabels(@),
              !.template.labels = AddPSPLabels(@)]

VolumeClaimTemplates(d) == {PvcName} \cup d.storage

NewStatefulSet(d, r, defunct) ==
    AddStatefulSetChanges(
        [selector    |-> RackLabels(d, r),
         serviceName |-> d.cluster,
         claims      |-> VolumeClaimTemplates(d),
         claimLabels |-> Merge(RackLabels(d, r), ManagedBy(defunct)),
         template    |-> AddManagementApiServerSecurity(d, BuildPodTemplateSpec(d, r))])

UsesDefunctPvcManagedByLabel(s) == s.claimLabels["managed-by"][1] = "cassandra-operator"

\* Mutant: the label that old versions put on claims is not kept.
DesiredForgettingDefunct(r) == NewStatefulSet(dc, r, FALSE)

(* What the spec asks of a StatefulSet that exists.                         *)
DesiredStatefulSet(r) == NewStatefulSet(dc, r, UsesDefunctPvcManagedByLabel(sts[r]))

(* What a forced update asks of it, whatever label its claims have.         *)
ForcedStatefulSet(r) == NewStatefulSet(dc, r, FALSE)

(* The fields that the API server lets nobody change.                       *)
Immutable(s) == <<s.selector, s.serviceName, s.claims, s.claimLabels>>

Accepts(old, new) == Immutable(old) = Immutable(new)

-----------------------------------------------------------------------------
(* A datacenter is new, or from a version of the operator with the defunct  *)
(* label on claims.                                                         *)
BuildInit ==
    /\ Init
    /\ \E c \in Clusters, s \in SUBSET Names, m \in BOOLEAN :
          dc = [cluster |-> c, storage |-> s, multiple |-> m,
                sidecar |-> TRUE, manualAuth |-> FALSE, pinned |-> {}, rackPinned |-> {},
                labels |-> {}, volumes |-> {}, mounts |-> {}, containers |-> {}]
    /\ sts \in {<<>>, [r \in 1..racks |-> NewStatefulSet(dc, r, TRUE)]}
    /\ forced = {}
    /\ edits = 0

(* A mount of the user is of a volume that the user, the storage config or  *)
(* the operator defines.                                                    *)
MountsOwn(d) == d.mounts \subseteq d.volumes \cup d.storage \cup DefaultVolumes

EditSpec ==
    /\ edits < MaxEdits /\ edits' = edits + 1
    /\ \E f \in DOMAIN Fields : \E v \in Fields[f] :
          LET new == [dc EXCEPT ![f] = v]
          IN  /\ new # dc /\ MountsOwn(new)
              /\ ValidateDatacenterFieldChanges(dc, new)
              /\ dc' = new
    /\ UNCHANGED <<vars, forced, sts>>

EditForceUpgradeRacks ==
    /\ forced' \in ForceLists /\ forced' # forced
    /\ UNCHANGED <<vars, dc, sts, edits>>

EditRacks ==
    /\ EditTopology \/ EditStopped
    /\ UNCHANGED <<dc, forced, sts, edits>>

CheckRackCreation(r) ==
    /\ r \notin DOMAIN sts
    /\ \A q \in 1..(r - 1) : q \in DOMAIN sts
    /\ sts' = [q \in DOMAIN sts \cup {r} |->
                 IF q = r THEN NewStatefulSet(dc, r, FALSE) ELSE sts[q]]
    /\ UNCHANGED <<vars, dc, forced, edits>>

(* The first update that is refused ends the pass, and the list stays.  The *)
(* next passes come no further.                                             *)
CheckRackForceUpgrade ==
    LET listed  == forced \cap 1..racks
        refused == {r \in listed : ~Accepts(sts[r], ForcedStatefulSet(r))}
        updated == {r \in listed : \A q \in refused : r < q}
    IN  /\ forced # {}
        /\ 1..racks \subseteq DOMAIN sts
        /\ sts' = [r \in DOMAIN sts |-> IF r \in updated THEN ForcedStatefulSet(r) ELSE sts[r]]
        /\ forced' = IF refused = {} THEN {} ELSE forced
        /\ UNCHANGED <<vars, dc, edits>>

(* A pass updates one rack.  A refused update ends the pass, and the next   *)
(* one tries again.  RollingUpdate has the wait for the pods and canaries.  *)
CheckRackPodTemplate(r) ==
    /\ forced = {}
    /\ 1..racks \subseteq DOMAIN sts
    /\ \A q \in 1..(r - 1) : sts[q] = DesiredStatefulSet(q)
    /\ sts[r] # DesiredStatefulSet(r)
    /\ sts' = IF Accepts(sts[r], DesiredStatefulSet(r))
                THEN [sts EXCEPT ![r] = DesiredStatefulSet(r)] ELSE sts
    /\ UNCHANGED <<vars, dc, forced, edits>>

(* A pass with fewer nodes than racks ends with an error before that.       *)
Pass ==
    /\ ~TooFewNodes(size, racks)
    /\ \/ \E r \in 1..racks : CheckRackCreation(r) \/ CheckRackPodTemplate(r)
       \/ CheckRackForceUpgrade

BuildNext == EditSpec \/ EditForceUpgradeRacks \/ EditRacks \/ Pass

BuildSpec == BuildInit /\ [][BuildNext]_allVars

-----------------------------------------------------------------------------
Matches(selector, labels) ==
    \A k \in DOMAIN selector : k \in DOMAIN labels /\ labels[k] = selector[k]

(* CheckRackPodTemplate never asks for an update that the API server        *)
(* refuses, whatever edits the webhook has let through, whatever was forced *)
(* and whichever version of the operator created the StatefulSet.  Nor does *)
(* CheckRackForceUpgrade, but where the claims have the defunct label.      *)
UpdatesAccepted ==
    \A r \in DOMAIN sts :
        /\ Accepts(sts[r], DesiredStatefulSet(r))
        /\ ~UsesDefunctPvcManagedByLabel(sts[r]) => Accepts(sts[r], ForcedStatefulSet(r))

(* "we must preserve the old labels in this case", reconcile_racks.go:174:  *)
(* forced updates are accepted as well.  They are not, where the claims     *)
(* have the defunct label, and no later pass comes further than that.       *)
ForcedUpdatesAccepted ==
    \A r \in forced \cap DOMAIN sts : Accepts(sts[r], ForcedStatefulSet(r))

(* Every mount in a container has a volume or a claim, whatever the user's  *)
(* template and the storage config override.                                *)
MountsResolve ==
    \A r \in DOMAIN sts :
        \A c \in DOMAIN sts[r].template.mounts :
            sts[r].template.mounts[c] \subseteq sts[r].template.volumes \cup sts[r].claims

(* The pods of a StatefulSet match its own selector and no other's, and the *)
(* labels by which services, the disruption budget and the operator look    *)
(* for the pods and claims of the datacenter, whatever the labels of the    *)
(* user's template.                                                         *)
SelectorsMatch ==
    \A r, q \in DOMAIN sts :
        /\ Matches(sts[q].selector, sts[r].template.labels) <=> q = r
        /\ Matches([k \in {"datacenter"} |-> <<"dc", 0>>], sts[r].claimLabels)
        /\ Matches([k \in {"cluster", "datacenter"} |-> RackLabels(dc, r)[k]],
                   sts[r].template.labels)

(* No two server pods can share a worker unless the spec allows it, also    *)
(* while some racks have seen the edits and others have not.                *)
PodsSpread ==
    ~dc.multiple =>
        \A r, q \in DOMAIN sts :
            /\ sts[r].template.antiAffinity # {}
            /\ sts[r].template.antiAffinity \subseteq DOMAIN sts[q].template.labels

(* The pods of a rack with a zone stay where their volumes are: in it.      *)
RackStaysInZone ==
    \A r \in DOMAIN sts \cap ZonedRacks : sts[r].template.nodes["zone"] = <<"zone", r>>
=============================================================================
