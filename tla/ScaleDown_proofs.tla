-------------------------- MODULE ScaleDown_proofs --------------------------
(***************************************************************************)
(* Theorems about scaling a rack down, for racks of any size, any loads,   *)
(* and any number of edits, evictions, failed calls and queries and passes *)
(* cut short.                                                              *)
(*                                                                         *)
(* Both promises rest on what the label Decommissioning means: at most one *)
(* pod has it, it is the last of the StatefulSet or was, and the           *)
(* ScalingDown condition is True; and on what a running pass knows of the  *)
(* pods and nodes it listed, while they go, come back, leave and join.     *)
(***************************************************************************)
EXTENDS ScaleDown, TLAPS

(* A step that names no prover is checked by Zenon.                         *)
USE Zenon

IsLabelled(p, i) == p[i].label = "Decommissioning"

IsMember(i) == node[i].state \in {"normal", "leaving"}

(* The StatefulSet has no place for the pod, or its claim goes.             *)
Released(i) == i >= replicas \/ claim[i] # "bound"

(* A pod that is gone has no label, one that was not started did not join,  *)
(* and the node of a ready one is a member.                                 *)
PodsInv ==
    \A i \in Ordinals :
        /\ pods[i].phase = "gone" => pods[i].label = "Ready-to-Start"
        /\ pods[i].label = "Ready-to-Start" => ~pods[i].ready /\ ~pods[i].joined
        /\ pods[i].ready => IsMember(i)

(* What the label means, in the list of a pass too.                         *)
MayLabel(i) ==
    /\ scalingDown /\ i >= 1 /\ i >= replicas - 1
    /\ claim[i] # "bound" => i >= replicas \/ i \in unseen

LabelInv ==
    /\ \A i \in Ordinals : IsLabelled(pods, i) => MayLabel(i)
    /\ \A i, j \in Ordinals : IsLabelled(pods, i) /\ IsLabelled(pods, j) => i = j

(* Where there is no replica or no claim the node has left, or never was    *)
(* and there is no pod, or was taken for gone.                              *)
ClaimInv ==
    \A i \in Ordinals : Released(i) =>
        \/ i \in unseen \/ node[i].state = "left"
        \/ node[i].state = "none" /\ pods[i].phase = "gone"

(* The steps of a pass that finds no node leaving, and of those the ones    *)
(* that find every pod ready.                                               *)
ReadySteps == {"nodeStatuses", "decommissionNodes", "onRack", "label"}
LateSteps  == {"rackScale", "podsReady", "clear"} \cup ReadySteps

(* What a pass knows of the pods it listed: those that have a label now had *)
(* it then.                                                                 *)
ListedInv ==
    pc # "idle" =>
        /\ desired \in 1..MaxSize /\ rcSize \in 1..MaxSize
        /\ \A i \in Ordinals :
              /\ rcPods[i].phase = "gone" => rcPods[i].label = "Ready-to-Start"
              /\ rcPods[i].label = "Ready-to-Start" => ~rcPods[i].ready /\ ~rcPods[i].joined
              /\ pods[i].label \in {rcPods[i].label, "Ready-to-Start"}
              /\ IsLabelled(rcPods, i) => MayLabel(i)
              /\ IsLabelled(rcPods, i) /\ rcNode[i].state = "left" =>
                    \/ i \in unseen \/ node[i].state = "left"
                    \/ i >= replicas /\ node[i].state = "none" /\ pods[i].phase = "gone"
              /\ rcPods[i].ready /\ claim[i] # "bound" => i \in unseen \/ IsLabelled(rcPods, i)
        /\ \A i, j \in Ordinals : IsLabelled(rcPods, i) /\ IsLabelled(rcPods, j) => i = j

(* What the steps have established.                                         *)
StepsInv ==
    /\ pc \in LateSteps => \A i \in Ordinals : ~IsLabelled(rcPods, i)
    /\ pc \in {"deletePvcs", "deleteStatus"} =>
          /\ \E i \in Listed : IsLabelled(rcPods, i)
          /\ \A i \in Ordinals : IsLabelled(rcPods, i) => i >= replicas
    /\ pc \in ReadySteps => \A i \in Listed : rcPods[i].ready
    /\ pc \in {"onRack", "label"} => scalingDown /\ replicas > 1
    /\ pc = "label" => Last \in Listed

Inv == PodsInv /\ LabelInv /\ ClaimInv /\ ListedInv /\ StepsInv

-----------------------------------------------------------------------------
(* The data: the nodes that may be handing theirs over.                     *)
Going(i) == IsLabelled(pods, i) \/ (pc = "label" /\ i = Last)

(* Only a node that the operator told to can hand its data over ...         *)
LeavingInv ==
    \A i \in Ordinals : node[i].state = "leaving" /\ pods[i].ready => Going(i)

(* ... which every other member has room for, ...                           *)
RoomInv ==
    \A i, j \in Ordinals :
        Going(i) /\ IsMember(i) /\ IsMember(j) /\ i # j /\ j \notin unchecked =>
            node[i].load + node[j].load <= Capacity

(* ... and no node joins meanwhile: those that were started are there.      *)
StartedInv ==
    /\ pc # "idle" => \A i \in Ordinals :
          rcPods[i].ready /\ pods[i].label # "Ready-to-Start" => node[i].state # "none"
    /\ (\E i \in Ordinals : IsLabelled(pods, i)) \/ pc \in ReadySteps =>
          \A i \in Ordinals : pods[i].label = "Started" => node[i].state # "none"

(* A pass that finds no node leaving has the loads of now, if any.          *)
SeenInv ==
    pc \notin {"idle", "label"} /\ (\A i \in Ordinals : ~IsLabelled(rcPods, i)) =>
        \A i \in Ordinals : rcNode[i].state # "none" => node[i].load <= rcNode[i].load

DataInv == LeavingInv /\ RoomInv /\ SeenInv /\ NodesFit

-----------------------------------------------------------------------------
(* Types.                                                                   *)

PodRecords == [phase  : {"gone", "present", "terminating"},
               label  : {"Ready-to-Start", "Started", "Decommissioning"},
               ready  : BOOLEAN,
               joined : BOOLEAN]
NodeRecords == [state : States, id : Nat, load : Nat]

Typed ==
    /\ size \in 1..MaxSize /\ replicas \in 1..MaxSize /\ total \in Digits
    /\ scalingDown \in BOOLEAN /\ valid \in BOOLEAN
    /\ hostId \in [Ordinals -> Nat]
    /\ pods \in [Ordinals -> PodRecords] /\ rcPods \in [Ordinals -> PodRecords]
    /\ node \in [Ordinals -> NodeRecords] /\ rcNode \in [Ordinals -> NodeRecords]
    /\ claim \in [Ordinals -> {"none", "bound", "deleting"}]
    /\ pc \in Steps /\ unseen \subseteq Ordinals /\ unchecked \subseteq Ordinals
    /\ desired \in 0..MaxSize /\ rcSize \in 0..MaxSize
    /\ edits \in 0..MaxEdits /\ events \in 0..MaxEvents

LEMMA TypedIsTypeOK == Typed => TypeOK
  BY DEF Typed, TypeOK, PodRecords, NodeRecords

LEMMA Constants ==
    /\ MaxSize \in Nat \ {0} /\ Capacity \in Nat /\ Loads \subseteq Nat /\ Digits \subseteq Nat
    /\ \A n \in Digits : n <= Capacity
    /\ InitialSizes \subseteq 1..MaxSize /\ MaxEdits \in Nat /\ MaxEvents \in Nat
    /\ Ordinals \subseteq Nat /\ \A i \in Ordinals : i < MaxSize
  BY ConstantsAssumption, SMT DEF Ordinals

LEMMA Blanks ==
    /\ GonePod \in PodRecords /\ UpPod \in PodRecords /\ NoNode \in NodeRecords
    /\ [i \in Ordinals |-> GonePod] \in [Ordinals -> PodRecords]
    /\ [i \in Ordinals |-> NoNode] \in [Ordinals -> NodeRecords]
  BY DEF GonePod, UpPod, NoNode, PodRecords, NodeRecords, States

-----------------------------------------------------------------------------
(* The members' volumes.                                                    *)

LEMMA InitInv == Init => Typed /\ Inv
  <1> SUFFICES ASSUME Init PROVE Typed /\ Inv
    OBVIOUS
  <1> USE Constants
  <1>1. /\ size \in InitialSizes /\ replicas = size /\ pc = "idle"
        /\ scalingDown = FALSE /\ valid = TRUE /\ desired = 0 /\ rcSize = 0
        /\ unseen = {} /\ unchecked = {} /\ edits = 0 /\ events = 0 /\ total \in Digits
        /\ claim = [i \in Ordinals |-> IF i < size THEN "bound" ELSE "none"]
        /\ hostId = [i \in Ordinals |-> IF i < size THEN 1 ELSE 0]
        /\ pods = [i \in Ordinals |-> IF i < size THEN UpPod ELSE GonePod]
    BY DEF Init
  <1>2. \A i \in Ordinals :
           /\ pods[i] \in PodRecords
           /\ i < size => pods[i].phase = "present" /\ pods[i].label = "Started"
                          /\ pods[i].ready /\ pods[i].joined
           /\ ~(i < size) => pods[i].phase = "gone" /\ pods[i].label = "Ready-to-Start"
                             /\ ~pods[i].ready /\ ~pods[i].joined
    BY <1>1, Blanks DEF UpPod, GonePod
  <1>3. PICK load \in [Ordinals -> Loads] :
           node = [i \in Ordinals |->
                     IF i < size THEN [state |-> "normal", id |-> 1, load |-> load[i]]
                     ELSE NoNode]
    BY DEF Init
  <1>4. \A i \in Ordinals :
           /\ node[i] \in NodeRecords
           /\ i < size => node[i].state = "normal"
           /\ ~(i < size) => node[i].state = "none"
    BY <1>3, Blanks DEF NoNode, NodeRecords, States
  <1>5. Typed
    <2>1. pods \in [Ordinals -> PodRecords]
      BY <1>1, <1>2
    <2>2. node \in [Ordinals -> NodeRecords]
      BY <1>3, <1>4
    <2>3. hostId \in [Ordinals -> Nat] /\ claim \in [Ordinals -> {"none", "bound", "deleting"}]
      BY <1>1
    <2>4. rcPods \in [Ordinals -> PodRecords] /\ rcNode \in [Ordinals -> NodeRecords]
      BY Blanks DEF Init
    <2>6. size \in 1..MaxSize
      BY <1>1
    <2>7. pc \in Steps /\ valid \in BOOLEAN /\ scalingDown \in BOOLEAN
      BY <1>1 DEF Steps
    <2>5. /\ unseen \subseteq Ordinals /\ unchecked \subseteq Ordinals
          /\ desired \in 0..MaxSize /\ rcSize \in 0..MaxSize
          /\ edits \in 0..MaxEdits /\ events \in 0..MaxEvents
      BY <1>1, SMT
    <2> QED
      BY <1>1, <2>1, <2>2, <2>3, <2>4, <2>5, <2>6, <2>7 DEF Typed
  <1>6. PodsInv /\ LabelInv /\ ClaimInv
    BY <1>1, <1>2, <1>4, SMT DEF PodsInv, LabelInv, ClaimInv, MayLabel, Released, IsLabelled, IsMember
  <1>7. ListedInv /\ StepsInv
    BY <1>1 DEF ListedInv, StepsInv, LateSteps, ReadySteps
  <1> QED
    BY <1>5, <1>6, <1>7 DEF Inv

LEMMA CreatePodInv ==
    ASSUME Typed, Inv, NEW i \in Ordinals, CreatePod(i)
    PROVE  Typed' /\ Inv'
  <1> USE Constants
  <1>0. PodsInv /\ LabelInv /\ ClaimInv /\ ListedInv /\ StepsInv
    BY DEF Inv
  <1>1. /\ i < replicas /\ pods[i].phase = "gone"
        /\ pods' = [pods EXCEPT ![i].phase = "present"]
        /\ claim' = [claim EXCEPT ![i] = "bound"]
        /\ UNCHANGED <<size, total, replicas, dc, node, pc, rc, history, bounds>>
    BY DEF CreatePod
  <1>2. /\ pods \in [Ordinals -> PodRecords]
        /\ claim \in [Ordinals -> {"none", "bound", "deleting"}]
        /\ replicas \in Nat
    BY SMT DEF Typed
  <1>3. /\ pods' \in [Ordinals -> PodRecords]
        /\ \A j \in Ordinals : j # i => pods'[j] = pods[j]
        /\ pods'[i].phase = "present" /\ pods'[i].label = pods[i].label
        /\ pods'[i].ready = pods[i].ready /\ pods'[i].joined = pods[i].joined
    BY <1>1, <1>2 DEF PodRecords
  <1>4. /\ claim' \in [Ordinals -> {"none", "bound", "deleting"}]
        /\ \A j \in Ordinals : j # i => claim'[j] = claim[j]
        /\ claim'[i] = "bound"
    BY <1>1, <1>2
  <1>5. Typed'
    BY <1>1, <1>2, <1>3, <1>4 DEF Typed, dc, rc, history, bounds
  <1>6. PodsInv' /\ LabelInv' /\ ClaimInv'
    BY <1>0, <1>1, <1>2, <1>3, <1>4, SMT
       DEF PodsInv, LabelInv, ClaimInv, MayLabel, Released, IsLabelled, IsMember, dc, history
  <1>7. ListedInv'
    BY <1>0, <1>1, <1>2, <1>3, <1>4, SMT DEF ListedInv, MayLabel, IsLabelled, dc, rc, history
  <1>8. StepsInv'
    BY <1>0, <1>1, <1>2, <1>3, SMT DEF StepsInv, IsLabelled, dc, rc, Listed, Last
  <1> QED
    BY <1>5, <1>6, <1>7, <1>8 DEF Inv

(* A pod is asked to go: nothing but its phase changes.                     *)
LEMMA TerminatingInv ==
    ASSUME Typed, Inv, NEW i \in Ordinals, TerminatePod(i) \/ EvictPod(i)
    PROVE  Typed' /\ Inv'
  <1> USE Constants
  <1>0. PodsInv /\ LabelInv /\ ClaimInv /\ ListedInv /\ StepsInv
    BY DEF Inv
  <1>1. /\ pods[i].phase = "present"
        /\ pods' = [pods EXCEPT ![i].phase = "terminating"]
        /\ UNCHANGED <<size, total, replicas, dc, claim, node, pc, rc, history, edits>>
        /\ events' \in {events, events + 1} /\ (events' # events => events < MaxEvents)
    BY DEF TerminatePod, EvictPod, Event, bounds
  <1>2. /\ pods \in [Ordinals -> PodRecords]
        /\ replicas \in Nat
    BY SMT DEF Typed
  <1>3. /\ pods' \in [Ordinals -> PodRecords]
        /\ \A j \in Ordinals : j # i => pods'[j] = pods[j]
        /\ pods'[i].phase = "terminating" /\ pods'[i].label = pods[i].label
        /\ pods'[i].ready = pods[i].ready /\ pods'[i].joined = pods[i].joined
    BY <1>1, <1>2 DEF PodRecords
  <1>4. Typed'
    BY <1>1, <1>2, <1>3, SMT DEF Typed, dc, rc, history
  <1>5. PodsInv' /\ LabelInv' /\ ClaimInv'
    BY <1>0, <1>1, <1>2, <1>3, SMT
       DEF PodsInv, LabelInv, ClaimInv, MayLabel, Released, IsLabelled, IsMember, dc, history
  <1>6. ListedInv'
    BY <1>0, <1>1, <1>2, <1>3, SMT DEF ListedInv, MayLabel, IsLabelled, dc, rc, history
  <1>7. StepsInv'
    BY <1>0, <1>1, <1>2, <1>3, SMT DEF StepsInv, IsLabelled, dc, rc, Listed, Last
  <1> QED
    BY <1>4, <1>5, <1>6, <1>7 DEF Inv

LEMMA PodRemovedInv ==
    ASSUME Typed, Inv, NEW i \in Ordinals, PodRemoved(i)
    PROVE  Typed' /\ Inv'
  <1> USE Constants
  <1>0. PodsInv /\ LabelInv /\ ClaimInv /\ ListedInv /\ StepsInv
    BY DEF Inv
  <1>1. /\ pods[i].phase = "terminating"
        /\ pods' = [pods EXCEPT ![i] = GonePod]
        /\ UNCHANGED <<size, total, replicas, dc, claim, node, pc, rc, history, bounds>>
    BY DEF PodRemoved
  <1>2. /\ pods \in [Ordinals -> PodRecords]
        /\ replicas \in Nat
    BY SMT DEF Typed
  <1>3. /\ pods' \in [Ordinals -> PodRecords]
        /\ \A j \in Ordinals : j # i => pods'[j] = pods[j]
        /\ pods'[i].phase = "gone" /\ pods'[i].label = "Ready-to-Start"
        /\ ~pods'[i].ready /\ ~pods'[i].joined
    BY <1>1, <1>2, Blanks DEF GonePod
  <1>4. Typed'
    BY <1>1, <1>2, <1>3 DEF Typed, dc, rc, history, bounds
  <1>5. PodsInv' /\ LabelInv' /\ ClaimInv'
    BY <1>0, <1>1, <1>2, <1>3, SMT
       DEF PodsInv, LabelInv, ClaimInv, MayLabel, Released, IsLabelled, IsMember, dc, history
  <1>6. ListedInv'
    BY <1>0, <1>1, <1>2, <1>3, SMT DEF ListedInv, MayLabel, IsLabelled, dc, rc, history
  <1>7. StepsInv'
    BY <1>0, <1>1, <1>2, <1>3 DEF StepsInv, IsLabelled, dc, rc, Listed, Last
  <1> QED
    BY <1>4, <1>5, <1>6, <1>7 DEF Inv

LEMMA ClaimRemovedInv ==
    ASSUME Typed, Inv, NEW i \in Ordinals, ClaimRemoved(i)
    PROVE  Typed' /\ Inv'
  <1> USE Constants
  <1>0. PodsInv /\ LabelInv /\ ClaimInv /\ ListedInv /\ StepsInv
    BY DEF Inv
  <1>1. /\ claim[i] = "deleting" /\ pods[i].phase = "gone"
        /\ claim' = [claim EXCEPT ![i] = "none"]
        /\ node' = [node EXCEPT ![i] = [NoNode EXCEPT !.id = node[i].id]]
        /\ UNCHANGED <<size, total, replicas, dc, pods, pc, rc, history, bounds>>
    BY DEF ClaimRemoved
  <1>2. /\ node \in [Ordinals -> NodeRecords]
        /\ claim \in [Ordinals -> {"none", "bound", "deleting"}]
        /\ replicas \in Nat
    BY SMT DEF Typed
  <1>3. /\ node' \in [Ordinals -> NodeRecords]
        /\ \A j \in Ordinals : j # i => node'[j] = node[j]
        /\ node'[i].state = "none"
    BY <1>1, <1>2 DEF NoNode, NodeRecords, States
  <1>4. Typed'
    BY <1>1, <1>2, <1>3 DEF Typed, dc, rc, history, bounds
  <1>5. PodsInv' /\ LabelInv' /\ ClaimInv'
    BY <1>0, <1>1, <1>2, <1>3, SMT
       DEF PodsInv, LabelInv, ClaimInv, MayLabel, Released, IsLabelled, IsMember, dc, history
  <1>6. ListedInv'
    BY <1>0, <1>1, <1>2, <1>3, SMT DEF ListedInv, MayLabel, IsLabelled, dc, rc, history
  <1>7. StepsInv'
    BY <1>0, <1>1, <1>2, <1>3 DEF StepsInv, IsLabelled, dc, rc, Listed, Last
  <1> QED
    BY <1>4, <1>5, <1>6, <1>7 DEF Inv

LEMMA NodeComesUpInv ==
    ASSUME Typed, Inv, NEW i \in Ordinals, NodeComesUp(i)
    PROVE  Typed' /\ Inv'
  <1> USE Constants
  <1>0. PodsInv /\ LabelInv /\ ClaimInv /\ ListedInv /\ StepsInv
    BY DEF Inv
  <1>1. /\ pods[i].phase = "present" /\ pods[i].label = "Started" /\ node[i].state # "left"
        /\ pods' = [pods EXCEPT ![i].ready = TRUE, ![i].joined = TRUE]
        /\ node' = [node EXCEPT ![i].state = "normal",
                                ![i].id = IF node[i].state = "none" THEN @ + 1 ELSE @]
        /\ UNCHANGED <<size, total, replicas, dc, claim, pc, rc, history, bounds>>
    BY DEF NodeComesUp
  <1>2. /\ node \in [Ordinals -> NodeRecords] /\ pods \in [Ordinals -> PodRecords]
        /\ replicas \in Nat
    BY SMT DEF Typed
  <1>3. /\ pods' \in [Ordinals -> PodRecords]
        /\ \A j \in Ordinals : j # i => pods'[j] = pods[j]
        /\ pods'[i].phase = "present" /\ pods'[i].label = "Started"
        /\ pods'[i].ready /\ pods'[i].joined
    BY <1>1, <1>2 DEF PodRecords
  <1>4. /\ node' \in [Ordinals -> NodeRecords]
        /\ \A j \in Ordinals : j # i => node'[j] = node[j]
        /\ node'[i].state = "normal" /\ node'[i].load = node[i].load
    <2> DEFINE n == IF node[i].state = "none" THEN node[i].id + 1 ELSE node[i].id
    <2>1. node' = [node EXCEPT ![i].state = "normal", ![i].id = n]
      BY <1>1
    <2>2. n \in Nat
      BY <1>2, SMT DEF NodeRecords
    <2> HIDE DEF n
    <2> QED
      BY <1>2, <2>1, <2>2 DEF NodeRecords, States
  <1>5. Typed'
    BY <1>1, <1>2, <1>3, <1>4 DEF Typed, dc, rc, history, bounds
  <1>6. Released(i) => i \in unseen
    BY <1>0, <1>1 DEF PodsInv, ClaimInv
  <1>7. PodsInv' /\ LabelInv' /\ ClaimInv'
    BY <1>0, <1>1, <1>2, <1>3, <1>4, <1>6, SMT
       DEF PodsInv, LabelInv, ClaimInv, MayLabel, Released, IsLabelled, IsMember, dc, history
  <1>8. ListedInv'
    BY <1>0, <1>1, <1>2, <1>3, <1>4, SMT DEF ListedInv, MayLabel, IsLabelled, dc, rc, history
  <1>9. StepsInv'
    BY <1>0, <1>1, <1>2, <1>3 DEF StepsInv, IsLabelled, dc, rc, Listed, Last
  <1> QED
    BY <1>5, <1>7, <1>8, <1>9 DEF Inv

(* What NodeLeaves does to the nodes: the one that leaves loses its data,   *)
(* and no other member gets more than that.                                 *)
LEMMA Handover ==
    ASSUME Typed, NEW i \in Ordinals, NodeLeaves(i)
    PROVE  /\ node' \in [Ordinals -> NodeRecords]
           /\ node'[i].state = "left" /\ node'[i].load = 0
           /\ \A j \in Ordinals \ {i} :
                 /\ node'[j].state = node[j].state /\ node'[j].id = node[j].id
                 /\ IF IsMember(j) THEN node'[j].load <= node[j].load + node[i].load
                                   ELSE node'[j].load = node[j].load
                 /\ node[i].load = 0 => node'[j].load = node[j].load
  <1>1. PICK part \in [Members \ {i} -> 0..node[i].load] :
           node' = [j \in Ordinals |->
                        CASE j = i -> [node[i] EXCEPT !.state = "left", !.load = 0]
                          [] j \in DOMAIN part -> [node[j] EXCEPT !.load = @ + part[j]]
                          [] OTHER -> node[j]]
    BY DEF NodeLeaves
  <1>2. node \in [Ordinals -> NodeRecords]
    BY DEF Typed
  <1>3. \A j \in Ordinals : node[j].load \in Nat /\ node[j].id \in Nat /\ node[j].state \in States
    BY <1>2 DEF NodeRecords
  <1>4. /\ DOMAIN part = Members \ {i}
        /\ \A j \in Members \ {i} : part[j] \in Nat /\ part[j] <= node[i].load
    BY <1>3, SMT
  <1>5. node'[i] = [node[i] EXCEPT !.state = "left", !.load = 0]
    BY <1>1
  <1>6. \A j \in Members \ {i} : node'[j] = [node[j] EXCEPT !.load = @ + part[j]]
    BY <1>1, <1>4 DEF Members
  <1>7. \A j \in Ordinals \ {i} : j \notin Members => node'[j] = node[j]
    BY <1>1, <1>4 DEF Members
  <1>8. /\ node'[i] \in NodeRecords
        /\ node'[i].state = "left" /\ node'[i].load = 0
    <2>1. node[i] \in NodeRecords
      BY <1>2
    <2>2. ASSUME NEW r \in NodeRecords
          PROVE  LET q == [r EXCEPT !.state = "left", !.load = 0]
                 IN  q \in NodeRecords /\ q.state = "left" /\ q.load = 0
      BY DEF NodeRecords, States
    <2> QED
      BY <1>5, <2>1, <2>2
  <1>9. ASSUME NEW j \in Members \ {i}
        PROVE  /\ node'[j] \in NodeRecords
               /\ node'[j].state = node[j].state /\ node'[j].id = node[j].id
               /\ node'[j].load = node[j].load + part[j]
    <2>1. node[j] \in NodeRecords /\ part[j] \in Nat
      BY <1>2, <1>4 DEF Members
    <2>2. node'[j] = [node[j] EXCEPT !.load = node[j].load + part[j]]
      BY <1>6
    <2> QED
      BY <2>1, <2>2, SMT DEF NodeRecords
  <1>10. DOMAIN node' = Ordinals /\ node' = [j \in Ordinals |-> node'[j]]
    BY <1>1
  <1>11. node' \in [Ordinals -> NodeRecords]
    <2>1. \A j \in Ordinals : node'[j] \in NodeRecords
      BY <1>2, <1>7, <1>8, <1>9
    <2> QED
      BY <1>10, <2>1
  <1>12. ASSUME NEW j \in Ordinals \ {i}
         PROVE  /\ node'[j].state = node[j].state /\ node'[j].id = node[j].id
                /\ IF IsMember(j) THEN node'[j].load <= node[j].load + node[i].load
                                  ELSE node'[j].load = node[j].load
                /\ node[i].load = 0 => node'[j].load = node[j].load
    <2>1. CASE j \in Members
      BY <1>3, <1>4, <1>9, <2>1, SMT DEF Members, IsMember
    <2>2. CASE j \notin Members
      BY <1>7, <2>2 DEF Members, IsMember
    <2> QED
      BY <2>1, <2>2
  <1> QED
    BY <1>8, <1>11, <1>12

LEMMA NodeLeavesInv ==
    ASSUME Typed, Inv, NEW i \in Ordinals, NodeLeaves(i)
    PROVE  Typed' /\ Inv'
  <1> USE Constants
  <1>0. PodsInv /\ LabelInv /\ ClaimInv /\ ListedInv /\ StepsInv
    BY DEF Inv
  <1>1. /\ node[i].state = "leaving" /\ pods[i].phase = "present"
        /\ pods' = [pods EXCEPT ![i].ready = FALSE]
        /\ UNCHANGED <<size, total, replicas, dc, claim, pc, rc, history, bounds>>
    BY DEF NodeLeaves
  <1>2. pods \in [Ordinals -> PodRecords] /\ replicas \in Nat
    BY SMT DEF Typed
  <1>3. /\ pods' \in [Ordinals -> PodRecords]
        /\ \A j \in Ordinals : j # i => pods'[j] = pods[j]
        /\ pods'[i].phase = "present" /\ pods'[i].label = pods[i].label
        /\ ~pods'[i].ready /\ pods'[i].joined = pods[i].joined
    BY <1>1, <1>2 DEF PodRecords
  <1>4. /\ node' \in [Ordinals -> NodeRecords]
        /\ \A j \in Ordinals : j # i => node'[j].state = node[j].state
        /\ node'[i].state = "left"
    BY Handover
  <1>5. Typed'
    BY <1>1, <1>2, <1>3, <1>4 DEF Typed, dc, rc, history, bounds
  <1>6. PodsInv' /\ LabelInv' /\ ClaimInv'
    BY <1>0, <1>1, <1>2, <1>3, <1>4, SMT
       DEF PodsInv, LabelInv, ClaimInv, MayLabel, Released, IsLabelled, IsMember, dc, history
  <1>7. ListedInv'
    BY <1>0, <1>1, <1>2, <1>3, <1>4, SMT DEF ListedInv, MayLabel, IsLabelled, dc, rc, history
  <1>8. StepsInv'
    BY <1>0, <1>1, <1>2, <1>3 DEF StepsInv, IsLabelled, dc, rc, Listed, Last
  <1> QED
    BY <1>5, <1>6, <1>7, <1>8 DEF Inv

-----------------------------------------------------------------------------
(* The pass.                                                                *)

(* A step that leaves pods, claims, replicas and condition alone, and among *)
(* the nodes at most makes a member leave.                                  *)
SameNodes ==
    \A j \in Ordinals : \/ node'[j].state = node[j].state
                        \/ IsMember(j) /\ IsMember(j)'

LEMMA SameWorld ==
    ASSUME Typed, Inv, UNCHANGED <<pods, claim, replicas, scalingDown, unseen>>, SameNodes
    PROVE  PodsInv' /\ LabelInv' /\ ClaimInv'
  BY SMT DEF Inv, PodsInv, LabelInv, ClaimInv, SameNodes, MayLabel, Released, IsLabelled, IsMember

LEMMA PassEnds ==
    ASSUME EndPass
    PROVE  /\ ListedInv' /\ StepsInv' /\ pc' \in Steps
           /\ desired' \in 0..MaxSize /\ rcSize' \in 0..MaxSize
           /\ rcPods' \in [Ordinals -> PodRecords] /\ rcNode' \in [Ordinals -> NodeRecords]
  <1>1. pc' = "idle" /\ desired' = 0 /\ rcSize' = 0
    BY DEF EndPass
  <1>2. desired' \in 0..MaxSize /\ rcSize' \in 0..MaxSize
    BY <1>1, Constants, SMT
  <1>3. rcPods' \in [Ordinals -> PodRecords] /\ rcNode' \in [Ordinals -> NodeRecords]
    BY Blanks DEF EndPass
  <1>4. ListedInv' /\ StepsInv'
    BY <1>1 DEF ListedInv, StepsInv, LateSteps, ReadySteps
  <1> QED
    BY <1>1, <1>2, <1>3, <1>4 DEF Steps

LEMMA PassGoesOn ==
    ASSUME Typed, Inv, pc # "idle", UNCHANGED <<pods, claim, unseen>>,
           UNCHANGED <<rcPods, rcNode, desired>>, SameNodes,
           rcSize' \in {rcSize, size},
           \/ UNCHANGED <<replicas, scalingDown>>
           \/ \A i \in Ordinals : ~IsLabelled(rcPods, i)
    PROVE  ListedInv' /\ desired' \in 0..MaxSize /\ rcSize' \in 0..MaxSize
  <1>1. rcSize' \in 1..MaxSize /\ desired' \in 1..MaxSize
    BY DEF Inv, ListedInv, Typed
  <1>2. ListedInv'
    BY <1>1, SMT DEF Inv, ListedInv, SameNodes, MayLabel, IsLabelled, IsMember
  <1> QED
    BY <1>1, <1>2, Constants, SMT

LEMMA BeginPassInv ==
    ASSUME Typed, Inv, BeginPass
    PROVE  Typed' /\ Inv'
  <1>0. PodsInv /\ LabelInv /\ ClaimInv
    BY DEF Inv
  <1>1. /\ pc' = "updateStatus" /\ desired' = size /\ rcSize' = size
        /\ rcPods' = pods /\ EndpointData
        /\ unseen' = {i \in unseen : i >= replicas \/ claim[i] # "bound"}
        /\ UNCHANGED <<size, total, replicas, dc, world, unchecked, edits>>
    BY DEF BeginPass
  <1>2. /\ rcNode' \in [Ordinals -> NodeRecords]
        /\ \A i \in Ordinals : rcNode'[i].state = "left" => node[i].state = "left"
    <2>1. CASE rcNode' = node
      BY <2>1 DEF Typed
    <2>2. CASE rcNode' = [i \in Ordinals |-> NoNode]
      BY <2>2, Blanks DEF NoNode
    <2> QED
      BY <1>1, <2>1, <2>2 DEF EndpointData
  <1>3. events' \in 0..MaxEvents
    BY <1>1, Constants, SMT DEF EndpointData, Event, Typed
  <1>4. \A i \in Ordinals : i \in unseen' <=> i \in unseen /\ Released(i)
    BY <1>1 DEF Released
  <1>5. Typed'
    <2>1. desired' \in 0..MaxSize /\ rcSize' \in 0..MaxSize
      BY <1>1, Constants, SMT DEF Typed
    <2> QED
      BY <1>1, <1>2, <1>3, <2>1 DEF Typed, Steps, dc, world
  <1>6. PodsInv' /\ LabelInv' /\ ClaimInv'
    BY <1>0, <1>1, <1>4 DEF PodsInv, LabelInv, ClaimInv, MayLabel, Released, IsLabelled, IsMember,
       dc, world
  <1>7. ListedInv'
    <2>1. \A i \in Ordinals : pods[i].ready /\ claim[i] # "bound" => i \in unseen'
      BY <1>0, <1>4 DEF PodsInv, ClaimInv, Released, IsMember
    <2>2. \A i \in Ordinals : IsLabelled(pods, i) => MayLabel(i)'
      BY <1>6, <1>1 DEF LabelInv, IsLabelled, world
    <2>3. desired' \in 1..MaxSize /\ rcSize' \in 1..MaxSize
      BY <1>1 DEF Typed
    <2> QED
      BY <1>0, <1>1, <1>2, <2>1, <2>2, <2>3 DEF PodsInv, LabelInv, ListedInv, IsLabelled, world
  <1>8. StepsInv'
    BY <1>1 DEF StepsInv, LateSteps, ReadySteps
  <1> QED
    BY <1>5, <1>6, <1>7, <1>8 DEF Inv

LEMMA UpdateStatusInv ==
    ASSUME Typed, Inv, UpdateStatus
    PROVE  Typed' /\ Inv'
  <1>1. /\ pc = "updateStatus" /\ pc' = "decommissioning" /\ hostId' = UpdateCassandraNodeStatus
        /\ rcSize' \in {rcSize, size}
        /\ UNCHANGED <<size, total, replicas, scalingDown, valid, world, history, bounds>>
        /\ UNCHANGED <<desired, rcPods, rcNode>>
    BY DEF UpdateStatus, Goto, GotoPatched, rc
  <1>2. SameNodes
    BY <1>1 DEF SameNodes, world
  <1>3. PodsInv' /\ LabelInv' /\ ClaimInv'
    BY <1>1, <1>2, SameWorld DEF world, history
  <1>4. ListedInv' /\ desired' \in 0..MaxSize /\ rcSize' \in 0..MaxSize
    BY <1>1, <1>2, PassGoesOn DEF world, history
  <1>5. StepsInv'
    BY <1>1 DEF StepsInv, LateSteps, ReadySteps
  <1>6. hostId' \in [Ordinals -> Nat]
    <2>1. \A i \in Ordinals : node[i].id \in Nat /\ hostId[i] \in Nat
      BY DEF Typed, NodeRecords
    <2> QED
      BY <1>1, <2>1 DEF UpdateCassandraNodeStatus
  <1>7. Typed'
    BY <1>1, <1>4, <1>6 DEF Typed, Steps, world, history, bounds
  <1> QED
    BY <1>3, <1>4, <1>5, <1>7 DEF Inv

(* The call makes a node that is up leave, or does nothing.                 *)
LEMMA Called ==
    ASSUME Typed, NEW i \in Ordinals, CallDecommissionNodeEndpoint(i)
    PROVE  /\ node' \in [Ordinals -> NodeRecords] /\ SameNodes
           /\ events' \in 0..MaxEvents
           /\ \A j \in Ordinals : node'[j].load = node[j].load /\ node'[j].id = node[j].id
           /\ \A j \in Ordinals : node'[j].state # node[j].state =>
                 j = i /\ node[j].state = "normal" /\ node'[j].state = "leaving" /\ pods[j].ready
  <1>1. \/ node' = node
        \/ /\ node' = [node EXCEPT ![i].state = "leaving"]
           /\ node[i].state = "normal" /\ pods[i].ready
    BY DEF CallDecommissionNodeEndpoint
  <1>2. events' \in 0..MaxEvents
    BY Constants, SMT DEF CallDecommissionNodeEndpoint, Event, Typed
  <1>3. node \in [Ordinals -> NodeRecords]
    BY DEF Typed
  <1>4. CASE node' = node
    BY <1>2, <1>3, <1>4 DEF SameNodes
  <1>5. CASE /\ node' = [node EXCEPT ![i].state = "leaving"]
             /\ node[i].state = "normal" /\ pods[i].ready
    <2>1. /\ node' \in [Ordinals -> NodeRecords]
          /\ \A j \in Ordinals : j # i => node'[j] = node[j]
          /\ node'[i].state = "leaving"
          /\ node'[i].load = node[i].load /\ node'[i].id = node[i].id
      BY <1>3, <1>5 DEF NodeRecords, States
    <2>2. SameNodes
      BY <1>5, <2>1 DEF SameNodes, IsMember
    <2> QED
      BY <1>2, <1>5, <2>1, <2>2
  <1> QED
    BY <1>1, <1>4, <1>5

(* Without a label in the list there is none.                               *)
LEMMA NoneLabelled ==
    ASSUME Inv, pc # "idle", \A i \in Ordinals : ~IsLabelled(rcPods, i)
    PROVE  \A i \in Ordinals : ~IsLabelled(pods, i)
  BY DEF Inv, ListedInv, IsLabelled

LEMMA CheckDecommissioningNodesInv ==
    ASSUME Typed, Inv, CheckDecommissioningNodes
    PROVE  Typed' /\ Inv'
  <1> DEFINE labelled == {i \in Listed : rcPods[i].label = "Decommissioning"}
  <1> USE Constants
  <1>0. PodsInv /\ LabelInv /\ ClaimInv /\ ListedInv /\ StepsInv
    BY DEF Inv
  <1>1. /\ pc = "decommissioning"
        /\ UNCHANGED <<size, total, valid, hostId, pods, claim, unchecked, edits>>
    BY DEF CheckDecommissioningNodes
  <1>2. labelled = {i \in Ordinals : IsLabelled(rcPods, i)}
    BY <1>0, <1>1 DEF ListedInv, IsLabelled, Listed
  <1>4. ASSUME \A i \in Ordinals : ~IsLabelled(rcPods, i),
               pc' = "rackScale", rcSize' \in {rcSize, size}, scalingDown' \in {scalingDown, FALSE},
               UNCHANGED <<replicas, node, unseen, events, desired, rcPods, rcNode>>
        PROVE  Typed' /\ Inv'
    <2>0. \A i \in Ordinals : ~IsLabelled(pods, i)
      BY <1>1, <1>4, NoneLabelled
    <2>1. SameNodes
      BY <1>4 DEF SameNodes
    <2>2. PodsInv' /\ LabelInv' /\ ClaimInv'
      BY <1>0, <1>1, <1>4, <2>0 DEF PodsInv, LabelInv, ClaimInv, Released, IsLabelled, IsMember
    <2>3. ListedInv' /\ desired' \in 0..MaxSize /\ rcSize' \in 0..MaxSize
      BY <1>1, <1>4, <2>1, PassGoesOn
    <2>4. StepsInv'
      BY <1>1, <1>4 DEF StepsInv, ReadySteps, IsLabelled
    <2>5. Typed'
      BY <1>1, <1>4, <2>3 DEF Typed, Steps
    <2> QED
      BY <2>2, <2>3, <2>4, <2>5 DEF Inv
  <1>5. CASE /\ ~scalingDown /\ Goto("rackScale")
             /\ UNCHANGED <<replicas, scalingDown, node, unseen, events>>
    <2>1. \A i \in Ordinals : ~IsLabelled(rcPods, i)
      BY <1>0, <1>1, <1>5 DEF ListedInv, MayLabel
    <2> QED
      BY <1>4, <1>5, <2>1 DEF Goto, rc
  <1>6. CASE /\ scalingDown /\ labelled = {}
             /\ scalingDown' = FALSE /\ GotoPatched("rackScale")
             /\ UNCHANGED <<replicas, node, unseen, events>>
    BY <1>2, <1>4, <1>6 DEF GotoPatched
  <1>7. ASSUME NEW i \in labelled, ~IsDoneDecommissioning(i),
               IF HasStartedDecommissioning(i) THEN UNCHANGED <<node, events>>
               ELSE CallDecommissionNodeEndpoint(i),
               EndPass, UNCHANGED <<replicas, scalingDown, unseen>>
        PROVE  Typed' /\ Inv'
    <2>1. /\ node' \in [Ordinals -> NodeRecords] /\ SameNodes /\ events' \in 0..MaxEvents
      <3>1. CASE UNCHANGED <<node, events>>
        BY <3>1 DEF SameNodes, Typed
      <3>2. CASE CallDecommissionNodeEndpoint(i)
        BY <1>2, <3>2, Called
      <3> QED
        BY <1>7, <3>1, <3>2
    <2>2. PodsInv' /\ LabelInv' /\ ClaimInv'
      BY <1>1, <1>7, <2>1, SameWorld
    <2>3. ListedInv' /\ StepsInv'
      BY <1>7, PassEnds
    <2>4. Typed'
      BY <1>1, <1>7, <2>1, PassEnds DEF Typed
    <2> QED
      BY <2>2, <2>3, <2>4 DEF Inv
  <1>8. ASSUME NEW i \in labelled, scalingDown, IsDoneDecommissioning(i),
               replicas' = IF RemovesReplicaOf(i) THEN replicas - 1 ELSE replicas,
               Goto("deletePvcs"),
               unseen' = unseen \cup IF Endpoint(i).state = "none" THEN {i} ELSE {},
               UNCHANGED <<scalingDown, node, events>>
        PROVE  Typed' /\ Inv'
    <2>1. i \in Ordinals /\ i \in Listed /\ IsLabelled(rcPods, i) /\ MayLabel(i)
      BY <1>0, <1>1, <1>2 DEF ListedInv, Listed, IsLabelled
    <2>2. i \in unseen' \/ rcNode[i].state = "left"
      <3>1. CASE Endpoint(i).state = "none"
        BY <1>8, <3>1
      <3>2. CASE Endpoint(i).state = "left"
        BY <3>2 DEF Endpoint, NoNode
      <3> QED
        BY <1>8, <3>1, <3>2 DEF IsDoneDecommissioning
    <2>3. /\ unseen' \subseteq Ordinals /\ \A j \in unseen : j \in unseen'
          /\ rcPods' = rcPods /\ rcNode' = rcNode /\ desired' = desired /\ rcSize' = rcSize
          /\ pc' = "deletePvcs"
      BY <1>8, <2>1 DEF Goto, rc, Typed
    <2>4. \/ i \in unseen' \/ node[i].state = "left"
          \/ node[i].state = "none" /\ pods[i].phase = "gone"
      BY <1>0, <1>1, <2>1, <2>2, <2>3 DEF ListedInv
    <2>5. /\ replicas \in 1..MaxSize /\ replicas' \in 1..MaxSize
          /\ replicas' <= replicas /\ i >= replicas'
          /\ \A j \in Ordinals : j >= replicas' => j = i \/ j >= replicas
          /\ \A j \in Ordinals : j >= replicas => j >= replicas'
          /\ \A j \in Ordinals : j >= replicas - 1 => j >= replicas' - 1
      <3>1. i \in Nat /\ i >= 1 /\ i >= replicas - 1 /\ \A j \in Ordinals : j \in Nat
        BY <2>1 DEF MayLabel
      <3>2. replicas' = IF i = replicas - 1 THEN replicas - 1 ELSE replicas
        BY <1>8 DEF RemovesReplicaOf
      <3>3. replicas \in 1..MaxSize
        BY DEF Typed
      <3> QED
        BY <3>1, <3>2, <3>3, SMT
    <2>6. PodsInv' /\ ClaimInv'
      BY <1>0, <1>1, <1>8, <2>3, <2>4, <2>5 DEF PodsInv, ClaimInv, Released, IsMember
    <2>7. LabelInv'
      BY <1>0, <1>1, <1>8, <2>3, <2>5 DEF LabelInv, MayLabel, IsLabelled
    <2>8. ListedInv' /\ desired' \in 0..MaxSize /\ rcSize' \in 0..MaxSize
      <3>1. ListedInv'
        BY <1>0, <1>1, <1>8, <2>3, <2>5 DEF ListedInv, MayLabel, IsLabelled
      <3> QED
        BY <2>3, <3>1 DEF Typed
    <2>9. StepsInv'
      <3>1. \A j \in Ordinals : IsLabelled(rcPods, j) => j = i
        BY <1>0, <1>1, <2>1 DEF ListedInv
      <3> QED
        BY <2>1, <2>3, <2>5, <3>1 DEF StepsInv, IsLabelled, LateSteps, ReadySteps, Listed
    <2>10. Typed'
      BY <1>1, <1>8, <2>3, <2>5, <2>8 DEF Typed, Steps
    <2> QED
      BY <2>6, <2>7, <2>8, <2>9, <2>10 DEF Inv
  <1> QED
    BY <1>5, <1>6, <1>7, <1>8 DEF CheckDecommissioningNodes

(* The pod that is cleaned up after is the one that was labelled.           *)
LEMMA CleanedReleased ==
    ASSUME Typed, Inv, pc \in {"deletePvcs", "deleteStatus"}
    PROVE  Cleaned \in Ordinals /\ IsLabelled(rcPods, Cleaned) /\ Cleaned >= replicas
  <1>0. ListedInv /\ StepsInv
    BY DEF Inv
  <1>1. PICK i \in Listed : IsLabelled(rcPods, i)
    BY <1>0 DEF StepsInv
  <1>2. Cleaned \in Listed /\ rcPods[Cleaned].label = "Decommissioning"
    BY <1>1 DEF Cleaned, IsLabelled
  <1>3. Cleaned \in Ordinals /\ IsLabelled(rcPods, Cleaned)
    BY <1>2 DEF Listed, IsLabelled
  <1> HIDE DEF Cleaned
  <1> QED
    BY <1>0, <1>3 DEF StepsInv

LEMMA DeletePodPvcsInv ==
    ASSUME Typed, Inv, DeletePodPvcs
    PROVE  Typed' /\ Inv'
  <1>0. PodsInv /\ LabelInv /\ ClaimInv /\ ListedInv /\ StepsInv
    BY DEF Inv
  <1>1. /\ pc = "deletePvcs"
        /\ UNCHANGED <<size, total, replicas, scalingDown, valid, hostId, pods, node, unseen>>
        /\ UNCHANGED <<unchecked, bounds>>
        /\ \/ EndPass /\ UNCHANGED claim
           \/ Goto("deleteStatus") /\ claim' = [claim EXCEPT ![Cleaned] = "deleting"]
    BY DEF DeletePodPvcs, dc, history
  <1>2. Cleaned \in Ordinals /\ IsLabelled(rcPods, Cleaned) /\ Cleaned >= replicas
    BY <1>1, CleanedReleased
  <1>4. CASE EndPass /\ UNCHANGED claim
    <2>1. PodsInv' /\ LabelInv' /\ ClaimInv'
      BY <1>1, <1>4, SameWorld DEF SameNodes
    <2>2. Typed'
      BY <1>1, <1>4, PassEnds DEF Typed, bounds
    <2> QED
      BY <1>4, <2>1, <2>2, PassEnds DEF Inv
  <1>5. CASE Goto("deleteStatus") /\ claim' = [claim EXCEPT ![Cleaned] = "deleting"]
    <2>1. /\ claim' \in [Ordinals -> {"none", "bound", "deleting"}]
          /\ \A j \in Ordinals : j # Cleaned => claim'[j] = claim[j]
      BY <1>2, <1>5 DEF Typed
    <2>2. pc' = "deleteStatus" /\ UNCHANGED <<desired, rcSize, rcPods, rcNode>>
      BY <1>5 DEF Goto, rc
    <2> HIDE DEF Cleaned
    <2>3. PodsInv' /\ LabelInv' /\ ClaimInv'
      BY <1>0, <1>1, <1>2, <2>1
         DEF PodsInv, LabelInv, ClaimInv, MayLabel, Released, IsLabelled, IsMember
    <2>4. ListedInv'
      BY <1>0, <1>1, <1>2, <2>1, <2>2 DEF ListedInv, MayLabel, IsLabelled
    <2>5. StepsInv'
      BY <1>0, <1>1, <2>2 DEF StepsInv, IsLabelled, LateSteps, ReadySteps, Listed
    <2>6. Typed'
      BY <1>1, <2>1, <2>2 DEF Typed, Steps, bounds
    <2> QED
      BY <2>3, <2>4, <2>5, <2>6 DEF Inv
  <1> QED
    BY <1>1, <1>4, <1>5

(* The steps that end the pass and change only the datacenter's status.     *)
LEMMA StatusOnlyInv ==
    ASSUME Typed, Inv, EndPass, UNCHANGED <<size, total, replicas, world, unseen>>,
           scalingDown' = scalingDown \/ pc = "clear",
           scalingDown' \in BOOLEAN, valid' \in BOOLEAN, hostId' \in [Ordinals -> Nat],
           unchecked' \subseteq Ordinals,
           edits' \in 0..MaxEdits, events' \in 0..MaxEvents
    PROVE  Typed' /\ Inv'
  <1>1. PodsInv' /\ LabelInv' /\ ClaimInv'
    <2>1. CASE scalingDown' = scalingDown
      BY <2>1, SameWorld DEF SameNodes, world
    <2>2. CASE pc = "clear"
      <3>1. \A i \in Ordinals : ~IsLabelled(pods, i)
        BY <2>2, NoneLabelled DEF Inv, StepsInv, LateSteps
      <3> QED
        BY <3>1 DEF Inv, PodsInv, LabelInv, ClaimInv, Released, IsLabelled, IsMember, world
    <2> QED
      BY <2>1, <2>2
  <1>2. Typed'
    BY PassEnds DEF Typed, world
  <1> QED
    BY <1>1, <1>2, PassEnds DEF Inv

LEMMA DeleteNodeStatusInv ==
    ASSUME Typed, Inv, DeleteNodeStatus
    PROVE  Typed' /\ Inv'
  <1>1. hostId' \in [Ordinals -> Nat]
    <2>1. hostId' = [hostId EXCEPT ![Cleaned] = 0]
      BY DEF DeleteNodeStatus
    <2> HIDE DEF Cleaned
    <2> QED
      BY <2>1 DEF Typed
  <1> QED
    BY <1>1, StatusOnlyInv DEF DeleteNodeStatus, Typed, history, bounds

LEMMA CheckClearActionConditionsInv ==
    ASSUME Typed, Inv, CheckClearActionConditions
    PROVE  Typed' /\ Inv'
  BY StatusOnlyInv DEF CheckClearActionConditions, Typed, history, bounds

LEMMA AbortInv ==
    ASSUME Typed, Inv, Abort
    PROVE  Typed' /\ Inv'
  <1>1. events' \in 0..MaxEvents
    BY Constants, SMT DEF Abort, Event, Typed
  <1> QED
    BY <1>1, StatusOnlyInv DEF Abort, Typed, dc, history

LEMMA CheckRackScaleInv ==
    ASSUME Typed, Inv, CheckRackScale
    PROVE  Typed' /\ Inv'
  <1>0. PodsInv /\ LabelInv /\ ClaimInv /\ ListedInv /\ StepsInv
    BY DEF Inv
  <1>1. /\ pc = "rackScale" /\ pc' = "podsReady" /\ rcSize' \in {rcSize, size}
        /\ UNCHANGED <<size, total, dc, world, history, bounds>>
        /\ UNCHANGED <<desired, rcPods, rcNode>>
        /\ replicas' = IF replicas < desired THEN desired ELSE replicas
    BY DEF CheckRackScale, Goto, GotoPatched, rc
  <1>2. SameNodes
    BY <1>1 DEF SameNodes, world
  <1>3. \A i \in Ordinals : ~IsLabelled(pods, i) /\ ~IsLabelled(rcPods, i)
    BY <1>0, <1>1, NoneLabelled DEF StepsInv, LateSteps
  <1>4. replicas' \in 1..MaxSize /\ replicas \in 1..MaxSize /\ replicas' >= replicas
    BY <1>0, <1>1, SMT DEF Typed, ListedInv
  <1>5. PodsInv' /\ LabelInv' /\ ClaimInv'
    <2>1. PodsInv'
      BY <1>0, <1>1 DEF PodsInv, IsMember, world
    <2>2. \A j \in Ordinals : j >= replicas' => j >= replicas
      BY <1>4, Constants, SMT
    <2>3. LabelInv'
      BY <1>0, <1>1, <1>3 DEF LabelInv, IsLabelled, world
    <2>4. ClaimInv'
      BY <1>0, <1>1, <2>2 DEF ClaimInv, Released, world, history
    <2> QED
      BY <2>1, <2>3, <2>4
  <1>6. ListedInv' /\ desired' \in 0..MaxSize /\ rcSize' \in 0..MaxSize
    BY <1>1, <1>2, <1>3, PassGoesOn DEF world, history
  <1>7. StepsInv'
    BY <1>1, <1>3 DEF StepsInv, ReadySteps, IsLabelled, world
  <1>8. Typed'
    <2>1. pc' \in Steps
      BY <1>1 DEF Steps
    <2>2. /\ size' = size /\ total' = total /\ scalingDown' = scalingDown /\ valid' = valid
          /\ hostId' = hostId /\ pods' = pods /\ claim' = claim /\ node' = node
          /\ rcPods' = rcPods /\ rcNode' = rcNode /\ unseen' = unseen
          /\ unchecked' = unchecked /\ edits' = edits /\ events' = events
      BY <1>1 DEF dc, world, history, bounds
    <2> QED
      BY <1>4, <1>6, <2>1, <2>2 DEF Typed
  <1> QED
    BY <1>5, <1>6, <1>7, <1>8 DEF Inv

(* A step of the pass that goes on without touching anything.               *)
LEMMA GoesOnInv ==
    ASSUME Typed, Inv, pc \in LateSteps, pc' \in Steps \ {"idle"},
           UNCHANGED <<size, total, replicas, dc, world, history, bounds>>,
           UNCHANGED rc, StepsInv'
    PROVE  Typed' /\ Inv'
  <1>1. SameNodes /\ pc # "idle"
    BY DEF SameNodes, world, LateSteps, ReadySteps
  <1>2. PodsInv' /\ LabelInv' /\ ClaimInv'
    BY <1>1, SameWorld DEF dc, world, history
  <1>3. ListedInv' /\ desired' \in 0..MaxSize /\ rcSize' \in 0..MaxSize
    BY <1>1, PassGoesOn DEF dc, world, rc, history
  <1>4. Typed'
    BY <1>3 DEF Typed, dc, world, rc, history, bounds
  <1> QED
    BY <1>2, <1>3, <1>4 DEF Inv

LEMMA CheckPodsReadyInv ==
    ASSUME Typed, Inv, CheckPodsReady
    PROVE  Typed' /\ Inv'
  <1> DEFINE down  == {i \in Listed : ~rcPods[i].ready}
             fresh == {i \in down : rcPods[i].label = "Ready-to-Start" /\ pods[i].phase = "present"}
  <1>0. PodsInv /\ LabelInv /\ ClaimInv /\ ListedInv /\ StepsInv
    BY DEF Inv
  <1>1. /\ pc = "podsReady"
        /\ UNCHANGED <<size, total, replicas, dc, claim, node, history, bounds>>
    BY DEF CheckPodsReady
  <1>2. CASE EndPass /\ UNCHANGED pods
    BY <1>1, <1>2, StatusOnlyInv DEF Typed, dc, world, history, bounds
  <1>3. ASSUME EndPass, NEW i \in fresh, pods' = [pods EXCEPT ![i].label = "Started"]
        PROVE  Typed' /\ Inv'
    <2>1. i \in Ordinals /\ pods[i].phase = "present"
      BY DEF Listed
    <2>2. pods \in [Ordinals -> PodRecords]
      BY DEF Typed
    <2>3. /\ pods' \in [Ordinals -> PodRecords]
          /\ \A j \in Ordinals : j # i => pods'[j] = pods[j]
          /\ pods'[i].phase = "present" /\ pods'[i].label = "Started"
          /\ pods'[i].ready = pods[i].ready /\ pods'[i].joined = pods[i].joined
      BY <1>3, <2>1, <2>2 DEF PodRecords
    <2>4. \A j \in Ordinals : ~IsLabelled(pods, j)
      BY <1>0, <1>1, NoneLabelled DEF StepsInv, LateSteps
    <2>5. PodsInv' /\ LabelInv' /\ ClaimInv'
      <3>1. PodsInv'
        BY <1>0, <1>1, <2>1, <2>3 DEF PodsInv, IsMember
      <3>2. LabelInv'
        BY <1>0, <1>1, <2>3, <2>4 DEF LabelInv, IsLabelled
      <3>3. ClaimInv'
        BY <1>0, <1>1, <2>1, <2>3 DEF ClaimInv, Released, history
      <3> QED
        BY <3>1, <3>2, <3>3
    <2>6. Typed'
      BY <1>1, <1>3, <2>3, PassEnds DEF Typed, dc, history, bounds
    <2> QED
      BY <1>3, <2>5, <2>6, PassEnds DEF Inv
  <1>4. CASE down = {} /\ Goto("nodeStatuses") /\ UNCHANGED pods
    <2>1. StepsInv'
      BY <1>0, <1>1, <1>4 DEF StepsInv, LateSteps, ReadySteps, IsLabelled, Goto, rc, Listed
    <2> QED
      BY <1>1, <1>4, <2>1, GoesOnInv DEF LateSteps, Steps, Goto, world
  <1> QED
    BY <1>2, <1>3, <1>4 DEF CheckPodsReady

LEMMA CheckCassandraNodeStatusesInv ==
    ASSUME Typed, Inv, CheckCassandraNodeStatuses
    PROVE  Typed' /\ Inv'
  <1>1. /\ pc = "nodeStatuses"
        /\ UNCHANGED <<size, total, replicas, dc, world, history, bounds>>
    BY DEF CheckCassandraNodeStatuses
  <1>2. CASE EndPass
    BY <1>1, <1>2, StatusOnlyInv DEF Typed, dc, world, history, bounds
  <1>3. CASE Goto("decommissionNodes")
    <2>1. StepsInv'
      BY <1>1, <1>3 DEF Inv, StepsInv, LateSteps, ReadySteps, IsLabelled, Goto, rc, Listed
    <2> QED
      BY <1>1, <1>3, <2>1, GoesOnInv DEF LateSteps, ReadySteps, Steps, Goto
  <1> QED
    BY <1>2, <1>3 DEF CheckCassandraNodeStatuses

LEMMA DecommissionNodesInv ==
    ASSUME Typed, Inv, DecommissionNodes
    PROVE  Typed' /\ Inv'
  <1>0. PodsInv /\ LabelInv /\ ClaimInv /\ ListedInv /\ StepsInv
    BY DEF Inv
  <1>1. /\ pc = "decommissionNodes"
        /\ UNCHANGED <<size, total, replicas, valid, hostId, world, history, bounds>>
    BY DEF DecommissionNodes
  <1>2. /\ \A i \in Ordinals : ~IsLabelled(pods, i) /\ ~IsLabelled(rcPods, i)
        /\ \A i \in Listed : rcPods[i].ready
    BY <1>0, <1>1, NoneLabelled DEF StepsInv, LateSteps, ReadySteps
  <1>3. CASE Goto("clear") /\ UNCHANGED scalingDown
    <2>1. StepsInv'
      BY <1>1, <1>2, <1>3 DEF StepsInv, LateSteps, ReadySteps, IsLabelled, Goto, rc
    <2> QED
      BY <1>1, <1>3, <2>1, GoesOnInv DEF LateSteps, ReadySteps, Steps, Goto, dc
  <1>4. CASE /\ replicas > rcSize /\ scalingDown' = TRUE /\ pc' = "onRack"
             /\ rcSize' \in {rcSize, size} /\ UNCHANGED <<desired, rcPods, rcNode>>
    <2>1. SameNodes
      BY <1>1 DEF SameNodes, world
    <2>2. PodsInv' /\ LabelInv' /\ ClaimInv'
      BY <1>0, <1>1, <1>2, <1>4
         DEF PodsInv, LabelInv, ClaimInv, Released, IsLabelled, IsMember, world, history
    <2>3. ListedInv' /\ desired' \in 0..MaxSize /\ rcSize' \in 0..MaxSize
      BY <1>1, <1>2, <1>4, <2>1, PassGoesOn DEF world, history
    <2>4. replicas > 1
      BY <1>0, <1>1, <1>4, SMT DEF Typed, ListedInv
    <2>5. StepsInv'
      BY <1>1, <1>2, <1>4, <2>4 DEF StepsInv, IsLabelled, Listed
    <2>6. Typed'
      BY <1>1, <1>4, <2>3 DEF Typed, Steps, world, history, bounds
    <2> QED
      BY <2>2, <2>3, <2>5, <2>6 DEF Inv
  <1>5. replicas \in Nat /\ rcSize \in Nat
    BY SMT DEF Typed
  <1>6. CASE replicas <= rcSize
    BY <1>3, <1>6 DEF DecommissionNodes
  <1>7. CASE ~(replicas <= rcSize)
    <2>1. scalingDown' = TRUE /\ (Goto("onRack") \/ GotoPatched("onRack"))
      BY <1>7 DEF DecommissionNodes
    <2>2. /\ pc' = "onRack" /\ rcSize' \in {rcSize, size}
          /\ UNCHANGED <<desired, rcPods, rcNode>>
      BY <2>1 DEF Goto, GotoPatched, rc
    <2>3. replicas > rcSize
      BY <1>5, <1>7, SMT
    <2> QED
      BY <1>4, <2>1, <2>2, <2>3
  <1> QED
    BY <1>6, <1>7

LEMMA DecommissionNodeOnRackInv ==
    ASSUME Typed, Inv, DecommissionNodeOnRack
    PROVE  Typed' /\ Inv'
  <1>0. PodsInv /\ LabelInv /\ ClaimInv /\ ListedInv /\ StepsInv
    BY DEF Inv
  <1>1. /\ pc = "onRack" /\ unchecked' \in {unchecked, unchecked \cup NotLookedAt}
        /\ UNCHANGED <<size, total, replicas, scalingDown, hostId, pods, claim, unseen, edits>>
    BY DEF DecommissionNodeOnRack
  <1>2. unchecked' \subseteq Ordinals
    BY <1>1 DEF NotLookedAt, Members, Typed
  <1>3. CASE EndPass /\ valid' \in {valid, FALSE} /\ UNCHANGED <<node, events>>
    BY <1>1, <1>2, <1>3, StatusOnlyInv DEF Typed, world
  <1>4. CASE /\ Last \in Listed /\ CallDecommissionNodeEndpoint(Last)
             /\ Goto("label") /\ UNCHANGED valid
    <2>1. Last \in Ordinals
      BY <1>4 DEF Listed
    <2>2. /\ node' \in [Ordinals -> NodeRecords] /\ SameNodes /\ events' \in 0..MaxEvents
      BY <1>4, <2>1, Called
    <2>3. PodsInv' /\ LabelInv' /\ ClaimInv'
      BY <1>1, <2>2, SameWorld
    <2>4. ListedInv' /\ desired' \in 0..MaxSize /\ rcSize' \in 0..MaxSize
      BY <1>1, <1>4, <2>2, PassGoesOn DEF Goto, rc
    <2>5. StepsInv'
      BY <1>0, <1>1, <1>4 DEF StepsInv, LateSteps, ReadySteps, IsLabelled, Goto, rc, Listed, Last
    <2>6. Typed'
      BY <1>1, <1>2, <1>4, <2>2, <2>4 DEF Typed, Steps, Goto, rc
    <2> QED
      BY <2>3, <2>4, <2>5, <2>6 DEF Inv
  <1> QED
    BY <1>3, <1>4 DEF DecommissionNodeOnRack

LEMMA LabelDecommissioningInv ==
    ASSUME Typed, Inv, LabelDecommissioning
    PROVE  Typed' /\ Inv'
  <1>0. PodsInv /\ LabelInv /\ ClaimInv /\ ListedInv /\ StepsInv
    BY DEF Inv
  <1>1. /\ pc = "label" /\ EndPass
        /\ UNCHANGED <<size, total, replicas, dc, claim, node, history, bounds>>
    BY DEF LabelDecommissioning
  <1>2. CASE UNCHANGED pods
    BY <1>1, <1>2, StatusOnlyInv DEF Typed, dc, world, history, bounds
  <1>3. CASE /\ pods[Last].phase # "gone"
             /\ pods' = [pods EXCEPT ![Last].label = "Decommissioning"]
    <2>1. /\ Last \in Ordinals /\ scalingDown /\ replicas > 1 /\ rcPods[Last].ready
          /\ \A j \in Ordinals : ~IsLabelled(pods, j) /\ ~IsLabelled(rcPods, j)
      BY <1>0, <1>1, NoneLabelled DEF StepsInv, LateSteps, ReadySteps, Listed
    <2>2. claim[Last] # "bound" => Last \in unseen
      BY <1>0, <1>1, <2>1 DEF ListedInv
    <2>3. pods \in [Ordinals -> PodRecords] /\ replicas \in Nat
      BY SMT DEF Typed
    <2>4. Last >= replicas - 1 /\ Last >= 1
      BY <2>1, <2>3, SMT DEF Last
    <2> HIDE DEF Last
    <2>5. /\ pods' \in [Ordinals -> PodRecords]
          /\ \A j \in Ordinals : j # Last => pods'[j] = pods[j]
          /\ pods'[Last].phase = pods[Last].phase /\ pods'[Last].label = "Decommissioning"
          /\ pods'[Last].ready = pods[Last].ready /\ pods'[Last].joined = pods[Last].joined
      BY <1>3, <2>1, <2>3 DEF PodRecords
    <2>6. PodsInv'
      BY <1>0, <1>1, <1>3, <2>1, <2>5 DEF PodsInv, IsMember
    <2>7. LabelInv'
      <3>1. ASSUME NEW j \in Ordinals, j = Last PROVE MayLabel(j)'
        BY <1>1, <2>1, <2>2, <2>4, <3>1 DEF MayLabel, dc, history
      <3>2. \A j \in Ordinals : IsLabelled(pods, j)' => j = Last
        BY <2>1, <2>5 DEF IsLabelled
      <3> QED
        BY <3>1, <3>2 DEF LabelInv
    <2>8. ClaimInv'
      BY <1>0, <1>1, <1>3, <2>1, <2>5 DEF ClaimInv, Released, history
    <2>9. Typed'
      BY <1>1, <2>5, PassEnds DEF Typed, dc, history, bounds
    <2> QED
      BY <1>1, <2>6, <2>7, <2>8, <2>9, PassEnds DEF Inv
  <1> QED
    BY <1>2, <1>3 DEF LabelDecommissioning

(* A step that changes nothing the invariant is about.                      *)
LEMMA SameStateInv ==
    ASSUME Inv, UNCHANGED <<replicas, scalingDown, pods, claim, node, pc, unseen>>,
           UNCHANGED <<desired, rcSize, rcPods, rcNode>>
    PROVE  Inv'
  <1>1. /\ replicas' = replicas /\ scalingDown' = scalingDown /\ pods' = pods
        /\ claim' = claim /\ node' = node /\ pc' = pc /\ unseen' = unseen
        /\ desired' = desired /\ rcSize' = rcSize /\ rcPods' = rcPods /\ rcNode' = rcNode
    OBVIOUS
  <1>2. PodsInv'
    BY <1>1 DEF Inv, PodsInv, IsMember
  <1>3. LabelInv'
    BY <1>1, SMT DEF Inv, LabelInv, MayLabel, IsLabelled
  <1>4. ClaimInv'
    BY <1>1 DEF Inv, ClaimInv, Released
  <1>5. ListedInv'
    BY <1>1, SMT DEF Inv, ListedInv, MayLabel, IsLabelled
  <1>6. StepsInv'
    BY <1>1, SMT DEF Inv, StepsInv, IsLabelled, Listed, Last
  <1> QED
    BY <1>2, <1>3, <1>4, <1>5, <1>6 DEF Inv

LEMMA EditSizeInv ==
    ASSUME Typed, Inv, EditSize
    PROVE  Typed' /\ Inv'
  <1>1. /\ size' \in 1..MaxSize /\ edits < MaxEdits /\ edits' = edits + 1
        /\ UNCHANGED <<total, replicas, dc, world, pc, rc, history, events>>
    BY DEF EditSize
  <1>2. Typed'
    BY <1>1, Constants, SMT DEF Typed, dc, world, rc, history
  <1>3. Inv'
    BY <1>1, SameStateInv DEF dc, world, rc, history
  <1> QED
    BY <1>2, <1>3

LEMMA StutterInv ==
    ASSUME Typed, Inv, UNCHANGED vars
    PROVE  Typed' /\ Inv'
  <1>1. UNCHANGED <<size, total, replicas, dc, world, pc, rc, history, bounds>>
    BY DEF vars
  <1>2. Typed'
    BY <1>1 DEF Typed, dc, world, rc, history, bounds
  <1>3. Inv'
    BY <1>1, SameStateInv DEF dc, world, rc, history
  <1> QED
    BY <1>2, <1>3

LEMMA StepInv ==
    ASSUME Typed, Inv, [Next]_vars
    PROVE  Typed' /\ Inv'
  <1>1. CASE Pass
    BY <1>1, BeginPassInv, UpdateStatusInv, CheckDecommissioningNodesInv, DeletePodPvcsInv,
       DeleteNodeStatusInv, CheckRackScaleInv, CheckPodsReadyInv,
       CheckCassandraNodeStatusesInv, DecommissionNodesInv, DecommissionNodeOnRackInv,
       LabelDecommissioningInv, CheckClearActionConditionsInv DEF Pass, PassStep
  <1>2. CASE Abort \/ EditSize
    BY <1>2, AbortInv, EditSizeInv
  <1>3. CASE \E i \in Ordinals : CreatePod(i) \/ EvictPod(i) \/ Cluster(i)
    BY <1>3, CreatePodInv, TerminatingInv, PodRemovedInv, ClaimRemovedInv, NodeComesUpInv,
       NodeLeavesInv DEF Cluster
  <1>4. CASE UNCHANGED vars
    BY <1>4, StutterInv
  <1> QED
    BY <1>1, <1>2, <1>3, <1>4 DEF Next

(* Every state is of the types above, and a pass knows of the pods it       *)
(* listed what Inv says.                                                    *)
LEMMA Invariance == Spec => [](Typed /\ Inv)
  <1>1. Init => Typed /\ Inv
    BY InitInv
  <1>2. Typed /\ Inv /\ [Next]_vars => (Typed /\ Inv)'
    BY StepInv
  <1> QED
    BY <1>1, <1>2, PTL DEF Spec

(* cleanUpAfterDecommissionedPod, deletePodPvcs: whatever is edited,        *)
(* evicted, recreated, repeated or cut short, a node that is a member of    *)
(* the ring keeps its replica and its volume, unless IsDoneDecommissioning  *)
(* took it for gone because the endpoint data did not have its pod.         *)
THEOREM VolumesKept == Spec => []MembersKeepVolumes
  <1>1. Typed /\ Inv => MembersKeepVolumes
    <2> SUFFICES ASSUME Typed, Inv, NEW i \in Members \ unseen
                 PROVE  i < replicas /\ claim[i] = "bound"
      BY DEF MembersKeepVolumes
    <2>1. i \in Ordinals /\ IsMember(i) /\ i \notin unseen
      BY DEF Members, IsMember
    <2>2. ~Released(i)
      BY <2>1 DEF Inv, ClaimInv, IsMember
    <2>3. i \in Nat /\ replicas \in Nat
      BY <2>1, Constants, SMT DEF Typed
    <2> QED
      BY <2>2, <2>3, SMT DEF Released
  <1> QED
    BY <1>1, Invariance, PTL

-----------------------------------------------------------------------------
(* No node joins while one goes.                                            *)

LEMMA StartedStays ==
    ASSUME StartedInv,
           \A i \in Ordinals :
               /\ pods'[i].label = "Started" => pods[i].label = "Started"
               /\ pods'[i].label # "Ready-to-Start" => pods[i].label # "Ready-to-Start"
               /\ IsLabelled(pods, i)' => IsLabelled(pods, i) \/ pc \in ReadySteps
               /\ node[i].state # "none" =>
                     node'[i].state # "none" \/ pods'[i].label = "Ready-to-Start",
           pc' = "idle" \/ (pc # "idle" /\ UNCHANGED rcPods),
           pc' \in ReadySteps => pc \in ReadySteps
    PROVE  StartedInv'
  <1>1. ASSUME pc' # "idle", NEW i \in Ordinals, rcPods'[i].ready,
               pods'[i].label # "Ready-to-Start"
        PROVE  node'[i].state # "none"
    BY <1>1 DEF StartedInv
  <1>2. ASSUME (\E j \in Ordinals : IsLabelled(pods, j)') \/ pc' \in ReadySteps,
               NEW i \in Ordinals, pods'[i].label = "Started"
        PROVE  node'[i].state # "none"
    <2>1. (\E j \in Ordinals : IsLabelled(pods, j)) \/ pc \in ReadySteps
      BY <1>2
    <2>2. node[i].state # "none"
      BY <1>2, <2>1 DEF StartedInv
    <2> QED
      BY <1>2, <2>2
  <1> QED
    BY <1>1, <1>2 DEF StartedInv

LEMMA InitStarted == Init => StartedInv
  <1> SUFFICES ASSUME Init PROVE StartedInv
    OBVIOUS
  <1>1. /\ pc = "idle"
        /\ pods = [i \in Ordinals |-> IF i < size THEN UpPod ELSE GonePod]
    BY DEF Init
  <1> QED
    BY <1>1 DEF StartedInv, IsLabelled, UpPod, GonePod, ReadySteps

(* What the cluster does to labels and nodes.                               *)
LEMMA ClusterStarted ==
    ASSUME Typed, Inv, StartedInv, NEW i \in Ordinals,
           CreatePod(i) \/ EvictPod(i) \/ Cluster(i)
    PROVE  StartedInv'
  <1>1. UNCHANGED <<pc, rcPods>>
    BY DEF CreatePod, EvictPod, Cluster, TerminatePod, PodRemoved, ClaimRemoved, NodeComesUp,
           NodeLeaves, rc
  <1>2. pods \in [Ordinals -> PodRecords] /\ node \in [Ordinals -> NodeRecords]
    BY DEF Typed
  <1>3. ASSUME \A j \in Ordinals : pods'[j].label \in {pods[j].label, "Ready-to-Start"},
               \A j \in Ordinals : node[j].state # "none" =>
                  node'[j].state # "none" \/ pods'[j].label = "Ready-to-Start"
        PROVE  StartedInv'
    <2>1. CASE pc = "idle"
      BY <1>1, <1>3, <2>1, StartedStays DEF IsLabelled
    <2>2. CASE pc # "idle"
      BY <1>1, <1>3, <2>2, StartedStays DEF IsLabelled
    <2> QED
      BY <2>1, <2>2
  <1>4. CASE CreatePod(i) \/ EvictPod(i) \/ TerminatePod(i) \/ PodRemoved(i)
    <2>1. \A j \in Ordinals : pods'[j].label \in {pods[j].label, "Ready-to-Start"}
      <3>1. \/ \E ph \in {"present", "terminating"} : pods' = [pods EXCEPT ![i].phase = ph]
            \/ pods' = [pods EXCEPT ![i] = GonePod]
        BY <1>4 DEF CreatePod, EvictPod, TerminatePod, PodRemoved
      <3>2. ASSUME NEW ph, pods' = [pods EXCEPT ![i].phase = ph]
            PROVE  \A j \in Ordinals : pods'[j].label = pods[j].label
        BY <1>2, <3>2 DEF PodRecords
      <3>3. ASSUME pods' = [pods EXCEPT ![i] = GonePod]
            PROVE  \A j \in Ordinals : pods'[j].label \in {pods[j].label, "Ready-to-Start"}
        BY <1>2, <3>3 DEF GonePod
      <3> QED
        BY <3>1, <3>2, <3>3
    <2>2. node' = node
      BY <1>4 DEF CreatePod, EvictPod, TerminatePod, PodRemoved
    <2> QED
      BY <1>3, <2>1, <2>2
  <1>5. CASE ClaimRemoved(i)
    <2>1. /\ pods' = pods /\ pods[i].phase = "gone"
          /\ node' = [node EXCEPT ![i] = [NoNode EXCEPT !.id = node[i].id]]
      BY <1>5 DEF ClaimRemoved
    <2>2. pods[i].label = "Ready-to-Start"
      BY <2>1 DEF Inv, PodsInv
    <2>3. \A j \in Ordinals : j # i => node'[j] = node[j]
      BY <1>2, <2>1
    <2> QED
      BY <1>3, <2>1, <2>2, <2>3
  <1>6. CASE NodeComesUp(i)
    <2>1. /\ pods' = [pods EXCEPT ![i].ready = TRUE, ![i].joined = TRUE]
          /\ node' = [node EXCEPT ![i].state = "normal",
                                  ![i].id = IF node[i].state = "none" THEN @ + 1 ELSE @]
      BY <1>6 DEF NodeComesUp
    <2>2. \A j \in Ordinals : pods'[j].label = pods[j].label
      BY <1>2, <2>1 DEF PodRecords
    <2>3. /\ \A j \in Ordinals : j # i => node'[j] = node[j]
          /\ node'[i].state = "normal"
      <3> DEFINE n == IF node[i].state = "none" THEN node[i].id + 1 ELSE node[i].id
      <3>1. node' = [node EXCEPT ![i].state = "normal", ![i].id = n]
        BY <2>1
      <3> HIDE DEF n
      <3> QED
        BY <1>2, <3>1 DEF NodeRecords
    <2> QED
      BY <1>3, <2>2, <2>3
  <1>7. CASE NodeLeaves(i)
    <2>1. pods' = [pods EXCEPT ![i].ready = FALSE]
      BY <1>7 DEF NodeLeaves
    <2>2. \A j \in Ordinals : pods'[j].label = pods[j].label
      BY <1>2, <2>1 DEF PodRecords
    <2>3. node'[i].state = "left" /\ \A j \in Ordinals \ {i} : node'[j].state = node[j].state
      BY <1>7, Handover
    <2>4. \A j \in Ordinals : node[j].state # "none" => node'[j].state # "none"
      BY <2>3
    <2> QED
      BY <1>3, <2>2, <2>4
  <1> QED
    BY <1>4, <1>5, <1>6, <1>7 DEF Cluster

(* A step of the pass that neither lists pods nor changes their labels.     *)
LEMMA PassStarted ==
    ASSUME Typed, Inv, StartedInv, pods' = pods, SameNodes,
           pc' = "idle" \/ (pc # "idle" /\ UNCHANGED rcPods),
           pc' \in ReadySteps => pc \in ReadySteps
    PROVE  StartedInv'
  <1>1. \A i \in Ordinals : node[i].state # "none" => node'[i].state # "none"
    BY DEF SameNodes, IsMember
  <1> QED
    BY <1>1, StartedStays DEF IsLabelled

LEMMA QuietStarted ==
    ASSUME Typed, Inv, StartedInv,
           \/ UpdateStatus \/ DeletePodPvcs \/ DeleteNodeStatus \/ CheckRackScale
           \/ CheckCassandraNodeStatuses \/ DecommissionNodes
           \/ CheckClearActionConditions \/ Abort
    PROVE  StartedInv'
  <1>1. pods' = pods /\ node' = node
    BY DEF UpdateStatus, DeletePodPvcs, DeleteNodeStatus, CheckRackScale,
           CheckCassandraNodeStatuses, DecommissionNodes, CheckClearActionConditions, Abort,
           world
  <1>2. /\ pc' = "idle" \/ (pc # "idle" /\ UNCHANGED rcPods)
        /\ pc' \in ReadySteps => pc \in ReadySteps
    <2>1. CASE UpdateStatus \/ DeletePodPvcs \/ DeleteNodeStatus \/ CheckRackScale
      BY <2>1 DEF UpdateStatus, DeletePodPvcs, DeleteNodeStatus, CheckRackScale, EndPass, Goto,
         GotoPatched, rc, ReadySteps
    <2>2. CASE CheckCassandraNodeStatuses \/ DecommissionNodes
      BY <2>2 DEF CheckCassandraNodeStatuses, DecommissionNodes, EndPass, Goto,
         GotoPatched, rc, ReadySteps
    <2>3. CASE CheckClearActionConditions \/ Abort
      BY <2>3 DEF CheckClearActionConditions, Abort, EndPass, ReadySteps
    <2> QED
      BY <2>1, <2>2, <2>3
  <1> QED
    BY <1>1, <1>2, PassStarted DEF SameNodes

LEMMA CallsStarted ==
    ASSUME Typed, Inv, StartedInv, CheckDecommissioningNodes \/ DecommissionNodeOnRack
    PROVE  StartedInv'
  <1>1. pods' = pods /\ pc \in {"decommissioning", "onRack"}
    BY DEF CheckDecommissioningNodes, DecommissionNodeOnRack
  <1>2. \/ node' = node
        \/ \E i \in Ordinals : CallDecommissionNodeEndpoint(i)
    BY DEF CheckDecommissioningNodes, DecommissionNodeOnRack, Listed
  <1>3. SameNodes
    <2>1. CASE node' = node
      BY <2>1 DEF SameNodes
    <2>2. CASE \E i \in Ordinals : CallDecommissionNodeEndpoint(i)
      BY <2>2, Called
    <2> QED
      BY <1>2, <2>1, <2>2
  <1>4. pc' = "idle" \/ (pc' \in {"rackScale", "deletePvcs"} /\ UNCHANGED rcPods)
        \/ (pc = "onRack" /\ pc' = "label" /\ UNCHANGED rcPods)
    BY DEF CheckDecommissioningNodes, DecommissionNodeOnRack, EndPass, Goto, GotoPatched, rc
  <1> QED
    BY <1>1, <1>3, <1>4, PassStarted DEF ReadySteps

LEMMA ListingStarted ==
    ASSUME Typed, Inv, StartedInv, BeginPass \/ CheckPodsReady \/ LabelDecommissioning
    PROVE  StartedInv'
  <1>0. PodsInv /\ ListedInv /\ StepsInv
    BY DEF Inv
  <1>1. CASE BeginPass
    <2>1. pc' = "updateStatus" /\ rcPods' = pods /\ pods' = pods /\ node' = node
      BY <1>1 DEF BeginPass, world
    <2>2. \A i \in Ordinals : pods[i].ready => node[i].state # "none"
      BY <1>0 DEF PodsInv, IsMember
    <2> QED
      BY <2>1, <2>2 DEF StartedInv, IsLabelled, ReadySteps
  <1>2. CASE CheckPodsReady
    <2>1. pc = "podsReady" /\ node' = node
      BY <1>2 DEF CheckPodsReady
    <2>2. \A i \in Ordinals : ~IsLabelled(pods, i) /\ ~IsLabelled(rcPods, i)
      BY <1>0, <2>1, NoneLabelled DEF StepsInv, LateSteps
    <2>3. CASE pods' = pods /\ pc' = "idle"
      BY <2>1, <2>2, <2>3 DEF StartedInv, IsLabelled, ReadySteps
    <2>4. ASSUME NEW i \in Ordinals, pods' = [pods EXCEPT ![i].label = "Started"], pc' = "idle"
          PROVE  StartedInv'
      <3>1. pods \in [Ordinals -> PodRecords]
        BY DEF Typed
      <3>2. \A j \in Ordinals : pods'[j].label \in {pods[j].label, "Started"}
        BY <2>4, <3>1 DEF PodRecords
      <3> QED
        BY <2>2, <2>4, <3>2 DEF StartedInv, IsLabelled, ReadySteps
    <2>5. CASE /\ pods' = pods /\ pc' = "nodeStatuses" /\ rcPods' = rcPods
               /\ \A i \in Listed : rcPods[i].ready
      <3>1. \A i \in Ordinals : pods[i].label = "Started" => rcPods[i].ready
        BY <1>0, <2>1, <2>5 DEF ListedInv, Listed
      <3>2. \A i \in Ordinals : rcPods[i].ready /\ pods[i].label # "Ready-to-Start" =>
               node[i].state # "none"
        BY <2>1 DEF StartedInv
      <3> QED
        BY <2>1, <2>5, <3>1, <3>2 DEF StartedInv
    <2>6. \/ pods' = pods /\ pc' = "idle"
          \/ \E i \in Ordinals : pods' = [pods EXCEPT ![i].label = "Started"] /\ pc' = "idle"
          \/ /\ pods' = pods /\ pc' = "nodeStatuses" /\ rcPods' = rcPods
             /\ \A i \in Listed : rcPods[i].ready
      BY <1>2 DEF CheckPodsReady, EndPass, Goto, rc, Listed
    <2> QED
      BY <2>3, <2>4, <2>5, <2>6
  <1>3. CASE LabelDecommissioning
    <2>1. /\ pc = "label" /\ pc' = "idle" /\ node' = node
          /\ pods' = IF pods[Last].phase = "gone" THEN pods
                     ELSE [pods EXCEPT ![Last].label = "Decommissioning"]
      BY <1>3 DEF LabelDecommissioning, EndPass
    <2>2. pods \in [Ordinals -> PodRecords]
      BY DEF Typed
    <2> HIDE DEF Last
    <2>3. \A j \in Ordinals : pods'[j].label = "Started" => pods[j].label = "Started"
      BY <2>1, <2>2 DEF PodRecords
    <2>4. \A j \in Ordinals : pods[j].label = "Started" => node[j].state # "none"
      BY <2>1 DEF StartedInv, ReadySteps
    <2> QED
      BY <2>1, <2>3, <2>4 DEF StartedInv
  <1> QED
    BY <1>1, <1>2, <1>3

LEMMA StartedStep ==
    ASSUME Typed, Inv, StartedInv, [Next]_vars
    PROVE  StartedInv'
  <1>1. CASE Pass \/ Abort
    BY <1>1, QuietStarted, CallsStarted, ListingStarted DEF Pass, PassStep
  <1>2. CASE \E i \in Ordinals : CreatePod(i) \/ EvictPod(i) \/ Cluster(i)
    BY <1>2, ClusterStarted
  <1>3. CASE EditSize \/ UNCHANGED vars
    <2>1. pods' = pods /\ node' = node /\ pc' = pc /\ rcPods' = rcPods
      BY <1>3 DEF EditSize, vars, world, rc
    <2> QED
      BY <2>1 DEF StartedInv, IsLabelled
  <1> QED
    BY <1>1, <1>2, <1>3 DEF Next

-----------------------------------------------------------------------------
(* The data fits.                                                           *)

LEMMA LoadsNat ==
    ASSUME Typed
    PROVE  \A i \in Ordinals : node[i].load \in Nat /\ rcNode[i].load \in Nat
  BY DEF Typed, NodeRecords

LEMMA InitData == Init => DataInv
  <1> SUFFICES ASSUME Init PROVE DataInv
    OBVIOUS
  <1> USE Constants
  <1>1. /\ size \in Nat /\ pc = "idle" /\ unchecked = {}
        /\ pods = [i \in Ordinals |-> IF i < size THEN UpPod ELSE GonePod]
    BY SMT DEF Init
  <1>2. PICK load \in [Ordinals -> Loads] :
           node = [i \in Ordinals |->
                     IF i < size THEN [state |-> "normal", id |-> 1, load |-> load[i]]
                     ELSE NoNode]
    BY DEF Init
  <1>3. \A i \in Ordinals : load[i] \in Nat /\ load[i] <= Capacity
    <2>1. \A l \in Loads : l \in Nat /\ l <= Capacity
      BY ConstantsAssumption, SMT
    <2>2. \A i \in Ordinals : load[i] \in Loads
      BY <1>2
    <2> QED
      BY <2>1, <2>2
  <1>4. \A i \in Ordinals :
           /\ i < size => node[i].state = "normal" /\ node[i].load <= Capacity
           /\ ~(i < size) => node[i].state = "none" /\ node[i].load = 0
    BY <1>2, <1>3 DEF NoNode
  <1>5. LeavingInv /\ SeenInv
    BY <1>1, <1>4 DEF LeavingInv, SeenInv
  <1>6. \A i \in Ordinals : ~Going(i)
    BY <1>1 DEF Going, IsLabelled, UpPod, GonePod
  <1>7. RoomInv
    BY <1>6 DEF RoomInv
  <1>8. NodesFit
    <2>1. \A i \in Ordinals : i < size \/ ~(i < size)
      OBVIOUS
    <2>2. 0 <= Capacity
      BY SMT
    <2> QED
      BY <1>4, <2>1, <2>2 DEF NodesFit
  <1> QED
    BY <1>5, <1>7, <1>8 DEF DataInv

(* A step that gives no node data, and tells no other node to go.           *)
LEMMA DataStays ==
    ASSUME DataInv, unchecked \subseteq unchecked',
           \A i \in Ordinals : /\ node'[i].load = node[i].load
                               /\ IsMember(i)' => IsMember(i)
                               /\ Going(i)' => Going(i)
    PROVE  RoomInv' /\ NodesFit'
  <1>1. RoomInv'
    BY DEF DataInv, RoomInv
  <1>2. NodesFit'
    BY DEF DataInv, NodesFit
  <1> QED
    BY <1>1, <1>2

(* A step of the pass that leaves pods and nodes alone.                     *)
LEMMA PassData ==
    ASSUME DataInv, UNCHANGED <<pods, node>>, unchecked \subseteq unchecked', pc # "label",
           \/ pc' = "idle"
           \/ pc # "idle" /\ pc' # "label" /\ UNCHANGED <<rcPods, rcNode>>
    PROVE  DataInv'
  <1>1. \A i \in Ordinals : /\ node'[i].load = node[i].load
                            /\ IsMember(i)' <=> IsMember(i)
                            /\ Going(i)' <=> Going(i)
    BY DEF IsMember, Going, IsLabelled
  <1>2. LeavingInv'
    BY <1>1 DEF DataInv, LeavingInv
  <1>3. SeenInv'
    BY DEF DataInv, SeenInv, IsLabelled
  <1> QED
    BY <1>1, <1>2, <1>3, DataStays DEF DataInv

(* One node goes at a time, and no node joins meanwhile.                    *)
LEMMA GoingAlone ==
    ASSUME Typed, Inv, StartedInv, NEW i \in Ordinals, Going(i)
    PROVE  /\ \A j \in Ordinals : Going(j) => j = i
           /\ \A j \in Ordinals : pods[j].label = "Started" => node[j].state # "none"
  <1>0. LabelInv /\ StepsInv
    BY DEF Inv
  <1>1. pc = "label" => \A j \in Ordinals : ~IsLabelled(pods, j)
    BY <1>0, NoneLabelled DEF StepsInv, LateSteps, ReadySteps
  <1>2. \A j \in Ordinals : Going(j) => j = i
    BY <1>0, <1>1 DEF Going, LabelInv
  <1>3. (\E j \in Ordinals : IsLabelled(pods, j)) \/ pc \in ReadySteps
    BY DEF Going, ReadySteps
  <1> QED
    BY <1>2, <1>3 DEF StartedInv

LEMMA PodGoesData ==
    ASSUME Typed, Inv, DataInv, NEW i \in Ordinals,
           TerminatePod(i) \/ EvictPod(i) \/ PodRemoved(i) \/ CreatePod(i)
    PROVE  DataInv'
  <1>1. UNCHANGED <<replicas, node, pc, rcPods, rcNode, unchecked>>
    BY DEF TerminatePod, EvictPod, PodRemoved, CreatePod, rc, history
  <1>2. pods \in [Ordinals -> PodRecords]
    BY DEF Typed
  <1>3. \A j \in Ordinals :
           \/ pods'[j].label = pods[j].label /\ pods'[j].ready = pods[j].ready
           \/ pods'[j].label = "Ready-to-Start" /\ ~pods'[j].ready
    BY <1>2, SMT DEF TerminatePod, EvictPod, PodRemoved, CreatePod, PodRecords, GonePod
  <1>4. \A j \in Ordinals : /\ node'[j].load = node[j].load
                            /\ IsMember(j)' <=> IsMember(j)
                            /\ Going(j)' => Going(j)
    BY <1>1, <1>3 DEF IsMember, Going, IsLabelled, Last
  <1>5. LeavingInv'
    BY <1>1, <1>3 DEF DataInv, LeavingInv, Going, IsLabelled, Last
  <1>6. SeenInv'
    BY <1>1 DEF DataInv, SeenInv, IsLabelled
  <1> QED
    BY <1>1, <1>4, <1>5, <1>6, DataStays DEF DataInv

(* A volume is removed with what was on it.                                 *)
LEMMA ClaimRemovedData ==
    ASSUME Typed, Inv, DataInv, NEW i \in Ordinals, ClaimRemoved(i)
    PROVE  DataInv'
  <1>0. LeavingInv /\ RoomInv /\ SeenInv /\ NodesFit
    BY DEF DataInv
  <1>1. /\ node' = [node EXCEPT ![i] = [NoNode EXCEPT !.id = node[i].id]]
        /\ UNCHANGED <<replicas, pods, pc, rcPods, rcNode, unchecked>>
    BY DEF ClaimRemoved, rc, history
  <1>2. node \in [Ordinals -> NodeRecords]
    BY DEF Typed
  <1>3. /\ \A j \in Ordinals : j # i => node'[j] = node[j]
        /\ node'[i].state = "none" /\ node'[i].load = 0
    BY <1>1, <1>2 DEF NoNode, NodeRecords, States
  <1>4. /\ ~IsMember(i)'
        /\ \A j \in Ordinals \ {i} : IsMember(j)' <=> IsMember(j)
        /\ \A j \in Ordinals : Going(j)' <=> Going(j)
    BY <1>1, <1>3 DEF IsMember, Going, IsLabelled, Last
  <1>5. LeavingInv'
    BY <1>0, <1>1, <1>3, <1>4 DEF LeavingInv
  <1>6. RoomInv'
    <2> SUFFICES ASSUME NEW a \in Ordinals, NEW b \in Ordinals, Going(a)', IsMember(a)',
                        IsMember(b)', a # b, b \notin unchecked'
                 PROVE  node'[a].load + node'[b].load <= Capacity
      BY DEF RoomInv
    <2>1. a # i /\ b # i
      BY <1>4
    <2> QED
      BY <1>0, <1>1, <1>3, <1>4, <2>1 DEF RoomInv
  <1>7. SeenInv' /\ NodesFit'
    <2>1. \A j \in Ordinals : node'[j].load = node[j].load \/ node'[j].load = 0
      BY <1>3
    <2>2. 0 <= Capacity /\ \A n \in Nat : 0 <= n
      BY Constants, SMT
    <2>3. \A j \in Ordinals : 0 <= rcNode[j].load
      BY <2>2, LoadsNat
    <2> QED
      BY <1>0, <1>1, <2>1, <2>2, <2>3 DEF SeenInv, NodesFit, IsLabelled
  <1> QED
    BY <1>5, <1>6, <1>7 DEF DataInv

LEMMA NodeComesUpData ==
    ASSUME Typed, Inv, StartedInv, DataInv, NEW i \in Ordinals, NodeComesUp(i)
    PROVE  DataInv'
  <1>0. LeavingInv /\ RoomInv /\ SeenInv /\ NodesFit
    BY DEF DataInv
  <1>1. /\ pods[i].phase = "present" /\ pods[i].label = "Started" /\ node[i].state # "left"
        /\ pods' = [pods EXCEPT ![i].ready = TRUE, ![i].joined = TRUE]
        /\ node' = [node EXCEPT ![i].state = "normal",
                                ![i].id = IF node[i].state = "none" THEN @ + 1 ELSE @]
        /\ UNCHANGED <<replicas, pc, rcPods, rcNode, unchecked>>
    BY DEF NodeComesUp, rc, history
  <1>2. node \in [Ordinals -> NodeRecords] /\ pods \in [Ordinals -> PodRecords]
    BY DEF Typed
  <1>3. /\ \A j \in Ordinals : j # i => pods'[j] = pods[j]
        /\ pods'[i].label = "Started"
    BY <1>1, <1>2 DEF PodRecords
  <1>4. /\ \A j \in Ordinals : j # i => node'[j] = node[j]
        /\ node'[i].state = "normal" /\ node'[i].load = node[i].load
    <2> DEFINE n == IF node[i].state = "none" THEN node[i].id + 1 ELSE node[i].id
    <2>1. node' = [node EXCEPT ![i].state = "normal", ![i].id = n]
      BY <1>1
    <2> HIDE DEF n
    <2> QED
      BY <1>2, <2>1 DEF NodeRecords, States
  <1>5. \A j \in Ordinals : node'[j].load = node[j].load /\ (Going(j)' <=> Going(j))
    BY <1>1, <1>3, <1>4 DEF Going, IsLabelled, Last
  <1>6. LeavingInv'
    <2>1. \A j \in Ordinals : node'[j].state = "leaving" /\ pods'[j].ready =>
             node[j].state = "leaving" /\ pods[j].ready
      BY <1>3, <1>4
    <2> QED
      BY <1>0, <1>5, <2>1 DEF LeavingInv
  <1>7. ASSUME NEW a \in Ordinals, Going(a), NEW j \in Ordinals, IsMember(j)' PROVE IsMember(j)
    <2>1. node[i].state # "none"
      BY <1>1, <1>7, GoingAlone
    <2>2. node[i].state \in States
      BY <1>2 DEF NodeRecords
    <2>3. IsMember(i)
      BY <1>1, <2>1, <2>2 DEF IsMember, States
    <2> QED
      BY <1>4, <1>7, <2>3 DEF IsMember
  <1>8. RoomInv'
    BY <1>0, <1>1, <1>5, <1>7 DEF RoomInv
  <1>9. SeenInv' /\ NodesFit'
    <2>1. \A j \in Ordinals : node'[j].load = node[j].load
      BY <1>5
    <2> QED
      BY <1>0, <1>1, <2>1 DEF SeenInv, NodesFit, IsLabelled
  <1> QED
    BY <1>6, <1>8, <1>9 DEF DataInv

LEMMA NodeLeavesData ==
    ASSUME Typed, Inv, StartedInv, DataInv, NEW i \in Ordinals, NodeLeaves(i), Typed'
    PROVE  DataInv'
  <1>0. LeavingInv /\ RoomInv /\ SeenInv /\ NodesFit
    BY DEF DataInv
  <1>1. /\ node[i].state = "leaving" /\ pods[i].ready
        /\ pods' = [pods EXCEPT ![i].ready = FALSE]
        /\ UNCHANGED <<replicas, pc, rcPods, rcNode, unchecked>>
    BY DEF NodeLeaves, rc, history
  <1>2. pods \in [Ordinals -> PodRecords]
    BY DEF Typed
  <1>3. /\ \A j \in Ordinals : j # i => pods'[j] = pods[j]
        /\ pods'[i].label = pods[i].label /\ ~pods'[i].ready
    BY <1>1, <1>2 DEF PodRecords
  <1>4. /\ node'[i].state = "left" /\ node'[i].load = 0
        /\ \A j \in Ordinals \ {i} :
              /\ node'[j].state = node[j].state
              /\ IF IsMember(j) THEN node'[j].load <= node[j].load + node[i].load
                                ELSE node'[j].load = node[j].load
    BY Handover
  <1>5. Going(i) /\ IsMember(i)
    BY <1>0, <1>1 DEF LeavingInv, IsMember
  <1>6. \A j \in Ordinals : Going(j) => j = i
    BY <1>5, GoingAlone
  <1>7. /\ ~IsMember(i)'
        /\ \A j \in Ordinals : Going(j)' <=> Going(j)
    BY <1>1, <1>3, <1>4 DEF IsMember, Going, IsLabelled, Last
  <1>8. LeavingInv'
    BY <1>0, <1>3, <1>4, <1>7 DEF LeavingInv
  <1>9. RoomInv'
    BY <1>6, <1>7 DEF RoomInv
  <1>10. SeenInv'
    <2>1. ASSUME pc \notin {"idle", "label"} PROVE IsLabelled(rcPods, i)
      BY <1>5, <2>1 DEF Going, Inv, ListedInv, IsLabelled
    <2> QED
      BY <1>1, <2>1 DEF SeenInv, IsLabelled
  <1>11. NodesFit'
    <2> SUFFICES ASSUME NEW j \in Ordinals, j \notin unchecked
                 PROVE  node'[j].load <= Capacity
      BY <1>1 DEF NodesFit
    <2>1. node'[j].load \in Nat
      BY DEF Typed, NodeRecords
    <2>2. CASE j = i
      BY <1>4, <2>2, Constants, SMT
    <2>3. CASE j # i /\ IsMember(j)
      <3>1. node[i].load + node[j].load <= Capacity
        BY <1>0, <1>5, <2>3 DEF RoomInv
      <3>2. node'[j].load <= node[j].load + node[i].load
        BY <1>4, <2>3
      <3>3. node[i].load \in Nat /\ node[j].load \in Nat
        BY LoadsNat
      <3> QED
        BY <2>1, <3>1, <3>2, <3>3, Constants, SMT
    <2>4. CASE j # i /\ ~IsMember(j)
      BY <1>0, <1>4, <2>4 DEF NodesFit
    <2> QED
      BY <2>2, <2>3, <2>4
  <1> QED
    BY <1>8, <1>9, <1>10, <1>11 DEF DataInv

LEMMA BeginPassData ==
    ASSUME Typed, DataInv, BeginPass
    PROVE  DataInv'
  <1>1. /\ pc = "idle" /\ pc' = "updateStatus" /\ EndpointData
        /\ UNCHANGED <<replicas, pods, node, unchecked>>
    BY DEF BeginPass, world
  <1>2. \A i \in Ordinals : /\ node'[i].load = node[i].load
                            /\ IsMember(i)' <=> IsMember(i)
                            /\ Going(i)' <=> Going(i)
    BY <1>1 DEF IsMember, Going, IsLabelled
  <1>3. LeavingInv'
    BY <1>1, <1>2 DEF DataInv, LeavingInv
  <1>4. SeenInv'
    <2>1. rcNode' = node \/ rcNode' = [i \in Ordinals |-> NoNode]
      BY <1>1 DEF EndpointData
    <2>2. \A i \in Ordinals : rcNode'[i] = node[i] \/ rcNode'[i].state = "none"
      <3>1. CASE rcNode' = node
        BY <3>1
      <3>2. CASE rcNode' = [i \in Ordinals |-> NoNode]
        <4>1. NoNode.state = "none"
          BY DEF NoNode
        <4>2. \A i \in Ordinals : rcNode'[i] = NoNode
          BY <3>2
        <4> QED
          BY <4>1, <4>2
      <3> QED
        BY <2>1, <3>1, <3>2
    <2>3. \A i \in Ordinals : node[i].load <= node[i].load
      BY LoadsNat, SMT
    <2> QED
      BY <1>1, <2>2, <2>3 DEF SeenInv
  <1> QED
    BY <1>1, <1>2, <1>3, <1>4, DataStays DEF DataInv

(* The steps of PassData; after a cut before the label nothing is promised. *)
LEMMA QuietData ==
    ASSUME Typed, DataInv,
           \/ UpdateStatus \/ DeletePodPvcs \/ DeleteNodeStatus \/ CheckRackScale
           \/ CheckCassandraNodeStatuses \/ DecommissionNodes
           \/ CheckClearActionConditions \/ Abort
    PROVE  DataInv' \/ unchecked' = Ordinals
  <1>1. CASE Abort /\ pc = "label"
    BY <1>1 DEF Abort
  <1>2. CASE ~(Abort /\ pc = "label")
    <2>1. UNCHANGED <<pods, node, unchecked>> /\ pc # "label"
      <3>1. CASE Abort
        BY <1>2, <3>1 DEF Abort, world
      <3>2. CASE ~Abort
        BY <3>2 DEF UpdateStatus, DeletePodPvcs, DeleteNodeStatus, CheckRackScale,
           CheckCassandraNodeStatuses, DecommissionNodes, CheckClearActionConditions,
           world, history
      <3> QED
        BY <3>1, <3>2
    <2>2. \/ pc' = "idle"
          \/ pc # "idle" /\ pc' # "label" /\ UNCHANGED <<rcPods, rcNode>>
      BY DEF UpdateStatus, DeletePodPvcs, DeleteNodeStatus, CheckRackScale,
         CheckCassandraNodeStatuses, DecommissionNodes, CheckClearActionConditions, Abort,
         EndPass, Goto, GotoPatched, rc
    <2> QED
      BY <2>1, <2>2, PassData
  <1> QED
    BY <1>1, <1>2

(* A labelled node is told to leave again.                                  *)
LEMMA CheckDecommissioningNodesData ==
    ASSUME Typed, Inv, DataInv, CheckDecommissioningNodes
    PROVE  DataInv'
  <1> DEFINE labelled == {i \in Listed : rcPods[i].label = "Decommissioning"}
  <1>1. pc = "decommissioning" /\ UNCHANGED <<pods, unchecked>>
    BY DEF CheckDecommissioningNodes
  <1>2. ASSUME UNCHANGED node,
               \/ pc' = "idle"
               \/ pc' # "label" /\ UNCHANGED <<rcPods, rcNode>>
        PROVE  DataInv'
    BY <1>1, <1>2, PassData
  <1>3. ASSUME NEW i \in labelled, CallDecommissionNodeEndpoint(i), pc' = "idle"
        PROVE  DataInv'
    <2>1. i \in Ordinals /\ IsLabelled(rcPods, i)
      BY DEF Listed, IsLabelled
    <2>2. /\ \A j \in Ordinals : node'[j].load = node[j].load
          /\ \A j \in Ordinals : node'[j].state # node[j].state =>
                j = i /\ node[j].state = "normal" /\ node'[j].state = "leaving" /\ pods[j].ready
      BY <1>3, <2>1, Called
    <2>3. \A j \in Ordinals : /\ IsMember(j)' <=> IsMember(j)
                              /\ Going(j)' <=> IsLabelled(pods, j)
                              /\ Going(j) <=> IsLabelled(pods, j)
      BY <1>1, <1>3, <2>2 DEF IsMember, Going, IsLabelled
    <2>4. pods[i].ready => IsLabelled(pods, i)
      BY <1>1, <2>1 DEF Inv, PodsInv, ListedInv, IsLabelled
    <2>5. LeavingInv'
      BY <1>1, <2>2, <2>3, <2>4 DEF DataInv, LeavingInv
    <2>6. SeenInv'
      BY <1>3 DEF SeenInv
    <2> QED
      BY <1>1, <2>2, <2>3, <2>5, <2>6, DataStays DEF DataInv
  <1>4. \/ /\ UNCHANGED node
           /\ \/ pc' = "idle"
              \/ pc' # "label" /\ UNCHANGED <<rcPods, rcNode>>
        \/ \E i \in labelled : CallDecommissionNodeEndpoint(i) /\ pc' = "idle"
    BY DEF CheckDecommissioningNodes, EndPass, Goto, GotoPatched, rc
  <1> QED
    BY <1>2, <1>3, <1>4

LEMMA CheckPodsReadyData ==
    ASSUME Typed, Inv, DataInv, CheckPodsReady
    PROVE  DataInv'
  <1>1. pc = "podsReady" /\ UNCHANGED <<replicas, node, unchecked>>
    BY DEF CheckPodsReady, history
  <1>2. CASE UNCHANGED pods
    <2>1. \/ pc' = "idle"
          \/ pc' # "label" /\ UNCHANGED <<rcPods, rcNode>>
      BY DEF CheckPodsReady, EndPass, Goto, rc
    <2> QED
      BY <1>1, <1>2, <2>1, PassData
  <1>3. ASSUME NEW i \in Ordinals, pods' = [pods EXCEPT ![i].label = "Started"], pc' = "idle"
        PROVE  DataInv'
    <2>1. pods \in [Ordinals -> PodRecords]
      BY DEF Typed
    <2>2. \A j \in Ordinals : /\ pods'[j].label \in {pods[j].label, "Started"}
                              /\ pods'[j].ready = pods[j].ready
      BY <1>3, <2>1 DEF PodRecords
    <2>3. \A j \in Ordinals : ~IsLabelled(pods, j)
      BY <1>1, NoneLabelled DEF Inv, StepsInv, LateSteps
    <2>4. \A j \in Ordinals : ~Going(j) /\ ~Going(j)'
      BY <1>1, <1>3, <2>2, <2>3 DEF Going, IsLabelled
    <2>5. \A j \in Ordinals : IsMember(j)' <=> IsMember(j)
      BY <1>1 DEF IsMember
    <2>6. LeavingInv'
      BY <1>1, <2>2, <2>4 DEF DataInv, LeavingInv
    <2>7. SeenInv'
      BY <1>3 DEF SeenInv
    <2> QED
      BY <1>1, <2>4, <2>5, <2>6, <2>7, DataStays DEF DataInv
  <1>4. \/ UNCHANGED pods
        \/ \E i \in Ordinals : pods' = [pods EXCEPT ![i].label = "Started"] /\ pc' = "idle"
    BY DEF CheckPodsReady, EndPass, Listed
  <1> QED
    BY <1>2, <1>3, <1>4

(* EnsurePodsCanAbsorbDecommData: each of the others has room, if the       *)
(* endpoint data has it.                                                    *)
LEMMA DecommissionNodeOnRackData ==
    ASSUME Typed, Inv, DataInv, DecommissionNodeOnRack
    PROVE  DataInv' \/ unchecked' = Ordinals
  <1>0. /\ StepsInv /\ LabelInv /\ ListedInv
        /\ LeavingInv /\ RoomInv /\ SeenInv /\ NodesFit
    BY DEF Inv, DataInv
  <1>1. pc = "onRack" /\ UNCHANGED <<replicas, pods>>
    BY DEF DecommissionNodeOnRack
  <1>2. CASE EndPass /\ UNCHANGED <<node, unchecked>>
    BY <1>1, <1>2, PassData DEF EndPass
  <1>3. CASE /\ Last \in Listed /\ EnsurePodsCanAbsorbDecommData
             /\ CallDecommissionNodeEndpoint(Last) /\ Goto("label")
             /\ unchecked' = unchecked \cup NotLookedAt
    <2>1. Last \in Ordinals /\ Last' = Last /\ pc' = "label"
      BY <1>1, <1>3 DEF Listed, Last, Goto
    <2>2. CASE Endpoint(Last).state = "none"
      BY <1>3, <2>2 DEF NotLookedAt, Typed
    <2>3. CASE Endpoint(Last).state # "none"
      <3>1. /\ \A j \in Ordinals : node'[j].load = node[j].load
            /\ \A j \in Ordinals : node'[j].state # node[j].state =>
                  j = Last /\ node[j].state = "normal" /\ node'[j].state = "leaving"
        BY <1>3, <2>1, Called
      <3>2. \A j \in Ordinals : ~IsLabelled(pods, j) /\ ~IsLabelled(rcPods, j)
        BY <1>0, <1>1, NoneLabelled DEF StepsInv, LateSteps, ReadySteps
      <3>3. \A j \in Ordinals : ~Going(j) /\ (Going(j)' <=> j = Last)
        BY <1>1, <2>1, <3>2 DEF Going, IsLabelled
      <3>4. \A j \in Ordinals : IsMember(j)' <=> IsMember(j)
        BY <3>1 DEF IsMember
      <3>5. ASSUME NEW j \in Ordinals, Endpoint(j).state # "none"
            PROVE  j \in Listed /\ Endpoint(j) = rcNode[j] /\ node[j].load <= rcNode[j].load
        <4>1. rcPods[j].joined /\ Endpoint(j) = rcNode[j]
          BY <3>5 DEF Endpoint, NoNode
        <4>2. j \in Listed
          BY <1>0, <1>1, <4>1 DEF ListedInv, Listed
        <4>3. \A l \in Ordinals : rcNode[l].state # "none" => node[l].load <= rcNode[l].load
          BY <1>0, <1>1, <3>2 DEF SeenInv
        <4> QED
          BY <3>5, <4>1, <4>2, <4>3
      <3>6. RoomInv'
        <4> SUFFICES ASSUME NEW j \in Ordinals, IsMember(j), j # Last, j \notin unchecked'
                     PROVE  node[Last].load + node[j].load <= Capacity
          BY <3>1, <3>3, <3>4 DEF RoomInv
        <4>1. Endpoint(j).state # "none"
          BY <1>3, <2>3 DEF NotLookedAt, Members, IsMember
        <4>2. Endpoint(Last).load <= total - Endpoint(j).load
          BY <1>3, <3>5, <4>1 DEF EnsurePodsCanAbsorbDecommData, FreeSpaceSuffices
        <4>3. /\ rcNode[Last].load <= total - rcNode[j].load
              /\ node[j].load <= rcNode[j].load /\ node[Last].load <= rcNode[Last].load
          BY <2>1, <2>3, <3>5, <4>1, <4>2
        <4>4. total \in Nat /\ total <= Capacity /\ Capacity \in Nat
          BY Constants DEF Typed
        <4> HIDE DEF Last
        <4> QED
          BY <2>1, <4>3, <4>4, LoadsNat, SMT
      <3>7. NodesFit'
        BY <1>0, <1>3, <3>1 DEF NodesFit
      <3>8. LeavingInv'
        BY <1>0, <1>1, <3>1, <3>3 DEF LeavingInv
      <3>9. SeenInv'
        BY <2>1 DEF SeenInv
      <3> QED
        BY <3>6, <3>7, <3>8, <3>9 DEF DataInv
    <2> QED
      BY <2>2, <2>3
  <1> QED
    BY <1>2, <1>3 DEF DecommissionNodeOnRack

LEMMA LabelDecommissioningData ==
    ASSUME Typed, Inv, DataInv, LabelDecommissioning
    PROVE  DataInv'
  <1>1. /\ pc = "label" /\ pc' = "idle" /\ UNCHANGED <<replicas, node, unchecked>>
        /\ pods' = IF pods[Last].phase = "gone" THEN pods
                   ELSE [pods EXCEPT ![Last].label = "Decommissioning"]
    BY DEF LabelDecommissioning, EndPass, history
  <1>2. Last \in Ordinals /\ \A j \in Ordinals : ~IsLabelled(pods, j)
    BY <1>1, NoneLabelled DEF Inv, StepsInv, LateSteps, ReadySteps, Listed
  <1>3. pods \in [Ordinals -> PodRecords]
    BY DEF Typed
  <1>4. \A j \in Ordinals : IsMember(j)' <=> IsMember(j)
    BY <1>1 DEF IsMember
  <1> HIDE DEF Last
  <1>5. /\ \A j \in Ordinals : j # Last => pods'[j] = pods[j]
        /\ pods'[Last].ready = pods[Last].ready
        /\ pods[Last].phase = "gone" => pods'[Last].label = pods[Last].label
        /\ pods[Last].phase # "gone" => pods'[Last].label = "Decommissioning"
    BY <1>1, <1>2, <1>3 DEF PodRecords
  <1>6. \A j \in Ordinals : /\ Going(j) <=> j = Last
                            /\ Going(j)' <=> j = Last /\ pods[j].phase # "gone"
    BY <1>1, <1>2, <1>5 DEF Going, IsLabelled
  <1>7. LeavingInv'
    BY <1>1, <1>2, <1>5, <1>6 DEF DataInv, LeavingInv, Inv, PodsInv
  <1>8. SeenInv'
    BY <1>1 DEF SeenInv
  <1> QED
    BY <1>1, <1>4, <1>6, <1>7, <1>8, DataStays DEF DataInv

LEMMA StutterData ==
    ASSUME DataInv, UNCHANGED <<replicas, pods, node, pc, rcPods, rcNode, unchecked>>
    PROVE  DataInv'
  BY DEF DataInv, LeavingInv, RoomInv, SeenInv, NodesFit, IsMember, IsLabelled, Going, Last

LEMMA StepData ==
    ASSUME Typed, Inv, StartedInv, DataInv, Typed', [Next]_vars
    PROVE  DataInv' \/ unchecked' = Ordinals
  <1>1. CASE Pass \/ Abort
    BY <1>1, BeginPassData, QuietData, CheckDecommissioningNodesData,
       CheckPodsReadyData, DecommissionNodeOnRackData, LabelDecommissioningData
       DEF Pass, PassStep
  <1>2. CASE \E i \in Ordinals : CreatePod(i) \/ EvictPod(i) \/ Cluster(i)
    BY <1>2, PodGoesData, ClaimRemovedData, NodeComesUpData, NodeLeavesData DEF Cluster
  <1>3. CASE EditSize \/ UNCHANGED vars
    <2>1. UNCHANGED <<replicas, pods, node, pc, rcPods, rcNode, unchecked>>
      BY <1>3 DEF EditSize, vars, world, rc, history
    <2> QED
      BY <2>1, StutterData
  <1> QED
    BY <1>1, <1>2, <1>3 DEF Next

(* What was not checked is never taken back.                                *)
LEMMA UncheckedStays ==
    ASSUME Typed, unchecked = Ordinals, [Next]_vars
    PROVE  unchecked' = Ordinals
  <1>1. CASE Pass \/ Abort
    <2>1. unchecked' \in {unchecked, Ordinals, unchecked \cup NotLookedAt}
      <3>1. CASE BeginPass \/ CheckDecommissioningNodes \/ DecommissionNodeOnRack \/ Abort
        BY <3>1 DEF BeginPass, CheckDecommissioningNodes, DecommissionNodeOnRack, Abort
      <3>2. CASE ~(BeginPass \/ CheckDecommissioningNodes \/ DecommissionNodeOnRack \/ Abort)
        BY <1>1, <3>2 DEF Pass, PassStep, UpdateStatus, DeletePodPvcs, DeleteNodeStatus,
           CheckRackScale, CheckPodsReady, CheckCassandraNodeStatuses, DecommissionNodes,
           LabelDecommissioning, CheckClearActionConditions, history
      <3> QED
        BY <3>1, <3>2
    <2> QED
      BY <2>1 DEF NotLookedAt, Members
  <1>2. CASE \E i \in Ordinals : CreatePod(i) \/ EvictPod(i) \/ Cluster(i)
    BY <1>2 DEF CreatePod, EvictPod, Cluster, TerminatePod, PodRemoved, ClaimRemoved,
       NodeComesUp, NodeLeaves, history
  <1>3. CASE EditSize \/ UNCHANGED vars
    BY <1>3 DEF EditSize, vars, history
  <1> QED
    BY <1>1, <1>2, <1>3 DEF Next

(* EnsurePodsCanAbsorbDecommData, callDecommissionNodeEndpoint: however     *)
(* many nodes leave one after the other, wherever their data goes, and      *)
(* whatever is edited, evicted, recreated or cut short meanwhile, no node   *)
(* that was checked has more than its volume holds.  Not checked are the    *)
(* nodes the endpoint data did not have; and all of them, if it did not     *)
(* have the one that leaves, or if a pass ended between the call that makes *)
(* a node leave and the label that remembers it.                            *)
THEOREM DataFits == Spec => []NodesFit
  <1>1. Init => StartedInv /\ (DataInv \/ unchecked = Ordinals)
    BY InitStarted, InitData
  <1>2. /\ Typed /\ Inv /\ StartedInv /\ (DataInv \/ unchecked = Ordinals)
        /\ Typed' /\ [Next]_vars
        => (StartedInv /\ (DataInv \/ unchecked = Ordinals))'
    BY StartedStep, StepData, UncheckedStays
  <1>3. DataInv \/ unchecked = Ordinals => NodesFit
    BY DEF DataInv, NodesFit
  <1> QED
    BY <1>1, <1>2, <1>3, Invariance, PTL DEF Spec

=============================================================================
