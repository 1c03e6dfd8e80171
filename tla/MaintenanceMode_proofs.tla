----------------------- MODULE MaintenanceMode_proofs -----------------------
(***************************************************************************)
(* Theorems about maintenance mode, for any workers, racks and pods and    *)
(* any number of taints, failing pods and passes cut short.                *)
(*                                                                         *)
(* CheckEMM takes ready pods down only when no other bootstrapped pod is   *)
(* down, and then one pod.  What a pass sees of the pods taken down before *)
(* it is the history variable overlooked: DownInv says that the others are *)
(* down in its list, so that no pass takes another one down.               *)
(***************************************************************************)
EXTENDS MaintenanceMode, TLAPS

(* A step that names no prover is checked by Zenon.                         *)
USE Zenon

ClaimRecords == [state : {"none", "bound", "deleting"}, node : Nodes \cup {NoNode}]

(* Each worker holds one pod at most, and only a pod with a worker is ready.*)
SpreadInv ==
    /\ \A p, q \in Pods :
          /\ pods[p].node = pods[q].node => p = q \/ pods[p].node = NoNode
          /\ rcPods[p].node = rcPods[q].node => p = q \/ rcPods[p].node = NoNode
    /\ \A p \in Pods : rcPods[p].ready => rcPods[p].node # NoNode

Inv == TypeOK /\ SpreadInv

(* The pods taken down that a pass can see to be down.                      *)
Seen == takenDown \ overlooked

(* A pod taken down is not ready; the running pass listed those it can see  *)
(* as down; and it goes on to take a ready pod down only when there is none.*)
DownInv ==
    /\ \A p \in takenDown : pods[p].phase = "present" => ~pods[p].ready
    /\ pc # "idle" => Seen \subseteq DownPods
    /\ pc \in {"evacuate", "planned"} \/ (pc = "notReady" /\ downRack = NoRack) => Seen = {}
    /\ OneRackTakenDown

-----------------------------------------------------------------------------
(* The records.                                                             *)

LEMMA PodFields ==
    ASSUME NEW pod \in PodRecords
    PROVE  /\ pod.started \in BOOLEAN /\ pod.ready \in BOOLEAN
           /\ pod.node \in Nodes \cup {NoNode}
  BY SMT DEF PodRecords

LEMMA SetPhase ==
    ASSUME NEW pod \in PodRecords, NEW x \in {"gone", "present", "terminating"}
    PROVE  LET new == [pod EXCEPT !.phase = x]
           IN  /\ new \in PodRecords /\ new.phase = x /\ new.node = pod.node
               /\ new.started = pod.started /\ new.ready = pod.ready
  BY SMT DEF PodRecords

LEMMA SetUnsched ==
    ASSUME NEW pod \in PodRecords, NEW x \in BOOLEAN
    PROVE  LET new == [pod EXCEPT !.unsched = x]
           IN  /\ new \in PodRecords /\ new.phase = pod.phase /\ new.node = pod.node
               /\ new.started = pod.started /\ new.ready = pod.ready
  BY SMT DEF PodRecords

LEMMA SetPlace ==
    ASSUME NEW pod \in PodRecords, NEW n \in Nodes, NEW x \in BOOLEAN
    PROVE  LET new == [pod EXCEPT !.node = n, !.unsched = x]
           IN  /\ new \in PodRecords /\ new.phase = pod.phase /\ new.node = n
               /\ new.started = pod.started /\ new.ready = pod.ready
  <1> DEFINE new == [pod EXCEPT !.node = n, !.unsched = x]
  <1> DEFINE placed == [pod EXCEPT !.node = n]
  <1>1. new = [placed EXCEPT !.unsched = x]
    OBVIOUS
  <1>2. placed \in PodRecords /\ placed.phase = pod.phase /\ placed.node = n
        /\ placed.started = pod.started /\ placed.ready = pod.ready
    BY SMT DEF PodRecords
  <1> HIDE DEF new, placed
  <1>3. /\ new \in PodRecords /\ new.phase = pod.phase /\ new.node = n
        /\ new.started = pod.started /\ new.ready = pod.ready
    BY <1>1, <1>2, SetUnsched
  <1> QED BY <1>3 DEF new

LEMMA SetStarted ==
    ASSUME NEW pod \in PodRecords, NEW x \in BOOLEAN
    PROVE  LET new == [pod EXCEPT !.started = x]
           IN  /\ new \in PodRecords /\ new.phase = pod.phase /\ new.node = pod.node
               /\ new.started = x /\ new.ready = pod.ready
  BY SMT DEF PodRecords

LEMMA SetReady ==
    ASSUME NEW pod \in PodRecords, NEW x \in BOOLEAN
    PROVE  LET new == [pod EXCEPT !.ready = x]
           IN  /\ new \in PodRecords /\ new.phase = pod.phase /\ new.node = pod.node
               /\ new.started = pod.started /\ new.ready = x
  BY SMT DEF PodRecords

LEMMA SetFailure ==
    ASSUME NEW pod \in PodRecords, NEW x \in Failures \cup {NoFailure}
    PROVE  LET new == [pod EXCEPT !.failure = x]
           IN  /\ new \in PodRecords /\ new.phase = pod.phase /\ new.node = pod.node
               /\ new.started = pod.started /\ new.ready = pod.ready
  BY SMT DEF PodRecords

LEMMA SetClaimState ==
    ASSUME NEW claim \in ClaimRecords, NEW x \in {"none", "bound", "deleting"}
    PROVE  LET new == [claim EXCEPT !.state = x]
           IN  new \in ClaimRecords /\ new.state = x /\ new.node = claim.node
  BY SMT DEF ClaimRecords

LEMMA SetClaimNode ==
    ASSUME NEW claim \in ClaimRecords, NEW n \in Nodes
    PROVE  LET new == [claim EXCEPT !.node = n]
           IN  new \in ClaimRecords /\ new.state = claim.state /\ new.node = n
  BY SMT DEF ClaimRecords

LEMMA Records ==
    /\ GonePod \in PodRecords /\ GonePod.node = NoNode /\ GonePod.phase = "gone"
    /\ ~GonePod.ready /\ ~GonePod.started
    /\ NewPod \in PodRecords /\ NewPod.node = NoNode /\ NewPod.phase = "present"
    /\ ~NewPod.ready /\ ~NewPod.started
    /\ NoClaim \in ClaimRecords /\ NoClaim.state = "none"
    /\ NewClaim \in ClaimRecords /\ NewClaim.state = "bound" /\ NewClaim.node = NoNode
  <1>1. GonePod \in PodRecords /\ GonePod.node = NoNode /\ GonePod.phase = "gone"
        /\ ~GonePod.ready /\ ~GonePod.started
    BY SMT DEF GonePod, PodRecords, NoFailure
  <1>3. NewPod \in PodRecords /\ NewPod.node = NoNode /\ NewPod.phase = "present"
        /\ ~NewPod.ready /\ ~NewPod.started
    BY <1>1, SetPhase DEF NewPod
  <1>4. NoClaim \in ClaimRecords /\ NoClaim.state = "none"
    BY SMT DEF NoClaim, ClaimRecords
  <1>5. NewClaim \in ClaimRecords /\ NewClaim.state = "bound" /\ NewClaim.node = NoNode
    BY SMT DEF NewClaim, ClaimRecords
  <1> QED BY <1>1, <1>3, <1>4, <1>5

(* A deleted pod is not present, and keeps what it has of its worker.       *)
LEMMA RemovedFacts ==
    ASSUME NEW pod \in PodRecords
    PROVE  /\ Removed(pod) \in PodRecords
           /\ Removed(pod).phase # "present"
           /\ Removed(pod).node \in {pod.node, NoNode}
           /\ Removed(pod).started \/ Removed(pod).ready =>
                 (pod.started \/ pod.ready) /\ Removed(pod).node = pod.node
  <1>1. CASE pod.phase = "present" /\ pod.node # NoNode
    <2>1. Removed(pod) = [pod EXCEPT !.phase = "terminating"]
      BY <1>1 DEF Removed
    <2> QED BY <1>1, <2>1, SMT DEF PodRecords
  <1>2. CASE pod.phase = "present" /\ pod.node = NoNode
    <2>1. Removed(pod) = GonePod
      BY <1>2 DEF Removed
    <2> QED BY <2>1, Records
  <1>3. CASE pod.phase # "present"
    <2>1. Removed(pod) = pod
      BY <1>3 DEF Removed
    <2> QED BY <1>3, <2>1
  <1> QED BY <1>1, <1>2, <1>3

(* A pass that ends forgets the pods it listed.                             *)
LEMMA EndPassFacts ==
    ASSUME EndPass
    PROVE  /\ pc' = "idle" /\ downRack' = NoRack /\ rcPods' \in [Pods -> PodRecords]
           /\ \A p \in Pods : /\ rcPods'[p].node = NoNode
                              /\ ~rcPods'[p].ready
  <1>1. rcPods' = [p \in Pods |-> GonePod]
    BY DEF EndPass
  <1> QED BY <1>1, Records DEF EndPass

-----------------------------------------------------------------------------
(* Steps that move no pod to a worker keep the pods spread.                 *)

LEMMA SpreadKept ==
    ASSUME Inv,
           \A p \in Pods : pods'[p].node \in {pods[p].node, NoNode},
           EndPass \/ rcPods' = rcPods
    PROVE  SpreadInv'
  <1>1. CASE EndPass
    BY <1>1, EndPassFacts DEF Inv, SpreadInv
  <1>2. CASE rcPods' = rcPods
    BY <1>2 DEF Inv, SpreadInv
  <1> QED BY <1>1, <1>2

-----------------------------------------------------------------------------
(* The cluster.                                                             *)

LEMMA PodTurnsKeepsInv ==
    ASSUME Inv, NEW p \in Pods, NEW pod \in PodRecords, PodTurns(p, pod),
           pod.node \in {pods[p].node, NoNode},
           pod.started \/ pod.ready => pod.node # NoNode,
           claims' = claims, failures' \in 0..MaxEvents
    PROVE  Inv'
  <1>1. /\ pods' = [pods EXCEPT ![p] = pod]
        /\ taint' = taint /\ overlooked' = overlooked /\ stopped' = stopped
        /\ takenDown' = takenDown /\ hostIds' = hostIds /\ initialized' = initialized
        /\ pc' = pc /\ rcPods' = rcPods /\ downRack' = downRack /\ aborts' = aborts
        /\ taints' = taints
    BY SMT DEF PodTurns, operator, history
  <1>2. /\ pods' \in [Pods -> PodRecords]
        /\ \A q \in Pods : pods'[q] = IF q = p THEN pod ELSE pods[q]
    BY <1>1, SMT DEF Inv, TypeOK
  <1>3. \A q \in Pods : pods'[q].node \in {pods[q].node, NoNode}
    BY <1>2
  <1>4. TypeOK'
    BY <1>1, <1>2 DEF Inv, TypeOK
  <1>5. SpreadInv'
    BY <1>1, <1>3, SpreadKept
  <1> QED BY <1>4, <1>5 DEF Inv

LEMMA PodRemovedKeepsInv ==
    ASSUME Inv, NEW p \in Pods, PodRemoved(p)
    PROVE  Inv'
  BY Records, PodTurnsKeepsInv DEF PodRemoved, Inv, TypeOK

LEMMA UnschedulableKeepsInv ==
    ASSUME Inv, NEW p \in Pods, Unschedulable(p)
    PROVE  Inv'
  <1> DEFINE pod == [pods[p] EXCEPT !.unsched = TRUE]
  <1>1. pods[p] \in PodRecords
    BY DEF Inv, TypeOK
  <1>2. /\ pod \in PodRecords /\ pod.node = pods[p].node
        /\ pod.started = pods[p].started /\ pod.ready = pods[p].ready
    BY <1>1, SetUnsched
  <1>3. PodTurns(p, pod) /\ claims' = claims /\ failures' \in 0..MaxEvents
    BY SMT DEF Unschedulable, Inv, TypeOK
  <1>4. pod.started \/ pod.ready => pod.node # NoNode
    BY <1>2 DEF Inv, TypeOK
  <1> HIDE DEF pod
  <1> QED BY <1>2, <1>3, <1>4, PodTurnsKeepsInv

LEMMA PodFailsKeepsInv ==
    ASSUME Inv, NEW p \in Pods, PodFails(p)
    PROVE  Inv'
  <1> DEFINE pod == [pods[p] EXCEPT !.ready = FALSE]
  <1>1. pods[p] \in PodRecords
    BY DEF Inv, TypeOK
  <1>2. /\ pod \in PodRecords /\ pod.node = pods[p].node
        /\ pod.started = pods[p].started /\ ~pod.ready
    BY <1>1, SetReady
  <1>3. PodTurns(p, pod) /\ claims' = claims
    BY DEF PodFails
  <1>4. failures' \in 0..MaxEvents
    BY ConstantsAssumption, SMT DEF PodFails, Inv, TypeOK
  <1>5. pod.started \/ pod.ready => pod.node # NoNode
    BY <1>2 DEF Inv, TypeOK
  <1> HIDE DEF pod
  <1> QED BY <1>2, <1>3, <1>4, <1>5, PodTurnsKeepsInv

LEMMA CreatePodKeepsInv ==
    ASSUME Inv, NEW p \in Pods, CreatePod(p)
    PROVE  Inv'
  <1>1. /\ pods' = [pods EXCEPT ![p] = NewPod]
        /\ taint' = taint /\ overlooked' = overlooked /\ stopped' = stopped
        /\ takenDown' = takenDown /\ hostIds' = hostIds /\ initialized' = initialized
        /\ pc' = pc /\ rcPods' = rcPods /\ downRack' = downRack /\ aborts' = aborts
        /\ taints' = taints /\ failures' = failures
    BY SMT DEF CreatePod, PodTurns, operator, history
  <1>2. /\ pods' \in [Pods -> PodRecords]
        /\ \A q \in Pods : pods'[q] = IF q = p THEN NewPod ELSE pods[q]
    BY <1>1, Records DEF Inv, TypeOK
  <1>3. claims \in [Pods -> ClaimRecords]
    BY DEF Inv, TypeOK, ClaimRecords
  <1>4. /\ claims' \in [Pods -> ClaimRecords]
        /\ \A q \in Pods : claims'[q] = IF q = p /\ claims[q].state = "none"
                                          THEN NewClaim ELSE claims[q]
    BY <1>3, Records DEF CreatePod
  <1>5. \A q \in Pods : pods'[q].node \in {pods[q].node, NoNode}
    BY <1>2, Records
  <1>6. TypeOK'
    BY <1>1, <1>2, <1>4, Records DEF Inv, TypeOK, ClaimRecords
  <1>7. SpreadInv'
    BY <1>1, <1>5, SpreadKept
  <1> QED BY <1>6, <1>7 DEF Inv

LEMMA ScheduleKeepsInv ==
    ASSUME Inv, NEW p \in Pods, NEW n \in Nodes, Schedule(p, n)
    PROVE  Inv'
  <1> DEFINE pod == [pods[p] EXCEPT !.node = n, !.unsched = FALSE]
             node == IF claims[p].node = NoNode THEN n ELSE claims[p].node
             claim == [claims[p] EXCEPT !.node = node]
  <1>1. /\ pods' = [pods EXCEPT ![p] = pod]
        /\ taint' = taint /\ overlooked' = overlooked /\ stopped' = stopped
        /\ takenDown' = takenDown /\ hostIds' = hostIds /\ initialized' = initialized
        /\ pc' = pc /\ rcPods' = rcPods /\ downRack' = downRack /\ aborts' = aborts
        /\ taints' = taints /\ failures' = failures
    BY DEF Schedule, PodTurns, operator, history
  <1>2. pod \in PodRecords /\ pod.node = n
    <2>1. pods[p] \in PodRecords
      BY DEF Inv, TypeOK
    <2> QED BY <2>1, SetPlace
  <1>3. claims \in [Pods -> ClaimRecords]
    BY DEF Inv, TypeOK, ClaimRecords
  <1>4. node \in Nodes /\ n # NoNode /\ node # NoNode
    BY <1>3, ConstantsAssumption, SMT DEF ClaimRecords
  <1>5. claim \in ClaimRecords /\ claim.node = node /\ claim.state = claims[p].state
    <2>1. claims[p] \in ClaimRecords
      BY <1>3
    <2> HIDE DEF node
    <2> QED BY <1>4, <2>1, SetClaimNode
  <1>6. claims' = [claims EXCEPT ![p] = claim]
    BY DEF Schedule
  <1>7. claims[p].state = "bound" /\ \A q \in Pods : pods[q].node # n
    BY DEF Schedule, Fits
  <1> HIDE DEF pod, claim, node
  <1>8. /\ pods' \in [Pods -> PodRecords]
        /\ \A q \in Pods : pods'[q] = IF q = p THEN pod ELSE pods[q]
    BY <1>1, <1>2 DEF Inv, TypeOK
  <1>9. /\ claims' \in [Pods -> ClaimRecords]
        /\ \A q \in Pods : claims'[q] = IF q = p THEN claim ELSE claims[q]
    BY <1>3, <1>5, <1>6
  <1>10. TypeOK'
    BY <1>1, <1>2, <1>4, <1>8, <1>9 DEF Inv, TypeOK, ClaimRecords
  <1>11. SpreadInv'
    BY <1>1, <1>2, <1>7, <1>8 DEF Inv, SpreadInv
  <1> QED BY <1>10, <1>11 DEF Inv

LEMMA ClaimRemovedKeepsInv ==
    ASSUME Inv, NEW p \in Pods, ClaimRemoved(p)
    PROVE  Inv'
  <1>1. /\ pods' = pods
        /\ taint' = taint /\ overlooked' = overlooked /\ stopped' = stopped
        /\ takenDown' = takenDown /\ hostIds' = hostIds /\ initialized' = initialized
        /\ pc' = pc /\ rcPods' = rcPods /\ downRack' = downRack /\ aborts' = aborts
        /\ taints' = taints /\ failures' = failures
    BY DEF ClaimRemoved, operator, history
  <1>2. claims \in [Pods -> ClaimRecords]
    BY DEF Inv, TypeOK, ClaimRecords
  <1>3. /\ claims' \in [Pods -> ClaimRecords]
        /\ \A q \in Pods : claims'[q] = IF q = p THEN NoClaim ELSE claims[q]
    BY <1>2, Records DEF ClaimRemoved
  <1>4. TypeOK'
    BY <1>1, <1>3 DEF Inv, TypeOK, ClaimRecords
  <1>5. SpreadInv'
    BY <1>1 DEF Inv, SpreadInv
  <1> QED BY <1>4, <1>5 DEF Inv

LEMMA PodComesUpKeepsInv ==
    ASSUME Inv, NEW p \in Pods, PodComesUp(p)
    PROVE  Inv'
  <1> DEFINE pod == [pods[p] EXCEPT !.ready = TRUE]
  <1>1. /\ pods' = [pods EXCEPT ![p] = pod]
        /\ taint' = taint /\ claims' = claims /\ stopped' = stopped
        /\ hostIds' = hostIds /\ initialized' = initialized
        /\ pc' = pc /\ rcPods' = rcPods /\ downRack' = downRack /\ aborts' = aborts
        /\ taints' = taints /\ failures' = failures
    BY DEF PodComesUp, operator
  <1>2. pod \in PodRecords /\ pod.node = pods[p].node
    <2>1. pods[p] \in PodRecords
      BY DEF Inv, TypeOK
    <2> QED BY <2>1, SetReady
  <1> HIDE DEF pod
  <1>3. /\ pods' \in [Pods -> PodRecords]
        /\ \A q \in Pods : pods'[q] = IF q = p THEN pod ELSE pods[q]
    BY <1>1, <1>2 DEF Inv, TypeOK
  <1>4. \A q \in Pods : pods'[q].node = pods[q].node
    BY <1>2, <1>3
  <1>5. pods[p].node # NoNode
    BY DEF PodComesUp, Inv, TypeOK
  <1>6. takenDown' = takenDown \ {p} /\ overlooked' = overlooked \ {p}
    BY DEF PodComesUp
  <1>7. TypeOK'
    <2>1. \A q \in Pods : pods'[q].started \/ pods'[q].ready => pods'[q].node # NoNode
      BY <1>2, <1>3, <1>5 DEF Inv, TypeOK
    <2>2. takenDown' \subseteq Pods /\ overlooked' \subseteq takenDown'
      BY <1>6 DEF Inv, TypeOK
    <2> QED BY <1>1, <1>3, <2>1, <2>2 DEF Inv, TypeOK
  <1>8. SpreadInv'
    BY <1>1, <1>4, SpreadKept
  <1> QED BY <1>7, <1>8 DEF Inv

LEMMA TaintKeepsInv ==
    ASSUME Inv, NEW n \in Nodes,
           Untaint(n) \/ \E t \in Taints : Taint(n, t)
    PROVE  Inv'
  <1>1. /\ pods' = pods /\ claims' = claims /\ overlooked' = overlooked
        /\ stopped' = stopped /\ takenDown' = takenDown
        /\ hostIds' = hostIds /\ initialized' = initialized
        /\ pc' = pc /\ rcPods' = rcPods /\ downRack' = downRack /\ aborts' = aborts
        /\ failures' = failures
    BY DEF Taint, Untaint, operator, history
  <1>2. taint' \in [Nodes -> Taints \cup {NoTaint}]
    BY DEF Taint, Untaint, Inv, TypeOK
  <1>3. taints' \in 0..MaxTaints
    BY ConstantsAssumption, SMT DEF Taint, Untaint, Inv, TypeOK
  <1>4. TypeOK'
    BY <1>1, <1>2, <1>3 DEF Inv, TypeOK
  <1>5. SpreadInv'
    BY <1>1 DEF Inv, SpreadInv
  <1> QED BY <1>4, <1>5 DEF Inv

-----------------------------------------------------------------------------
(* The pass.                                                                *)

LEMMA ListPodsKeepsInv ==
    ASSUME Inv, ListPods
    PROVE  Inv'
  <1>1. /\ pc' = "caughtUp" /\ rcPods' = pods
        /\ taint' = taint /\ pods' = pods /\ claims' = claims
        /\ stopped' = stopped /\ takenDown' = takenDown
        /\ hostIds' = hostIds /\ initialized' = initialized /\ downRack' = downRack
        /\ taints' = taints /\ failures' = failures /\ aborts' = aborts
    BY DEF ListPods, bounds
  <1>2. overlooked' \subseteq takenDown'
    BY DEF ListPods, NotSeenDown, Inv, TypeOK
  <1>3. TypeOK'
    BY <1>1, <1>2 DEF Inv, TypeOK, Steps
  <1>4. SpreadInv'
    BY <1>1 DEF Inv, TypeOK, SpreadInv
  <1> QED BY <1>3, <1>4 DEF Inv

LEMMA GotoKeepsInv ==
    ASSUME Inv, NEW step \in Steps, Goto(step)
    PROVE  Inv'
  <1>1. /\ pc' = step /\ rcPods' = rcPods
        /\ taint' = taint /\ pods' = pods /\ claims' = claims /\ overlooked' = overlooked
        /\ stopped' = stopped /\ takenDown' = takenDown
        /\ hostIds' = hostIds /\ initialized' = initialized /\ downRack' = downRack
        /\ taints' = taints /\ failures' = failures /\ aborts' = aborts
    BY DEF Goto, world, history, bounds
  <1>2. TypeOK'
    BY <1>1 DEF Inv, TypeOK
  <1>3. SpreadInv'
    BY <1>1 DEF Inv, SpreadInv
  <1> QED BY <1>2, <1>3 DEF Inv

LEMMA EndPassKeepsInv ==
    ASSUME Inv, EndPass,
           UNCHANGED <<world, hostIds, initialized, taints, failures>>,
           aborts' \in 0..MaxEvents
    PROVE  Inv'
  <1>1. /\ taint' = taint /\ pods' = pods /\ claims' = claims /\ overlooked' = overlooked
        /\ stopped' = stopped /\ takenDown' = takenDown
        /\ hostIds' = hostIds /\ initialized' = initialized
        /\ taints' = taints /\ failures' = failures
    BY DEF world, history
  <1>2. TypeOK'
    BY <1>1, EndPassFacts DEF Inv, TypeOK, Steps
  <1>3. \A p \in Pods : pods'[p].node \in {pods[p].node, NoNode}
    BY <1>1
  <1> QED BY <1>1, <1>2, <1>3, SpreadKept DEF Inv

LEMMA CutShortFacts ==
    ASSUME Inv, CutShort \/ UNCHANGED aborts
    PROVE  aborts' \in 0..MaxEvents
  BY ConstantsAssumption, SMT DEF CutShort, Inv, TypeOK

LEMMA RemovePodsKeepsInv ==
    ASSUME Inv, NEW ps \in SUBSET Pods, RemovePods(ps)
    PROVE  Inv'
  <1>1. PICK done \in SUBSET ps :
           /\ pods' = [p \in Pods |-> IF p \in done THEN Removed(pods[p]) ELSE pods[p]]
           /\ takenDown' = takenDown \cup
                 {p \in done : rcPods[p].ready /\ pods[p].phase = "present"}
    BY DEF RemovePods
  <1>2. /\ EndPass /\ taint' = taint /\ claims' = claims /\ overlooked' = overlooked
        /\ stopped' = stopped /\ hostIds' = hostIds /\ initialized' = initialized
        /\ taints' = taints /\ failures' = failures /\ (CutShort \/ UNCHANGED aborts)
    BY DEF RemovePods
  <1>3. \A p \in Pods : pods[p] \in PodRecords
    BY DEF Inv, TypeOK
  <1>4. \A p \in Pods :
           /\ pods'[p] \in PodRecords /\ pods'[p].node \in {pods[p].node, NoNode}
           /\ pods'[p].started \/ pods'[p].ready => pods'[p].node # NoNode
    BY <1>1, <1>3, RemovedFacts DEF Inv, TypeOK
  <1>5. pods' \in [Pods -> PodRecords]
    BY <1>1, <1>4
  <1>6. TypeOK'
    BY <1>1, <1>2, <1>4, <1>5, EndPassFacts, CutShortFacts DEF Inv, TypeOK, Steps
  <1>7. SpreadInv'
    BY <1>2, <1>4, SpreadKept
  <1> QED BY <1>6, <1>7 DEF Inv

LEMMA UpdatePodsKeepsInv ==
    ASSUME Inv, NEW ps \in SUBSET Pods, NEW failure \in Failures \cup {NoFailure},
           UpdatePods(ps, failure)
    PROVE  Inv'
  <1>1. PICK done \in SUBSET ps :
           pods' = [p \in Pods |-> IF p \in done THEN [pods[p] EXCEPT !.failure = failure]
                                                 ELSE pods[p]]
    BY DEF UpdatePods
  <1>2. /\ EndPass /\ taint' = taint /\ claims' = claims /\ overlooked' = overlooked
        /\ stopped' = stopped /\ takenDown' = takenDown
        /\ hostIds' = hostIds /\ initialized' = initialized
        /\ taints' = taints /\ failures' = failures /\ (CutShort \/ UNCHANGED aborts)
    BY DEF UpdatePods, history
  <1>3. \A p \in Pods : pods[p] \in PodRecords
    BY DEF Inv, TypeOK
  <1>4. \A p \in Pods :
           /\ pods'[p] \in PodRecords /\ pods'[p].node = pods[p].node
           /\ pods'[p].started = pods[p].started /\ pods'[p].ready = pods[p].ready
    BY <1>1, <1>3, SetFailure
  <1>5. pods' \in [Pods -> PodRecords]
    BY <1>1, <1>4
  <1>6. TypeOK'
    BY <1>2, <1>4, <1>5, EndPassFacts, CutShortFacts DEF Inv, TypeOK, Steps
  <1>7. SpreadInv'
    BY <1>2, <1>4, SpreadKept
  <1> QED BY <1>6, <1>7 DEF Inv

LEMMA UpdateCassandraNodeStatusKeepsInv ==
    ASSUME Inv, UpdateCassandraNodeStatus
    PROVE  Inv'
  <1>1. PICK known \in SUBSET {p \in Listed : rcPods[p].ready} :
           hostIds' = hostIds \cup known
    BY DEF UpdateCassandraNodeStatus
  <1>2. /\ pc' = "cleanup" /\ rcPods' = rcPods
        /\ taint' = taint /\ pods' = pods /\ claims' = claims /\ overlooked' = overlooked
        /\ stopped' = stopped /\ takenDown' = takenDown
        /\ initialized' = initialized /\ downRack' = downRack
        /\ taints' = taints /\ failures' = failures /\ aborts' = aborts
    BY DEF UpdateCassandraNodeStatus, world, history, bounds
  <1>3. TypeOK'
    BY <1>1, <1>2 DEF Inv, TypeOK, Steps, Listed
  <1>4. SpreadInv'
    BY <1>2 DEF Inv, SpreadInv
  <1> QED BY <1>3, <1>4 DEF Inv

LEMMA StopKeepsInv ==
    ASSUME Inv, Stop
    PROVE  Inv'
  <1>1. /\ pods' = [p \in Pods |-> Removed(pods[p])]
        /\ taint' = taint /\ claims' = claims /\ overlooked' = overlooked
        /\ stopped' = TRUE /\ takenDown' = takenDown
        /\ hostIds' = hostIds /\ initialized' = initialized
        /\ pc' = pc /\ rcPods' = rcPods /\ downRack' = downRack /\ aborts' = aborts
        /\ taints' = taints /\ failures' = failures
    BY DEF Stop, operator, history
  <1>2. \A p \in Pods : pods[p] \in PodRecords
    BY DEF Inv, TypeOK
  <1>3. \A p \in Pods :
           /\ pods'[p] \in PodRecords /\ pods'[p].node \in {pods[p].node, NoNode}
           /\ pods'[p].started \/ pods'[p].ready => pods'[p].node # NoNode
    BY <1>1, <1>2, RemovedFacts DEF Inv, TypeOK
  <1>4. pods' \in [Pods -> PodRecords]
    BY <1>1, <1>3
  <1>5. TypeOK'
    BY <1>1, <1>3, <1>4 DEF Inv, TypeOK
  <1>6. SpreadInv'
    BY <1>1, <1>3, SpreadKept
  <1> QED BY <1>5, <1>6 DEF Inv

LEMMA StartNodeReplaceKeepsInv ==
    ASSUME Inv, NEW unclaimed \in SUBSET Pods, NEW removed \in SUBSET Pods,
           StartNodeReplace(unclaimed, removed),
           CutShort \/ UNCHANGED aborts
    PROVE  Inv'
  <1>1. /\ overlooked' = overlooked
        /\ claims' = [p \in Pods |-> IF p \in unclaimed
                                       THEN [claims[p] EXCEPT !.state = "deleting"]
                                       ELSE claims[p]]
        /\ pods' = [p \in Pods |-> IF p \in removed THEN Removed(pods[p]) ELSE pods[p]]
        /\ EndPass /\ taint' = taint /\ stopped' = stopped /\ takenDown' = takenDown
        /\ hostIds' = hostIds /\ initialized' = initialized
        /\ taints' = taints /\ failures' = failures
    BY DEF StartNodeReplace, history
  <1>2. /\ \A p \in Pods : pods[p] \in PodRecords
        /\ \A p \in Pods : claims[p] \in ClaimRecords
    BY DEF Inv, TypeOK, ClaimRecords
  <1>3. \A p \in Pods :
           /\ pods'[p] \in PodRecords /\ pods'[p].node \in {pods[p].node, NoNode}
           /\ pods'[p].started \/ pods'[p].ready => pods'[p].node # NoNode
    BY <1>1, <1>2, RemovedFacts DEF Inv, TypeOK
  <1>4. \A p \in Pods :
           /\ claims'[p] \in ClaimRecords /\ claims'[p].node = claims[p].node
           /\ claims'[p].state = IF p \in unclaimed THEN "deleting" ELSE claims[p].state
    <2> TAKE p \in Pods
    <2>1. CASE p \in unclaimed
      <3>1. claims'[p] = [claims[p] EXCEPT !.state = "deleting"] /\ claims[p] \in ClaimRecords
        BY <1>1, <1>2, <2>1
      <3> QED BY <2>1, <3>1, SetClaimState
    <2>2. CASE p \notin unclaimed
      BY <1>1, <1>2, <2>2
    <2> QED BY <2>1, <2>2
  <1>5. pods' \in [Pods -> PodRecords] /\ claims' \in [Pods -> ClaimRecords]
    BY <1>1, <1>3, <1>4
  <1>6. TypeOK'
    BY <1>1, <1>3, <1>5, EndPassFacts, CutShortFacts DEF Inv, TypeOK, Steps, ClaimRecords
  <1>7. SpreadInv'
    BY <1>1, <1>3, SpreadKept
  <1> QED BY <1>6, <1>7 DEF Inv

LEMMA StartNodeKeepsInv ==
    ASSUME Inv, StartNode
    PROVE  Inv'
  <1>1. /\ EndPass /\ taint' = taint /\ claims' = claims /\ overlooked' = overlooked
        /\ stopped' = stopped /\ takenDown' = takenDown /\ hostIds' = hostIds
        /\ taints' = taints /\ failures' = failures /\ aborts' = aborts
    BY DEF StartNode, history, bounds
  <1>2. initialized' \in BOOLEAN
    BY SMT DEF StartNode
  <1>3. \A p \in Pods : pods[p] \in PodRecords
    BY DEF Inv, TypeOK
  <1>4. /\ pods' \in [Pods -> PodRecords]
        /\ \A p \in Pods :
           /\ pods'[p].node = pods[p].node /\ pods'[p].ready = pods[p].ready
           /\ pods'[p].started => pods[p].started \/ pods[p].node # NoNode
    <2>1. CASE pods' = pods
      BY <2>1 DEF Inv, TypeOK
    <2>2. ASSUME NEW p \in Listed,
                 pods' = [pods EXCEPT ![p].started =
                            @ \/ (pods[p].phase = "present" /\ pods[p].node # NoNode)]
          PROVE  <1>4!1 /\ <1>4!2
      <3> DEFINE x == pods[p].started \/ (pods[p].phase = "present" /\ pods[p].node # NoNode)
                 pod == [pods[p] EXCEPT !.started = x]
      <3>1. p \in Pods /\ x \in BOOLEAN
        BY <1>3, PodFields DEF Listed
      <3>2. pods' = [pods EXCEPT ![p] = pod]
        BY <2>2
      <3>3. /\ pod \in PodRecords /\ pod.node = pods[p].node
            /\ pod.ready = pods[p].ready /\ pod.started = x
        <4> HIDE DEF x
        <4> QED BY <1>3, <3>1, SetStarted
      <3>4. x => pods[p].started \/ pods[p].node # NoNode
        OBVIOUS
      <3> HIDE DEF x, pod
      <3> QED BY <3>1, <3>2, <3>3, <3>4 DEF Inv, TypeOK
    <2> QED BY <2>1, <2>2 DEF StartNode
  <1>5. TypeOK'
    BY <1>1, <1>4, <1>2, EndPassFacts DEF Inv, TypeOK, Steps
  <1>6. SpreadInv'
    BY <1>1, <1>4, SpreadKept
  <1> QED BY <1>5, <1>6 DEF Inv

-----------------------------------------------------------------------------
(* The steps of checkNodeEMM, made of those above.                          *)

(* A step that reads the workers goes on, or ends the pass.                 *)
LEMMA IfReadableKeepsInv ==
    ASSUME Inv, EndPass, UNCHANGED <<world, hostIds, initialized, bounds>>
    PROVE  Inv'
  <1>1. /\ UNCHANGED <<world, hostIds, initialized, taints, failures>>
        /\ UNCHANGED aborts
    BY DEF bounds
  <1> QED BY <1>1, EndPassKeepsInv, CutShortFacts

LEMMA CheckStatefulSetControllerCaughtUpKeepsInv ==
    ASSUME Inv, CheckStatefulSetControllerCaughtUp
    PROVE  Inv'
  <1>1. ASSUME NEW p \in Pods, RemovePods({p}) PROVE Inv'
    <2>1. {p} \in SUBSET Pods
      OBVIOUS
    <2> QED BY <1>1, <2>1, RemovePodsKeepsInv
  <1>2. "status" \in Steps
    BY DEF Steps
  <1> QED BY <1>1, <1>2, IfReadableKeepsInv, GotoKeepsInv
          DEF CheckStatefulSetControllerCaughtUp

LEMMA CleanupEMMAnnotationsKeepsInv ==
    ASSUME Inv, CleanupEMMAnnotations
    PROVE  Inv'
  <1>1. {p \in Failed : rcPods[p].node \notin EMMNodes} \in SUBSET Pods
    BY DEF Failed, Listed
  <1>2. "processing" \in Steps /\ NoFailure \in Failures \cup {NoFailure}
    BY DEF Steps
  <1> QED BY <1>1, <1>2, IfReadableKeepsInv, GotoKeepsInv, UpdatePodsKeepsInv
          DEF CleanupEMMAnnotations, IfReadable

LEMMA EmmFailureStillProcessingKeepsInv ==
    ASSUME Inv, EmmFailureStillProcessing
    PROVE  Inv'
  <1>1. "checks" \in Steps /\ "start" \in Steps
    BY DEF Steps
  <1> QED BY <1>1, IfReadableKeepsInv, GotoKeepsInv
          DEF EmmFailureStillProcessing, IfReadable

LEMMA CheckFailuresKeepsInv ==
    ASSUME Inv, CheckFailures
    PROVE  Inv'
  <1>1. ASSUME NEW nodes, NEW failure \in Failures, FailEMM(nodes, failure) PROVE Inv'
    <2>1. PodsOn(nodes) \ Failed \in SUBSET Pods
      BY DEF PodsOn, Listed
    <2> QED BY <1>1, <2>1, UpdatePodsKeepsInv DEF FailEMM
  <1>2. {"GenericFailure", "NotEnoughResources", "TooManyExistingFailures"} \subseteq Failures
    BY DEF Failures
  <1>3. ASSUME NEW r \in RacksWithDownPods, pc' = "notReady", downRack' = r,
               UNCHANGED <<world, hostIds, initialized, rcPods, bounds>>
        PROVE  Inv'
    <2>1. /\ taint' = taint /\ pods' = pods /\ claims' = claims /\ overlooked' = overlooked
          /\ stopped' = stopped /\ takenDown' = takenDown
          /\ hostIds' = hostIds /\ initialized' = initialized /\ rcPods' = rcPods
          /\ taints' = taints /\ failures' = failures /\ aborts' = aborts
      BY <1>3 DEF world, history, bounds
    <2>2. r \in Racks
      BY ConstantsAssumption DEF RacksWithDownPods, DownPods, Listed
    <2>3. TypeOK'
      BY <1>3, <2>1, <2>2 DEF Inv, TypeOK, Steps
    <2>4. SpreadInv'
      BY <2>1 DEF Inv, SpreadInv
    <2> QED BY <2>3, <2>4 DEF Inv
  <1>4. "notReady" \in Steps
    BY DEF Steps
  <1> QED BY <1>1, <1>2, <1>3, <1>4, IfReadableKeepsInv, GotoKeepsInv
          DEF CheckFailures, IfReadable

LEMMA RemoveAllNotReadyPodsOnEMMNodesKeepsInv ==
    ASSUME Inv, RemoveAllNotReadyPodsOnEMMNodes
    PROVE  Inv'
  <1>1. {p \in PodsOn(EMMNodes) : ~rcPods[p].ready} \in SUBSET Pods
    BY DEF PodsOn, Listed
  <1>2. "evacuate" \in Steps /\ "replace" \in Steps
    BY DEF Steps
  <1> QED BY <1>1, <1>2, IfReadableKeepsInv, GotoKeepsInv, RemovePodsKeepsInv
          DEF RemoveAllNotReadyPodsOnEMMNodes, IfReadable

LEMMA PerformEvacuateDataPodReplaceKeepsInv ==
    ASSUME Inv, PerformEvacuateDataPodReplace
    PROVE  Inv'
  <1> DEFINE S == StuckOnEvacuated
  <1>1. S \in SUBSET Listed /\ Listed \in SUBSET Pods
    BY DEF StuckOnEvacuated, DownPods, Listed
  <1>2. ASSUME NEW unclaimed \in SUBSET S, NEW removed \in SUBSET S,
               StartNodeReplace(unclaimed, removed), CutShort \/ UNCHANGED aborts
        PROVE  Inv'
    <2>1. unclaimed \in SUBSET Pods /\ removed \in SUBSET Pods
      BY <1>1
    <2> HIDE DEF S
    <2> QED BY <1>2, <2>1, StartNodeReplaceKeepsInv
  <1>3. CASE ~NodesReadable
    BY <1>3, IfReadableKeepsInv DEF PerformEvacuateDataPodReplace, IfReadable
  <1>4. CASE Goto("start")
    BY <1>4, GotoKeepsInv DEF Steps
  <1>5. CASE StartNodeReplace(S, S) /\ UNCHANGED aborts
    <2>1. S \in SUBSET S
      OBVIOUS
    <2> HIDE DEF S
    <2> QED BY <1>2, <1>5, <2>1
  <1>6. ASSUME NEW done \in SUBSET S, NEW cut \in S, CutShort,
               \/ StartNodeReplace(done, done)
               \/ StartNodeReplace(done \cup {cut}, done)
        PROVE  Inv'
    <2>1. done \cup {cut} \in SUBSET S
      OBVIOUS
    <2> HIDE DEF S
    <2> QED BY <1>2, <1>6, <2>1
  <1> QED BY <1>3, <1>4, <1>5, <1>6 DEF PerformEvacuateDataPodReplace, IfReadable

LEMMA RemoveNextPodFromEvacuateDataNodeKeepsInv ==
    ASSUME Inv, RemoveNextPodFromEvacuateDataNode
    PROVE  Inv'
  <1>1. ASSUME NEW nodes, NEW p \in PodsOn(nodes), RemovePods({p}) PROVE Inv'
    <2>1. {p} \in SUBSET Pods
      BY DEF PodsOn, Listed
    <2> QED BY <1>1, <2>1, RemovePodsKeepsInv
  <1>2. "planned" \in Steps
    BY DEF Steps
  <1> QED BY <1>1, <1>2, IfReadableKeepsInv, GotoKeepsInv
          DEF RemoveNextPodFromEvacuateDataNode, IfReadable

LEMMA RemoveAllPodsFromOnePlannedDowntimeNodeKeepsInv ==
    ASSUME Inv, RemoveAllPodsFromOnePlannedDowntimeNode
    PROVE  Inv'
  <1>1. ASSUME NEW nodes, RemovePods(PodsOn(nodes)) PROVE Inv'
    <2>1. PodsOn(nodes) \in SUBSET Pods
      BY DEF PodsOn, Listed
    <2> QED BY <1>1, <2>1, RemovePodsKeepsInv
  <1>2. "start" \in Steps
    BY DEF Steps
  <1> QED BY <1>1, <1>2, IfReadableKeepsInv, GotoKeepsInv
          DEF RemoveAllPodsFromOnePlannedDowntimeNode, IfReadable

-----------------------------------------------------------------------------
LEMMA InitInv == Init => Inv
  <1> SUFFICES ASSUME Init PROVE Inv
    OBVIOUS
  <1>1. PICK at \in [Pods -> Nodes], new \in SUBSET NewPods :
          /\ \A p, q \in Pods : at[p] = at[q] => p = q
          /\ pods = [p \in Pods |-> IF p \in new THEN NewPod ELSE UpPod(at[p])]
          /\ claims = [p \in Pods |-> IF p \in new THEN NewClaim
                                      ELSE [NewClaim EXCEPT !.node = at[p]]]
          /\ hostIds = Pods \ new
          /\ initialized \in IF new = {} THEN {TRUE} ELSE BOOLEAN
    BY ConstantsAssumption DEF Init
  <1>2. /\ taint = [n \in Nodes |-> NoTaint]
        /\ stopped = FALSE /\ takenDown = {} /\ overlooked = {}
        /\ pc = "idle" /\ rcPods = [p \in Pods |-> GonePod] /\ downRack = NoRack
        /\ taints = 0 /\ failures = 0 /\ aborts = 0
    BY DEF Init
  <1>3. \A n \in Nodes : UpPod(n) \in PodRecords /\ UpPod(n).node = n
    <2> TAKE n \in Nodes
    <2> DEFINE placed == [NewPod EXCEPT !.node = n]
               started == [placed EXCEPT !.started = TRUE]
    <2>1. UpPod(n) = [started EXCEPT !.ready = TRUE]
      BY DEF UpPod
    <2>2. placed \in PodRecords /\ placed.node = n
      <3>1. \A pod \in PodRecords :
               [pod EXCEPT !.node = n] \in PodRecords /\ [pod EXCEPT !.node = n].node = n
        BY SMT DEF PodRecords
      <3> QED BY <3>1, Records
    <2> HIDE DEF placed
    <2>3. started \in PodRecords /\ started.node = n
      BY <2>2, SetStarted
    <2> HIDE DEF started
    <2> QED BY <2>1, <2>3, SetReady
  <1>4. \A n \in Nodes : LET claim == [NewClaim EXCEPT !.node = n]
                         IN  /\ claim \in ClaimRecords
                             /\ claim.state = "bound" /\ claim.node = n
    BY Records, SetClaimNode
  <1>5. /\ pods \in [Pods -> PodRecords]
        /\ \A p \in Pods : \/ p \in new /\ pods[p] = NewPod
                           \/ p \notin new /\ pods[p].node = at[p]
    BY <1>1, <1>3, Records
  <1>6. /\ claims \in [Pods -> ClaimRecords]
        /\ \A p \in Pods : /\ claims[p].state = "bound"
                           /\ p \notin new => claims[p].node = at[p]
    BY <1>1, <1>4, Records
  <1>7. rcPods \in [Pods -> PodRecords] /\ \A p \in Pods : rcPods[p] = GonePod
    BY <1>2, Records
  <1>8. \A p \in Pods : at[p] \in Nodes /\ at[p] # NoNode
    BY ConstantsAssumption
  <1>9. TypeOK
    <2>1. initialized \in BOOLEAN
      BY <1>1
    <2>2. 0 \in 0..MaxTaints /\ 0 \in 0..MaxEvents
      BY ConstantsAssumption, SMT
    <2>3. \A p \in Pods : pods[p].started \/ pods[p].ready => pods[p].node # NoNode
      BY <1>5, <1>8, Records
    <2>4. /\ taint \in [Nodes -> Taints \cup {NoTaint}]
          /\ hostIds \subseteq Pods /\ stopped \in BOOLEAN /\ pc \in Steps
      BY <1>1, <1>2 DEF Steps
    <2> QED BY <1>2, <1>5, <1>6, <1>7, <2>1, <2>2, <2>3, <2>4 DEF TypeOK, ClaimRecords
  <1>10. SpreadInv
    <2>1. \A p, q \in Pods : pods[p].node = pods[q].node => p = q \/ pods[p].node = NoNode
      <3> TAKE p, q \in Pods
      <3>1. \/ pods[p].node = NoNode
            \/ pods[p].node = at[p] /\ at[p] # NoNode
        BY <1>5, <1>8, Records
      <3>2. \/ pods[q].node = NoNode
            \/ pods[q].node = at[q] /\ at[q] # NoNode
        BY <1>5, <1>8, Records
      <3> QED BY <1>1, <3>1, <3>2
    <2>2. \A p \in Pods : rcPods[p].node = NoNode /\ ~rcPods[p].ready
      BY <1>7, Records
    <2> QED BY <2>1, <2>2 DEF SpreadInv
  <1> QED BY <1>9, <1>10 DEF Inv

LEMMA NextInv == Inv /\ [Next]_vars => Inv'
  <1> SUFFICES ASSUME Inv, [Next]_vars PROVE Inv'
    OBVIOUS
  <1>1. CASE Pass
    BY <1>1, ListPodsKeepsInv, CheckStatefulSetControllerCaughtUpKeepsInv,
       UpdateCassandraNodeStatusKeepsInv, CleanupEMMAnnotationsKeepsInv,
       EmmFailureStillProcessingKeepsInv, CheckFailuresKeepsInv,
       RemoveAllNotReadyPodsOnEMMNodesKeepsInv, PerformEvacuateDataPodReplaceKeepsInv,
       RemoveNextPodFromEvacuateDataNodeKeepsInv,
       RemoveAllPodsFromOnePlannedDowntimeNodeKeepsInv, StartNodeKeepsInv
       DEF Pass, CheckEMM
  <1>2. CASE Abort
    BY <1>2, EndPassKeepsInv, CutShortFacts DEF Abort
  <1>3. CASE Stop
    BY <1>3, StopKeepsInv
  <1>4. ASSUME NEW p \in Pods, Cluster(p) \/ PodFails(p) PROVE Inv'
    BY <1>4, PodRemovedKeepsInv, CreatePodKeepsInv, UnschedulableKeepsInv,
       ClaimRemovedKeepsInv, PodComesUpKeepsInv, ScheduleKeepsInv, PodFailsKeepsInv
       DEF Cluster
  <1>5. ASSUME NEW n \in Nodes, Untaint(n) \/ \E t \in Taints : Taint(n, t) PROVE Inv'
    BY <1>5, TaintKeepsInv
  <1>6. CASE UNCHANGED vars
    <2>1. /\ pods' = pods /\ claims' = claims /\ overlooked' = overlooked
          /\ stopped' = stopped /\ takenDown' = takenDown /\ taint' = taint
          /\ hostIds' = hostIds /\ initialized' = initialized
          /\ pc' = pc /\ rcPods' = rcPods /\ downRack' = downRack
          /\ taints' = taints /\ failures' = failures /\ aborts' = aborts
      BY <1>6 DEF vars, world, history, bounds
    <2>2. TypeOK'
      BY <2>1 DEF Inv, TypeOK
    <2>3. SpreadInv'
      BY <2>1 DEF Inv, SpreadInv
    <2> QED BY <2>2, <2>3 DEF Inv
  <1> QED BY <1>1, <1>2, <1>3, <1>4, <1>5, <1>6 DEF Next

(* Types, and: no pod is started or ready without a worker.                 *)
THEOREM TypeCorrect == Spec => []TypeOK
  <1>1. Inv => TypeOK
    BY DEF Inv
  <1> QED BY <1>1, InitInv, NextInv, PTL DEF Spec

-----------------------------------------------------------------------------
(* What CheckEMM takes down.  A step that leaves the pass alone, and brings *)
(* no pod back ready that is still counted as taken down.                   *)

LEMMA ClusterKeepsDown ==
    ASSUME DownInv, takenDown' \subseteq takenDown, Seen' \subseteq Seen,
           hostIds' = hostIds, pc' = pc, rcPods' = rcPods, downRack' = downRack,
           \A p \in takenDown' : pods'[p].phase = "present" => ~pods'[p].ready
    PROVE  DownInv'
  <1>1. DownPods' = DownPods
    BY DEF DownPods, Listed, HasPodPotentiallyBootstrapped
  <1>2. OneRackTakenDown'
    BY DEF DownInv, OneRackTakenDown, Seen
  <1> QED BY <1>1, <1>2 DEF DownInv

(* The end of a pass that takes no pod down.                                *)
LEMMA EndPassKeepsDown ==
    ASSUME DownInv, EndPass, takenDown' = takenDown, overlooked' = overlooked,
           takenDown \subseteq Pods,
           \A p \in Pods : pods'[p].phase = "present" =>
              pods[p].phase = "present" /\ (pods'[p].ready => pods[p].ready)
    PROVE  DownInv'
  <1>1. pc' = "idle"
    BY DEF EndPass
  <1>2. \A p \in takenDown' : pods'[p].phase = "present" => ~pods'[p].ready
    BY DEF DownInv
  <1>3. OneRackTakenDown'
    BY DEF DownInv, OneRackTakenDown
  <1> QED BY <1>1, <1>2, <1>3 DEF DownInv

LEMMA UnchangedEndKeepsDown ==
    ASSUME Inv, DownInv, EndPass, UNCHANGED <<world, hostIds>>
    PROVE  DownInv'
  <1>1. pods' = pods /\ takenDown' = takenDown /\ overlooked' = overlooked
    BY DEF world, history
  <1> QED BY <1>1, EndPassKeepsDown DEF Inv, TypeOK

(* RemovePods takes down the ready ones of the pods it deletes: none, or    *)
(* pods of one rack when no other pod is seen down.                         *)
LEMMA RemovePodsKeepsDown ==
    ASSUME Inv, DownInv, NEW ps \in SUBSET Pods, RemovePods(ps),
           \/ \A p \in ps : ~rcPods[p].ready
           \/ Seen = {} /\ \A p, q \in ps : RackOf[p] = RackOf[q]
    PROVE  DownInv'
  <1>1. PICK done \in SUBSET ps :
           /\ pods' = [p \in Pods |-> IF p \in done THEN Removed(pods[p]) ELSE pods[p]]
           /\ takenDown' = takenDown \cup
                 {p \in done : rcPods[p].ready /\ pods[p].phase = "present"}
    BY DEF RemovePods
  <1>2. EndPass /\ overlooked' = overlooked
    BY DEF RemovePods
  <1>3. \A p \in Pods : pods[p] \in PodRecords
    BY DEF Inv, TypeOK
  <1>4. \A p \in Pods : pods'[p].phase = "present" => p \notin done /\ pods'[p] = pods[p]
    BY <1>1, <1>3, RemovedFacts
  <1>5. takenDown \subseteq Pods
    BY DEF Inv, TypeOK
  <1>6. CASE \A p \in ps : ~rcPods[p].ready
    <2>1. takenDown' = takenDown
      BY <1>1, <1>6
    <2> QED BY <1>2, <1>4, <1>5, <2>1, EndPassKeepsDown
  <1>7. CASE Seen = {} /\ \A p, q \in ps : RackOf[p] = RackOf[q]
    <2>1. takenDown' \ overlooked' \subseteq done
      BY <1>1, <1>2, <1>7 DEF Seen
    <2>2. OneRackTakenDown'
      BY <1>7, <2>1 DEF OneRackTakenDown
    <2>3. \A p \in takenDown' : p \in Pods /\ (p \in done \/ p \in takenDown)
      BY <1>1, <1>5
    <2>4. \A p \in takenDown' : pods'[p].phase = "present" => ~pods'[p].ready
      BY <1>4, <2>3 DEF DownInv
    <2>5. pc' = "idle"
      BY <1>2 DEF EndPass
    <2> QED BY <2>2, <2>4, <2>5 DEF DownInv
  <1> QED BY <1>6, <1>7

LEMMA GotoKeepsDown ==
    ASSUME DownInv, NEW step, Goto(step), pc # "idle",
           step \in {"evacuate", "planned"} \/ (step = "notReady" /\ downRack = NoRack) =>
              Seen = {}
    PROVE  DownInv'
  <1>1. /\ pc' = step /\ rcPods' = rcPods /\ pods' = pods /\ downRack' = downRack
        /\ takenDown' = takenDown /\ overlooked' = overlooked /\ hostIds' = hostIds
    BY DEF Goto, world, history
  <1>2. DownPods' = DownPods /\ Seen' = Seen
    BY <1>1 DEF DownPods, Listed, HasPodPotentiallyBootstrapped, Seen
  <1> QED BY <1>1, <1>2 DEF DownInv, OneRackTakenDown

LEMMA PodTurnsKeepsDown ==
    ASSUME Inv, DownInv, NEW p \in Pods, NEW pod, PodTurns(p, pod),
           pod.phase = "present" =>
              ~pod.ready \/ (pod.ready = pods[p].ready /\ pods[p].phase = "present")
    PROVE  DownInv'
  <1>1. /\ pods' = [pods EXCEPT ![p] = pod]
        /\ takenDown' = takenDown /\ overlooked' = overlooked /\ hostIds' = hostIds
        /\ pc' = pc /\ rcPods' = rcPods /\ downRack' = downRack
    BY DEF PodTurns, operator, history
  <1>2. \A q \in Pods : pods'[q] = IF q = p THEN pod ELSE pods[q]
    BY <1>1 DEF Inv, TypeOK
  <1>3. \A q \in takenDown : q \in Pods /\ (pods[q].phase = "present" => ~pods[q].ready)
    BY DEF Inv, TypeOK, DownInv
  <1>4. \A q \in takenDown' : pods'[q].phase = "present" => ~pods'[q].ready
    BY <1>1, <1>2, <1>3
  <1>5. Seen' = Seen
    BY <1>1 DEF Seen
  <1> QED BY <1>1, <1>4, <1>5, ClusterKeepsDown

LEMMA ClusterStepKeepsDown ==
    ASSUME Inv, DownInv, NEW p \in Pods, Cluster(p) \/ PodFails(p)
    PROVE  DownInv'
  <1>1. pods[p] \in PodRecords /\ \A q \in Pods : pods[q] \in PodRecords
    BY DEF Inv, TypeOK
  <1>2. CASE PodRemoved(p)
    BY <1>2, Records, PodTurnsKeepsDown DEF PodRemoved
  <1>3. CASE CreatePod(p)
    <2>1. PodTurns(p, NewPod)
      BY <1>3 DEF CreatePod
    <2>2. NewPod.phase = "present" /\ ~NewPod.ready
      BY Records
    <2> QED BY <2>1, <2>2, PodTurnsKeepsDown
  <1>4. CASE Unschedulable(p)
    <2> DEFINE pod == [pods[p] EXCEPT !.unsched = TRUE]
    <2>1. pod.phase = pods[p].phase /\ pod.ready = pods[p].ready
      BY <1>1, SetUnsched
    <2>2. PodTurns(p, pod)
      BY <1>4 DEF Unschedulable
    <2> HIDE DEF pod
    <2> QED BY <2>1, <2>2, PodTurnsKeepsDown
  <1>5. ASSUME NEW n \in Nodes, Schedule(p, n) PROVE DownInv'
    <2> DEFINE pod == [pods[p] EXCEPT !.node = n, !.unsched = FALSE]
    <2>1. pod.phase = pods[p].phase /\ pod.ready = pods[p].ready
      BY <1>1, SetPlace
    <2>2. PodTurns(p, pod)
      BY <1>5 DEF Schedule
    <2> HIDE DEF pod
    <2> QED BY <2>1, <2>2, PodTurnsKeepsDown
  <1>6. CASE PodFails(p)
    <2> DEFINE pod == [pods[p] EXCEPT !.ready = FALSE]
    <2>1. pod.phase = pods[p].phase /\ ~pod.ready
      BY <1>1, SetReady
    <2>2. PodTurns(p, pod)
      BY <1>6 DEF PodFails
    <2> HIDE DEF pod
    <2> QED BY <2>1, <2>2, PodTurnsKeepsDown
  <1>7. CASE ClaimRemoved(p)
    <2>1. /\ pods' = pods /\ takenDown' = takenDown /\ overlooked' = overlooked
          /\ hostIds' = hostIds /\ pc' = pc /\ rcPods' = rcPods /\ downRack' = downRack
      BY <1>7 DEF ClaimRemoved, operator, history
    <2> QED BY <2>1, ClusterKeepsDown DEF DownInv, Seen
  <1>8. CASE PodComesUp(p)
    <2> DEFINE pod == [pods[p] EXCEPT !.ready = TRUE]
    <2>2. /\ pods' = [pods EXCEPT ![p] = pod]
          /\ takenDown' = takenDown \ {p} /\ overlooked' = overlooked \ {p}
          /\ hostIds' = hostIds
          /\ pc' = pc /\ rcPods' = rcPods /\ downRack' = downRack
      BY <1>8 DEF PodComesUp, operator
    <2> HIDE DEF pod
    <2>3. \A q \in Pods : pods'[q] = IF q = p THEN pod ELSE pods[q]
      BY <2>2 DEF Inv, TypeOK
    <2>4. \A q \in takenDown' : pods'[q].phase = "present" => ~pods'[q].ready
      BY <2>2, <2>3 DEF DownInv, Inv, TypeOK
    <2>5. Seen' \subseteq Seen /\ takenDown' \subseteq takenDown
      BY <2>2 DEF Seen
    <2> QED BY <2>2, <2>4, <2>5, ClusterKeepsDown
  <1> QED BY <1>2, <1>3, <1>4, <1>5, <1>6, <1>7, <1>8 DEF Cluster

LEMMA TaintKeepsDown ==
    ASSUME DownInv, NEW n \in Nodes,
           Untaint(n) \/ \E t \in Taints : Taint(n, t)
    PROVE  DownInv'
  <1>1. /\ pods' = pods /\ takenDown' = takenDown /\ overlooked' = overlooked
        /\ hostIds' = hostIds /\ pc' = pc /\ rcPods' = rcPods /\ downRack' = downRack
    BY DEF Taint, Untaint, operator, history
  <1> QED BY <1>1, ClusterKeepsDown DEF DownInv, Seen

(* Stopping the datacenter leaves no pod present.                           *)
LEMMA StopKeepsDown ==
    ASSUME Inv, DownInv, Stop
    PROVE  DownInv'
  <1>1. /\ pods' = [p \in Pods |-> Removed(pods[p])]
        /\ takenDown' = takenDown /\ overlooked' = overlooked /\ pc' = "idle"
    BY DEF Stop, operator, history
  <1>2. \A p \in Pods : pods[p] \in PodRecords
    BY DEF Inv, TypeOK
  <1>3. \A p \in Pods : pods'[p].phase # "present"
    BY <1>1, <1>2, RemovedFacts
  <1>4. takenDown' \subseteq Pods /\ OneRackTakenDown'
    BY <1>1 DEF Inv, TypeOK, DownInv, OneRackTakenDown
  <1> QED BY <1>1, <1>3, <1>4 DEF DownInv

-----------------------------------------------------------------------------
(* What the pass cannot see to be down when it lists the pods is overlooked;*)
(* the rest is listed, not ready, and known to have bootstrapped.           *)
LEMMA ListPodsKeepsDown ==
    ASSUME Inv, DownInv, ListPods
    PROVE  DownInv'
  <1>1. /\ pc' = "caughtUp" /\ rcPods' = pods /\ pods' = pods
        /\ takenDown' = takenDown /\ overlooked' = overlooked \cup NotSeenDown
        /\ hostIds' = hostIds
    BY DEF ListPods
  <1>2. \A p \in Seen' : /\ p \in Pods /\ p \in takenDown /\ pods[p].phase = "present"
                         /\ p \in hostIds \/ pods[p].started
    BY <1>1 DEF Seen, NotSeenDown, Inv, TypeOK
  <1>3. Seen' \subseteq DownPods'
    BY <1>1, <1>2 DEF DownPods, Listed, HasPodPotentiallyBootstrapped, DownInv
  <1>4. OneRackTakenDown'
    BY <1>1 DEF DownInv, OneRackTakenDown
  <1> QED BY <1>1, <1>3, <1>4 DEF DownInv

(* A pod that waits without a worker was not ready.                         *)
LEMMA CaughtUpKeepsDown ==
    ASSUME Inv, DownInv, CheckStatefulSetControllerCaughtUp
    PROVE  DownInv'
  <1>1. ASSUME NEW p \in Pods, IsNodeStuckWithoutPVC(p), RemovePods({p}) PROVE DownInv'
    <2>1. ~rcPods[p].ready
      BY <1>1 DEF IsNodeStuckWithoutPVC, Inv, SpreadInv
    <2>2. {p} \in SUBSET Pods /\ \A q \in {p} : ~rcPods[q].ready
      BY <2>1
    <2> QED BY <1>1, <2>2, RemovePodsKeepsDown
  <1>2. CASE Goto("status")
    <2>1. pc = "caughtUp"
      BY DEF CheckStatefulSetControllerCaughtUp
    <2> QED BY <1>2, <2>1, GotoKeepsDown
  <1>3. CASE EndPass /\ UNCHANGED <<world, hostIds, initialized, bounds>>
    BY <1>3, UnchangedEndKeepsDown
  <1> QED BY <1>1, <1>2, <1>3 DEF CheckStatefulSetControllerCaughtUp

(* A host ID that becomes known makes a pod count as bootstrapped.          *)
LEMMA NodeStatusKeepsDown ==
    ASSUME Inv, DownInv, UpdateCassandraNodeStatus
    PROVE  DownInv'
  <1>1. hostIds \subseteq hostIds'
    BY DEF UpdateCassandraNodeStatus
  <1>2. /\ pc = "status" /\ pc' = "cleanup" /\ rcPods' = rcPods /\ pods' = pods
        /\ takenDown' = takenDown /\ overlooked' = overlooked
    BY DEF UpdateCassandraNodeStatus, world, history
  <1>3. Seen' = Seen /\ DownPods \subseteq DownPods'
    BY <1>1, <1>2 DEF Seen, DownPods, Listed, HasPodPotentiallyBootstrapped
  <1> QED BY <1>2, <1>3 DEF DownInv, OneRackTakenDown

-----------------------------------------------------------------------------
(* checkNodeEMM.                                                            *)

LEMMA UpdatePodsKeepsDown ==
    ASSUME Inv, DownInv, NEW ps, NEW failure \in Failures \cup {NoFailure},
           UpdatePods(ps, failure)
    PROVE  DownInv'
  <1>1. PICK done \in SUBSET ps :
           pods' = [p \in Pods |-> IF p \in done THEN [pods[p] EXCEPT !.failure = failure]
                                                 ELSE pods[p]]
    BY DEF UpdatePods
  <1>2. EndPass /\ takenDown' = takenDown /\ overlooked' = overlooked
    BY DEF UpdatePods, history
  <1>3. \A p \in Pods : pods[p] \in PodRecords
    BY DEF Inv, TypeOK
  <1>4. \A p \in Pods : pods'[p].phase = pods[p].phase /\ pods'[p].ready = pods[p].ready
    BY <1>1, <1>3, SetFailure
  <1> QED BY <1>2, <1>4, EndPassKeepsDown DEF Inv, TypeOK

LEMMA CleanupKeepsDown ==
    ASSUME Inv, DownInv, CleanupEMMAnnotations \/ EmmFailureStillProcessing
    PROVE  DownInv'
  <1>1. ASSUME NEW ps, UpdatePods(ps, NoFailure) PROVE DownInv'
    BY <1>1, UpdatePodsKeepsDown
  <1>2. CASE EndPass /\ UNCHANGED <<world, hostIds, initialized, bounds>>
    BY <1>2, UnchangedEndKeepsDown
  <1>3. pc \in {"cleanup", "processing"}
    BY DEF CleanupEMMAnnotations, EmmFailureStillProcessing
  <1>4. ASSUME NEW step \in {"processing", "checks", "start"}, Goto(step) PROVE DownInv'
    BY <1>3, <1>4, GotoKeepsDown
  <1> QED BY <1>1, <1>2, <1>4 DEF CleanupEMMAnnotations, EmmFailureStillProcessing, IfReadable

(* A pass that finds no rack with down pods sees none of the pods taken     *)
(* down.                                                                    *)
LEMMA NoRackDown ==
    ASSUME DownInv, pc # "idle", RacksWithDownPods = {}
    PROVE  Seen = {}
  BY DEF DownInv, RacksWithDownPods

LEMMA CheckFailuresKeepsDown ==
    ASSUME Inv, DownInv, CheckFailures
    PROVE  DownInv'
  <1>1. ASSUME NEW nodes, NEW failure \in Failures, FailEMM(nodes, failure) PROVE DownInv'
    BY <1>1, UpdatePodsKeepsDown DEF FailEMM
  <1>2. {"GenericFailure", "NotEnoughResources", "TooManyExistingFailures"} \subseteq Failures
    BY DEF Failures
  <1>3. pc = "checks"
    BY DEF CheckFailures
  <1>4. ASSUME NEW r \in RacksWithDownPods, pc' = "notReady", downRack' = r,
               UNCHANGED <<world, hostIds, initialized, rcPods, bounds>>
        PROVE  DownInv'
    <2>1. /\ pods' = pods /\ takenDown' = takenDown /\ overlooked' = overlooked
          /\ hostIds' = hostIds /\ rcPods' = rcPods
      BY <1>4 DEF world, history
    <2>2. r # NoRack
      BY ConstantsAssumption DEF RacksWithDownPods, DownPods, Listed
    <2>3. Seen' = Seen /\ DownPods' = DownPods
      BY <2>1 DEF Seen, DownPods, Listed, HasPodPotentiallyBootstrapped
    <2> QED BY <1>3, <1>4, <2>1, <2>2, <2>3 DEF DownInv, OneRackTakenDown
  <1>5. CASE RacksWithDownPods = {} /\ Goto("notReady")
    <2>1. Seen = {}
      BY <1>3, <1>5, NoRackDown
    <2> QED BY <1>3, <1>5, <2>1, GotoKeepsDown
  <1>6. CASE EndPass /\ UNCHANGED <<world, hostIds, initialized, bounds>>
    BY <1>6, UnchangedEndKeepsDown
  <1> QED BY <1>1, <1>2, <1>4, <1>5, <1>6 DEF CheckFailures, IfReadable

LEMMA NotReadyKeepsDown ==
    ASSUME Inv, DownInv, RemoveAllNotReadyPodsOnEMMNodes
    PROVE  DownInv'
  <1> DEFINE doomed == {p \in PodsOn(EMMNodes) : ~rcPods[p].ready}
  <1>1. doomed \in SUBSET Pods /\ \A p \in doomed : ~rcPods[p].ready
    BY DEF PodsOn, Listed
  <1>2. CASE RemovePods(doomed)
    <2> HIDE DEF doomed
    <2> QED BY <1>1, <1>2, RemovePodsKeepsDown
  <1>3. pc = "notReady"
    BY DEF RemoveAllNotReadyPodsOnEMMNodes
  <1>4. CASE Goto(IF downRack = NoRack THEN "evacuate" ELSE "replace")
    <2>1. CASE downRack = NoRack
      <3>1. Seen = {}
        BY <1>3, <2>1 DEF DownInv
      <3> QED BY <1>3, <1>4, <2>1, <3>1, GotoKeepsDown
    <2>2. CASE downRack # NoRack
      BY <1>3, <1>4, <2>2, GotoKeepsDown
    <2> QED BY <2>1, <2>2
  <1>5. CASE EndPass /\ UNCHANGED <<world, hostIds, initialized, bounds>>
    BY <1>5, UnchangedEndKeepsDown
  <1> QED BY <1>2, <1>4, <1>5 DEF RemoveAllNotReadyPodsOnEMMNodes, IfReadable

LEMMA StartNodeReplaceKeepsDown ==
    ASSUME Inv, DownInv, NEW unclaimed, NEW removed,
           StartNodeReplace(unclaimed, removed)
    PROVE  DownInv'
  <1>1. /\ pods' = [p \in Pods |-> IF p \in removed THEN Removed(pods[p]) ELSE pods[p]]
        /\ EndPass /\ takenDown' = takenDown /\ overlooked' = overlooked
    BY DEF StartNodeReplace, history
  <1>2. \A p \in Pods : pods[p] \in PodRecords
    BY DEF Inv, TypeOK
  <1>3. \A p \in Pods : pods'[p].phase = "present" => pods'[p] = pods[p]
    BY <1>1, <1>2, RemovedFacts
  <1> QED BY <1>1, <1>3, EndPassKeepsDown DEF Inv, TypeOK

LEMMA ReplaceKeepsDown ==
    ASSUME Inv, DownInv, PerformEvacuateDataPodReplace
    PROVE  DownInv'
  <1>1. pc = "replace"
    BY DEF PerformEvacuateDataPodReplace
  <1>2. CASE Goto("start")
    BY <1>1, <1>2, GotoKeepsDown
  <1>3. CASE EndPass /\ UNCHANGED <<world, hostIds, initialized, bounds>>
    BY <1>3, UnchangedEndKeepsDown
  <1> QED BY <1>2, <1>3, StartNodeReplaceKeepsDown DEF PerformEvacuateDataPodReplace, IfReadable

(* The two steps that take ready pods down, when no pod taken down is       *)
(* missing: one pod of an evacuated worker, or the pod of one worker with a *)
(* planned downtime.                                                        *)
LEMMA EvacuateKeepsDown ==
    ASSUME Inv, DownInv, RemoveNextPodFromEvacuateDataNode
    PROVE  DownInv'
  <1>1. pc = "evacuate" /\ Seen = {}
    BY DEF RemoveNextPodFromEvacuateDataNode, DownInv
  <1>2. ASSUME NEW nodes, NEW p \in PodsOn(nodes), RemovePods({p}) PROVE DownInv'
    <2>1. {p} \in SUBSET Pods
      BY DEF PodsOn, Listed
    <2>2. \A q, s \in {p} : RackOf[q] = RackOf[s]
      OBVIOUS
    <2> QED BY <1>1, <1>2, <2>1, <2>2, RemovePodsKeepsDown
  <1>3. CASE Goto("planned")
    BY <1>1, <1>3, GotoKeepsDown
  <1>4. CASE EndPass /\ UNCHANGED <<world, hostIds, initialized, bounds>>
    BY <1>4, UnchangedEndKeepsDown
  <1> QED BY <1>2, <1>3, <1>4 DEF RemoveNextPodFromEvacuateDataNode, IfReadable

LEMMA PlannedKeepsDown ==
    ASSUME Inv, DownInv, RemoveAllPodsFromOnePlannedDowntimeNode
    PROVE  DownInv'
  <1>1. pc = "planned" /\ Seen = {}
    BY DEF RemoveAllPodsFromOnePlannedDowntimeNode, DownInv
  <1>2. ASSUME NEW n \in NodesTainted(PlannedDowntime), RemovePods(PodsOn({n})) PROVE DownInv'
    <2>1. PodsOn({n}) \in SUBSET Pods
      BY DEF PodsOn, Listed
    <2>2. n # NoNode
      BY DEF NodesTainted, GetAllNodesInDC
    <2>3. \A p \in PodsOn({n}) : rcPods[p].node = n
      BY DEF PodsOn
    <2>4. \A p, q \in PodsOn({n}) : p = q
      BY <2>1, <2>2, <2>3 DEF Inv, SpreadInv
    <2>5. \A p, q \in PodsOn({n}) : RackOf[p] = RackOf[q]
      BY <2>4
    <2> QED BY <1>1, <1>2, <2>1, <2>5, RemovePodsKeepsDown
  <1>3. CASE Goto("start")
    BY <1>1, <1>3, GotoKeepsDown
  <1>4. CASE EndPass /\ UNCHANGED <<world, hostIds, initialized, bounds>>
    BY <1>4, UnchangedEndKeepsDown
  <1> QED BY <1>2, <1>3, <1>4 DEF RemoveAllPodsFromOnePlannedDowntimeNode, IfReadable

LEMMA StartNodeKeepsDown ==
    ASSUME Inv, DownInv, StartNode
    PROVE  DownInv'
  <1>1. EndPass /\ takenDown' = takenDown /\ overlooked' = overlooked
    BY DEF StartNode, history
  <1>2. \A p \in Pods : pods[p] \in PodRecords
    BY DEF Inv, TypeOK
  <1>3. \A p \in Pods : pods'[p].phase = pods[p].phase /\ pods'[p].ready = pods[p].ready
    <2>1. CASE pods' = pods
      BY <2>1
    <2>2. ASSUME NEW p \in Listed,
                 pods' = [pods EXCEPT ![p].started =
                            @ \/ (pods[p].phase = "present" /\ pods[p].node # NoNode)]
          PROVE  <1>3
      <3> DEFINE x == pods[p].started \/ (pods[p].phase = "present" /\ pods[p].node # NoNode)
                 pod == [pods[p] EXCEPT !.started = x]
      <3>1. p \in Pods /\ x \in BOOLEAN
        BY <1>2, PodFields DEF Listed
      <3>2. pods' = [pods EXCEPT ![p] = pod]
        BY <2>2
      <3>3. pod.phase = pods[p].phase /\ pod.ready = pods[p].ready
        <4> HIDE DEF x
        <4> QED BY <1>2, <3>1, SetStarted
      <3> HIDE DEF x, pod
      <3> QED BY <3>1, <3>2, <3>3 DEF Inv, TypeOK
    <2> QED BY <2>1, <2>2 DEF StartNode
  <1> QED BY <1>1, <1>3, EndPassKeepsDown DEF Inv, TypeOK

-----------------------------------------------------------------------------
LEMMA InitDown == Init => DownInv
  <1> SUFFICES ASSUME Init PROVE DownInv
    OBVIOUS
  <1>1. takenDown = {} /\ pc = "idle"
    BY DEF Init
  <1> QED BY <1>1 DEF DownInv, OneRackTakenDown

LEMMA NextDown == Inv /\ DownInv /\ [Next]_vars => DownInv'
  <1> SUFFICES ASSUME Inv, DownInv, [Next]_vars PROVE DownInv'
    OBVIOUS
  <1>1. CASE Pass
    BY <1>1, ListPodsKeepsDown, CaughtUpKeepsDown, NodeStatusKeepsDown, CleanupKeepsDown,
       CheckFailuresKeepsDown, NotReadyKeepsDown, ReplaceKeepsDown, EvacuateKeepsDown,
       PlannedKeepsDown, StartNodeKeepsDown
       DEF Pass, CheckEMM
  <1>2. CASE Abort
    BY <1>2, UnchangedEndKeepsDown DEF Abort
  <1>3. CASE Stop
    BY <1>3, StopKeepsDown
  <1>4. ASSUME NEW p \in Pods, Cluster(p) \/ PodFails(p) PROVE DownInv'
    BY <1>4, ClusterStepKeepsDown
  <1>5. ASSUME NEW n \in Nodes, Untaint(n) \/ \E t \in Taints : Taint(n, t) PROVE DownInv'
    BY <1>5, TaintKeepsDown
  <1>6. CASE UNCHANGED vars
    <2>1. /\ pods' = pods /\ takenDown' = takenDown /\ overlooked' = overlooked
          /\ hostIds' = hostIds /\ pc' = pc /\ rcPods' = rcPods /\ downRack' = downRack
      BY <1>6 DEF vars, world, history
    <2> QED BY <2>1, ClusterKeepsDown DEF DownInv, Seen
  <1> QED BY <1>1, <1>2, <1>3, <1>4, <1>5, <1>6 DEF Next

(* checkNodeEMM: the ready pods that CheckEMM deleted and that are not back *)
(* yet belong to one rack, for any taints, failing pods and passes cut      *)
(* short; but for the pods that a pass could not see to be down, because it *)
(* listed them terminating, not yet recreated, or without a host ID.        *)
THEOREM OneRackAlwaysTakenDown == Spec => []OneRackTakenDown
  <1>1. Init => Inv /\ DownInv
    BY InitInv, InitDown
  <1>2. Inv /\ DownInv /\ [Next]_vars => Inv' /\ DownInv'
    BY NextInv, NextDown
  <1>3. DownInv => OneRackTakenDown
    BY DEF DownInv
  <1> QED BY <1>1, <1>2, <1>3, PTL DEF Spec
=============================================================================
