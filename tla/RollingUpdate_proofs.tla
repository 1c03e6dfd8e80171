------------------------ MODULE RollingUpdate_proofs ------------------------
(***************************************************************************)
(* How far a changed configuration has been rolled out, for any number of  *)
(* racks, nodes and versions, any canary, and any number of evictions,     *)
(* forced upgrades and passes that are cut short.                          *)
(*                                                                         *)
(* The argument: the counts of a status show a StatefulSet as rolled out   *)
(* only if its pods and their successors have the version of its template, *)
(* and no pass that gets to CheckRackPodTemplate has changed a template    *)
(* since it read those counts.                                             *)
(***************************************************************************)
EXTENDS RollingUpdate, FiniteSetTheorems, WellFoundedInduction, TLAPS

(* A step that names no prover is checked by Zenon.                         *)
USE Zenon

(* TypeOK, by what is in the cluster and what a pass holds.                 *)
TypedObjects ==
    /\ spec \in Specs /\ updating \in BOOLEAN
    /\ sts \in [Racks -> StsRecords] /\ pods \in [Nodes -> PodRecords]
    /\ forced \in BOOLEAN /\ asked \subseteq AskedRecords /\ events \in 0..MaxEvents

TypedPass ==
    /\ pc \in {"idle", "racks", "force", "ready", "template"}
    /\ rcSpec \in Specs /\ rcPods \in [Nodes -> {"ready", "starting", "stopped"}]
    /\ rolled \subseteq Racks /\ forceLeft \subseteq Racks

(* The pods of the rack have the version of the template, and so have their *)
(* successors.                                                              *)
Settled(r) ==
    /\ sts[r].base = sts[r].template
    /\ \A i \in Ordinals(r) : pods[<<r, i>>].version = sts[r].template

(* Versions only grow, from the pods to the datacenter.                     *)
VersionsInv ==
    /\ \A r \in Racks : sts[r].base <= sts[r].template /\ sts[r].template <= spec.version
    /\ \A p \in Nodes : pods[p].version <= sts[p[1]].template

(* What the counts of a status show.                                        *)
CountsInv == \A r \in Racks : RolledOut(r) => Settled(r)

(* The pod may have the version, from what was asked for.                   *)
May(A, p, v) ==
    v # 0 => \E a \in A : /\ a.version = v
                          /\ a.canary => p[1] = 1 /\ p[2] + a.count >= NodeCount[1]

(* No pod has a version that was not asked for of it, nor does its          *)
(* successor, from the template or from the base: a rollout is over only if *)
(* all the pods have the version.                                           *)
CanaryInv ==
    ~forced =>
        \A p \in Nodes :
            /\ May(asked, p, pods[p].version)
            /\ May(asked, p, sts[p[1]].base)
            /\ p[2] >= sts[p[1]].partition => May(asked, p, sts[p[1]].template)

ForcedInv == (~forced => spec.force = {}) /\ Asking(spec) \in asked

ObjectsInv == VersionsInv /\ CountsInv /\ CanaryInv /\ ForcedInv

(* What a pass knows: of the specification, and of the racks that were      *)
(* rolled out when it read their StatefulSets.                              *)
PassInv ==
    /\ rcSpec.version <= spec.version
    /\ pc # "idle" =>
          /\ Asking(rcSpec) \in asked
          /\ \A r \in Racks : sts[r].template <= rcSpec.version
    /\ ~forced => rcSpec.force = {} /\ pc # "force"
    /\ pc \in {"ready", "template"} => \A r \in rolled : Settled(r)

Inv == TypedObjects /\ TypedPass /\ ObjectsInv /\ PassInv
-----------------------------------------------------------------------------
LEMMA Constants ==
    /\ NumRacks \in Nat \ {0} /\ Size \in Nat /\ NumRacks <= Size
    /\ MaxVersion \in Nat /\ MaxEvents \in Nat /\ CanaryCounts \subseteq Nat
  BY ConstantsAssumption, SMT DEF TooFewNodes

(* SplitRacks gives every rack a node when there are as many nodes as racks.*)
LEMMA SplitNodes ==
    ASSUME NEW n \in Nat, NEW r \in Nat \ {0}, r <= n, NEW i \in 1..r
    PROVE  SplitRacks(n, r)[i] \in 1..n
  <1> DEFINE q == n \div r  e == n % r
  <1>1. q \in Nat /\ e \in 0..(r - 1) /\ n = r * q + e
    BY SMT
  <1>2. SplitRacks(n, r)[i] = q + (IF i <= e THEN 1 ELSE 0)
    BY DEF SplitRacks
  <1> HIDE DEF q, e
  <1>3. q # 0
    BY <1>1, SMT
  <1>4. r * q = (r - 1) * q + q /\ (r - 1) * q \in Nat
    BY <1>1, SMT
  <1> QED BY <1>1, <1>2, <1>3, <1>4, SMT

(* Every rack has a node.                                                   *)
LEMMA RackNodes ==
    ASSUME NEW r \in Racks
    PROVE  NodeCount[r] \in 1..Size /\ NodeCount[r] \in Nat
  <1>1. SplitRacks(Size, NumRacks)[r] \in 1..Size
    BY Constants, SplitNodes DEF Racks
  <1> QED
    BY <1>1, Constants, SMT DEF NodeCount

LEMMA NodesAre ==
    /\ \A r \in Racks : \A i \in Ordinals(r) : <<r, i>> \in Nodes
    /\ \A p \in Nodes : p[1] \in Racks /\ p[2] \in Ordinals(p[1]) /\ p = <<p[1], p[2]>>
  BY SMT DEF Nodes

LEMMA OrdinalsNat ==
    ASSUME NEW r \in Racks
    PROVE  Ordinals(r) = 0..(NodeCount[r] - 1) /\ Ordinals(r) \subseteq Nat /\ 0 \in Ordinals(r)
  BY RackNodes, SMT DEF Ordinals

LEMMA FirstRack == 1 \in Racks
  BY Constants, SMT DEF Racks

(* The ordinals that are counted are all of them if the count is full.      *)
LEMMA Counting ==
    ASSUME NEW r \in Racks, NEW T \in SUBSET Ordinals(r)
    PROVE  /\ Cardinality(T) \in 0..Size
           /\ Cardinality(T) = NodeCount[r] => T = Ordinals(r)
  <1>1. IsFiniteSet(Ordinals(r)) /\ Cardinality(Ordinals(r)) = NodeCount[r]
    BY FS_Interval, RackNodes, SMT DEF Ordinals
  <1>2. IsFiniteSet(T) /\ Cardinality(T) <= NodeCount[r]
    BY <1>1, FS_Subset
  <1>3. Cardinality(T) = NodeCount[r] => T = Ordinals(r)
    BY <1>1, FS_Subset
  <1>4. Cardinality(T) \in Nat
    BY <1>2, FS_CardinalityType
  <1> QED
    BY <1>2, <1>3, <1>4, RackNodes, Constants, SMT

(* A nonempty set of racks has a first one.                                 *)
LEMMA FirstOf ==
    ASSUME NEW S \in SUBSET Racks, S # {}
    PROVE  Min(S) \in S /\ \A y \in S : Min(S) <= y
  <1>1. S \subseteq Nat
    BY SMT DEF Racks
  <1>2. \E x \in S : \A y \in S : <<y, x>> \notin OpToRel(<, Nat)
    BY <1>1, WFMin, NatLessThanWellFounded
  <1>3. \E x \in S : \A y \in S : ~(y < x)
    BY <1>1, <1>2 DEF OpToRel
  <1>4. \E x \in S : \A y \in S : x <= y
    BY <1>1, <1>3, SMT
  <1> QED
    BY <1>4 DEF Min

(* Nothing that was asked for is forgotten.                                 *)
LEMMA MoreAsked ==
    ASSUME NEW A, NEW B, A \subseteq B, NEW p, NEW v, May(A, p, v)
    PROVE  May(B, p, v)
  BY DEF May

LEMMA AskingIs ==
    ASSUME NEW s \in Specs
    PROVE  /\ Asking(s) \in AskedRecords
           /\ Asking(s).version = s.version /\ Asking(s).canary = s.canary
           /\ Asking(s).count = s.count
  BY DEF Asking, Specs, AskedRecords

LEMMA CountNat ==
    ASSUME NEW s \in Specs
    PROVE  s.count \in Nat /\ s.canary \in BOOLEAN
  <1>1. s.count \in CanaryCounts \cup {0} /\ s.canary \in BOOLEAN
    BY DEF Specs
  <1>2. \A c \in CanaryCounts \cup {0} : c \in Nat
    BY Constants, SMT
  <1> QED
    BY <1>1, <1>2

(* The partition leaves the pods of which the version was asked for.        *)
LEMMA PartitionIs ==
    ASSUME NEW s \in Specs
    PROVE  /\ Partition(s) \in 0..Size
           /\ \A i \in 0..(NodeCount[1] - 1) :
                 s.canary /\ i >= Partition(s) => i + s.count >= NodeCount[1]
  <1>1. NodeCount[1] \in 1..Size /\ NodeCount[1] \in Nat /\ Size \in Nat
    BY RackNodes, FirstRack, Constants
  <1>2. s.count \in Nat /\ s.canary \in BOOLEAN
    BY CountNat
  <1>3. CASE ~s.canary
    <2>1. Partition(s) = 0
      BY <1>3 DEF Partition
    <2> QED
      BY <1>1, <1>3, <2>1, SMT
  <1>4. CASE s.canary /\ s.count \in 1..NodeCount[1]
    <2>1. Partition(s) = NodeCount[1] - s.count
      BY <1>4 DEF Partition
    <2> QED
      BY <1>1, <1>2, <1>4, <2>1, SMT
  <1>5. CASE s.canary /\ s.count \notin 1..NodeCount[1]
    <2>1. Partition(s) = NodeCount[1]
      BY <1>5 DEF Partition
    <2> QED
      BY <1>1, <1>2, <1>5, <2>1, SMT
  <1> QED
    BY <1>2, <1>3, <1>4, <1>5

LEMMA InvIsTypeOK == Inv => TypeOK
  BY DEF Inv, TypedObjects, TypedPass, ObjectsInv, VersionsInv, TypeOK
-----------------------------------------------------------------------------
LEMMA Blanks ==
    /\ NoSpec \in Specs /\ NoSpec.version = 0 /\ NoSpec.force = {}
    /\ NoPods \in [Nodes -> {"ready", "starting", "stopped"}]
  BY Constants, SMT DEF NoSpec, Specs, NoPods, Versions

LEMMA NewPodIs ==
    ASSUME NEW v \in Versions
    PROVE  NewPod(v) \in PodRecords /\ NewPod(v).version = v
  BY DEF NewPod, PodRecords

LEMMA NewStsIs ==
    ASSUME NEW n \in 0..Size
    PROVE  /\ NewSts(n) \in StsRecords
           /\ NewSts(n).template = 0 /\ NewSts(n).base = 0
  BY Constants, SMT DEF NewSts, StsRecords, Versions

LEMMA InitInv == Init => Inv
  <1> SUFFICES ASSUME Init PROVE Inv
    OBVIOUS
  <1> USE Constants
  <1>1. spec \in Specs /\ spec.version = 0 /\ spec.force = {}
    <2>1. CASE spec = NoSpec
      BY <2>1, Blanks
    <2>2. CASE \E n \in CanaryCounts : spec = [NoSpec EXCEPT !.canary = TRUE, !.count = n]
      BY <2>2, Blanks DEF Specs
    <2> QED
      BY <2>1, <2>2 DEF Init
  <1>2. sts = [r \in Racks |-> NewSts(NodeCount[r])]
    BY DEF Init
  <1>3. \A r \in Racks : sts[r] \in StsRecords /\ sts[r].template = 0 /\ sts[r].base = 0
    BY <1>2, NewStsIs, RackNodes, SMT
  <1>4. \A p \in Nodes : pods[p] \in PodRecords /\ pods[p].version = 0
    <2>1. 0 \in Versions
      BY SMT DEF Versions
    <2> DEFINE up == [NewPod(0) EXCEPT !.started = TRUE, !.up = TRUE]
    <2>2. up \in PodRecords /\ up.version = 0
      BY <2>1, NewPodIs, ZenonT(60) DEF PodRecords
    <2>3. pods = [p \in Nodes |-> up]
      BY DEF Init
    <2> QED
      BY <2>2, <2>3
  <1>5. /\ updating = FALSE /\ pc = "idle" /\ rcSpec = NoSpec /\ rcPods = NoPods
        /\ rolled = {} /\ forceLeft = {} /\ forced = FALSE /\ events = 0
        /\ asked = {Asking(spec)} /\ pods \in [Nodes -> PodRecords]
    <2>1. pods = [p \in Nodes |-> pods[p]]
      BY DEF Init
    <2> QED
      BY <1>4, <2>1 DEF Init
  <1>6. TypedObjects
    <2>1. sts \in [Racks -> StsRecords]
      BY <1>2, <1>3
    <2>2. events \in 0..MaxEvents
      BY <1>5, SMT
    <2>3. asked \subseteq AskedRecords
      BY <1>1, <1>5, AskingIs
    <2> QED
      BY <1>1, <1>5, <2>1, <2>2, <2>3 DEF TypedObjects
  <1>7. TypedPass
    BY <1>5, Blanks DEF TypedPass
  <1>8. VersionsInv
    BY <1>1, <1>3, <1>4, NodesAre, SMT DEF VersionsInv
  <1>9. CountsInv
    BY <1>3, <1>4, NodesAre DEF CountsInv, Settled
  <1>10. CanaryInv /\ ForcedInv
    BY <1>1, <1>3, <1>4, <1>5, NodesAre DEF CanaryInv, ForcedInv, May
  <1>11. PassInv
    BY <1>1, <1>5, Blanks, SMT DEF PassInv
  <1> QED
    BY <1>6, <1>7, <1>8, <1>9, <1>10, <1>11 DEF Inv, ObjectsInv
-----------------------------------------------------------------------------
(* The datacenter is edited, and its StatefulSets and pods are as they were.*)
LEMMA DatacenterEdited ==
    ASSUME TypedObjects, ObjectsInv, UNCHANGED <<sts, pods>>,
           spec' \in Specs, spec.version <= spec'.version,
           asked \subseteq asked', asked' \subseteq AskedRecords, Asking(spec') \in asked',
           forced' \in BOOLEAN, forced => forced', ~forced' => spec'.force = {},
           updating' \in BOOLEAN, events' \in 0..MaxEvents
    PROVE  TypedObjects' /\ ObjectsInv' /\ \A r \in Racks : Settled(r) => Settled(r)'
  <1>1. TypedObjects'
    BY DEF TypedObjects
  <1>2. VersionsInv'
    <2>1. \A r \in Racks : sts[r].template \in Nat
      BY SMT DEF TypedObjects, StsRecords, Versions
    <2>2. spec.version \in Nat /\ spec'.version \in Nat
      BY SMT DEF TypedObjects, Specs, Versions
    <2> QED
      BY <2>1, <2>2, SMT DEF ObjectsInv, VersionsInv
  <1>3. CountsInv' /\ \A r \in Racks : Settled(r) => Settled(r)'
    BY DEF ObjectsInv, CountsInv, RolledOut, Settled
  <1>4. CanaryInv'
    BY MoreAsked DEF ObjectsInv, CanaryInv
  <1>5. ForcedInv'
    BY DEF ForcedInv
  <1> QED
    BY <1>1, <1>2, <1>3, <1>4, <1>5 DEF ObjectsInv

(* Nothing in the cluster changes.                                          *)
LEMMA ClusterUntouched ==
    ASSUME TypedObjects, ObjectsInv, UNCHANGED <<spec, sts, pods, forced, asked>>,
           updating' \in BOOLEAN, events' \in 0..MaxEvents
    PROVE  TypedObjects' /\ ObjectsInv' /\ \A r \in Racks : Settled(r) => Settled(r)'
  <1>1. spec.version <= spec'.version
    BY SMT DEF TypedObjects, Specs, Versions
  <1> QED
    BY <1>1, DatacenterEdited DEF TypedObjects, ObjectsInv, ForcedInv

(* The end of a pass.                                                       *)
LEMMA PassEnded ==
    ASSUME EndPass, spec' \in Specs
    PROVE  TypedPass' /\ PassInv'
  <1>1. TypedPass'
    BY Blanks DEF EndPass, TypedPass
  <1>2. 0 <= spec'.version
    BY SMT DEF Specs, Versions
  <1> QED
    BY <1>1, <1>2, Blanks DEF EndPass, PassInv

(* A pass goes on while the cluster changes around it.                      *)
LEMMA PassGoesOn ==
    ASSUME Inv, UNCHANGED <<pc, rcSpec, rcPods, rolled, forceLeft>>,
           spec' \in Specs, spec.version <= spec'.version,
           asked \subseteq asked', forced => forced', forced' \in BOOLEAN,
           \A r \in Racks : sts'[r].template = sts[r].template,
           \A r \in Racks : Settled(r) => Settled(r)'
    PROVE  TypedPass' /\ PassInv'
  <1>1. TypedPass'
    BY DEF Inv, TypedPass
  <1>2. rcSpec'.version <= spec'.version
    BY SMT DEF Inv, TypedPass, TypedObjects, PassInv, Specs, Versions
  <1>3. pc' # "idle" =>
          /\ Asking(rcSpec') \in asked'
          /\ \A r \in Racks : sts'[r].template <= rcSpec'.version
    BY DEF Inv, PassInv
  <1>4. ~forced' => rcSpec'.force = {} /\ pc' # "force"
    BY DEF Inv, PassInv
  <1>5. pc' \in {"ready", "template"} => \A r \in rolled' : Settled(r)'
    BY DEF Inv, PassInv, TypedPass
  <1> QED
    BY <1>1, <1>2, <1>3, <1>4, <1>5 DEF PassInv
-----------------------------------------------------------------------------
(* A pod changes, or is replaced by its successor.                          *)
LEMMA SuccessorIs ==
    ASSUME TypedObjects, NEW p \in Nodes
    PROVE  /\ Successor(p) \in PodRecords
           /\ p[2] < sts[p[1]].partition => Successor(p).version = sts[p[1]].base
           /\ p[2] >= sts[p[1]].partition => Successor(p).version = sts[p[1]].template
  <1> DEFINE s == sts[p[1]]
             v == IF p[2] < s.partition THEN s.base ELSE s.template
  <1>1. s \in StsRecords
    BY NodesAre DEF TypedObjects
  <1>2. v \in Versions
    BY <1>1 DEF StsRecords
  <1>3. Successor(p) = NewPod(v)
    BY DEF Successor
  <1>4. p[2] \in Nat /\ s.partition \in Nat
    BY <1>1, NodesAre, OrdinalsNat, Constants, SMT DEF StsRecords
  <1> QED
    BY <1>2, <1>3, <1>4, NewPodIs, SMT

LEMMA PodChanged ==
    ASSUME TypedObjects, ObjectsInv, NEW p \in Nodes, NEW q \in PodRecords,
           pods' = [pods EXCEPT ![p] = q],
           q.version \in {pods[p].version, Successor(p).version},
           UNCHANGED <<spec, updating, sts, forced, asked>>, events' \in 0..MaxEvents
    PROVE  TypedObjects' /\ ObjectsInv' /\ \A r \in Racks : Settled(r) => Settled(r)'
  <1>1. TypedObjects'
    BY DEF TypedObjects
  <1> DEFINE s == sts[p[1]]
  <1>2. p[1] \in Racks /\ s \in StsRecords /\ p[2] \in Nat
    BY NodesAre, OrdinalsNat DEF TypedObjects
  <1>3. q.version \in {pods[p].version, s.base, s.template}
    <2>1. s.partition \in Nat
      BY <1>2, Constants, SMT DEF StsRecords
    <2> QED
      BY <1>2, <2>1, SuccessorIs, SMT
  <1>4. pods'[p] = q /\ \A x \in Nodes \ {p} : pods'[x] = pods[x]
    BY DEF TypedObjects
  <1>5. VersionsInv'
    <2>1. q.version <= s.template
      <3>1. s.base <= s.template /\ pods[p].version <= s.template
        BY <1>2 DEF ObjectsInv, VersionsInv
      <3>2. s.template <= s.template
        BY <1>2, SMT DEF StsRecords, Versions
      <3> QED
        BY <1>3, <3>1, <3>2
    <2> QED
      BY <1>4, <2>1 DEF ObjectsInv, VersionsInv
  <1>6. ASSUME NEW r \in Racks, Settled(r)
        PROVE  Settled(r)'
    <2>1. SUFFICES ASSUME NEW i \in Ordinals(r)
                   PROVE  pods'[<<r, i>>].version = sts[r].template
      BY <1>6 DEF Settled
    <2>2. CASE p = <<r, i>>
      <3>1. p[1] = r
        BY <2>2
      <3>2. pods[p].version = sts[r].template /\ sts[r].base = sts[r].template
        BY <1>6, <2>2 DEF Settled
      <3> QED
        BY <1>3, <1>4, <2>2, <3>1, <3>2
    <2>3. CASE p # <<r, i>>
      BY <1>4, <1>6, <2>3, NodesAre DEF Settled
    <2> QED
      BY <2>2, <2>3
  <1>7. CountsInv'
    BY <1>6 DEF ObjectsInv, CountsInv, RolledOut
  <1>8. CanaryInv'
    <2> SUFFICES ASSUME ~forced
                 PROVE  CanaryInv'
      BY DEF CanaryInv
    <2>1. \A x \in Nodes :
            /\ May(asked, x, pods[x].version)
            /\ May(asked, x, sts[x[1]].base)
            /\ x[2] >= sts[x[1]].partition => May(asked, x, sts[x[1]].template)
      BY DEF ObjectsInv, CanaryInv
    <2>2. May(asked, p, q.version)
      <3>1. CASE q.version = pods[p].version
        BY <2>1, <3>1
      <3>2. CASE q.version = Successor(p).version
        <4>1. p[2] < s.partition \/ p[2] >= s.partition
          BY <1>2, Constants, SMT DEF StsRecords
        <4> QED
          BY <2>1, <3>2, <4>1, SuccessorIs
      <3> QED
        BY <3>1, <3>2
    <2> QED
      BY <1>4, <2>1, <2>2 DEF CanaryInv
  <1>9. ForcedInv'
    BY DEF ObjectsInv, ForcedInv
  <1> QED
    BY <1>1, <1>5, <1>6, <1>7, <1>8, <1>9 DEF ObjectsInv
-----------------------------------------------------------------------------
(* The controller writes a status.                                          *)
LEMMA StatusIs ==
    ASSUME TypedObjects, NEW r \in Racks, NEW q, q = StatusOf(r)
    PROVE  /\ q \in StsRecords
           /\ q.template = sts[r].template /\ q.partition = sts[r].partition
           /\ \/ q.base = sts[r].base /\ ~(q.ready = NodeCount[r] /\ q.updated = NodeCount[r])
              \/ /\ q.base = sts[r].template
                 /\ \A i \in Ordinals(r) : pods[<<r, i>>].version = sts[r].template
  <1> DEFINE s == sts[r]
             Having(v) == {i \in Ordinals(r) : pods[<<r, i>>].phase = "present"
                                               /\ pods[<<r, i>>].version = v}
             up      == {i \in Ordinals(r) : pods[<<r, i>>].up}
             ready   == Cardinality(up)
             updated == Cardinality(Having(s.template))
             over    == updated = NodeCount[r] /\ ready = NodeCount[r]
             current == IF over THEN updated ELSE Cardinality(Having(s.base))
             base    == IF over THEN s.template ELSE s.base
  <1>1. s \in StsRecords
    BY DEF TypedObjects
  <1>2. /\ ready \in 0..Size /\ updated \in 0..Size /\ current \in 0..Size
        /\ over => Having(s.template) = Ordinals(r)
    <2>1. up \in SUBSET Ordinals(r) /\ \A v : Having(v) \in SUBSET Ordinals(r)
      OBVIOUS
    <2> HIDE DEF Having, up
    <2>2. ready \in 0..Size /\ updated \in 0..Size /\ Cardinality(Having(s.base)) \in 0..Size
      BY <2>1, Counting
    <2>3. over => Having(s.template) = Ordinals(r)
      BY <2>1, Counting
    <2> QED
      BY <2>2, <2>3
  <1>3. base \in Versions
    BY <1>1 DEF StsRecords
  <1>4. q = [s EXCEPT !.observed = TRUE, !.ready = ready, !.updated = updated,
                      !.current = current, !.base = base]
    BY DEF StatusOf
  <1>5. over => \A i \in Ordinals(r) : pods[<<r, i>>].version = s.template
    BY <1>2
  <1>6. ready \in 0..Size /\ updated \in 0..Size /\ current \in 0..Size
    BY <1>2
  <1> HIDE DEF ready, updated, current, base, s, over
  <1>7. /\ q \in StsRecords /\ q.template = s.template /\ q.partition = s.partition
        /\ q.base = base /\ q.ready = ready /\ q.updated = updated
    BY <1>1, <1>3, <1>4, <1>6 DEF StsRecords
  <1> QED
    BY <1>5, <1>7 DEF base, s, over

LEMMA StatusWritten ==
    ASSUME TypedObjects, ObjectsInv, NEW r \in Racks,
           sts' = [sts EXCEPT ![r] = StatusOf(r)],
           UNCHANGED <<spec, updating, pods, forced, asked, events>>
    PROVE  /\ TypedObjects' /\ ObjectsInv'
           /\ \A x \in Racks : Settled(x) => Settled(x)'
           /\ \A x \in Racks : sts'[x].template = sts[x].template
  <1> DEFINE q == StatusOf(r)
  <1>1. /\ q \in StsRecords
        /\ q.template = sts[r].template /\ q.partition = sts[r].partition
        /\ \/ q.base = sts[r].base /\ ~(q.ready = NodeCount[r] /\ q.updated = NodeCount[r])
           \/ /\ q.base = sts[r].template
              /\ \A i \in Ordinals(r) : pods[<<r, i>>].version = sts[r].template
    BY StatusIs
  <1>2. sts'[r] = q /\ \A x \in Racks \ {r} : sts'[x] = sts[x]
    BY DEF TypedObjects
  <1> HIDE DEF q
  <1>3. TypedObjects'
    <2>1. sts' = [sts EXCEPT ![r] = q]
      BY DEF q
    <2> QED
      BY <1>1, <2>1 DEF TypedObjects
  <1>4. \A x \in Racks : sts'[x].template = sts[x].template
    BY <1>1, <1>2
  <1>5. VersionsInv'
    <2>1. sts[r].template <= sts[r].template
      BY SMT DEF TypedObjects, StsRecords, Versions
    <2>2. q.base <= sts[r].template
      BY <1>1, <2>1 DEF ObjectsInv, VersionsInv
    <2>3. \A x \in Racks : sts'[x].base <= sts'[x].template /\ sts'[x].template <= spec'.version
      BY <1>1, <1>2, <2>2 DEF ObjectsInv, VersionsInv
    <2>4. \A p \in Nodes : pods'[p].version <= sts'[p[1]].template
      BY <1>4, NodesAre DEF ObjectsInv, VersionsInv
    <2> QED
      BY <2>3, <2>4 DEF VersionsInv
  <1>6. \A x \in Racks : Settled(x) => Settled(x)'
    BY <1>1, <1>2 DEF Settled
  <1>7. CountsInv'
    <2> SUFFICES ASSUME NEW x \in Racks, RolledOut(x)'
                 PROVE  Settled(x)'
      BY DEF CountsInv
    <2>1. CASE x # r
      BY <1>2, <1>6, <2>1 DEF ObjectsInv, CountsInv, RolledOut
    <2>2. CASE x = r
      <3>1. q.ready = NodeCount[r] /\ q.updated = NodeCount[r]
        BY <1>2, <2>2 DEF RolledOut
      <3>2. /\ q.base = sts[r].template
            /\ \A i \in Ordinals(r) : pods[<<r, i>>].version = sts[r].template
        BY <1>1, <3>1
      <3> QED
        BY <1>1, <1>2, <2>2, <3>2 DEF Settled
    <2> QED
      BY <2>1, <2>2
  <1>8. CanaryInv'
    <2> SUFFICES ASSUME ~forced, NEW p \in Nodes
                 PROVE  /\ May(asked, p, pods[p].version)
                        /\ May(asked, p, sts'[p[1]].base)
                        /\ p[2] >= sts'[p[1]].partition => May(asked, p, sts'[p[1]].template)
      BY DEF CanaryInv
    <2>1. /\ May(asked, p, pods[p].version)
          /\ May(asked, p, sts[p[1]].base)
          /\ p[2] >= sts[p[1]].partition => May(asked, p, sts[p[1]].template)
      BY DEF ObjectsInv, CanaryInv
    <2>2. p[1] \in Racks /\ p[2] \in Ordinals(p[1]) /\ p = <<p[1], p[2]>>
      BY NodesAre
    <2>3. CASE p[1] # r
      BY <1>2, <2>1, <2>2, <2>3
    <2>4. CASE p[1] = r /\ q.base = sts[r].base
      BY <1>1, <1>2, <2>1, <2>4
    <2>5. CASE /\ p[1] = r /\ q.base = sts[r].template
               /\ \A i \in Ordinals(r) : pods[<<r, i>>].version = sts[r].template
      <3>1. pods[p].version = sts[r].template
        BY <2>2, <2>5
      <3> QED
        BY <1>1, <1>2, <2>1, <2>5, <3>1
    <2> QED
      BY <1>1, <2>3, <2>4, <2>5
  <1>9. ForcedInv'
    BY DEF ObjectsInv, ForcedInv
  <1> QED
    BY <1>3, <1>4, <1>5, <1>6, <1>7, <1>8, <1>9 DEF ObjectsInv
-----------------------------------------------------------------------------
(* The operator updates a StatefulSet.                                      *)
LEMMA StsUpdated ==
    ASSUME TypedObjects, ObjectsInv, NEW r \in Racks, NEW n \in 0..Size,
           sts' = [sts EXCEPT ![r] = Desired(r, n)],
           rcSpec.version \in Versions, sts[r].template <= rcSpec.version,
           rcSpec.version <= spec.version,
           ~forced => \A p \in Nodes : p[1] = r /\ p[2] >= n => May(asked, p, rcSpec.version),
           UNCHANGED <<spec, pods, forced, asked, events>>, updating' \in BOOLEAN
    PROVE  TypedObjects' /\ ObjectsInv'
  <1> DEFINE q == Desired(r, n)
  <1>1. /\ q \in StsRecords /\ q.template = rcSpec.version /\ q.partition = n
        /\ q.base = sts[r].base /\ ~q.observed
    <2>1. sts[r] \in StsRecords
      BY DEF TypedObjects
    <2> QED
      BY <2>1 DEF Desired, StsRecords
  <1>2. sts'[r] = q /\ \A x \in Racks \ {r} : sts'[x] = sts[x]
    BY DEF TypedObjects
  <1>3. sts' = [sts EXCEPT ![r] = q]
    OBVIOUS
  <1> HIDE DEF q
  <1>4. TypedObjects'
    BY <1>1, <1>3 DEF TypedObjects
  <1>5. VersionsInv'
    <2>1. /\ sts[r].base \in Nat /\ sts[r].template \in Nat /\ rcSpec.version \in Nat
          /\ \A p \in Nodes : pods[p].version \in Nat
      BY SMT DEF TypedObjects, StsRecords, PodRecords, Versions
    <2>2. sts[r].base <= sts[r].template
      BY DEF ObjectsInv, VersionsInv
    <2>3. q.base <= q.template
      BY <1>1, <2>1, <2>2, SMT
    <2>4. \A p \in Nodes : p[1] = r => pods[p].version <= q.template
      <3> SUFFICES ASSUME NEW p \in Nodes, p[1] = r
                   PROVE  pods[p].version <= rcSpec.version
        BY <1>1
      <3>1. pods[p].version <= sts[r].template
        BY DEF ObjectsInv, VersionsInv
      <3> QED
        BY <2>1, <3>1, SMT
    <2>5. \A x \in Racks : sts'[x].base <= sts'[x].template /\ sts'[x].template <= spec'.version
      BY <1>1, <1>2, <2>3 DEF ObjectsInv, VersionsInv
    <2>6. \A p \in Nodes : pods'[p].version <= sts'[p[1]].template
      BY <1>2, <2>4, NodesAre DEF ObjectsInv, VersionsInv
    <2> QED
      BY <2>5, <2>6 DEF VersionsInv
  <1>6. CountsInv'
    <2> SUFFICES ASSUME NEW x \in Racks, RolledOut(x)'
                 PROVE  Settled(x)'
      BY DEF CountsInv
    <2>1. x # r
      BY <1>1, <1>2 DEF RolledOut
    <2>2. sts'[x] = sts[x]
      BY <1>2, <2>1
    <2>3. RolledOut(x)
      BY <2>2 DEF RolledOut
    <2>4. Settled(x)
      BY <2>3 DEF ObjectsInv, CountsInv
    <2> QED
      BY <2>2, <2>4 DEF Settled
  <1>7. CanaryInv'
    <2> SUFFICES ASSUME ~forced, NEW p \in Nodes
                 PROVE  /\ May(asked, p, pods[p].version)
                        /\ May(asked, p, sts'[p[1]].base)
                        /\ p[2] >= sts'[p[1]].partition => May(asked, p, sts'[p[1]].template)
      BY DEF CanaryInv
    <2>1. /\ May(asked, p, pods[p].version)
          /\ May(asked, p, sts[p[1]].base)
          /\ p[2] >= sts[p[1]].partition => May(asked, p, sts[p[1]].template)
      BY DEF ObjectsInv, CanaryInv
    <2>2. CASE p[1] # r
      BY <1>2, <2>1, <2>2, NodesAre
    <2>3. CASE p[1] = r
      BY <1>1, <1>2, <2>1, <2>3
    <2> QED
      BY <2>2, <2>3
  <1>8. ForcedInv'
    BY DEF ObjectsInv, ForcedInv
  <1> QED
    BY <1>4, <1>5, <1>6, <1>7, <1>8 DEF ObjectsInv

(* What the choice of a rack says of the racks before it, or of all.        *)
LEMMA FirstPendingIs ==
    /\ FirstPending = 0 =>
          \A r \in Racks : (rcSpec.canary => r = 1) => SameHash(r) /\ r \in rolled
    /\ FirstPending # 0 =>
          /\ FirstPending \in Racks /\ (rcSpec.canary => FirstPending = 1)
          /\ \A q \in 1..(FirstPending - 1) : SameHash(q) /\ q \in rolled
  <1> DEFINE pending == {r \in Racks : /\ rcSpec.canary => r = 1
                                       /\ ~SameHash(r) \/ r \notin rolled}
  <1>1. FirstPending = IF pending = {} THEN 0 ELSE Min(pending)
    BY DEF FirstPending
  <1>2. CASE pending = {}
    BY <1>1, <1>2
  <1>3. CASE pending # {}
    <2>1. pending \in SUBSET Racks
      OBVIOUS
    <2>2. FirstPending \in pending /\ \A y \in pending : FirstPending <= y
      BY <1>1, <1>3, <2>1, FirstOf
    <2>3. FirstPending \in Racks /\ FirstPending # 0 /\ (rcSpec.canary => FirstPending = 1)
      BY <2>2, SMT DEF Racks
    <2>4. ASSUME NEW q \in 1..(FirstPending - 1)
          PROVE  SameHash(q) /\ q \in rolled
      <3>1. q \in Racks /\ ~(FirstPending <= q) /\ FirstPending # 1
        BY <2>3, <2>4, Constants, SMT DEF Racks
      <3>2. q \notin pending /\ ~rcSpec.canary
        BY <2>2, <2>3, <3>1
      <3> QED
        BY <3>1, <3>2
    <2> QED
      BY <2>3, <2>4
  <1> QED
    BY <1>2, <1>3
-----------------------------------------------------------------------------
(* The steps.                                                               *)
LEMMA EventIs ==
    ASSUME TypedObjects, Event
    PROVE  events' \in 0..MaxEvents
  BY Constants, SMT DEF TypedObjects, Event

(* The user edits the datacenter.                                           *)
LEMMA EditedInv ==
    ASSUME Inv, spec' \in Specs, spec.version <= spec'.version,
           forced' \in BOOLEAN, forced => forced', ~forced' => spec'.force = {},
           asked' = asked \cup {Asking(spec')}, events' \in 0..MaxEvents,
           UNCHANGED <<updating, sts, pods, pc, rcSpec, rcPods, rolled, forceLeft>>
    PROVE  Inv'
  <1>1. /\ asked \subseteq asked' /\ asked' \subseteq AskedRecords
        /\ Asking(spec') \in asked'
    BY AskingIs DEF Inv, TypedObjects
  <1>2. TypedObjects' /\ ObjectsInv' /\ \A r \in Racks : Settled(r) => Settled(r)'
    BY <1>1, DatacenterEdited DEF Inv, TypedObjects
  <1>3. TypedPass' /\ PassInv'
    BY <1>1, <1>2, PassGoesOn
  <1> QED
    BY <1>2, <1>3 DEF Inv

LEMMA EditVersionInv ==
    ASSUME Inv, EditVersion
    PROVE  Inv'
  <1>1. spec \in Specs /\ spec.version \in Nat /\ spec.version < MaxVersion
    BY SMT DEF Inv, TypedObjects, Specs, Versions, EditVersion
  <1>2. spec' = [spec EXCEPT !.version = spec.version + 1]
    BY DEF EditVersion
  <1>3. spec.version + 1 \in Versions /\ spec.version <= spec.version + 1
    BY <1>1, Constants, SMT DEF Versions
  <1>4. spec' \in Specs /\ spec'.version = spec.version + 1 /\ spec'.force = spec.force
    BY <1>1, <1>2, <1>3 DEF Specs
  <1>5. /\ UNCHANGED <<updating, sts, pods, pc, rcSpec, rcPods, rolled, forceLeft, forced, events>>
        /\ asked' = asked \cup {Asking(spec')}
    BY DEF EditVersion, rc
  <1>6. forced' \in BOOLEAN /\ events' \in 0..MaxEvents /\ (~forced' => spec'.force = {})
    BY <1>4, <1>5 DEF Inv, TypedObjects, ObjectsInv, ForcedInv
  <1> QED
    BY <1>3, <1>4, <1>5, <1>6, EditedInv

LEMMA EditCanaryInv ==
    ASSUME Inv, NEW b \in BOOLEAN, NEW n \in CanaryCounts \cup {0}, EditCanary(b, n)
    PROVE  Inv'
  <1>1. spec \in Specs /\ spec.version <= spec.version
    BY SMT DEF Inv, TypedObjects, Specs, Versions
  <1>2. spec' = [spec EXCEPT !.canary = b, !.count = n]
    BY DEF EditCanary
  <1>3. spec' \in Specs /\ spec'.version = spec.version /\ spec'.force = spec.force
    BY <1>1, <1>2 DEF Specs
  <1>4. /\ UNCHANGED <<updating, sts, pods, pc, rcSpec, rcPods, rolled, forceLeft, forced>>
        /\ asked' = asked \cup {Asking(spec')} /\ Event
    BY DEF EditCanary, rc
  <1>5. forced' \in BOOLEAN /\ events' \in 0..MaxEvents /\ (~forced' => spec'.force = {})
    BY <1>3, <1>4, EventIs DEF Inv, TypedObjects, ObjectsInv, ForcedInv
  <1> QED
    BY <1>1, <1>3, <1>4, <1>5, EditedInv

LEMMA AskForceInv ==
    ASSUME Inv, NEW F \in SUBSET Racks, AskForce(F)
    PROVE  Inv'
  <1>1. spec \in Specs /\ spec.version <= spec.version
    BY SMT DEF Inv, TypedObjects, Specs, Versions
  <1>2. spec' = [spec EXCEPT !.force = F]
    BY DEF AskForce
  <1>3. /\ spec' \in Specs /\ spec'.version = spec.version
        /\ Asking(spec') = Asking(spec)
    BY <1>1, <1>2 DEF Specs, Asking
  <1>4. UNCHANGED <<updating, sts, pods, pc, rcSpec, rcPods, rolled, forceLeft, asked>>
    BY DEF AskForce, rc
  <1>5. asked' = asked \cup {Asking(spec')}
    BY <1>3, <1>4 DEF Inv, ObjectsInv, ForcedInv
  <1>6. forced' = TRUE /\ events' \in 0..MaxEvents
    BY EventIs DEF AskForce, Inv
  <1> QED
    BY <1>1, <1>3, <1>4, <1>5, <1>6, EditedInv

LEMMA PodStepInv ==
    ASSUME Inv, NEW p \in Nodes, NEW q \in PodRecords,
           pods' = [pods EXCEPT ![p] = q],
           q.version \in {pods[p].version, Successor(p).version},
           UNCHANGED <<operator, sts>>, events' \in 0..MaxEvents
    PROVE  Inv'
  <1>1. UNCHANGED <<spec, updating, sts, pc, rcSpec, rcPods, rolled, forceLeft, forced, asked>>
    BY DEF operator, rc, history
  <1>2. TypedObjects' /\ ObjectsInv' /\ \A r \in Racks : Settled(r) => Settled(r)'
    BY <1>1, PodChanged DEF Inv
  <1>3. spec.version <= spec.version
    BY SMT DEF Inv, TypedObjects, Specs, Versions
  <1>4. TypedPass' /\ PassInv'
    BY <1>1, <1>2, <1>3, PassGoesOn DEF Inv, TypedObjects
  <1> QED
    BY <1>2, <1>4 DEF Inv

LEMMA ClusterInv ==
    ASSUME Inv, NEW p \in Nodes, Cluster(p) \/ PodFails(p)
    PROVE  Inv'
  <1>1. pods \in [Nodes -> PodRecords] /\ pods[p] \in PodRecords /\ TypedObjects
    BY DEF Inv, TypedObjects
  <1>2. events \in 0..MaxEvents
    BY DEF Inv, TypedObjects
  <1>3. CASE ReplacePod(p)
    <2> DEFINE q == [pods[p] EXCEPT !.phase = "terminating"]
    <2>1. q \in PodRecords /\ q.version = pods[p].version
      BY <1>1 DEF PodRecords
    <2>2. pods' = [pods EXCEPT ![p] = q] /\ UNCHANGED <<operator, sts, events>>
      BY <1>1, <1>3 DEF ReplacePod
    <2> HIDE DEF q
    <2> QED
      BY <1>2, <2>1, <2>2, PodStepInv
  <1>4. CASE PodRemoved(p)
    <2>1. pods' = [pods EXCEPT ![p] = Successor(p)] /\ UNCHANGED <<operator, sts, events>>
      BY <1>4 DEF PodRemoved
    <2> QED
      BY <1>1, <1>2, <2>1, PodStepInv, SuccessorIs
  <1>5. CASE NodeComesUp(p)
    <2> DEFINE q == [pods[p] EXCEPT !.up = TRUE]
    <2>1. q \in PodRecords /\ q.version = pods[p].version
      BY <1>1 DEF PodRecords
    <2>2. pods' = [pods EXCEPT ![p] = q] /\ UNCHANGED <<operator, sts, events>>
      BY <1>1, <1>5 DEF NodeComesUp
    <2> HIDE DEF q
    <2> QED
      BY <1>2, <2>1, <2>2, PodStepInv
  <1>6. CASE PodFails(p)
    <2>1. pods' = [pods EXCEPT ![p] = Successor(p)] /\ UNCHANGED <<operator, sts>>
      BY <1>6 DEF PodFails
    <2>2. events' \in 0..MaxEvents
      BY <1>1, <1>6, EventIs DEF PodFails
    <2> QED
      BY <1>1, <2>1, <2>2, PodStepInv, SuccessorIs
  <1> QED
    BY <1>3, <1>4, <1>5, <1>6 DEF Cluster

LEMMA WriteStatusInv ==
    ASSUME Inv, NEW r \in Racks, WriteStatus(r)
    PROVE  Inv'
  <1>1. /\ UNCHANGED <<spec, updating, pods, pc, rcSpec, rcPods, rolled, forceLeft,
                       forced, asked, events>>
        /\ sts' = [sts EXCEPT ![r] = StatusOf(r)]
    BY DEF WriteStatus, operator, rc, history
  <1>2. /\ TypedObjects' /\ ObjectsInv'
        /\ \A x \in Racks : Settled(x) => Settled(x)'
        /\ \A x \in Racks : sts'[x].template = sts[x].template
    BY <1>1, StatusWritten DEF Inv
  <1>3. spec.version <= spec.version
    BY SMT DEF Inv, TypedObjects, Specs, Versions
  <1>4. TypedPass' /\ PassInv'
    BY <1>1, <1>2, <1>3, PassGoesOn DEF Inv, TypedObjects
  <1> QED
    BY <1>2, <1>4 DEF Inv

(* A pass ends having changed nothing but the Updating condition.           *)
LEMMA EndedInv ==
    ASSUME Inv, EndPass, UNCHANGED <<spec, sts, pods, forced, asked>>,
           updating' \in BOOLEAN, events' \in 0..MaxEvents
    PROVE  Inv'
  <1>1. TypedObjects' /\ ObjectsInv'
    BY ClusterUntouched DEF Inv
  <1>2. TypedPass' /\ PassInv'
    BY PassEnded DEF Inv, TypedObjects
  <1> QED
    BY <1>1, <1>2 DEF Inv

LEMMA BeginPassInv ==
    ASSUME Inv, BeginPass
    PROVE  Inv'
  <1>1. /\ UNCHANGED <<spec, updating, sts, pods, rolled, forceLeft, forced, asked, events>>
        /\ pc' = "racks" /\ rcSpec' = spec
        /\ rcPods' = [p \in Nodes |-> PodState(pods[p])]
    BY DEF BeginPass, bounds, history
  <1>2. TypedObjects' /\ ObjectsInv'
    BY <1>1, ClusterUntouched DEF Inv, TypedObjects
  <1>3. TypedPass'
    <2>1. \A p \in Nodes : PodState(pods[p]) \in {"ready", "starting", "stopped"}
      BY DEF PodState
    <2> QED
      BY <1>1, <2>1 DEF Inv, TypedPass, TypedObjects
  <1>4. PassInv'
    <2>1. spec.version <= spec.version
      BY SMT DEF Inv, TypedObjects, Specs, Versions
    <2> QED
      BY <1>1, <2>1 DEF Inv, PassInv, ObjectsInv, VersionsInv, ForcedInv
  <1> QED
    BY <1>2, <1>3, <1>4 DEF Inv

LEMMA CheckRackCreationInv ==
    ASSUME Inv, CheckRackCreation
    PROVE  Inv'
  <1>1. /\ UNCHANGED <<spec, updating, sts, pods, rcSpec, rcPods, forced, asked, events>>
        /\ pc = "racks" /\ pc' = IF rcSpec.force = {} THEN "ready" ELSE "force"
        /\ rolled' = {r \in Racks : RolledOut(r)}
        /\ forceLeft' = rcSpec.force
    BY DEF CheckRackCreation, bounds, history
  <1>2. TypedObjects' /\ ObjectsInv' /\ \A r \in Racks : Settled(r) => Settled(r)'
    BY <1>1, ClusterUntouched DEF Inv, TypedObjects
  <1>3. TypedPass'
    <2>1. rcSpec.force \subseteq Racks
      BY DEF Inv, TypedPass, Specs
    <2> QED
      BY <1>1, <2>1 DEF Inv, TypedPass
  <1>4. PassInv'
    <2>1. \A r \in rolled' : Settled(r)'
      BY <1>1, <1>2 DEF Inv, ObjectsInv, CountsInv
    <2>2. ~forced => rcSpec.force = {}
      BY DEF Inv, PassInv
    <2>3. ~forced' => rcSpec'.force = {} /\ pc' # "force"
      BY <1>1, <2>2
    <2>4. /\ rcSpec.version <= spec.version
          /\ Asking(rcSpec) \in asked
          /\ \A r \in Racks : sts[r].template <= rcSpec.version
      BY <1>1 DEF Inv, PassInv
    <2> QED
      BY <1>1, <2>1, <2>3, <2>4 DEF PassInv
  <1> QED
    BY <1>2, <1>3, <1>4 DEF Inv

LEMMA CheckRackForceUpgradeInv ==
    ASSUME Inv, CheckRackForceUpgrade
    PROVE  Inv'
  <1> DEFINE r == Min(forceLeft)
  <1>1. /\ pc = "force" /\ forceLeft # {} /\ updating' = TRUE
        /\ UNCHANGED <<spec, pods, forced, asked>>
        /\ \/ Event /\ UNCHANGED sts /\ EndPass
           \/ /\ UpdateSts(r, 0) /\ UNCHANGED events
              /\ forceLeft' = forceLeft \ {r} /\ rcSpec' = spec
              /\ UNCHANGED <<pc, rcPods, rolled>>
    BY DEF CheckRackForceUpgrade, history
  <1>2. r \in Racks
    BY <1>1, FirstOf DEF Inv, TypedPass
  <1> HIDE DEF r
  <1>3. forced
    BY <1>1 DEF Inv, PassInv
  <1>4. CASE Event /\ UNCHANGED sts /\ EndPass
    BY <1>1, <1>4, EventIs, EndedInv DEF Inv
  <1>5. CASE /\ UpdateSts(r, 0) /\ UNCHANGED events
             /\ forceLeft' = forceLeft \ {r} /\ rcSpec' = spec
             /\ UNCHANGED <<pc, rcPods, rolled>>
    <2>1. sts' = [sts EXCEPT ![r] = Desired(r, 0)]
      BY <1>5 DEF UpdateSts
    <2>2. 0 \in 0..Size
      BY Constants, SMT
    <2>3. /\ rcSpec.version \in Versions /\ sts[r].template <= rcSpec.version
          /\ rcSpec.version <= spec.version
      BY <1>1, <1>2 DEF Inv, TypedPass, PassInv, Specs
    <2>4. TypedObjects' /\ ObjectsInv'
      BY <1>1, <1>2, <1>3, <1>5, <2>1, <2>2, <2>3, StsUpdated DEF Inv
    <2>5. TypedPass'
      BY <1>5 DEF Inv, TypedPass, TypedObjects
    <2>6. PassInv'
      <3>1. spec.version <= spec.version
        BY SMT DEF Inv, TypedObjects, Specs, Versions
      <3>2. \A x \in Racks : sts'[x].template <= spec'.version
        BY <2>4 DEF ObjectsInv, VersionsInv
      <3> QED
        BY <1>1, <1>3, <1>5, <3>1, <3>2 DEF Inv, ObjectsInv, ForcedInv, PassInv
    <2> QED
      BY <2>4, <2>5, <2>6 DEF Inv
  <1> QED
    BY <1>1, <1>4, <1>5

LEMMA ClearForceUpgradeRacksInv ==
    ASSUME Inv, ClearForceUpgradeRacks
    PROVE  Inv'
  <1> DEFINE F == IF rcSpec.force = {} THEN spec.force ELSE {}
  <1>1. /\ spec' = [spec EXCEPT !.force = F] /\ EndPass
        /\ UNCHANGED <<updating, sts, pods, forced, asked, events>>
    BY DEF ClearForceUpgradeRacks, bounds, history
  <1>2. spec \in Specs /\ spec.version <= spec.version
    BY SMT DEF Inv, TypedObjects, Specs, Versions
  <1>3. F \in SUBSET Racks /\ (~forced => F = {})
    BY <1>2 DEF Inv, ObjectsInv, ForcedInv, Specs
  <1> HIDE DEF F
  <1>4. /\ spec' \in Specs /\ spec'.version = spec.version
        /\ Asking(spec') = Asking(spec) /\ spec'.force = F
    BY <1>1, <1>2, <1>3 DEF Specs, Asking
  <1>5. TypedObjects' /\ ObjectsInv'
    BY <1>1, <1>2, <1>3, <1>4, DatacenterEdited DEF Inv, TypedObjects, ObjectsInv, ForcedInv
  <1>6. TypedPass' /\ PassInv'
    BY <1>1, <1>4, PassEnded
  <1> QED
    BY <1>5, <1>6 DEF Inv

LEMMA CheckPodsReadyInv ==
    ASSUME Inv, CheckPodsReady
    PROVE  Inv'
  <1>1. CASE StartNode
    <2>1. PICK p \in Nodes :
             pods' = [pods EXCEPT ![p].started = @ \/ pods[p].phase = "present"]
      BY <1>1 DEF StartNode, Seen
    <2> DEFINE b == pods[p].started \/ pods[p].phase = "present"
               q == [pods[p] EXCEPT !.started = b]
    <2>2. pods[p] \in PodRecords /\ pods \in [Nodes -> PodRecords]
      BY DEF Inv, TypedObjects
    <2>3. b \in BOOLEAN
      BY <2>2 DEF PodRecords
    <2>4. pods' = [pods EXCEPT ![p] = q]
      BY <2>1, <2>2
    <2> HIDE DEF b
    <2>5. q \in PodRecords /\ q.version = pods[p].version
      BY <2>2, <2>3 DEF PodRecords
    <2> HIDE DEF q
    <2>6. EndPass /\ UNCHANGED <<spec, updating, sts, forced, asked, events>>
      BY <1>1 DEF StartNode, bounds, history
    <2>7. TypedObjects' /\ ObjectsInv'
      BY <2>4, <2>5, <2>6, PodChanged DEF Inv, TypedObjects
    <2>8. TypedPass' /\ PassInv'
      BY <2>6, PassEnded DEF Inv, TypedObjects
    <2> QED
      BY <2>7, <2>8 DEF Inv
  <1>2. CASE WaitForNodes
    BY <1>2, EndedInv DEF WaitForNodes, bounds, history, Inv, TypedObjects
  <1>3. CASE AllPodsReady
    <2>1. /\ UNCHANGED <<spec, updating, sts, pods, rcSpec, rcPods, rolled, forceLeft,
                         forced, asked, events>>
          /\ pc = "ready" /\ pc' = "template"
      BY <1>3 DEF AllPodsReady, rc, bounds, history
    <2>2. TypedObjects' /\ ObjectsInv' /\ \A r \in Racks : Settled(r) => Settled(r)'
      BY <2>1, ClusterUntouched DEF Inv, TypedObjects
    <2>3. TypedPass'
      BY <2>1 DEF Inv, TypedPass
    <2>4. \A r \in rolled' : Settled(r)'
      BY <2>1, <2>2 DEF Inv, PassInv, TypedPass
    <2>5. PassInv'
      BY <2>1, <2>4 DEF Inv, PassInv
    <2> QED
      BY <2>2, <2>3, <2>5 DEF Inv
  <1> QED
    BY <1>1, <1>2, <1>3 DEF CheckPodsReady

LEMMA CheckRackPodTemplateInv ==
    ASSUME Inv, CheckRackPodTemplate
    PROVE  Inv'
  <1>1. CASE UpdateRack
    <2> DEFINE r == FirstPending
    <2>1. /\ pc = "template" /\ r # 0 /\ updating' = TRUE /\ EndPass
          /\ UNCHANGED <<spec, pods, forced, asked>>
          /\ \/ Event /\ UNCHANGED sts
             \/ UpdateSts(r, Partition(rcSpec)) /\ UNCHANGED events
      BY <1>1 DEF UpdateRack, history
    <2>2. r \in Racks /\ (rcSpec.canary => r = 1)
      BY <2>1, FirstPendingIs
    <2> HIDE DEF r
    <2>3. CASE Event /\ UNCHANGED sts
      BY <2>1, <2>3, EventIs, EndedInv DEF Inv
    <2>4. CASE UpdateSts(r, Partition(rcSpec)) /\ UNCHANGED events
      <3>1. sts' = [sts EXCEPT ![r] = Desired(r, Partition(rcSpec))]
        BY <2>4 DEF UpdateSts
      <3>2. /\ rcSpec \in Specs /\ rcSpec.version \in Versions
            /\ sts[r].template <= rcSpec.version /\ rcSpec.version <= spec.version
            /\ Asking(rcSpec) \in asked
        BY <2>1, <2>2 DEF Inv, TypedPass, PassInv, Specs
      <3>3. Partition(rcSpec) \in 0..Size
        BY <3>2, PartitionIs
      <3>4. ASSUME NEW p \in Nodes, p[1] = r, p[2] >= Partition(rcSpec)
            PROVE  May(asked, p, rcSpec.version)
        <4>1. rcSpec.canary => p[1] = 1 /\ p[2] \in 0..(NodeCount[1] - 1)
          BY <2>2, <3>4, NodesAre, OrdinalsNat, FirstRack
        <4>2. rcSpec.canary => p[1] = 1 /\ p[2] + rcSpec.count >= NodeCount[1]
          BY <3>2, <3>4, <4>1, PartitionIs
        <4> QED
          BY <3>2, <4>2, AskingIs DEF May
      <3>5. TypedObjects' /\ ObjectsInv'
        BY <2>1, <2>2, <2>4, <3>1, <3>2, <3>3, <3>4, StsUpdated DEF Inv
      <3>6. TypedPass' /\ PassInv'
        BY <2>1, PassEnded DEF Inv, TypedObjects
      <3> QED
        BY <3>5, <3>6 DEF Inv
    <2> QED
      BY <2>1, <2>3, <2>4
  <1>2. CASE WaitForUpgrade
    BY <1>2, EndedInv DEF WaitForUpgrade, bounds, history, Inv, TypedObjects
  <1>3. CASE ClearConditions
    BY <1>3, EndedInv DEF ClearConditions, bounds, history, Inv, TypedObjects
  <1> QED
    BY <1>1, <1>2, <1>3 DEF CheckRackPodTemplate

LEMMA AbortInv ==
    ASSUME Inv, Abort
    PROVE  Inv'
  <1>1. EndPass /\ Event /\ UNCHANGED <<spec, updating, sts, pods, forced, asked>>
    BY DEF Abort, history
  <1> QED
    BY <1>1, EventIs, EndedInv DEF Inv, TypedObjects

LEMMA StutterInv ==
    ASSUME Inv, UNCHANGED vars
    PROVE  Inv'
  <1>1. UNCHANGED <<spec, updating, sts, pods, pc, rcSpec, rcPods, rolled, forceLeft,
                    forced, asked, events>>
    BY DEF vars, rc, bounds, history
  <1>2. TypedObjects' /\ ObjectsInv' /\ \A r \in Racks : Settled(r) => Settled(r)'
    BY <1>1, ClusterUntouched DEF Inv, TypedObjects
  <1>3. spec.version <= spec.version
    BY SMT DEF Inv, TypedObjects, Specs, Versions
  <1>4. TypedPass' /\ PassInv'
    BY <1>1, <1>2, <1>3, PassGoesOn DEF Inv, TypedObjects
  <1> QED
    BY <1>2, <1>4 DEF Inv

LEMMA StepInv == Inv /\ [Next]_vars => Inv'
  <1> SUFFICES ASSUME Inv, [Next]_vars PROVE Inv'
    OBVIOUS
  <1>1. CASE Pass
    BY <1>1, BeginPassInv, CheckRackCreationInv, CheckRackForceUpgradeInv,
       ClearForceUpgradeRacksInv, CheckPodsReadyInv, CheckRackPodTemplateInv DEF Pass
  <1>2. CASE UNCHANGED vars
    BY <1>2, StutterInv
  <1> QED
    BY <1>1, <1>2, AbortInv, EditVersionInv, EditCanaryInv, AskForceInv, WriteStatusInv,
       ClusterInv DEF Next

LEMMA Invariance == Spec => []Inv
  BY InitInv, StepInv, PTL DEF Spec

(* The only step that changes a template when the pass is there.            *)
LEMMA TemplateChanges ==
    ASSUME Inv, Next, pc = "template", NEW r \in Racks, sts'[r].template # sts[r].template
    PROVE  UpdateRack /\ r = FirstPending
  <1>1. ~UNCHANGED sts
    OBVIOUS
  <1>2. ~\E x \in Racks : WriteStatus(x)
    BY StatusWritten DEF Inv, WriteStatus, operator, history
  <1>3. UpdateRack
    BY <1>1, <1>2
    DEF Next, Pass, BeginPass, CheckRackCreation, CheckRackForceUpgrade,
        ClearForceUpgradeRacks, CheckPodsReady, StartNode, WaitForNodes, AllPodsReady,
        CheckRackPodTemplate, WaitForUpgrade, ClearConditions, Abort, EditVersion, EditCanary,
        AskForce,
        Cluster, ReplacePod, PodRemoved, NodeComesUp, PodFails
  <1>4. sts' = [sts EXCEPT ![FirstPending] = Desired(FirstPending, Partition(rcSpec))]
    BY <1>1, <1>3 DEF UpdateRack, UpdateSts
  <1>5. r = FirstPending
    BY <1>4 DEF Inv, TypedObjects
  <1> QED
    BY <1>3, <1>5

(* The only step that clears the condition.                                 *)
LEMMA ConditionCleared ==
    ASSUME Next, updating, ~updating'
    PROVE  ClearConditions
  BY DEF Next, Pass, BeginPass, CheckRackCreation, CheckRackForceUpgrade,
         ClearForceUpgradeRacks, CheckPodsReady, StartNode, WaitForNodes, AllPodsReady,
         CheckRackPodTemplate, UpdateRack, WaitForUpgrade, Abort, EditVersion, EditCanary,
        AskForce,
         WriteStatus, Cluster, ReplacePod, PodRemoved, NodeComesUp, PodFails, operator
-----------------------------------------------------------------------------
(* TypeOK holds of every behaviour: no pod runs a version that its          *)
(* StatefulSet was not built from, whatever is edited, forced or evicted    *)
(* while CheckRackPodTemplate and the controller are at work.               *)
THEOREM TypeCorrect == Spec => []TypeOK
  BY Invariance, InvIsTypeOK, PTL

(* No pod runs a version that was only asked for of others, as long as no   *)
(* upgrade was forced: the partition CheckRackPodTemplate sets holds for    *)
(* pods that are evicted, and through every edit of the version or of the   *)
(* canary, also one that a running pass has not seen.                       *)
THEOREM CanaryAlwaysContained == Spec => []CanaryContained
  <1>1. Inv => CanaryContained
    BY DEF Inv, ObjectsInv, CanaryInv, May, CanaryContained, AskedOf
  <1> QED
    BY <1>1, Invariance, PTL

(* CheckRackPodTemplate changes the template of a rack only when the pods   *)
(* of every rack before it run the template of theirs, although it decides  *)
(* by counts that it read earlier and that the controller wrote before.     *)
THEOREM RacksAlwaysInOrder == Spec => RacksInOrder
  <1> DEFINE A == \A r \in Racks : pc = "template" /\ sts'[r].template # sts[r].template
                     => \A q \in 1..(r - 1) : ~Outdated(q)
  <1>1. Inv /\ [Next]_vars => [A]_vars
    <2> SUFFICES ASSUME Inv, Next, NEW r \in Racks, pc = "template",
                        sts'[r].template # sts[r].template, NEW q \in 1..(r - 1)
                 PROVE  ~Outdated(q)
      BY DEF A
    <2>1. UpdateRack /\ r = FirstPending
      BY TemplateChanges
    <2>2. q \in rolled
      BY <2>1, FirstPendingIs DEF UpdateRack
    <2> QED
      BY <2>2 DEF Inv, PassInv, Settled, Outdated
  <1>2. Inv /\ [Next]_vars => [\A r \in Racks :
           pc = "template" /\ sts'[r].template # sts[r].template
              => \A q \in 1..(r - 1) : ~Outdated(q)]_vars
    BY <1>1 DEF A
  <1> QED
    BY <1>2, Invariance, PTL DEF Spec, RacksInOrder

(* CheckClearActionConditions clears the Updating condition only when every *)
(* rack, or with canaryUpgrade the first, was built from the version that   *)
(* the pass read and its pods run it.                                       *)
THEOREM ClearedAlwaysRolledOut == Spec => ClearedMeansRolledOut
  <1>1. Inv /\ [Next]_vars =>
           [updating /\ ~updating' =>
              \A r \in Racks : (rcSpec.canary => r = 1) =>
                  sts[r].template = rcSpec.version /\ ~Outdated(r)]_vars
    <2> SUFFICES ASSUME Inv, Next, updating, ~updating', NEW r \in Racks,
                        rcSpec.canary => r = 1
                 PROVE  sts[r].template = rcSpec.version /\ ~Outdated(r)
      OBVIOUS
    <2>1. ClearConditions
      BY ConditionCleared
    <2>2. SameHash(r) /\ r \in rolled
      BY <2>1, FirstPendingIs DEF ClearConditions
    <2>3. Settled(r)
      BY <2>1, <2>2 DEF Inv, PassInv, ClearConditions
    <2> QED
      BY <2>2, <2>3 DEF SameHash, Settled, Outdated
  <1> QED
    BY <1>1, Invariance, PTL DEF Spec, ClearedMeansRolledOut

=============================================================================
