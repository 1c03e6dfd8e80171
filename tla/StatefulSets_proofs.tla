------------------------- MODULE StatefulSets_proofs -------------------------
(***************************************************************************)
(* What the topologies that a user can reach and the StatefulSets that are *)
(* built for them promise, for every bound on the number of nodes and      *)
(* racks, every set of names and labels a user may choose and any number   *)
(* of edits.  The invariant: each StatefulSet was built for its rack from  *)
(* some earlier spec that agrees with the present one in all that the      *)
(* webhook protects.                                                       *)
(***************************************************************************)
EXTENDS StatefulSets, TLAPS

-----------------------------------------------------------------------------
(* What SplitRacks and the functions built on it give each rack, for every  *)
(* number of nodes and racks: division with remainder, first.               *)

(* The quotient and the remainder SplitRacks computes.                      *)
LEMMA DivMod ==
    ASSUME NEW n \in Nat, NEW r \in Nat \ {0}
    PROVE  /\ n \div r \in Nat
           /\ n % r \in 0..(r - 1)
           /\ n = r * (n \div r) + (n % r)
  OBVIOUS

(* Quotient and remainder are the only ones.                                *)
LEMMA DivModUnique ==
    ASSUME NEW r \in Nat \ {0}, NEW q \in Nat, NEW e \in 0..(r - 1)
    PROVE  (r * q + e) \div r = q /\ (r * q + e) % r = e
  OBVIOUS

(* The product of naturals grows with either factor.                        *)
LEMMA ProductMonotone ==
    ASSUME NEW r \in Nat, NEW a \in Nat, NEW b \in Nat, a <= b
    PROVE  r * a <= r * b
  <1>1. PICK c \in Nat : b = a + c
    <2>1. b - a \in Nat /\ b = a + (b - a)
      OBVIOUS
    <2> QED BY <2>1
  <1>2. r * (a + c) = r * a + r * c /\ r * a \in Nat /\ r * c \in Nat
    OBVIOUS
  <1> QED BY <1>1, <1>2

(* What SplitRacks gives rack i.                                            *)
LEMMA SplitValue ==
    ASSUME NEW n \in Nat, NEW r \in Nat \ {0}, NEW i \in 1..r
    PROVE  /\ SplitRacks(n, r)[i] =
                 (n \div r) + (IF i <= n % r THEN 1 ELSE 0)
           /\ SplitRacks(n, r)[i] \in Nat
  BY DivMod DEF SplitRacks

(* No rack gets fewer nodes when there are more nodes to place.             *)
LEMMA SplitMonotone ==
    ASSUME NEW n \in Nat, NEW m \in Nat, n <= m,
           NEW r \in Nat \ {0}, NEW i \in 1..r
    PROVE  SplitRacks(n, r)[i] <= SplitRacks(m, r)[i]
  <1> DEFINE q == n \div r  e == n % r  p == m \div r  d == m % r
  <1>1. q \in Nat /\ e \in 0..(r - 1) /\ n = r * q + e
    BY DivMod
  <1>2. p \in Nat /\ d \in 0..(r - 1) /\ m = r * p + d
    BY DivMod
  <1>3. /\ SplitRacks(n, r)[i] = q + (IF i <= e THEN 1 ELSE 0)
        /\ SplitRacks(m, r)[i] = p + (IF i <= d THEN 1 ELSE 0)
    BY SplitValue
  <1> HIDE DEF q, e, p, d
  <1>4. q <= p
    <2>1. SUFFICES ASSUME p + 1 <= q PROVE FALSE
      BY <1>1, <1>2
    <2>2. r * (p + 1) <= r * q
      BY <1>1, <1>2, <2>1, ProductMonotone
    <2>3. r * (p + 1) = r * p + r
      BY <1>2
    <2>4. r * p \in Nat /\ r * q \in Nat
      BY <1>1, <1>2
    <2> QED BY <1>1, <1>2, <2>2, <2>3, <2>4
  <1>5. CASE q = p
    <2>1. e <= d
      BY <1>1, <1>2, <1>5
    <2> QED BY <1>1, <1>2, <1>3, <1>5, <2>1
  <1>6. CASE q < p
    BY <1>1, <1>2, <1>3, <1>6
  <1> QED BY <1>1, <1>2, <1>4, <1>5, <1>6

(* The racks of one topology differ by one node at most, and the extra      *)
(* nodes are on the first racks.                                            *)
LEMMA SplitEven ==
    ASSUME NEW n \in Nat, NEW r \in Nat \ {0}, NEW i \in 1..r, NEW j \in 1..r
    PROVE  /\ SplitRacks(n, r)[i] <= SplitRacks(n, r)[j] + 1
           /\ i <= j => SplitRacks(n, r)[j] <= SplitRacks(n, r)[i]
  <1> DEFINE q == n \div r  e == n % r
  <1>1. q \in Nat /\ e \in 0..(r - 1)
    BY DivMod
  <1>2. /\ SplitRacks(n, r)[i] = q + (IF i <= e THEN 1 ELSE 0)
        /\ SplitRacks(n, r)[j] = q + (IF j <= e THEN 1 ELSE 0)
    BY SplitValue
  <1> HIDE DEF q, e
  <1> QED BY <1>1, <1>2

(* An edit that adds racks and passes ValidateDatacenterFieldChanges brings *)
(* at least as many new nodes as the smallest old rack has, for every new   *)
(* rack; then no old rack gets fewer nodes than it had.                     *)
THEOREM AddedRacksKeepOldRacks ==
    ASSUME NEW n \in Nat, NEW m \in Nat, NEW r \in Nat \ {0}, NEW s \in Nat,
           r < s, ValidTopologyChange(n, r, m, s), NEW i \in 1..r
    PROVE  SplitRacks(n, r)[i] <= SplitRacks(m, s)[i]
  <1> DEFINE q == n \div r  e == n % r  p == m \div s  d == m % s
  <1>1. q \in Nat /\ e \in 0..(r - 1) /\ n = r * q + e
    BY DivMod
  <1>2. p \in Nat /\ d \in 0..(s - 1) /\ m = s * p + d
    BY DivMod
  <1>3. /\ SplitRacks(n, r)[i] = q + (IF i <= e THEN 1 ELSE 0)
        /\ SplitRacks(n, r)[r] = q
        /\ SplitRacks(m, s)[i] = p + (IF i <= d THEN 1 ELSE 0)
    <2>1. SplitRacks(n, r)[i] = q + (IF i <= e THEN 1 ELSE 0)
      BY SplitValue
    <2>2. r \in 1..r /\ i \in 1..s /\ s \in Nat \ {0} /\ ~(r <= e)
      BY <1>1
    <2>3. SplitRacks(n, r)[r] = q + (IF r <= e THEN 1 ELSE 0)
      BY SplitValue, <2>2
    <2>4. SplitRacks(m, s)[i] = p + (IF i <= d THEN 1 ELSE 0)
      BY SplitValue, <2>2
    <2> HIDE DEF q, e, p, d
    <2> QED BY <1>1, <2>1, <2>2, <2>3, <2>4
  <1>4. m - n >= q * (s - r)
    BY <1>3 DEF ValidTopologyChange
  <1> HIDE DEF q, e, p, d
  \* The new size covers q nodes on every rack and the old remainder.
  <1>5. s * p + d >= s * q + e
    <2>1. q * (s - r) = s * q - r * q
      BY <1>1
    <2>2. s * q \in Nat /\ r * q \in Nat /\ s * p \in Nat
      BY <1>1, <1>2
    <2> QED BY <1>1, <1>2, <1>4, <2>1, <2>2
  <1>6. q <= p
    <2>1. SUFFICES ASSUME p + 1 <= q PROVE FALSE
      BY <1>1, <1>2
    <2>2. s * (p + 1) <= s * q
      BY <1>1, <1>2, <2>1, ProductMonotone
    <2>3. s * (p + 1) = s * p + s
      BY <1>2
    <2>4. s * p \in Nat /\ s * q \in Nat
      BY <1>1, <1>2
    <2> QED BY <1>1, <1>2, <1>5, <2>2, <2>3, <2>4
  <1>7. CASE q = p
    <2>1. e <= d
      BY <1>1, <1>2, <1>5, <1>7
    <2> QED BY <1>1, <1>2, <1>3, <1>7, <2>1
  <1>8. CASE q < p
    BY <1>1, <1>2, <1>3, <1>8
  <1> QED BY <1>1, <1>2, <1>6, <1>7, <1>8

(* The number of seeds is at least the number of racks, and at most the     *)
(* number of nodes.                                                         *)
LEMMA SeedCountBounds ==
    ASSUME NEW n \in Nat, NEW r \in Nat \ {0}, r <= n
    PROVE  /\ SeedCount(n, r) \in Nat
           /\ r <= SeedCount(n, r)
           /\ SeedCount(n, r) <= n
  BY DEF SeedCount

(* A rack of a topology with at least one node per rack has a node.         *)
LEMMA SplitPositive ==
    ASSUME NEW n \in Nat, NEW r \in Nat \ {0}, r <= n, NEW i \in 1..r
    PROVE  1 <= SplitRacks(n, r)[i]
  <1>1. r \div r = 1 /\ r % r = 0
    <2>1. r * 1 + 0 = r
      OBVIOUS
    <2> QED BY <2>1, DivModUnique
  <1>2. SplitRacks(r, r)[i] = 1
    BY <1>1, SplitValue
  <1>3. SplitRacks(r, r)[i] <= SplitRacks(n, r)[i]
    BY SplitMonotone
  <1> QED BY <1>2, <1>3

(* CalculateRackInfoForDecomm of an even topology differs from it by one    *)
(* node of one rack: the last rack with an extra node or, when no rack has  *)
(* one, the last rack.                                                      *)
LEMMA OneNodeLess ==
    ASSUME NEW n \in Nat \ {0}, NEW r \in Nat \ {0}
    PROVE  \E x \in 1..r : \A j \in 1..r :
              RackInfoForDecomm(n, r)[j] =
                  SplitRacks(n, r)[j] - (IF j = x THEN 1 ELSE 0)
  <1> DEFINE q == n \div r  e == n % r
  <1>1. q \in Nat /\ e \in 0..(r - 1) /\ n = r * q + e
    BY DivMod
  <1>2. \A j \in 1..r : SplitRacks(n, r)[j] = q + (IF j <= e THEN 1 ELSE 0)
    BY SplitValue
  <1>3. n - 1 \in Nat
    OBVIOUS
  <1>4. \A j \in 1..r :
           RackInfoForDecomm(n, r)[j] =
              ((n - 1) \div r) + (IF j <= (n - 1) % r THEN 1 ELSE 0)
    BY <1>3, SplitValue DEF RackInfoForDecomm
  <1> HIDE DEF q, e
  <1>5. CASE e > 0
    <2>1. e - 1 \in 0..(r - 1) /\ n - 1 = r * q + (e - 1)
      BY <1>1, <1>5
    <2>2. (n - 1) \div r = q /\ (n - 1) % r = e - 1
      BY <1>1, <2>1, DivModUnique
    <2>3. e \in 1..r
      BY <1>1, <1>5
    <2>4. \A j \in 1..r :
             RackInfoForDecomm(n, r)[j] =
                 SplitRacks(n, r)[j] - (IF j = e THEN 1 ELSE 0)
      BY <1>1, <1>2, <1>4, <2>2, <2>3
    <2> QED BY <2>3, <2>4
  <1>6. CASE e = 0
    <2>1. q > 0
      BY <1>1, <1>6
    <2>2. r * q = r * (q - 1) + r
      BY <1>1
    <2>3. q - 1 \in Nat /\ r - 1 \in 0..(r - 1) /\ n - 1 = r * (q - 1) + (r - 1)
      BY <1>1, <1>6, <2>1, <2>2
    <2>4. (n - 1) \div r = q - 1 /\ (n - 1) % r = r - 1
      BY <2>3, DivModUnique
    <2>5. \A j \in 1..r :
             RackInfoForDecomm(n, r)[j] =
                 SplitRacks(n, r)[j] - (IF j = r THEN 1 ELSE 0)
      BY <1>1, <1>2, <1>4, <1>6, <2>4
    <2>6. r \in 1..r
      OBVIOUS
    <2> QED BY <2>5, <2>6
  <1> QED BY <1>1, <1>5, <1>6

-----------------------------------------------------------------------------
(* Sizes and racks: what TopologyEdits allows.                              *)

(* Whatever edits the webhook lets through, size and racks keep their range.*)
THEOREM TypeCorrect == Spec => []TypeOK
  <1>1. Init => TypeOK
    BY DEF Init, TypeOK
  <1>2. TypeOK /\ [Next]_vars => TypeOK'
    BY DEF TypeOK, Next, vars, EditTopology, EditStopped
  <1> QED BY <1>1, <1>2, PTL DEF Spec

(* In every topology a user can reach, each rack of a running datacenter    *)
(* has a seed, no rack more seeds than nodes, and the racks are even.       *)
THEOREM SeedsAlwaysFit == Spec => []SeedsFitRacks
  <1>1. TypeOK => SeedsFitRacks
    <2>1. SUFFICES ASSUME TypeOK, racks <= size, ~stopped, NEW r \in 1..racks
                   PROVE  /\ 1 <= Info[r].seeds
                          /\ Info[r].seeds <= Info[r].nodes
                          /\ \A q \in 1..racks : Info[r].nodes <= Info[q].nodes + 1
      BY TopologyAssumption DEF SeedsFitRacks, TooFewNodes, TypeOK
    <2>2. size \in Nat /\ racks \in Nat \ {0}
      BY <2>1 DEF TypeOK
    <2> DEFINE seedCount == SeedCount(size, racks)
    <2>3. seedCount \in Nat /\ racks <= seedCount /\ seedCount <= size
      BY <2>1, <2>2, SeedCountBounds
    <2>4. \A q \in 1..racks :
             /\ Info[q].nodes = SplitRacks(size, racks)[q]
             /\ Info[q].seeds = SplitRacks(seedCount, racks)[q]
      BY <2>1 DEF Info, RackInformation, DesiredNodeCount
    <2> HIDE DEF seedCount
    <2>5. 1 <= SplitRacks(seedCount, racks)[r]
      BY <2>1, <2>2, <2>3, SplitPositive
    <2>6. SplitRacks(seedCount, racks)[r] <= SplitRacks(size, racks)[r]
      BY <2>1, <2>2, <2>3, SplitMonotone
    <2>7. \A q \in 1..racks :
             SplitRacks(size, racks)[r] <= SplitRacks(size, racks)[q] + 1
      BY <2>1, <2>2, SplitEven
    <2> QED BY <2>1, <2>4, <2>5, <2>6, <2>7
  <1> QED BY <1>1, TypeCorrect, PTL

(* From every even topology a decommission takes one node off one rack and  *)
(* leaves the topology SplitRacks would choose.                             *)
THEOREM DecommissionAlwaysTakesOne == Spec => []DecommissionTakesOneNode
  <1>1. TypeOK => DecommissionTakesOneNode
    <2>1. SUFFICES ASSUME TypeOK PROVE DecommissionTakesOneNode
      OBVIOUS
    <2>2. size \in Nat \ {0} /\ racks \in Nat \ {0}
      BY <2>1, TopologyAssumption DEF TypeOK
    <2>3. \E x \in 1..racks : \A j \in 1..racks :
             RackInfoForDecomm(size, racks)[j] =
                 SplitRacks(size, racks)[j] - (IF j = x THEN 1 ELSE 0)
      BY <2>2, OneNodeLess
    <2> QED BY <2>3 DEF DecommissionTakesOneNode
  <1> QED BY <1>1, TypeCorrect, PTL

(* No edit that adds racks gives a rack that was there before fewer nodes.  *)
THEOREM RacksAlwaysAddedSafely == Spec => RacksAddedSafely
  <1>1. TypeOK /\ [Next]_vars => [AddedRacksMoveNoNode]_vars
    <2>1. SUFFICES ASSUME TypeOK, EditTopology, racks < racks', NEW r \in 1..racks
                   PROVE  SplitRacks(size, racks)[r] <= SplitRacks(size', racks')[r]
      BY DEF TypeOK, Next, vars, AddedRacksMoveNoNode, EditStopped, EditTopology
    <2>2. /\ size \in Nat /\ size' \in Nat
          /\ racks \in Nat \ {0} /\ racks' \in Nat
          /\ ValidTopologyChange(size, racks, size', racks')
      BY <2>1 DEF TypeOK, EditTopology
    <2> QED BY <2>1, <2>2, AddedRacksKeepOldRacks
  <1> QED BY <1>1, TypeCorrect, PTL DEF Spec, RacksAddedSafely

-----------------------------------------------------------------------------
(* StatefulSets.                                                            *)

From(s, r, d) == \E b \in BOOLEAN : s = NewStatefulSet(d, r, b)

Earlier(d) == ValidateDatacenterFieldChanges(d, dc) /\ MountsOwn(d)

Built == \A r \in DOMAIN sts : \E d : From(sts[r], r, d) /\ Earlier(d)

BuildInv == MountsOwn(dc) /\ Built

-----------------------------------------------------------------------------
(* The parts of a StatefulSet that newStatefulSetForCassandraDatacenter     *)
(* builds, after what PSP and the management API add.                       *)
LEMMA TemplateParts ==
    ASSUME NEW d, NEW r
    PROVE  LET t == AddManagementApiServerSecurity(d, BuildPodTemplateSpec(d, r))
           IN  /\ t.labels = PodLabels(d, r)
               /\ t.nodes = RackNodeAffinityLabels(d, r)
               /\ t.antiAffinity = PodAntiAffinity(d.multiple)
               /\ t = [labels       |-> t.labels,
                       nodes        |-> t.nodes,
                       antiAffinity |-> t.antiAffinity,
                       volumes      |-> t.volumes,
                       mounts       |-> t.mounts]
  BY DEF AddManagementApiServerSecurity, BuildPodTemplateSpec

LEMMA ChangesParts ==
    ASSUME NEW sel, NEW name, NEW claims, NEW cl, NEW lab, NEW nod, NEW anti, NEW vol, NEW mou
    PROVE  LET t == [labels |-> lab, nodes |-> nod, antiAffinity |-> anti,
                     volumes |-> vol, mounts |-> mou]
               s == AddStatefulSetChanges([selector |-> sel, serviceName |-> name,
                        claims |-> claims, claimLabels |-> cl, template |-> t])
           IN  /\ s.selector = sel /\ s.serviceName = name /\ s.claims = claims
               /\ s.claimLabels = AddPSPLabels(cl)
               /\ s.template.labels = AddPSPLabels(lab)
               /\ s.template.nodes = nod /\ s.template.antiAffinity = anti
               /\ s.template.volumes = vol /\ s.template.mounts = mou
  BY DEF AddStatefulSetChanges

LEMMA StatefulSetParts ==
    ASSUME NEW d, NEW r, NEW b
    PROVE  LET s == NewStatefulSet(d, r, b)
               t == AddManagementApiServerSecurity(d, BuildPodTemplateSpec(d, r))
           IN  /\ s.selector = RackLabels(d, r)
               /\ s.serviceName = d.cluster
               /\ s.claims = VolumeClaimTemplates(d)
               /\ s.claimLabels = AddPSPLabels(Merge(RackLabels(d, r), ManagedBy(b)))
               /\ s.template.labels = AddPSPLabels(PodLabels(d, r))
               /\ s.template.nodes = RackNodeAffinityLabels(d, r)
               /\ s.template.antiAffinity = PodAntiAffinity(d.multiple)
               /\ s.template.volumes = t.volumes
               /\ s.template.mounts = t.mounts
  <1> DEFINE t == AddManagementApiServerSecurity(d, BuildPodTemplateSpec(d, r))
  <1>1. /\ t.labels = PodLabels(d, r)
        /\ t.nodes = RackNodeAffinityLabels(d, r)
        /\ t.antiAffinity = PodAntiAffinity(d.multiple)
        /\ t = [labels |-> t.labels, nodes |-> t.nodes, antiAffinity |-> t.antiAffinity,
                volumes |-> t.volumes, mounts |-> t.mounts]
    BY TemplateParts
  <1>2. NewStatefulSet(d, r, b) =
            AddStatefulSetChanges([selector |-> RackLabels(d, r), serviceName |-> d.cluster,
                claims |-> VolumeClaimTemplates(d),
                claimLabels |-> Merge(RackLabels(d, r), ManagedBy(b)), template |-> t])
    BY DEF NewStatefulSet
  <1> HIDE DEF t
  <1>3. NewStatefulSet(d, r, b) =
            AddStatefulSetChanges([selector |-> RackLabels(d, r), serviceName |-> d.cluster,
                claims |-> VolumeClaimTemplates(d),
                claimLabels |-> Merge(RackLabels(d, r), ManagedBy(b)),
                template |-> [labels |-> t.labels, nodes |-> t.nodes,
                              antiAffinity |-> t.antiAffinity,
                              volumes |-> t.volumes, mounts |-> t.mounts]])
    BY <1>1, <1>2, Zenon
  <1>4. LET s == NewStatefulSet(d, r, b)
        IN  /\ s.selector = RackLabels(d, r)
            /\ s.serviceName = d.cluster
            /\ s.claims = VolumeClaimTemplates(d)
            /\ s.claimLabels = AddPSPLabels(Merge(RackLabels(d, r), ManagedBy(b)))
            /\ s.template.labels = AddPSPLabels(t.labels)
            /\ s.template.nodes = t.nodes
            /\ s.template.antiAffinity = t.antiAffinity
            /\ s.template.volumes = t.volumes
            /\ s.template.mounts = t.mounts
    BY <1>3, ChangesParts
  <1> QED
    BY <1>1, <1>4 DEF t

-----------------------------------------------------------------------------
(* Merging keeps what the first map alone has, and takes the rest from the  *)
(* second.                                                                  *)
LEMMA MergeFacts ==
    ASSUME NEW f, NEW g
    PROVE  /\ DOMAIN Merge(f, g) = DOMAIN f \cup DOMAIN g
           /\ \A k \in DOMAIN g : Merge(f, g)[k] = g[k]
           /\ \A k \in DOMAIN f \ DOMAIN g : Merge(f, g)[k] = f[k]
  BY DEF Merge

(* The labels that PSP adds change none of the operator's.                  *)
LEMMA PSPFacts ==
    ASSUME NEW f
    PROVE  /\ DOMAIN f \subseteq DOMAIN AddPSPLabels(f)
           /\ \A k \in DOMAIN f \ {"extension-id", "instance-id"} : AddPSPLabels(f)[k] = f[k]
  <1> DEFINE g == All({"extension-id", "instance-id"}, <<"psp", 0>>)
  <1>1. DOMAIN g = {"extension-id", "instance-id"}
    BY DEF All
  <1>2. CASE PSP
    BY <1>1, <1>2, MergeFacts, ZenonT(60) DEF AddPSPLabels
  <1>3. CASE ~PSP
    BY <1>3 DEF AddPSPLabels
  <1> QED
    BY <1>2, <1>3

(* The label on claims tells which version of the operator made them.       *)
LEMMA DefunctKept ==
    ASSUME NEW d, NEW r, NEW b \in BOOLEAN
    PROVE  UsesDefunctPvcManagedByLabel(NewStatefulSet(d, r, b)) = b
  <1> DEFINE l == Merge(RackLabels(d, r), ManagedBy(b))
  <1>1. /\ DOMAIN ManagedBy(b) = {"managed-by"}
        /\ ManagedBy(b)["managed-by"] =
               <<IF b THEN "cassandra-operator" ELSE "cass-operator", 0>>
    BY DEF ManagedBy, All
  <1>2. "managed-by" \in DOMAIN l /\ l["managed-by"] = ManagedBy(b)["managed-by"]
    <2>1. /\ DOMAIN l = DOMAIN RackLabels(d, r) \cup DOMAIN ManagedBy(b)
          /\ \A k \in DOMAIN ManagedBy(b) : l[k] = ManagedBy(b)[k]
      BY MergeFacts, ZenonT(60)
    <2> QED
      BY <1>1, <2>1, Zenon
  <1> HIDE DEF l
  <1>3. AddPSPLabels(l)["managed-by"] = l["managed-by"]
    BY <1>2, PSPFacts
  <1>4. NewStatefulSet(d, r, b).claimLabels["managed-by"] =
            <<IF b THEN "cassandra-operator" ELSE "cass-operator", 0>>
    BY <1>1, <1>2, <1>3, StatefulSetParts DEF l
  <1> QED
    BY <1>4 DEF UsesDefunctPvcManagedByLabel

(* What the API server protects depends only on what the webhook protects.  *)
LEMMA ImmutableProtected ==
    ASSUME NEW d, NEW e, NEW r, NEW b, ValidateDatacenterFieldChanges(d, e)
    PROVE  Accepts(NewStatefulSet(d, r, b), NewStatefulSet(e, r, b))
  <1>1. RackLabels(d, r) = RackLabels(e, r) /\ VolumeClaimTemplates(d) = VolumeClaimTemplates(e)
        /\ d.cluster = e.cluster
    BY DEF ValidateDatacenterFieldChanges, RackLabels, VolumeClaimTemplates
  <1>2. /\ NewStatefulSet(d, r, b).selector = NewStatefulSet(e, r, b).selector
        /\ NewStatefulSet(d, r, b).serviceName = NewStatefulSet(e, r, b).serviceName
        /\ NewStatefulSet(d, r, b).claims = NewStatefulSet(e, r, b).claims
        /\ NewStatefulSet(d, r, b).claimLabels = NewStatefulSet(e, r, b).claimLabels
    BY <1>1, StatefulSetParts
  <1> QED
    BY <1>2 DEF Accepts, Immutable

-----------------------------------------------------------------------------
LEMMA InitBuilt == BuildInit => BuildInv
  <1> SUFFICES ASSUME BuildInit PROVE BuildInv
    OBVIOUS
  <1>1. MountsOwn(dc)
    BY DEF BuildInit, MountsOwn
  <1>2. Earlier(dc)
    BY <1>1 DEF Earlier, ValidateDatacenterFieldChanges
  <1>3. CASE sts = <<>>
    BY <1>1, <1>3 DEF BuildInv, Built
  <1>4. CASE sts = [r \in 1..racks |-> NewStatefulSet(dc, r, TRUE)]
    BY <1>1, <1>2, <1>4 DEF BuildInv, Built, From
  <1>5. sts \in {<<>>, [r \in 1..racks |-> NewStatefulSet(dc, r, TRUE)]}
    BY DEF BuildInit
  <1> QED
    BY <1>3, <1>4, <1>5

LEMMA StepBuilt == BuildInv /\ [BuildNext]_allVars => BuildInv'
  <1> SUFFICES ASSUME BuildInv, [BuildNext]_allVars PROVE BuildInv'
    OBVIOUS
  <1>0. MountsOwn(dc) /\ Built
    BY DEF BuildInv
  <1>1. CASE EditSpec
    <2>1. MountsOwn(dc') /\ ValidateDatacenterFieldChanges(dc, dc') /\ sts' = sts
      BY <1>1 DEF EditSpec
    <2>2. ASSUME NEW d, Earlier(d) PROVE Earlier(d)'
      BY <2>1, <2>2 DEF Earlier, ValidateDatacenterFieldChanges
    <2>3. Built'
      BY <1>0, <2>1, <2>2 DEF Built
    <2> QED
      BY <2>1, <2>3 DEF BuildInv
  <1>2. CASE EditRacks \/ EditForceUpgradeRacks
    BY <1>0, <1>2 DEF EditRacks, EditForceUpgradeRacks, BuildInv, Built, Earlier
  <1>3. ASSUME NEW r \in 1..racks, CheckRackCreation(r) PROVE BuildInv'
    <2>1. /\ dc' = dc /\ DOMAIN sts' = DOMAIN sts \cup {r}
          /\ \A q \in DOMAIN sts' :
                sts'[q] = IF q = r THEN NewStatefulSet(dc, r, FALSE) ELSE sts[q]
      BY <1>3 DEF CheckRackCreation
    <2>2. Earlier(dc) /\ From(NewStatefulSet(dc, r, FALSE), r, dc)
      BY <1>0 DEF Earlier, ValidateDatacenterFieldChanges, From
    <2>3. \A q \in DOMAIN sts' : \E d : From(sts'[q], q, d) /\ Earlier(d)
      BY <1>0, <2>1, <2>2 DEF Built
    <2> QED
      BY <1>0, <2>1, <2>3 DEF BuildInv, Built, Earlier
  <1>4. ASSUME NEW r \in 1..racks, CheckRackPodTemplate(r) PROVE BuildInv'
    <2>1. /\ dc' = dc /\ DOMAIN sts' = DOMAIN sts
          /\ \A q \in DOMAIN sts : sts'[q] = sts[q] \/ (q = r /\ sts'[q] = DesiredStatefulSet(r))
      BY <1>4 DEF CheckRackPodTemplate
    <2>2. Earlier(dc) /\ From(DesiredStatefulSet(r), r, dc)
      BY <1>0 DEF Earlier, ValidateDatacenterFieldChanges, From, DesiredStatefulSet,
                  UsesDefunctPvcManagedByLabel
    <2>3. \A q \in DOMAIN sts' : \E d : From(sts'[q], q, d) /\ Earlier(d)
      BY <1>0, <2>1, <2>2 DEF Built
    <2> QED
      BY <1>0, <2>1, <2>3 DEF BuildInv, Built, Earlier
  <1>5. CASE CheckRackForceUpgrade
    <2>1. /\ dc' = dc /\ DOMAIN sts' = DOMAIN sts
          /\ \A q \in DOMAIN sts : sts'[q] = sts[q] \/ sts'[q] = ForcedStatefulSet(q)
      BY <1>5 DEF CheckRackForceUpgrade
    <2>2. Earlier(dc) /\ \A q : From(ForcedStatefulSet(q), q, dc)
      BY <1>0 DEF Earlier, ValidateDatacenterFieldChanges, From, ForcedStatefulSet
    <2>3. \A q \in DOMAIN sts' : \E d : From(sts'[q], q, d) /\ Earlier(d)
      BY <1>0, <2>1, <2>2 DEF Built
    <2> QED
      BY <1>0, <2>1, <2>3 DEF BuildInv, Built, Earlier
  <1>6. CASE UNCHANGED allVars
    BY <1>0, <1>6 DEF allVars, BuildInv, Built, Earlier
  <1> QED
    BY <1>1, <1>2, <1>3, <1>4, <1>5, <1>6 DEF BuildNext, Pass

(* Every StatefulSet comes from a spec that agrees with the present one in  *)
(* what the webhook protects, through edits, creations and updates.         *)
THEOREM BuiltFromSpec == BuildSpec => []BuildInv
  BY InitBuilt, StepBuilt, PTL DEF BuildSpec

(* The operator never asks the API server for an update that it refuses,    *)
(* but a forced one where the claims have the defunct label.                *)
THEOREM UpdatesNeverRefused == BuildSpec => []UpdatesAccepted
  <1>1. BuildInv => UpdatesAccepted
    <2> SUFFICES ASSUME BuildInv, NEW r \in DOMAIN sts
                 PROVE  /\ Accepts(sts[r], DesiredStatefulSet(r))
                        /\ ~UsesDefunctPvcManagedByLabel(sts[r]) =>
                               Accepts(sts[r], ForcedStatefulSet(r))
      BY DEF UpdatesAccepted
    <2>1. PICK d : From(sts[r], r, d) /\ Earlier(d)
      BY DEF BuildInv, Built
    <2>2. PICK b \in BOOLEAN : sts[r] = NewStatefulSet(d, r, b)
      BY <2>1 DEF From
    <2>3. DesiredStatefulSet(r) = NewStatefulSet(dc, r, b)
      BY <2>2, DefunctKept DEF DesiredStatefulSet
    <2>4. ~UsesDefunctPvcManagedByLabel(sts[r]) => ForcedStatefulSet(r) = NewStatefulSet(dc, r, b)
      BY <2>2, DefunctKept DEF ForcedStatefulSet
    <2>5. Accepts(sts[r], NewStatefulSet(dc, r, b))
      BY <2>1, <2>2, ImmutableProtected DEF Earlier
    <2> QED
      BY <2>3, <2>4, <2>5
  <1> QED
    BY <1>1, BuiltFromSpec, PTL

-----------------------------------------------------------------------------
(* Whatever a container may mount is a volume or a claim.                   *)
LEMMA MountedThere ==
    ASSUME NEW d, MountsOwn(d)
    PROVE  DefaultVolumes \cup {PvcName} \cup d.mounts \cup d.storage
               \subseteq AddVolumes(d) \cup VolumeClaimTemplates(d)
  BY DEF MountsOwn, AddVolumes, VolumeClaimTemplates

LEMMA TemplateMounts ==
    ASSUME NEW d, NEW r, MountsOwn(d)
    PROVE  LET t == AddManagementApiServerSecurity(d, BuildPodTemplateSpec(d, r))
           IN  \A c \in DOMAIN t.mounts :
                   t.mounts[c] \subseteq t.volumes \cup VolumeClaimTemplates(d)
  <1> DEFINE there == AddVolumes(d) \cup VolumeClaimTemplates(d)
             fi == BuildInitContainers(d)
             fc == BuildContainers(d)
             m  == Merge(fi, fc)
  <1>0. DefaultVolumes \cup {PvcName} \cup d.mounts \cup d.storage \subseteq there
    BY MountedThere
  <1>1. \A c : UserMounts(d, c) \subseteq there
    BY <1>0 DEF UserMounts
  <1>2. "server-config" \in there /\ "server-logs" \in there
    BY <1>0 DEF DefaultVolumes
  <1> HIDE DEF there
  <1>3. \A c \in DOMAIN fi : fi[c] \subseteq there
    BY <1>1, <1>2 DEF BuildInitContainers, All
  <1>4. /\ "cassandra" \in DOMAIN fc
        /\ \A c \in DOMAIN fc : fc[c] \subseteq there
    <2> DEFINE f == All({"cassandra"},
                        DefaultVolumes \cup {PvcName} \cup UserMounts(d, "cassandra")
                            \cup d.storage)
               g == All({c \in {"server-system-logger"} : d.sidecar \/ c \in d.containers},
                        {"server-logs"} \cup UserMounts(d, "server-system-logger")
                            \cup d.storage)
    <2>1. DOMAIN f = {"cassandra"} /\ \A c \in DOMAIN f : f[c] \subseteq there
      BY <1>0, <1>1 DEF All
    <2>2. \A c \in DOMAIN g : g[c] \subseteq there
      BY <1>0, <1>1, <1>2 DEF All
    <2>3. fc = Merge(f, g)
      BY DEF BuildContainers
    <2> HIDE DEF f, g
    <2> QED
      BY <2>1, <2>2, <2>3 DEF Merge
  <1> HIDE DEF fi, fc
  <1>5. "cassandra" \in DOMAIN m /\ \A c \in DOMAIN m : m[c] \subseteq there
    BY <1>3, <1>4 DEF Merge
  <1> DEFINE b == BuildPodTemplateSpec(d, r)
  <1>6. b.mounts = m /\ b.volumes = AddVolumes(d)
    BY DEF BuildPodTemplateSpec, fi, fc
  <1>7. CASE ~d.manualAuth
    BY <1>5, <1>6, <1>7 DEF AddManagementApiServerSecurity, there
  <1>8. CASE d.manualAuth
    <2> DEFINE t  == AddManagementApiServerSecurity(d, b)
               mc == Merge(m, All({"cassandra"}, m["cassandra"] \cup {CertsVolume}))
    <2>1. t.volumes = AddVolumes(d) \cup {CertsVolume} /\ t.mounts = mc
      BY <1>6, <1>8 DEF AddManagementApiServerSecurity, BuildPodTemplateSpec
    <2>2. \A c \in DOMAIN mc : mc[c] \subseteq there \cup {CertsVolume}
      BY <1>5 DEF Merge, All
    <2> HIDE DEF t, mc, b
    <2>3. \A c \in DOMAIN t.mounts : t.mounts[c] \subseteq t.volumes \cup VolumeClaimTemplates(d)
      BY <2>1, <2>2 DEF there
    <2> QED
      BY <2>3 DEF t, b
  <1> QED
    BY <1>7, <1>8

(* The containers of every StatefulSet mount only what is there, whatever   *)
(* names the user gives volumes, mounts and claims.                         *)
THEOREM MountsAlwaysResolve == BuildSpec => []MountsResolve
  <1>1. BuildInv => MountsResolve
    <2> SUFFICES ASSUME BuildInv, NEW r \in DOMAIN sts
                 PROVE  \A c \in DOMAIN sts[r].template.mounts :
                            sts[r].template.mounts[c]
                                \subseteq sts[r].template.volumes \cup sts[r].claims
      BY DEF MountsResolve
    <2>1. PICK d : From(sts[r], r, d) /\ MountsOwn(d)
      BY DEF BuildInv, Built, Earlier
    <2>2. PICK b \in BOOLEAN : sts[r] = NewStatefulSet(d, r, b)
      BY <2>1 DEF From
    <2> DEFINE t == AddManagementApiServerSecurity(d, BuildPodTemplateSpec(d, r))
    <2>3. /\ sts[r].template.mounts = t.mounts /\ sts[r].template.volumes = t.volumes
          /\ sts[r].claims = VolumeClaimTemplates(d)
      BY <2>2, StatefulSetParts
    <2>4. \A c \in DOMAIN t.mounts : t.mounts[c] \subseteq t.volumes \cup VolumeClaimTemplates(d)
      BY <2>1, TemplateMounts
    <2> HIDE DEF t
    <2> QED
      BY <2>3, <2>4
  <1> QED
    BY <1>1, BuiltFromSpec, PTL

-----------------------------------------------------------------------------
(* The labels of the operator on the pods, whatever those of the user.      *)
LEMMA LabelsOfPods ==
    ASSUME NEW d, NEW r, NEW b
    PROVE  LET l == NewStatefulSet(d, r, b).template.labels
           IN  /\ {"cluster", "datacenter", "rack"} \subseteq DOMAIN l
               /\ l["cluster"] = <<d.cluster, 0>>
               /\ l["datacenter"] = <<"dc", 0>>
               /\ l["rack"] = <<"rack", r>>
  <1> DEFINE f == RackLabels(d, r)
             g == Merge(f, ManagedBy(FALSE))
             p == PodLabels(d, r)
             u == All(d.labels, <<"user", 0>>)
             keys == {"cluster", "datacenter", "rack"}
  <1>1. /\ DOMAIN f = keys /\ f["cluster"] = <<d.cluster, 0>>
        /\ f["datacenter"] = <<"dc", 0>> /\ f["rack"] = <<"rack", r>>
    BY DEF RackLabels
  <1>2. DOMAIN ManagedBy(FALSE) = {"managed-by"}
    BY DEF ManagedBy, All
  <1> HIDE DEF f
  <1>3. keys \subseteq DOMAIN g /\ \A k \in keys : g[k] = f[k]
    BY <1>1, <1>2 DEF Merge
  <1>4. p = Merge(u, g)
    BY DEF PodLabels, f
  <1> HIDE DEF g, u, p
  <1>5. keys \subseteq DOMAIN p /\ \A k \in keys : p[k] = f[k]
    BY <1>3, <1>4 DEF Merge
  <1>6. keys \subseteq DOMAIN AddPSPLabels(p) /\ \A k \in keys : AddPSPLabels(p)[k] = f[k]
    BY <1>5, PSPFacts
  <1>7. NewStatefulSet(d, r, b).template.labels = AddPSPLabels(p)
    BY StatefulSetParts DEF p
  <1> QED
    BY <1>1, <1>6, <1>7

(* No two server pods share a worker while the spec forbids it.             *)
THEOREM PodsStaySpread == BuildSpec => []PodsSpread
  <1>1. BuildInv => PodsSpread
    <2> SUFFICES ASSUME BuildInv, ~dc.multiple, NEW r \in DOMAIN sts, NEW q \in DOMAIN sts
                 PROVE  /\ sts[r].template.antiAffinity # {}
                        /\ sts[r].template.antiAffinity \subseteq DOMAIN sts[q].template.labels
      BY DEF PodsSpread
    <2>1. PICK d, b : sts[r] = NewStatefulSet(d, r, b) /\ Earlier(d)
      BY DEF BuildInv, Built, From
    <2>2. PICK e, c : sts[q] = NewStatefulSet(e, q, c)
      BY DEF BuildInv, Built, From
    <2>3. sts[r].template.antiAffinity = {"cluster", "datacenter", "rack"}
      BY <2>1, StatefulSetParts
         DEF PodAntiAffinity, Earlier, ValidateDatacenterFieldChanges
    <2>4. {"cluster", "datacenter", "rack"} \subseteq DOMAIN sts[q].template.labels
      BY <2>2, LabelsOfPods
    <2> QED
      BY <2>3, <2>4
  <1> QED
    BY <1>1, BuiltFromSpec, PTL

(* A rack with a zone is pinned to it, whatever the user's node labels.     *)
THEOREM RacksKeepTheirZone == BuildSpec => []RackStaysInZone
  <1>1. BuildInv => RackStaysInZone
    <2> SUFFICES ASSUME BuildInv, NEW r \in DOMAIN sts \cap ZonedRacks
                 PROVE  sts[r].template.nodes["zone"] = <<"zone", r>>
      BY DEF RackStaysInZone
    <2>1. PICK d, b : sts[r] = NewStatefulSet(d, r, b)
      BY DEF BuildInv, Built, From
    <2> DEFINE f == Merge(All(d.rackPinned, <<"rack", r>>), All(d.pinned, <<"dc", 0>>))
               g == All({"zone"}, <<"zone", r>>)
    <2>2. RackNodeAffinityLabels(d, r) = Merge(f, g)
      BY DEF RackNodeAffinityLabels
    <2>3. DOMAIN g = {"zone"} /\ g["zone"] = <<"zone", r>>
      BY DEF All
    <2> HIDE DEF f, g
    <2>4. Merge(f, g)["zone"] = <<"zone", r>>
      BY <2>3 DEF Merge
    <2> QED
      BY <2>1, <2>2, <2>4, StatefulSetParts
  <1> QED
    BY <1>1, BuiltFromSpec, PTL

-----------------------------------------------------------------------------
LEMMA RackLabelParts ==
    ASSUME NEW d, NEW r
    PROVE  /\ DOMAIN RackLabels(d, r) = {"cluster", "datacenter", "rack"}
           /\ RackLabels(d, r)["cluster"] = <<d.cluster, 0>>
           /\ RackLabels(d, r)["datacenter"] = <<"dc", 0>>
           /\ RackLabels(d, r)["rack"] = <<"rack", r>>
  BY DEF RackLabels

LEMMA LabelsOfClaims ==
    ASSUME NEW d, NEW r, NEW b
    PROVE  LET l == NewStatefulSet(d, r, b).claimLabels
           IN  "datacenter" \in DOMAIN l /\ l["datacenter"] = <<"dc", 0>>
  <1> DEFINE f == RackLabels(d, r)
             g == Merge(f, ManagedBy(b))
  <1>1. "datacenter" \in DOMAIN f /\ f["datacenter"] = <<"dc", 0>>
    BY RackLabelParts
  <1>2. DOMAIN ManagedBy(b) = {"managed-by"}
    BY DEF ManagedBy, All
  <1> HIDE DEF f
  <1>3. "datacenter" \in DOMAIN g /\ g["datacenter"] = <<"dc", 0>>
    BY <1>1, <1>2 DEF Merge
  <1> HIDE DEF g
  <1>4. "datacenter" \in DOMAIN AddPSPLabels(g) /\ AddPSPLabels(g)["datacenter"] = <<"dc", 0>>
    BY <1>3, PSPFacts
  <1> QED
    BY <1>4, StatefulSetParts DEF f, g

(* Selectors find the pods and claims they are for and, of StatefulSets,    *)
(* those of one rack only, whatever labels the user's template sets.        *)
THEOREM SelectorsAlwaysMatch == BuildSpec => []SelectorsMatch
  <1>1. BuildInv => SelectorsMatch
    <2> SUFFICES ASSUME BuildInv, NEW r \in DOMAIN sts, NEW q \in DOMAIN sts
                 PROVE  /\ Matches(sts[q].selector, sts[r].template.labels) <=> q = r
                        /\ Matches([k \in {"datacenter"} |-> <<"dc", 0>>], sts[r].claimLabels)
                        /\ Matches([k \in {"cluster", "datacenter"} |-> RackLabels(dc, r)[k]],
                                   sts[r].template.labels)
      BY DEF SelectorsMatch
    <2>1. PICK d, b : sts[r] = NewStatefulSet(d, r, b) /\ Earlier(d)
      BY DEF BuildInv, Built, From
    <2>2. PICK e, c : sts[q] = NewStatefulSet(e, q, c) /\ Earlier(e)
      BY DEF BuildInv, Built, From
    <2>3. d.cluster = dc.cluster /\ e.cluster = dc.cluster
      BY <2>1, <2>2 DEF Earlier, ValidateDatacenterFieldChanges
    <2> DEFINE l == sts[r].template.labels
               s == sts[q].selector
    <2>4. /\ {"cluster", "datacenter", "rack"} \subseteq DOMAIN l
          /\ l["cluster"] = <<dc.cluster, 0>> /\ l["datacenter"] = <<"dc", 0>>
          /\ l["rack"] = <<"rack", r>>
      BY <2>1, <2>3, LabelsOfPods
    <2>5. /\ DOMAIN s = {"cluster", "datacenter", "rack"}
          /\ s["cluster"] = <<dc.cluster, 0>> /\ s["datacenter"] = <<"dc", 0>>
          /\ s["rack"] = <<"rack", q>>
      BY <2>2, <2>3, StatefulSetParts, RackLabelParts
    <2>6. Matches([k \in {"datacenter"} |-> <<"dc", 0>>], sts[r].claimLabels)
      BY <2>1, LabelsOfClaims DEF Matches
    <2>7. /\ RackLabels(dc, r)["cluster"] = <<dc.cluster, 0>>
          /\ RackLabels(dc, r)["datacenter"] = <<"dc", 0>>
      BY RackLabelParts
    <2> HIDE DEF l, s
    <2>8. Matches([k \in {"cluster", "datacenter"} |-> RackLabels(dc, r)[k]], l)
      BY <2>4, <2>7 DEF Matches
    <2>9. Matches(s, l) <=> q = r
      BY <2>4, <2>5 DEF Matches
    <2> QED
      BY <2>6, <2>8, <2>9 DEF l, s
  <1> QED
    BY <1>1, BuiltFromSpec, PTL
=============================================================================
