------------------------- MODULE RackScaling_proofs -------------------------
(***************************************************************************)
(* Theorems about RackScaling, for any number of racks, nodes, edits and   *)
(* passes cut short.                                                       *)
(*                                                                         *)
(* None of the properties is inductive alone: each needs to know how the   *)
(* copies a pass works on relate to the resource, the StatefulSets and the *)
(* pods, which the user and the pods change under it.  Inv collects what a *)
(* running pass may rely on, step by step.                                 *)
(***************************************************************************)
EXTENDS RackScaling, SequenceTheorems, WellFoundedInduction, TLAPS

(* A step that names no prover is checked by Zenon.                         *)
USE Zenon

(* What SplitRacks gives rack i, and that it is at most all the nodes.      *)
LEMMA SplitValue ==
    ASSUME NEW n \in Nat, NEW r \in Nat \ {0}, NEW i \in 1..r
    PROVE  /\ SplitRacks(n, r)[i] = (n \div r) + (IF i <= n % r THEN 1 ELSE 0)
           /\ SplitRacks(n, r)[i] \in Nat /\ SplitRacks(n, r)[i] \in 0..n
  <1> DEFINE q == n \div r  e == n % r
  <1>1. q \in Nat /\ e \in 0..(r - 1) /\ n = r * q + e
    BY SMT
  <1>2. SplitRacks(n, r)[i] = q + (IF i <= e THEN 1 ELSE 0)
    BY DEF SplitRacks
  <1>3. SplitRacks(n, r)[i] \in Nat /\ SplitRacks(n, r)[i] \in 0..n
    <2> HIDE DEF q, e
    <2>1. r * q = (r - 1) * q + q /\ (r - 1) * q \in Nat
      BY <1>1, SMT
    <2> QED BY <1>1, <1>2, <2>1, SMT
  <1> QED BY <1>2, <1>3

-----------------------------------------------------------------------------
(* The steps of a pass up to CheckDecommissioningNodes.                     *)
EarlySteps == {"updateStatus", "rackCreation", "decommissioning"}

(* The steps after it.                                                      *)
LaterSteps == Steps \ (EarlySteps \cup {"idle"})

(* Between passes there is no context.                                      *)
IdleContext ==
    /\ pc = "idle" => rcSts = <<>> /\ idx = 1
    /\ pc \in EarlySteps \cup {"idle"} => ~touched

(* Racks are numbered within the spec, and a pass works on those that the   *)
(* spec had when it began.                                                  *)
RacksInSpec ==
    /\ Len(sts) <= dc.racks
    /\ pc # "idle" =>
          /\ Len(desired) \in 1..MaxRacks /\ Len(desired) <= dc.racks
          /\ Len(sts) <= Len(desired)
          /\ idx <= Len(desired)

(* What the pass has read of the StatefulSets is still what they are.       *)
StatefulSetsRead ==
    pc # "idle" =>
        /\ \A r \in 1..Len(rcSts) : r <= Len(sts) /\ rcSts[r] = sts[r]
        /\ pc = "updateStatus" => Len(rcSts) = 0 /\ idx = 1
        /\ pc = "rackCreation" => Len(rcSts) = idx - 1
        /\ pc \notin {"updateStatus", "rackCreation"} =>
              Len(rcSts) = Len(desired)

(* Only the pass writes conditions, and it started from a valid datacenter. *)
ConditionsCurrent ==
    pc # "idle" => rcDc.conds = dc.conds /\ dc.conds["Valid"] # "False"

(* The pod that the pass saw labelled is still there, or was terminated     *)
(* because its replica is gone; past CheckDecommissioningNodes no pod is.   *)
LabelledPod ==
    /\ pc # "idle" /\ rcDecomm = None => decomm = None
    /\ pc \in EarlySteps /\ rcDecomm # None =>
          \/ /\ decomm.rack = rcDecomm.rack /\ decomm.ord = rcDecomm.ord
             /\ "noEndpoints" \in Reads \/ decomm.phase \in {rcDecomm.phase, "left"}
          \/ decomm = None /\ (rcDecomm.rack \in 1..Len(sts) =>
                                  rcDecomm.ord >= sts[rcDecomm.rack])
    /\ pc # "idle" /\ pc \notin EarlySteps => decomm = None

(* What was decided just before a StatefulSet or a pod is written.          *)
Decided ==
    /\ pc = "decommissionOnRack" => dc.conds["ScalingDown"] = "True"
    /\ pc = "stopRack" \/ (pc = "stoppedState" /\ touched) =>
          dc.conds["Stopped"] = "True" /\ dc.conds["Ready"] = "False"
    /\ pc = "scaleRack" => rcSts[idx] < desired[idx]

Inv ==
    /\ TypeOK
    /\ DecommissioningIsTracked
    /\ InvalidMeansUntouched
    /\ RacksInSpec
    /\ StatefulSetsRead
    /\ ConditionsCurrent
    /\ LabelledPod
    /\ Decided
    /\ IdleContext

-----------------------------------------------------------------------------
(* What the writes to the resource leave of it.                             *)

Conditions == [ConditionTypes -> ConditionStatus]

(* Changing the conditions of the resource changes nothing else.            *)
LEMMA NewConditions ==
    ASSUME NEW d \in Datacenter, NEW c \in Conditions
    PROVE  /\ [d EXCEPT !.conds = c] \in Datacenter
           /\ [d EXCEPT !.conds = c].conds = c
           /\ [d EXCEPT !.conds = c].racks = d.racks
  BY DEF Datacenter, Conditions

(* Nor does changing its progress.                                          *)
LEMMA NewProgress ==
    ASSUME NEW d \in Datacenter, NEW p \in {"Ready", "Updating"},
           NEW g \in 0..MaxGeneration
    PROVE  /\ [d EXCEPT !.progress = p] \in Datacenter
           /\ [d EXCEPT !.progress = p].conds = d.conds
           /\ [d EXCEPT !.progress = p].racks = d.racks
           /\ [d EXCEPT !.progress = p, !.observed = g] \in Datacenter
           /\ [d EXCEPT !.progress = p, !.observed = g].conds = d.conds
           /\ [d EXCEPT !.progress = p, !.observed = g].racks = d.racks
  BY DEF Datacenter

(* The fields of the resource that the proofs look at.                      *)
LEMMA DatacenterFields ==
    ASSUME NEW d \in Datacenter
    PROVE  /\ d.conds \in Conditions
           /\ d.size \in 1..MaxSize /\ d.racks \in 1..MaxRacks
           /\ d.gen \in 0..MaxGeneration /\ d.stopped \in BOOLEAN
  BY DEF Datacenter, Conditions

(* A status patch leaves the pass with the conditions it wrote.             *)
LEMMA PatchConditionsEffect ==
    ASSUME Inv, pc # "idle", NEW c \in Conditions, PatchConditions(c)
    PROVE  /\ dc' \in Datacenter /\ rcDc' \in Datacenter
           /\ dc'.conds = c /\ rcDc'.conds = c
           /\ dc'.racks = dc.racks
  <1>1. /\ dc \in Datacenter /\ rcDc \in Datacenter /\ rcDc.conds = dc.conds
    BY DEF Inv, TypeOK, ConditionsCurrent
  <1>2. CASE c = rcDc.conds
    BY <1>1, <1>2 DEF PatchConditions
  <1>3. CASE c # rcDc.conds
    <2>1. dc' = [dc EXCEPT !.conds = c] /\ rcDc' = dc'
      BY <1>3 DEF PatchConditions
    <2> QED BY <1>1, <2>1, NewConditions
  <1> QED BY <1>2, <1>3

(* The pod that is told to leave, and the pod whose node has left.          *)
LEMMA PodFields ==
    ASSUME NEW p \in Pod
    PROVE  /\ p.rack \in 0..MaxRacks /\ p.ord \in 0..MaxSize
           /\ [p EXCEPT !.phase = "left"] \in Pod
           /\ [p EXCEPT !.phase = "left"].rack = p.rack
           /\ [p EXCEPT !.phase = "left"].ord = p.ord
           /\ [p EXCEPT !.phase = "left"].phase = "left"
  BY DEF Pod

(* No pod is a pod record too.                                              *)
LEMMA NoneIsPod == None \in Pod /\ None.phase = "none" /\ None.rack = 0
  BY BoundsAssumption, SMT DEF Pod, None

(* A function on 1..n is a sequence.                                        *)
LEMMA FunctionIsSeq ==
    ASSUME NEW n \in Nat, NEW S, NEW f \in [1..n -> S]
    PROVE  f \in Seq(S) /\ Len(f) = n
  BY SMT

(* A pass that ends keeps the invariant if what it wrote last is in order.  *)
LEMMA EndPassKeepsInv ==
    ASSUME Inv, EndPass,
           dc' \in Datacenter, rcDc' \in Datacenter, dc'.racks = dc.racks,
           sts' \in Seq(0..MaxSize), up' \in Seq(0..MaxSize),
           Len(sts') = Len(sts), Len(up') = Len(up),
           decomm' \in Pod, aborts' \in 0..MaxAborts,
           DecommissioningIsTracked', InvalidMeansUntouched'
    PROVE  Inv'
  <1>1. TypeOK'
    <2>1. /\ pc' = "idle" /\ idx' = 1 /\ touched' = FALSE
          /\ desired' = <<>> /\ rcSts' = <<>> /\ rcUp' = <<>>
          /\ rcDecomm' \in Pod
      BY NoneIsPod DEF EndPass
    <2>2. idx' \in 1..MaxRacks /\ pc' \in Steps
      BY <2>1, BoundsAssumption, SMT DEF Steps
    <2>3. <<>> \in Seq(0..MaxSize)
      BY SMT
    <2> QED BY <2>1, <2>2, <2>3 DEF Inv, TypeOK
  <1>2. RacksInSpec' /\ StatefulSetsRead' /\ ConditionsCurrent'
    BY DEF Inv, RacksInSpec, StatefulSetsRead, ConditionsCurrent, EndPass
  <1>3. LabelledPod' /\ Decided' /\ IdleContext'
    BY DEF LabelledPod, EarlySteps, Decided, IdleContext, EndPass
  <1> QED BY <1>1, <1>2, <1>3 DEF Inv

(* So does a step of a pass, past CheckDecommissioningNodes, that writes no *)
(* more than conditions.                                                    *)
LEMMA PatchAndGotoKeepsInv ==
    ASSUME Inv, pc \notin {"idle", "updateStatus", "rackCreation"},
           NEW c \in Conditions, c["Valid"] # "False", PatchConditions(c),
           NEW step \in LaterSteps, Goto(step),
           decomm = None, UNCHANGED <<sts, up, decomm, aborts>>, Decided'
    PROVE  Inv'
  <1> USE DEF LaterSteps
  <1>1. /\ dc' \in Datacenter /\ rcDc' \in Datacenter
        /\ dc'.conds = c /\ rcDc'.conds = c /\ dc'.racks = dc.racks
    BY PatchConditionsEffect
  <1>2. TypeOK'
    BY <1>1 DEF Inv, TypeOK, Goto
  <1>3. DecommissioningIsTracked' /\ InvalidMeansUntouched'
    BY DEF DecommissioningIsTracked, InvalidMeansUntouched, None
  <1>4. RacksInSpec'
    BY <1>1 DEF Inv, RacksInSpec, Goto
  <1>5. StatefulSetsRead'
    BY DEF Inv, StatefulSetsRead, Goto, EarlySteps
  <1>6. ConditionsCurrent'
    BY <1>1 DEF ConditionsCurrent
  <1>7. LabelledPod' /\ IdleContext'
    BY DEF LabelledPod, IdleContext, Goto, EarlySteps, None
  <1> QED BY <1>2, <1>3, <1>4, <1>5, <1>6, <1>7 DEF Inv

(* So does a step of the loops over the racks.                              *)
LEMMA LoopStepKeepsInv ==
    ASSUME Inv, pc \in LaterSteps, pc' \in LaterSteps, idx' \in 1..Len(desired),
           touched' \in BOOLEAN,
           UNCHANGED <<dc, rcDc, up, decomm, aborts, desired, rcUp, rcDecomm>>,
           sts' \in Seq(0..MaxSize), Len(sts') = Len(sts),
           rcSts' \in Seq(0..MaxSize), Len(rcSts') = Len(rcSts),
           \A r \in 1..Len(rcSts) : rcSts'[r] = sts'[r],
           Decided'
    PROVE  Inv'
  <1>1. pc # "idle" /\ pc' # "idle" /\ pc \notin EarlySteps /\ pc' \notin EarlySteps
    BY DEF LaterSteps, EarlySteps
  <1>2. TypeOK'
    <2>1. idx' \in 1..MaxRacks
      BY <1>1, BoundsAssumption, SMT DEF Inv, RacksInSpec
    <2> QED BY <2>1 DEF Inv, TypeOK, LaterSteps
  <1>3. RacksInSpec'
    <2>1. idx' <= Len(desired)
      BY <1>1, BoundsAssumption, SMT DEF Inv, RacksInSpec
    <2> QED BY <1>1, <2>1 DEF Inv, RacksInSpec
  <1>4. StatefulSetsRead'
    BY <1>1 DEF Inv, StatefulSetsRead, EarlySteps
  <1>5. /\ DecommissioningIsTracked' /\ InvalidMeansUntouched'
        /\ ConditionsCurrent' /\ IdleContext'
    BY <1>1 DEF Inv, DecommissioningIsTracked, InvalidMeansUntouched,
       ConditionsCurrent, IdleContext
  <1>6. LabelledPod'
    BY <1>1 DEF Inv, LabelledPod
  <1> QED BY <1>2, <1>3, <1>4, <1>5, <1>6 DEF Inv

(* Past CheckRackCreation the StatefulSet of every rack has been read.      *)
LEMMA RackRead ==
    ASSUME Inv, pc \in LaterSteps \cup {"decommissioning"}
    PROVE  /\ Len(rcSts) = Len(desired) /\ Len(sts) = Len(desired)
           /\ Len(desired) \in 1..MaxRacks
           /\ idx \in 1..Len(sts)
           /\ \A r \in 1..Len(sts) :
                 rcSts[r] = sts[r] /\ sts[r] \in 0..MaxSize /\ desired[r] \in 0..MaxSize
  <1>1. pc \notin {"idle", "updateStatus", "rackCreation"}
    BY DEF LaterSteps, EarlySteps
  <1>2. /\ Len(rcSts) = Len(desired) /\ Len(desired) \in 1..MaxRacks
        /\ Len(sts) <= Len(desired) /\ idx <= Len(desired)
        /\ \A r \in 1..Len(rcSts) : r <= Len(sts) /\ rcSts[r] = sts[r]
    BY <1>1 DEF Inv, RacksInSpec, StatefulSetsRead
  <1>3. /\ sts \in Seq(0..MaxSize) /\ desired \in Seq(0..MaxSize)
        /\ Len(sts) \in Nat /\ idx \in 1..MaxRacks
    BY LenProperties DEF Inv, TypeOK
  <1>4. Len(desired) <= Len(sts)
    <2>1. Len(desired) \in 1..Len(rcSts)
      BY <1>2, BoundsAssumption, SMT
    <2> QED BY <1>2, <2>1
  <1>5. Len(sts) = Len(desired)
    BY <1>2, <1>3, <1>4, BoundsAssumption, SMT
  <1>6. idx \in 1..Len(sts)
    BY <1>2, <1>3, <1>5, BoundsAssumption, SMT
  <1>7. \A r \in 1..Len(sts) : sts[r] \in 0..MaxSize /\ desired[r] \in 0..MaxSize
    BY <1>3, <1>5, ElementOfSeq
  <1> QED BY <1>2, <1>5, <1>6, <1>7

(* Writing the StatefulSet of the rack the loop is at, and its copy.        *)
LEMMA RackWritten ==
    ASSUME Inv, pc \in LaterSteps, NEW n \in 0..MaxSize,
           sts' = [sts EXCEPT ![idx] = n]
    PROVE  /\ sts' \in Seq(0..MaxSize) /\ Len(sts') = Len(sts)
           /\ \A r \in 1..Len(sts) : sts'[r] = IF r = idx THEN n ELSE sts[r]
           /\ rcSts' = [rcSts EXCEPT ![idx] = n] =>
                 /\ rcSts' \in Seq(0..MaxSize) /\ Len(rcSts') = Len(rcSts)
                 /\ \A r \in 1..Len(rcSts) : rcSts'[r] = sts'[r]
  <1>1. /\ idx \in 1..Len(sts) /\ Len(rcSts) = Len(sts)
        /\ \A r \in 1..Len(sts) : rcSts[r] = sts[r]
    BY RackRead
  <1>2. sts \in Seq(0..MaxSize) /\ rcSts \in Seq(0..MaxSize)
    BY DEF Inv, TypeOK
  <1>3. /\ sts' \in Seq(0..MaxSize) /\ Len(sts') = Len(sts)
        /\ \A r \in 1..Len(sts) : sts'[r] = IF r = idx THEN n ELSE sts[r]
    BY <1>1, <1>2, ExceptSeq, SMT
  <1>4. ASSUME rcSts' = [rcSts EXCEPT ![idx] = n]
        PROVE  /\ rcSts' \in Seq(0..MaxSize) /\ Len(rcSts') = Len(rcSts)
               /\ \A r \in 1..Len(rcSts) : rcSts'[r] = IF r = idx THEN n ELSE rcSts[r]
    <2>1. idx \in 1..Len(rcSts)
      BY <1>1
    <2> QED BY <1>2, <1>4, <2>1, ExceptSeq, SMT
  <1> QED BY <1>1, <1>3, <1>4

-----------------------------------------------------------------------------
(* Every action keeps the invariant: first the environment, then the pass.  *)

(* An edit leaves racks, conditions and pods as they are.                   *)
LEMMA EditSpecKeepsInv == Inv /\ EditSpec => Inv'
  <1> SUFFICES ASSUME Inv, EditSpec PROVE Inv'
    OBVIOUS
  <1>1. dc \in Datacenter
    BY DEF Inv, TypeOK
  <1>2. PICK size \in 1..MaxSize, racks \in 1..MaxRacks, stopped \in BOOLEAN :
          /\ ValidTopologyChange(dc.size, dc.racks, size, racks)
          /\ dc' = [dc EXCEPT !.size = size, !.racks = racks,
                              !.stopped = stopped, !.gen = @ + 1]
    <2>1. PICK size \in (IF "size" \in Edits THEN 1..MaxSize ELSE {dc.size}),
               racks \in (IF "racks" \in Edits THEN 1..MaxRacks ELSE {dc.racks}),
               stopped \in (IF "stopped" \in Edits THEN BOOLEAN ELSE {dc.stopped}) :
            /\ ValidTopologyChange(dc.size, dc.racks, size, racks)
            /\ dc' = [dc EXCEPT !.size = size, !.racks = racks,
                                !.stopped = stopped, !.gen = @ + 1]
      BY DEF EditSpec
    <2>2. size \in 1..MaxSize /\ racks \in 1..MaxRacks /\ stopped \in BOOLEAN
      BY <1>1, DatacenterFields
    <2> QED BY <2>1, <2>2
  <1>3. racks >= dc.racks
    BY <1>1, <1>2, DatacenterFields, SMT DEF ValidTopologyChange
  <1>4. dc.gen + 1 \in 0..MaxGeneration
    BY <1>1, DatacenterFields, BoundsAssumption, SMT DEF EditSpec
  <1>5. dc' \in Datacenter /\ dc'.conds = dc.conds /\ dc'.racks = racks
    BY <1>1, <1>2, <1>4 DEF Datacenter
  <1>6. UNCHANGED <<sts, up, decomm, passVars, aborts>>
    BY DEF EditSpec
  <1>7. TypeOK'
    BY <1>5, <1>6 DEF Inv, TypeOK, passVars
  <1>8. RacksInSpec'
    <2>1. dc.racks \in 1..MaxRacks
      BY <1>1, DatacenterFields
    <2> QED BY <1>3, <1>5, <1>6, <2>1, SMT DEF Inv, TypeOK, RacksInSpec, passVars
  <1>9. /\ DecommissioningIsTracked' /\ InvalidMeansUntouched'
        /\ StatefulSetsRead' /\ ConditionsCurrent' /\ Decided' /\ IdleContext'
    BY <1>5, <1>6 DEF Inv, DecommissioningIsTracked, InvalidMeansUntouched,
       StatefulSetsRead, ConditionsCurrent, Decided, IdleContext, passVars
  <1>10. LabelledPod'
    BY <1>6 DEF Inv, LabelledPod, passVars
  <1> QED BY <1>7, <1>8, <1>9, <1>10 DEF Inv

(* A pod that comes up changes no label.                                    *)
LEMMA PodStartsKeepsInv == Inv /\ PodStarts => Inv'
  <1> SUFFICES ASSUME Inv, PodStarts PROVE Inv'
    OBVIOUS
  <1>1. UNCHANGED <<dc, sts, decomm, passVars, aborts>>
    BY DEF PodStarts
  <1>2. PICK r \in DOMAIN sts :
          up[r] < Wanted(r) /\ up' = [up EXCEPT ![r] = @ + 1]
    BY DEF PodStarts
  <1>3. up[r] + 1 \in 0..MaxSize /\ r \in 1..Len(up)
    BY <1>2, BoundsAssumption, SMT DEF Inv, TypeOK, Wanted
  <1>4. up' \in Seq(0..MaxSize) /\ Len(up') = Len(up)
    BY <1>2, <1>3, ExceptSeq, SMT DEF Inv, TypeOK
  <1>5. TypeOK'
    BY <1>1, <1>4 DEF Inv, TypeOK, passVars
  <1> QED BY <1>1, <1>5, SMT DEF Inv, DecommissioningIsTracked,
       InvalidMeansUntouched, RacksInSpec, StatefulSetsRead, ConditionsCurrent,
       LabelledPod, Decided, IdleContext, passVars

(* A labelled pod goes only when its replica is gone.                       *)
LEMMA PodTerminatesKeepsInv == Inv /\ PodTerminates => Inv'
  <1> SUFFICES ASSUME Inv, PodTerminates PROVE Inv'
    OBVIOUS
  <1>1. UNCHANGED <<dc, sts, passVars, aborts>>
    BY DEF PodTerminates
  <1>2. PICK r \in DOMAIN sts :
          \/ up[r] > Wanted(r) /\ up' = [up EXCEPT ![r] = @ - 1] /\ decomm' = decomm
          \/ decomm.rack = r /\ decomm.ord >= sts[r] /\ decomm' = None /\ up' = up
    BY DEF PodTerminates
  <1>3. r \in 1..Len(sts) /\ sts[r] \in 0..MaxSize
    BY LenProperties, ElementOfSeq DEF Inv, TypeOK
  <1>4. /\ up' \in Seq(0..MaxSize) /\ Len(up') = Len(up)
        /\ decomm' = decomm \/ decomm' = None
    <2>1. CASE up[r] > Wanted(r) /\ up' = [up EXCEPT ![r] = @ - 1] /\ decomm' = decomm
      <3>1. Wanted(r) >= 0 /\ Wanted(r) \in Int
        <4>1. decomm.ord \in 0..MaxSize
          BY PodFields DEF Inv, TypeOK
        <4> QED BY <1>3, <4>1, BoundsAssumption, SMT DEF Wanted
      <3>2. up[r] - 1 \in 0..MaxSize /\ r \in 1..Len(up)
        <4>1. up[r] \in 0..MaxSize /\ r \in 1..Len(up)
          BY <1>3, ElementOfSeq DEF Inv, TypeOK
        <4> QED BY <2>1, <3>1, <4>1, BoundsAssumption, SMT
      <3> QED BY <2>1, <3>2, ExceptSeq, SMT DEF Inv, TypeOK
    <2>2. CASE decomm' = None /\ up' = up
      BY <2>2 DEF Inv, TypeOK
    <2> QED BY <1>2, <2>1, <2>2
  <1>5. TypeOK'
    BY <1>1, <1>4, NoneIsPod DEF Inv, TypeOK, passVars
  <1>6. DecommissioningIsTracked' /\ InvalidMeansUntouched'
    BY <1>1, <1>4 DEF Inv, DecommissioningIsTracked, InvalidMeansUntouched
  <1>7. /\ RacksInSpec' /\ StatefulSetsRead' /\ ConditionsCurrent'
        /\ Decided' /\ IdleContext'
    BY <1>1 DEF Inv, RacksInSpec, StatefulSetsRead, ConditionsCurrent, Decided,
       IdleContext, passVars
  <1>8. LabelledPod'
    <2>1. CASE decomm' = decomm
      BY <1>1, <2>1 DEF Inv, LabelledPod, passVars
    <2>2. CASE decomm.rack = r /\ decomm.ord >= sts[r] /\ decomm' = None
      <3>1. decomm # None
        BY <1>3, <2>2, NoneIsPod, SMT
      <3> QED BY <1>1, <2>2, <3>1 DEF Inv, LabelledPod, passVars
    <2> QED BY <1>2, <2>1, <2>2
  <1> QED BY <1>5, <1>6, <1>7, <1>8 DEF Inv

(* The node leaves the ring; its pod keeps the label.                       *)
LEMMA NodeLeavesKeepsInv == Inv /\ NodeLeaves => Inv'
  <1> SUFFICES ASSUME Inv, NodeLeaves PROVE Inv'
    OBVIOUS
  <1>1. /\ UNCHANGED <<dc, sts, up, passVars, aborts>>
        /\ decomm # None /\ decomm' \in Pod /\ decomm'.phase = "left"
        /\ decomm'.rack = decomm.rack /\ decomm'.ord = decomm.ord
    BY PodFields, NoneIsPod DEF Inv, TypeOK, NodeLeaves
  <1>2. decomm' # None
    BY <1>1, NoneIsPod
  <1>3. TypeOK'
    BY <1>1 DEF Inv, TypeOK, passVars
  <1>4. /\ DecommissioningIsTracked' /\ InvalidMeansUntouched' /\ RacksInSpec'
        /\ StatefulSetsRead' /\ ConditionsCurrent' /\ Decided' /\ IdleContext'
    BY <1>1 DEF Inv, DecommissioningIsTracked, InvalidMeansUntouched,
       RacksInSpec, StatefulSetsRead, ConditionsCurrent, Decided, IdleContext,
       passVars
  <1>5. LabelledPod'
    BY <1>1 DEF Inv, LabelledPod, passVars
  <1> QED BY <1>3, <1>4, <1>5 DEF Inv

(* The pass starts from what there is.                                      *)
LEMMA BeginPassKeepsInv ==
    ASSUME "noPods" \notin Reads PROVE Inv /\ BeginPass => Inv'
  <1> SUFFICES ASSUME Inv, BeginPass PROVE Inv'
    OBVIOUS
  <1> DEFINE info == RackInformation(dc.size, dc.racks, dc.stopped)
  <1>1. /\ pc = "idle" /\ pc' = "updateStatus" /\ rcDc' = dc
        /\ dc.conds["Valid"] # "False"
        /\ desired' = [r \in 1..dc.racks |-> info[r].nodes]
        /\ UNCHANGED <<dc, sts, up, decomm, rcSts, idx, touched, aborts>>
    BY DEF BeginPass, InvalidState, apiVars
  <1>0. /\ rcDecomm' \in Pod /\ (rcDecomm' = None <=> decomm = None)
        /\ rcDecomm'.rack = decomm.rack /\ rcDecomm'.ord = decomm.ord
        /\ "noEndpoints" \in Reads \/ rcDecomm' = decomm
        /\ rcUp' = up
    <2>1. PICK reads \in Reads : rcDecomm' = SeenDecomm(reads) /\ reads # "noPods"
                                 /\ rcUp' = up
      BY DEF BeginPass
    <2>2. decomm \in Pod
      BY DEF Inv, TypeOK
    <2>3. CASE reads = "noEndpoints" /\ decomm # None
      <3> DEFINE d == [decomm EXCEPT !.phase = "left"]
      <3>1. rcDecomm' = d
        BY <2>1, <2>3 DEF SeenDecomm
      <3>2. d \in Pod /\ d.rack = decomm.rack /\ d.ord = decomm.ord /\ d.phase = "left"
        BY <2>2, PodFields
      <3> HIDE DEF d
      <3>3. d # None
        BY <3>2, NoneIsPod
      <3> QED BY <2>1, <2>3, <3>1, <3>2, <3>3
    <2>4. CASE ~(reads = "noEndpoints" /\ decomm # None)
      BY <2>1, <2>2, <2>4 DEF SeenDecomm
    <2> QED BY <2>3, <2>4
  <1>2. /\ dc \in Datacenter /\ dc.racks \in 1..MaxRacks
        /\ dc.size \in 1..MaxSize /\ dc.stopped \in BOOLEAN
    BY DatacenterFields DEF Inv, TypeOK
  <1>3. /\ desired' \in Seq(0..MaxSize) /\ Len(desired') = dc.racks
    <2> DEFINE n == DesiredNodeCount(dc.size, dc.stopped)
    <2>1. n \in 0..MaxSize /\ dc.racks \in Nat \ {0}
      BY <1>2, BoundsAssumption, SMT DEF DesiredNodeCount
    <2>2. \A r \in 1..dc.racks : info[r].nodes \in 0..MaxSize
      <3>1. \A r \in 1..dc.racks : info[r].nodes = SplitRacks(n, dc.racks)[r]
        BY DEF RackInformation
      <3>2. \A r \in 1..dc.racks : SplitRacks(n, dc.racks)[r] \in 0..n
        BY <2>1, SplitValue, SMT
      <3> HIDE DEF n
      <3> QED BY <2>1, <3>1, <3>2, BoundsAssumption, SMT
    <2> HIDE DEF info
    <2>3. desired' \in [1..dc.racks -> 0..MaxSize]
      BY <1>1, <2>2
    <2> QED BY <2>1, <2>3, FunctionIsSeq
  <1> HIDE DEF info
  <1>4. rcSts = <<>> /\ idx = 1 /\ ~touched
    BY <1>1 DEF Inv, IdleContext
  <1>5. TypeOK'
    BY <1>0, <1>1, <1>2, <1>3 DEF Inv, TypeOK, Steps
  <1>6. RacksInSpec'
    BY <1>1, <1>2, <1>3, <1>4, SMT DEF Inv, RacksInSpec
  <1>7. StatefulSetsRead' /\ ConditionsCurrent' /\ IdleContext'
    BY <1>1, <1>4, SMT DEF StatefulSetsRead, ConditionsCurrent, IdleContext
  <1>8. DecommissioningIsTracked' /\ InvalidMeansUntouched'
    BY <1>1 DEF Inv, DecommissioningIsTracked, InvalidMeansUntouched
  <1>9. LabelledPod' /\ Decided'
    BY <1>0, <1>1 DEF LabelledPod, Decided, EarlySteps
  <1> QED BY <1>5, <1>6, <1>7, <1>8, <1>9 DEF Inv

(* A refreshed copy has the same conditions.                                *)
LEMMA UpdateStatusKeepsInv == Inv /\ UpdateStatus => Inv'
  <1> SUFFICES ASSUME Inv, UpdateStatus PROVE Inv'
    OBVIOUS
  <1>1. /\ pc = "updateStatus" /\ pc' = "rackCreation" /\ rcDc' \in {rcDc, dc}
        /\ UNCHANGED <<dc, sts, up, decomm, aborts>>
        /\ UNCHANGED <<desired, rcSts, rcUp, rcDecomm, idx, touched>>
    BY DEF UpdateStatus, Goto, apiVars
  <1>2. TypeOK'
    BY <1>1 DEF Inv, TypeOK, Steps
  <1>3. /\ DecommissioningIsTracked' /\ InvalidMeansUntouched' /\ RacksInSpec'
        /\ ConditionsCurrent' /\ Decided' /\ IdleContext'
    BY <1>1 DEF Inv, DecommissioningIsTracked, InvalidMeansUntouched,
       RacksInSpec, ConditionsCurrent, Decided, IdleContext, EarlySteps
  <1>4. StatefulSetsRead'
    BY <1>1, SMT DEF Inv, TypeOK, StatefulSetsRead
  <1>5. LabelledPod'
    BY <1>1 DEF Inv, LabelledPod, EarlySteps
  <1> QED BY <1>2, <1>3, <1>4, <1>5 DEF Inv

(* The pass reads or creates the StatefulSet of the next rack.              *)
LEMMA CheckRackCreationKeepsInv == Inv /\ CheckRackCreation => Inv'
  <1> SUFFICES ASSUME Inv, CheckRackCreation PROVE Inv'
    OBVIOUS
  <1>1. /\ pc = "rackCreation" /\ pc' \in {"rackCreation", "decommissioning"}
        /\ UNCHANGED <<dc, decomm, rcDc, desired, rcUp, rcDecomm, touched, aborts>>
        /\ IF idx < Len(desired) THEN pc' = "rackCreation" /\ idx' = idx + 1
                                 ELSE pc' = "decommissioning" /\ idx' = 1
    BY DEF CheckRackCreation, NextRack
  <1>2. /\ sts \in Seq(0..MaxSize) /\ up \in Seq(0..MaxSize)
        /\ rcSts \in Seq(0..MaxSize) /\ Len(up) = Len(sts)
        /\ Len(sts) <= Len(desired) /\ Len(desired) \in 1..MaxRacks
        /\ idx \in 1..Len(desired) /\ Len(rcSts) = idx - 1
        /\ \A r \in 1..Len(rcSts) : r <= Len(sts) /\ rcSts[r] = sts[r]
    BY <1>1, SMT DEF Inv, TypeOK, RacksInSpec, StatefulSetsRead
  <1>3. /\ sts' \in Seq(0..MaxSize) /\ up' \in Seq(0..MaxSize)
        /\ rcSts' \in Seq(0..MaxSize) /\ Len(up') = Len(sts')
        /\ Len(sts') <= Len(desired) /\ Len(rcSts') = idx
        /\ \A r \in 1..Len(rcSts') : r <= Len(sts') /\ rcSts'[r] = sts'[r]
        /\ Len(sts) <= Len(sts') /\ \A r \in 1..Len(sts) : sts'[r] = sts[r]
        /\ \A r \in 1..Len(sts') : r > Len(sts) => sts'[r] = 0
    <2>0. idx \in Nat /\ Len(sts) \in Nat
      BY <1>2, LenProperties, BoundsAssumption, SMT
    <2>1. CASE idx <= Len(sts)
      <3>1. rcSts' = Append(rcSts, sts[idx]) /\ sts' = sts /\ up' = up
        BY <1>1, <2>1 DEF CheckRackCreation
      <3>2. sts[idx] \in 0..MaxSize
        <4>1. idx \in 1..Len(sts)
          BY <1>2, <2>1, <2>0, SMT
        <4> QED BY <1>2, <4>1, ElementOfSeq
      <3>3. /\ rcSts' \in Seq(0..MaxSize) /\ Len(rcSts') = idx
            /\ \A r \in 1..idx : rcSts'[r] = IF r = idx THEN sts[idx] ELSE rcSts[r]
        BY <1>2, <3>1, <3>2, AppendProperties, SMT
      <3> QED BY <1>2, <2>1, <3>1, <3>3, SMT
    <2>2. CASE idx > Len(sts)
      <3>1. /\ rcSts' = Append(rcSts, 0) /\ sts' = Append(sts, 0)
            /\ up' = Append(up, 0)
        BY <1>1, <1>2, <2>2, SMT DEF CheckRackCreation
      <3>2. idx = Len(sts) + 1
        BY <1>2, <2>2, SMT
      <3>3. 0 \in 0..MaxSize
        BY BoundsAssumption, SMT
      <3>4. /\ rcSts' \in Seq(0..MaxSize) /\ Len(rcSts') = idx
            /\ \A r \in 1..idx : rcSts'[r] = IF r = idx THEN 0 ELSE rcSts[r]
        BY <1>2, <3>1, <3>3, AppendProperties, SMT
      <3>5. /\ sts' \in Seq(0..MaxSize) /\ Len(sts') = idx
            /\ \A r \in 1..idx : sts'[r] = IF r = idx THEN 0 ELSE sts[r]
        BY <1>2, <3>1, <3>2, <3>3, AppendProperties, SMT
      <3>6. up' \in Seq(0..MaxSize) /\ Len(up') = idx
        BY <1>2, <3>1, <3>2, <3>3, AppendProperties, SMT
      <3>7. \A r \in 1..Len(rcSts') : r <= Len(sts') /\ rcSts'[r] = sts'[r]
        <4> SUFFICES ASSUME NEW r \in 1..idx
                     PROVE  r <= Len(sts') /\ rcSts'[r] = sts'[r]
          BY <3>4
        <4>1. CASE r = idx
          BY <2>0, <3>4, <3>5, <4>1, SMT
        <4>2. CASE r # idx
          <5>1. r \in 1..Len(rcSts)
            BY <1>2, <2>0, <4>2, SMT
          <5> QED BY <1>2, <2>0, <3>4, <3>5, <4>2, <5>1, SMT
        <4> QED BY <4>1, <4>2
      <3>8. /\ Len(sts) <= Len(sts') /\ \A r \in 1..Len(sts) : sts'[r] = sts[r]
            /\ \A r \in 1..Len(sts') : r > Len(sts) => sts'[r] = 0
        BY <2>0, <3>2, <3>5, SMT
      <3>9. Len(sts') <= Len(desired)
        BY <1>2, <3>5, SMT
      <3> QED BY <3>4, <3>5, <3>6, <3>7, <3>8, <3>9
    <2> QED BY <2>0, <2>1, <2>2, SMT
  <1>4. TypeOK'
    <2>1. idx' \in 1..MaxRacks
      BY <1>1, <1>2, BoundsAssumption, SMT
    <2> QED BY <1>1, <1>3, <2>1 DEF Inv, TypeOK, Steps
  <1>5. RacksInSpec' /\ StatefulSetsRead'
    <2>1. dc.racks \in Nat /\ Len(desired) <= dc.racks
      BY <1>1, DatacenterFields, SMT DEF Inv, TypeOK, RacksInSpec
    <2> QED BY <1>1, <1>2, <1>3, <2>1, SMT DEF RacksInSpec, StatefulSetsRead
  <1>6. /\ DecommissioningIsTracked' /\ InvalidMeansUntouched'
        /\ ConditionsCurrent' /\ Decided' /\ IdleContext'
    BY <1>1 DEF Inv, DecommissioningIsTracked, InvalidMeansUntouched,
       ConditionsCurrent, Decided, IdleContext, EarlySteps
  <1>7. LabelledPod'
    <2>1. rcDecomm \in Pod
      BY DEF Inv, TypeOK
    <2>2. rcDecomm.rack \in 0..MaxRacks /\ rcDecomm.ord \in 0..MaxSize
      BY <2>1, PodFields
    <2>3. CASE rcDecomm = None
      BY <1>1, <2>3 DEF Inv, LabelledPod, EarlySteps
    <2>4. CASE decomm.rack = rcDecomm.rack /\ decomm.ord = rcDecomm.ord
                /\ ("noEndpoints" \in Reads \/ decomm.phase \in {rcDecomm.phase, "left"})
                /\ rcDecomm # None
      BY <1>1, <2>4 DEF LabelledPod, EarlySteps
    <2>5. CASE decomm = None /\ rcDecomm # None
                /\ (rcDecomm.rack \in 1..Len(sts) => rcDecomm.ord >= sts[rcDecomm.rack])
      <3>1. rcDecomm.rack \in 1..Len(sts') =>
              rcDecomm.ord >= sts'[rcDecomm.rack]
        <4>1. CASE rcDecomm.rack \in 1..Len(sts)
          BY <1>3, <2>5, <4>1
        <4>2. CASE rcDecomm.rack \in 1..Len(sts') /\ rcDecomm.rack > Len(sts)
          BY <1>3, <2>2, <4>2, SMT
        <4>3. Len(sts) \in Nat
          BY <1>2, LenProperties
        <4> QED BY <2>2, <4>1, <4>2, <4>3, SMT
      <3> QED BY <1>1, <2>5, <3>1 DEF LabelledPod, EarlySteps
    <2> QED BY <1>1, <2>3, <2>4, <2>5 DEF Inv, LabelledPod, EarlySteps
  <1> QED BY <1>4, <1>5, <1>6, <1>7 DEF Inv

(* Writing back the conditions that are there changes nothing.              *)
LEMMA NoPatch ==
    ASSUME Inv, UNCHANGED <<dc, rcDc>>
    PROVE  /\ PatchConditions(rcDc.conds) /\ rcDc.conds \in Conditions
           /\ rcDc \in Datacenter /\ dc \in Datacenter
  BY DatacenterFields DEF Inv, TypeOK, PatchConditions

(* The pass goes on only if no pod is labelled.                             *)
LEMMA CheckDecommissioningNodesKeepsInv ==
    Inv /\ CheckDecommissioningNodes => Inv'
  <1> SUFFICES ASSUME Inv, CheckDecommissioningNodes PROVE Inv'
    OBVIOUS
  <1>1. pc = "decommissioning" /\ UNCHANGED <<up, decomm, aborts>>
    BY DEF CheckDecommissioningNodes
  <1>2. /\ rcDc.conds = dc.conds /\ rcDc.conds \in Conditions
        /\ rcDc.conds["Valid"] # "False" /\ dc \in Datacenter /\ rcDc \in Datacenter
        /\ sts \in Seq(0..MaxSize) /\ rcDecomm \in Pod /\ decomm \in Pod
    BY <1>1, DatacenterFields DEF Inv, TypeOK, ConditionsCurrent
  <1>3. "stoppedState" \in LaterSteps /\ pc \notin {"idle", "updateStatus", "rackCreation"}
    BY <1>1 DEF LaterSteps, EarlySteps, Steps
  <1>4. CASE rcDc.conds["ScalingDown"] # "True"
    <2>1. Goto("stoppedState") /\ UNCHANGED <<dc, rcDc, sts>>
      BY <1>4 DEF CheckDecommissioningNodes
    <2>2. decomm = None
      BY <1>2, <1>4 DEF Inv, DecommissioningIsTracked
    <2>3. Decided'
      BY <1>1, <2>1 DEF Inv, Decided, Goto, IdleContext, EarlySteps
    <2> QED BY <1>1, <1>2, <1>3, <2>1, <2>2, <2>3, NoPatch, PatchAndGotoKeepsInv
  <1>5. CASE rcDc.conds["ScalingDown"] = "True" /\ rcDecomm = None
    <2> DEFINE c == [rcDc.conds EXCEPT !["ScalingDown"] = "False"]
    <2>1. PatchConditions(c) /\ Goto("stoppedState") /\ UNCHANGED sts
      BY <1>5 DEF CheckDecommissioningNodes, NoPodDecommissioning
    <2>2. decomm = None
      BY <1>1, <1>5 DEF Inv, LabelledPod
    <2>3. c \in Conditions /\ c["Valid"] # "False"
      BY <1>2 DEF Conditions, ConditionTypes, ConditionStatus
    <2>4. Decided'
      BY <1>1, <2>1 DEF Inv, Decided, Goto, IdleContext, EarlySteps
    <2> HIDE DEF c
    <2> QED BY <1>1, <1>3, <2>1, <2>2, <2>3, <2>4, PatchAndGotoKeepsInv
  <1>6. CASE rcDc.conds["ScalingDown"] = "True" /\ rcDecomm # None
    <2>1. /\ EndPass /\ UNCHANGED <<dc, rcDc>>
          /\ \/ sts' = [sts EXCEPT ![rcDecomm.rack] = rcSts[rcDecomm.rack] - 1]
                /\ rcDecomm.ord = rcSts[rcDecomm.rack] - 1
             \/ sts' = sts
      BY <1>6 DEF CheckDecommissioningNodes, NoPodDecommissioning, RemovableFromSts
    <2>2. sts' \in Seq(0..MaxSize) /\ Len(sts') = Len(sts)
      <3>1. CASE sts' = [sts EXCEPT ![rcDecomm.rack] = rcDecomm.ord]
        <4>1. rcDecomm.ord \in 0..MaxSize
          BY <1>2, PodFields
        <4>2. CASE rcDecomm.rack \in 1..Len(sts)
          BY <1>2, <3>1, <4>1, <4>2, ExceptSeq, SMT
        <4>3. CASE rcDecomm.rack \notin 1..Len(sts)
          <5>1. sts' = sts
            BY <1>2, <3>1, <4>3, LenProperties
          <5> QED BY <1>2, <5>1
        <4> QED BY <4>2, <4>3
      <3> QED BY <1>2, <2>1, <3>1
    <2>3. DecommissioningIsTracked' /\ InvalidMeansUntouched'
      BY <1>1, <2>1 DEF Inv, DecommissioningIsTracked, InvalidMeansUntouched
    <2> QED BY <1>1, <1>2, <2>1, <2>2, <2>3, EndPassKeepsInv DEF Inv, TypeOK
  <1> QED BY <1>4, <1>5, <1>6

(* The conditions are written before a rack is emptied.                     *)
LEMMA CheckRackStoppedStateKeepsInv == Inv /\ CheckRackStoppedState => Inv'
  <1> SUFFICES ASSUME Inv, CheckRackStoppedState PROVE Inv'
    OBVIOUS
  <1>1. pc = "stoppedState" /\ UNCHANGED <<sts, up, decomm, aborts>>
    BY DEF CheckRackStoppedState
  <1>2. /\ rcDc.conds = dc.conds /\ rcDc.conds \in Conditions
        /\ rcDc.conds["Valid"] # "False" /\ dc \in Datacenter /\ rcDc \in Datacenter
        /\ decomm = None
    BY <1>1, DatacenterFields DEF Inv, TypeOK, ConditionsCurrent, LabelledPod, EarlySteps
  <1>3. /\ {"stoppedState", "stopRack", "rackScale"} \subseteq LaterSteps
        /\ pc \notin {"idle", "updateStatus", "rackCreation"}
    BY <1>1 DEF LaterSteps, EarlySteps, Steps
  <1>4. CASE rcDc.stopped /\ rcSts[idx] > 0
    <2>1. CASE touched
      <3>1. Goto("stopRack") /\ UNCHANGED <<dc, rcDc>>
        BY <1>4, <2>1 DEF CheckRackStoppedState
      <3>2. Decided'
        BY <1>1, <2>1, <3>1 DEF Inv, Decided, Goto
      <3> QED BY <1>1, <1>2, <1>3, <3>1, <3>2, NoPatch, PatchAndGotoKeepsInv
    <2>2. CASE ~touched
      <3>1. Goto("stopRack") /\ PatchConditions(StoppedConditions)
        BY <1>4, <2>2 DEF CheckRackStoppedState
      <3>2. /\ StoppedConditions \in Conditions
            /\ StoppedConditions["Valid"] # "False"
            /\ StoppedConditions["Stopped"] = "True"
            /\ StoppedConditions["Ready"] = "False"
        BY <1>2 DEF StoppedConditions, Conditions, ConditionTypes, ConditionStatus
      <3>3. dc'.conds = StoppedConditions
        BY <1>3, <3>1, <3>2, PatchConditionsEffect
      <3>4. Decided'
        BY <3>1, <3>2, <3>3 DEF Decided, Goto
      <3> QED BY <1>1, <1>2, <1>3, <3>1, <3>2, <3>4, PatchAndGotoKeepsInv
    <2> QED BY <2>1, <2>2
  <1>5. CASE ~(rcDc.stopped /\ rcSts[idx] > 0) /\ touched /\ idx = Len(desired)
    <2>1. EndPass /\ UNCHANGED <<dc, rcDc>>
      BY <1>5 DEF CheckRackStoppedState
    <2>2. DecommissioningIsTracked' /\ InvalidMeansUntouched'
      BY <1>1, <2>1 DEF Inv, DecommissioningIsTracked, InvalidMeansUntouched
    <2> QED BY <1>1, <2>1, <2>2, EndPassKeepsInv DEF Inv, TypeOK
  <1>6. CASE /\ ~(rcDc.stopped /\ rcSts[idx] > 0)
             /\ ~(touched /\ idx = Len(desired))
    <2>1. /\ NextRack("stoppedState", "rackScale")
          /\ UNCHANGED <<dc, rcDc, desired, rcSts, rcUp, rcDecomm, touched>>
      BY <1>6 DEF CheckRackStoppedState
    <2>2. pc' \in {"stoppedState", "rackScale"} /\ idx' \in 1..Len(desired)
      BY <1>1, <1>3, <2>1, RackRead, BoundsAssumption, SMT DEF NextRack
    <2>3. Decided'
      BY <1>1, <2>1, <2>2 DEF Inv, Decided
    <2>4. \A r \in 1..Len(rcSts) : rcSts'[r] = sts'[r]
      BY <1>1, <1>3, <2>1, RackRead
    <2> QED BY <1>1, <1>3, <2>1, <2>2, <2>3, <2>4, LoopStepKeepsInv DEF Inv, TypeOK
  <1> QED BY <1>4, <1>5, <1>6

(* An emptied rack is read as empty.                                        *)
LEMMA StopRackKeepsInv == Inv /\ StopRack => Inv'
  <1> SUFFICES ASSUME Inv, StopRack PROVE Inv'
    OBVIOUS
  <1>1. /\ pc = "stopRack" /\ sts' = [sts EXCEPT ![idx] = 0]
        /\ UNCHANGED <<dc, rcDc, up, decomm, aborts>>
    BY DEF StopRack
  <1>2. /\ pc \in LaterSteps /\ "stoppedState" \in LaterSteps
        /\ 0 \in 0..MaxSize
    BY <1>1, BoundsAssumption, SMT DEF LaterSteps, EarlySteps, Steps
  <1>3. sts' \in Seq(0..MaxSize) /\ Len(sts') = Len(sts)
    BY <1>1, <1>2, RackWritten
  <1>4. CASE idx = Len(desired)
    <2>1. EndPass
      BY <1>4 DEF StopRack
    <2>2. DecommissioningIsTracked' /\ InvalidMeansUntouched'
      BY <1>1 DEF Inv, DecommissioningIsTracked, InvalidMeansUntouched
    <2> QED BY <1>1, <1>3, <2>1, <2>2, EndPassKeepsInv DEF Inv, TypeOK
  <1>5. CASE idx # Len(desired)
    <2>1. /\ pc' = "stoppedState" /\ idx' = idx + 1 /\ touched' = TRUE
          /\ rcSts' = [rcSts EXCEPT ![idx] = 0]
          /\ UNCHANGED <<desired, rcUp, rcDecomm>>
      BY <1>5 DEF StopRack
    <2>2. idx' \in 1..Len(desired)
      BY <1>2, <1>5, <2>1, RackRead, BoundsAssumption, SMT
    <2>3. /\ rcSts' \in Seq(0..MaxSize) /\ Len(rcSts') = Len(rcSts)
          /\ \A r \in 1..Len(rcSts) : rcSts'[r] = sts'[r]
      BY <1>1, <1>2, <2>1, RackWritten
    <2>4. Decided'
      BY <1>1, <2>1 DEF Inv, Decided
    <2> QED BY <1>1, <1>2, <1>3, <2>1, <2>2, <2>3, <2>4, LoopStepKeepsInv
  <1> QED BY <1>4, <1>5

(* The rack to scale up is below its share.                                 *)
LEMMA CheckRackScaleKeepsInv == Inv /\ CheckRackScale => Inv'
  <1> SUFFICES ASSUME Inv, CheckRackScale PROVE Inv'
    OBVIOUS
  <1>1. pc = "rackScale" /\ UNCHANGED <<sts, up, decomm, aborts>>
    BY DEF CheckRackScale
  <1>2. /\ rcDc.conds \in Conditions /\ rcDc.conds["Valid"] # "False"
        /\ decomm = None
    BY <1>1, DatacenterFields DEF Inv, TypeOK, ConditionsCurrent, LabelledPod, EarlySteps
  <1>3. /\ {"rackScale", "scaleRack", "podsReady"} \subseteq LaterSteps
        /\ pc \notin {"idle", "updateStatus", "rackCreation"}
    BY <1>1 DEF LaterSteps, EarlySteps, Steps
  <1>4. CASE BelowShare
    <2> DEFINE c == IF rcDc.conds["Stopped"] = "True"
                    THEN [rcDc.conds EXCEPT !["Stopped"] = "False",
                                            !["Resuming"] = "True"]
                    ELSE [rcDc.conds EXCEPT !["ScalingUp"] = "True"]
    <2>1. Goto("scaleRack") /\ PatchConditions(c)
      BY <1>4 DEF CheckRackScale
    <2>2. c \in Conditions /\ c["Valid"] # "False"
      BY <1>2 DEF Conditions, ConditionTypes, ConditionStatus
    <2>3. Decided'
      BY <1>4, <2>1 DEF Decided, Goto, BelowShare
    <2> HIDE DEF c
    <2> QED BY <1>1, <1>2, <1>3, <2>1, <2>2, <2>3, PatchAndGotoKeepsInv
  <1>5. CASE ~BelowShare
    <2>1. /\ NextRack("rackScale", "podsReady")
          /\ UNCHANGED <<dc, rcDc, desired, rcSts, rcUp, rcDecomm, touched>>
      BY <1>5 DEF CheckRackScale
    <2>2. pc' \in {"rackScale", "podsReady"} /\ idx' \in 1..Len(desired)
      BY <1>1, <1>3, <2>1, RackRead, BoundsAssumption, SMT DEF NextRack
    <2>3. Decided'
      BY <2>2 DEF Decided
    <2>4. \A r \in 1..Len(rcSts) : rcSts'[r] = sts'[r]
      BY <1>1, <1>3, <2>1, RackRead
    <2> QED BY <1>1, <1>3, <2>1, <2>2, <2>3, <2>4, LoopStepKeepsInv DEF Inv, TypeOK
  <1> QED BY <1>4, <1>5

(* A scaled rack is read at its new size.                                   *)
LEMMA ScaleRackKeepsInv == Inv /\ ScaleRack => Inv'
  <1> SUFFICES ASSUME Inv, ScaleRack PROVE Inv'
    OBVIOUS
  <1>1. /\ pc = "scaleRack" /\ NextRack("rackScale", "podsReady")
        /\ sts' = [sts EXCEPT ![idx] = desired[idx]]
        /\ rcSts' = [rcSts EXCEPT ![idx] = desired[idx]]
        /\ UNCHANGED <<dc, rcDc, up, decomm, desired, rcUp, rcDecomm, touched, aborts>>
    BY DEF ScaleRack
  <1>2. pc \in LaterSteps /\ {"rackScale", "podsReady"} \subseteq LaterSteps
    BY <1>1 DEF LaterSteps, EarlySteps, Steps
  <1>3. desired[idx] \in 0..MaxSize
    BY <1>2, RackRead
  <1>4. /\ sts' \in Seq(0..MaxSize) /\ Len(sts') = Len(sts)
        /\ rcSts' \in Seq(0..MaxSize) /\ Len(rcSts') = Len(rcSts)
        /\ \A r \in 1..Len(rcSts) : rcSts'[r] = sts'[r]
    BY <1>1, <1>2, <1>3, RackWritten
  <1>5. pc' \in {"rackScale", "podsReady"} /\ idx' \in 1..Len(desired)
    BY <1>1, <1>2, RackRead, BoundsAssumption, SMT DEF NextRack
  <1>6. Decided'
    BY <1>5 DEF Decided
  <1> QED BY <1>1, <1>2, <1>4, <1>5, <1>6, LoopStepKeepsInv DEF Inv, TypeOK

(* CheckPodsReady goes on or ends the pass.                                 *)
LEMMA CheckPodsReadyKeepsInv == Inv /\ CheckPodsReady => Inv'
  <1> SUFFICES ASSUME Inv, CheckPodsReady PROVE Inv'
    OBVIOUS
  <1>1. pc = "podsReady" /\ UNCHANGED <<dc, rcDc, sts, up, decomm, aborts>>
    BY DEF CheckPodsReady, apiVars
  <1>2. /\ rcDc.conds["Valid"] # "False" /\ decomm = None
        /\ "decommissionNodes" \in LaterSteps
    BY <1>1 DEF Inv, ConditionsCurrent, LabelledPod, EarlySteps, LaterSteps, Steps
  <1>3. CASE Goto("decommissionNodes")
    <2>1. Decided'
      BY <1>3 DEF Decided, Goto
    <2> QED BY <1>1, <1>2, <1>3, <2>1, NoPatch, PatchAndGotoKeepsInv
  <1>4. CASE EndPass
    <2>1. DecommissioningIsTracked' /\ InvalidMeansUntouched'
      BY <1>1 DEF Inv, DecommissioningIsTracked, InvalidMeansUntouched
    <2> QED BY <1>1, <1>4, <2>1, EndPassKeepsInv DEF Inv, TypeOK
  <1> QED BY <1>3, <1>4 DEF CheckPodsReady

(* ScalingDown is set before a rack is chosen.                              *)
LEMMA DecommissionNodesKeepsInv == Inv /\ DecommissionNodes => Inv'
  <1> SUFFICES ASSUME Inv, DecommissionNodes PROVE Inv'
    OBVIOUS
  <1>1. pc = "decommissionNodes" /\ UNCHANGED <<sts, up, decomm, aborts>>
    BY DEF DecommissionNodes
  <1>2. /\ rcDc.conds \in Conditions /\ rcDc.conds["Valid"] # "False"
        /\ decomm = None /\ pc # "idle"
        /\ {"clearConditions", "decommissionOnRack"} \subseteq LaterSteps
    BY <1>1, DatacenterFields DEF Inv, TypeOK, ConditionsCurrent, LabelledPod,
       EarlySteps, LaterSteps, Steps
  <1>3. CASE Goto("clearConditions") /\ UNCHANGED <<dc, rcDc>>
    <2>1. Decided'
      BY <1>3 DEF Decided, Goto
    <2> QED BY <1>1, <1>2, <1>3, <2>1, NoPatch, PatchAndGotoKeepsInv
  <1>4. CASE EndPass /\ UNCHANGED <<dc, rcDc>>
    <2>1. DecommissioningIsTracked' /\ InvalidMeansUntouched'
      BY <1>1, <1>4 DEF Inv, DecommissioningIsTracked, InvalidMeansUntouched
    <2> QED BY <1>1, <1>4, <2>1, EndPassKeepsInv DEF Inv, TypeOK
  <1> DEFINE c == [rcDc.conds EXCEPT !["ScalingDown"] = "True"]
  <1>5. CASE /\ \E r \in DOMAIN rcSts : idx' = r
             /\ PatchConditions(c) /\ pc' = "decommissionOnRack"
             /\ UNCHANGED <<desired, rcSts, rcUp, rcDecomm, touched>>
    <2>1. c \in Conditions /\ c["Valid"] # "False" /\ c["ScalingDown"] = "True"
      BY <1>2 DEF Conditions, ConditionTypes, ConditionStatus
    <2> HIDE DEF c
    <2>2. /\ dc' \in Datacenter /\ rcDc' \in Datacenter
          /\ dc'.conds = c /\ rcDc'.conds = c /\ dc'.racks = dc.racks
      BY <1>2, <1>5, <2>1, PatchConditionsEffect
    <2>3. idx' \in 1..Len(desired) /\ Len(desired) \in 1..MaxRacks
      BY <1>1, <1>5, RackRead, LenProperties DEF LaterSteps, EarlySteps, Steps, Inv, TypeOK
    <2>4. idx' \in 1..MaxRacks /\ idx' <= Len(desired)
      BY <2>3, BoundsAssumption, SMT
    <2>5. TypeOK'
      BY <1>1, <1>5, <2>2, <2>4 DEF Inv, TypeOK, Steps
    <2>6. RacksInSpec' /\ ConditionsCurrent'
      BY <1>1, <1>5, <2>1, <2>2, <2>4 DEF Inv, RacksInSpec, ConditionsCurrent
    <2>7. StatefulSetsRead' /\ IdleContext'
      BY <1>1, <1>5 DEF Inv, StatefulSetsRead, IdleContext, EarlySteps
    <2>8. /\ DecommissioningIsTracked' /\ InvalidMeansUntouched'
          /\ LabelledPod' /\ Decided'
      BY <1>1, <1>2, <1>5, <2>1, <2>2 DEF DecommissioningIsTracked,
         InvalidMeansUntouched, LabelledPod, Decided, EarlySteps, None
    <2> QED BY <2>5, <2>6, <2>7, <2>8 DEF Inv
  <1>6. \A r \in RacksOver : r \in DOMAIN rcSts
    BY DEF RacksOver
  <1> QED BY <1>3, <1>4, <1>5, <1>6 DEF DecommissionNodes

(* A pod is labelled when none is, with ScalingDown set.                    *)
LEMMA DecommissionNodeOnRackKeepsInv == Inv /\ DecommissionNodeOnRack => Inv'
  <1> SUFFICES ASSUME Inv, DecommissionNodeOnRack PROVE Inv'
    OBVIOUS
  <1>1. pc = "decommissionOnRack" /\ EndPass /\ UNCHANGED <<sts, aborts>>
    BY DEF DecommissionNodeOnRack
  <1>2. /\ rcDc.conds \in Conditions /\ rcDc.conds["Valid"] # "False"
        /\ dc.conds = rcDc.conds /\ dc.conds["ScalingDown"] = "True"
        /\ decomm = None /\ pc # "idle" /\ pc \in LaterSteps
        /\ dc \in Datacenter /\ rcDc \in Datacenter /\ decomm \in Pod
        /\ sts \in Seq(0..MaxSize) /\ up \in Seq(0..MaxSize) /\ Len(up) = Len(sts)
        /\ aborts \in 0..MaxAborts
    BY <1>1, DatacenterFields DEF Inv, TypeOK, ConditionsCurrent, LabelledPod,
       Decided, EarlySteps, LaterSteps, Steps
  <1> DEFINE c == [rcDc.conds EXCEPT !["Valid"] = "False"]
  <1>3. CASE UNCHANGED <<dc, rcDc, up, decomm>>
    <2>1. DecommissioningIsTracked' /\ InvalidMeansUntouched'
      BY <1>3 DEF Inv, DecommissioningIsTracked, InvalidMeansUntouched
    <2> QED BY <1>1, <1>2, <1>3, <2>1, EndPassKeepsInv
  <1>4. CASE /\ rcSts[idx] > 0 /\ up[idx] > 0 /\ UNCHANGED <<dc, rcDc>>
             /\ decomm' = [rack |-> idx, ord |-> rcSts[idx] - 1,
                           phase |-> "leaving"]
             /\ up' = [up EXCEPT ![idx] = @ - 1]
    <2>1. idx \in 1..Len(up) /\ rcSts[idx] \in 0..MaxSize /\ idx \in 1..MaxRacks
      BY <1>2, RackRead, BoundsAssumption, SMT
    <2>2. decomm' \in Pod
      <3>1. rcSts[idx] - 1 \in 0..MaxSize /\ idx \in 0..MaxRacks
        BY <1>4, <2>1, BoundsAssumption, SMT
      <3> QED BY <1>4, <3>1 DEF Pod
    <2>3. up' \in Seq(0..MaxSize) /\ Len(up') = Len(up)
      <3>1. up[idx] \in 0..MaxSize
        BY <1>2, <2>1, ElementOfSeq
      <3>2. up[idx] - 1 \in 0..MaxSize
        BY <1>4, <3>1, BoundsAssumption, SMT
      <3> QED BY <1>2, <1>4, <2>1, <3>2, ExceptSeq, SMT
    <2>4. DecommissioningIsTracked' /\ InvalidMeansUntouched'
      BY <1>2, <1>4 DEF DecommissioningIsTracked, InvalidMeansUntouched
    <2> QED BY <1>1, <1>2, <1>4, <2>2, <2>3, <2>4, EndPassKeepsInv
  <1>5. CASE PatchConditions(c) /\ UNCHANGED <<up, decomm>>
    <2>1. c \in Conditions /\ c["ScalingDown"] = "True"
      BY <1>2 DEF Conditions, ConditionTypes, ConditionStatus
    <2> HIDE DEF c
    <2>2. /\ dc' \in Datacenter /\ rcDc' \in Datacenter
          /\ dc'.conds = c /\ rcDc'.conds = c /\ dc'.racks = dc.racks
      BY <1>2, <1>5, <2>1, PatchConditionsEffect
    <2>3. DecommissioningIsTracked' /\ InvalidMeansUntouched'
      BY <1>2, <1>5, <2>1, <2>2 DEF DecommissioningIsTracked,
         InvalidMeansUntouched, None
    <2> QED BY <1>1, <1>2, <1>5, <2>2, <2>3, EndPassKeepsInv
  <1> HIDE DEF c
  <1> QED BY <1>3, <1>4, <1>5 DEF DecommissionNodeOnRack, c

(* The last checks write conditions and go on or end the pass.              *)
LEMMA PatchOrGoOnKeepsInv ==
    ASSUME Inv, pc \in LaterSteps, NEW c \in Conditions, c["Valid"] # "False",
           PatchConditions(c), NEW step \in {"conditionReady", "progressReady"},
           Goto(step) \/ EndPass, UNCHANGED <<sts, up, decomm, aborts>>
    PROVE  Inv'
  <1>1. /\ pc \notin {"idle", "updateStatus", "rackCreation"} /\ decomm = None
        /\ step \in LaterSteps
    BY DEF Inv, LabelledPod, LaterSteps, EarlySteps, Steps
  <1>2. CASE Goto(step)
    <2>1. Decided'
      BY <1>2 DEF Decided, Goto
    <2> QED BY <1>1, <1>2, <2>1, PatchAndGotoKeepsInv
  <1>3. CASE EndPass
    <2>1. /\ dc' \in Datacenter /\ rcDc' \in Datacenter
          /\ dc'.conds = c /\ dc'.racks = dc.racks
      BY <1>1, PatchConditionsEffect
    <2>2. DecommissioningIsTracked' /\ InvalidMeansUntouched'
      BY <1>1 DEF DecommissioningIsTracked, InvalidMeansUntouched, None
    <2> QED BY <1>1, <1>3, <2>1, <2>2, EndPassKeepsInv DEF Inv, TypeOK
  <1> QED BY <1>2, <1>3

(* ScalingDown is cleared when no pod is labelled.                          *)
LEMMA CheckClearActionConditionsKeepsInv ==
    Inv /\ CheckClearActionConditions => Inv'
  <1> SUFFICES ASSUME Inv, CheckClearActionConditions PROVE Inv'
    OBVIOUS
  <1>1. /\ pc \in LaterSteps /\ PatchConditions(ClearedConditions)
        /\ Goto("conditionReady") \/ EndPass
        /\ UNCHANGED <<sts, up, decomm, aborts>>
    BY DEF CheckClearActionConditions, LaterSteps, EarlySteps, Steps
  <1>2. rcDc.conds \in Conditions
    BY DatacenterFields DEF Inv, TypeOK
  <1>3. ClearedConditions \in Conditions /\ ClearedConditions["Valid"] # "False"
    BY <1>2 DEF ClearedConditions, Conditions, ConditionTypes, ConditionStatus
  <1> QED BY <1>1, <1>3, PatchOrGoOnKeepsInv

(* Ready is set at the end of a pass.                                       *)
LEMMA CheckConditionInitializedAndReadyKeepsInv ==
    Inv /\ CheckConditionInitializedAndReady => Inv'
  <1> SUFFICES ASSUME Inv, CheckConditionInitializedAndReady PROVE Inv'
    OBVIOUS
  <1>1. /\ pc \in LaterSteps /\ PatchConditions(ReadyConditions)
        /\ Goto("progressReady") \/ EndPass
        /\ UNCHANGED <<sts, up, decomm, aborts>>
    BY DEF CheckConditionInitializedAndReady, LaterSteps, EarlySteps, Steps
  <1>2. rcDc.conds \in Conditions /\ rcDc.conds["Valid"] # "False"
    BY <1>1, DatacenterFields DEF Inv, TypeOK, ConditionsCurrent, LaterSteps
  <1>3. ReadyConditions \in Conditions /\ ReadyConditions["Valid"] # "False"
    BY <1>2 DEF ReadyConditions, Conditions, ConditionTypes, ConditionStatus
  <1> QED BY <1>1, <1>3, PatchOrGoOnKeepsInv

(* The progress is no condition.                                            *)
LEMMA SetProgressReadyKeepsInv == Inv /\ SetProgressReady => Inv'
  <1> SUFFICES ASSUME Inv, SetProgressReady PROVE Inv'
    OBVIOUS
  <1>1. EndPass /\ UNCHANGED <<sts, up, decomm, aborts>>
    BY DEF SetProgressReady
  <1>2. dc \in Datacenter /\ rcDc \in Datacenter /\ rcDc.gen \in 0..MaxGeneration
    BY DatacenterFields DEF Inv, TypeOK
  <1>3. /\ dc' \in Datacenter /\ rcDc' \in Datacenter
        /\ dc'.conds = dc.conds /\ dc'.racks = dc.racks
    <2>1. CASE UNCHANGED <<dc, rcDc>>
      BY <1>2, <2>1
    <2>2. CASE /\ dc' = [dc EXCEPT !.progress = "Ready", !.observed = rcDc.gen]
               /\ rcDc' = dc'
      BY <1>2, <2>2, NewProgress
    <2> QED BY <2>1, <2>2 DEF SetProgressReady
  <1>4. DecommissioningIsTracked' /\ InvalidMeansUntouched'
    BY <1>1, <1>3 DEF Inv, DecommissioningIsTracked, InvalidMeansUntouched
  <1> QED BY <1>1, <1>3, <1>4, EndPassKeepsInv DEF Inv, TypeOK

(* The progress is no condition.                                            *)
LEMMA SetProgressUpdatingKeepsInv == Inv /\ SetProgressUpdating => Inv'
  <1> SUFFICES ASSUME Inv, SetProgressUpdating PROVE Inv'
    OBVIOUS
  <1>1. /\ pc # "idle" /\ pc' = pc /\ dc' = [dc EXCEPT !.progress = "Updating"]
        /\ rcDc' = dc' /\ UNCHANGED <<sts, up, decomm, aborts>>
        /\ UNCHANGED <<desired, rcSts, rcUp, rcDecomm, idx, touched>>
    BY DEF SetProgressUpdating, Goto
  <1>2. /\ dc' \in Datacenter /\ dc'.conds = dc.conds /\ dc'.racks = dc.racks
    <2>1. dc \in Datacenter /\ 0 \in 0..MaxGeneration
      BY BoundsAssumption, SMT DEF Inv, TypeOK
    <2> QED BY <1>1, <2>1, NewProgress
  <1>3. TypeOK'
    BY <1>1, <1>2 DEF Inv, TypeOK
  <1>4. /\ DecommissioningIsTracked' /\ InvalidMeansUntouched' /\ RacksInSpec'
        /\ ConditionsCurrent' /\ Decided'
    BY <1>1, <1>2 DEF Inv, DecommissioningIsTracked, InvalidMeansUntouched,
       RacksInSpec, ConditionsCurrent, Decided
  <1>5. StatefulSetsRead' /\ LabelledPod' /\ IdleContext'
    BY <1>1 DEF Inv, StatefulSetsRead, LabelledPod, IdleContext
  <1> QED BY <1>3, <1>4, <1>5 DEF Inv

(* A pass cut short leaves what it has written.                             *)
LEMMA AbortKeepsInv == Inv /\ Abort => Inv'
  <1> SUFFICES ASSUME Inv, Abort PROVE Inv'
    OBVIOUS
  <1>1. EndPass /\ UNCHANGED <<dc, sts, up, decomm, rcDc>>
    BY DEF Abort, apiVars
  <1>2. aborts' \in 0..MaxAborts
    BY BoundsAssumption, SMT DEF Abort, Inv, TypeOK
  <1>3. DecommissioningIsTracked' /\ InvalidMeansUntouched'
    BY <1>1 DEF Inv, DecommissioningIsTracked, InvalidMeansUntouched
  <1> QED BY <1>1, <1>2, <1>3, EndPassKeepsInv DEF Inv, TypeOK

-----------------------------------------------------------------------------
(* The theorems.                                                            *)

(* A new datacenter has no StatefulSets, another one no labelled pod.       *)
LEMMA InitInv == Init => Inv
  <1> SUFFICES ASSUME Init PROVE Inv
    OBVIOUS
  <1>1. PICK s \in InitialSizes, racks \in 1..MaxRacks :
          /\ s # <<>> => racks = Len(s)
          /\ sts = s /\ up = s
          /\ dc = [size     |-> IF s = <<>> THEN MaxSize ELSE Total(s),
                   racks    |-> racks,
                   stopped  |-> FALSE,
                   gen      |-> 0,
                   progress |-> IF s = <<>> THEN "" ELSE "Ready",
                   observed |-> 0,
                   conds    |-> [c \in ConditionTypes |->
                      IF s = <<>> THEN "Unknown"
                      ELSE IF c \in {"Ready", "Initialized", "Valid"}
                           THEN "True" ELSE "False"]]
    BY DEF Init
  <1>2. /\ s \in Seq(0..MaxSize)
        /\ s # <<>> => Len(s) \in 1..MaxRacks /\ Total(s) \in 1..MaxSize
    BY BoundsAssumption
  <1> DEFINE c == [t \in ConditionTypes |->
                      IF s = <<>> THEN "Unknown"
                      ELSE IF t \in {"Ready", "Initialized", "Valid"}
                           THEN "True" ELSE "False"]
             n == IF s = <<>> THEN MaxSize ELSE Total(s)
             p == IF s = <<>> THEN "" ELSE "Ready"
  <1>3. dc \in Datacenter /\ dc.racks = racks
    <2>1. c \in [ConditionTypes -> ConditionStatus]
      BY DEF ConditionStatus
    <2>2. n \in 1..MaxSize /\ p \in {"", "Ready"}
      BY <1>2, BoundsAssumption, SMT
    <2>3. dc = [size |-> n, racks |-> racks, stopped |-> FALSE, gen |-> 0,
                progress |-> p, observed |-> 0, conds |-> c]
      BY <1>1
    <2>4. 0 \in 0..MaxGeneration
      BY BoundsAssumption, SMT
    <2> HIDE DEF c, n, p
    <2> QED BY <2>1, <2>2, <2>3, <2>4 DEF Datacenter
  <1>4. Len(sts) <= dc.racks
    <2>1. s = <<>> => Len(s) = 0
      BY SMT
    <2>2. racks \in Nat /\ 0 <= racks
      BY BoundsAssumption, SMT
    <2>3. sts = s /\ (s # <<>> => racks = Len(s)) /\ dc.racks = racks
      BY <1>1, <1>3
    <2>4. CASE s = <<>>
      BY <2>1, <2>2, <2>3, <2>4
    <2>5. CASE s # <<>>
      BY <2>2, <2>3, <2>5, SMT
    <2> QED BY <2>4, <2>5
  <1>5. /\ decomm = None /\ pc = "idle" /\ rcDc = dc
        /\ desired = <<>> /\ rcSts = <<>> /\ rcUp = <<>> /\ rcDecomm = None
        /\ idx = 1 /\ touched = FALSE /\ aborts = 0
    BY DEF Init
  <1>6. TypeOK
    <2>1. <<>> \in Seq(0..MaxSize) /\ idx \in 1..MaxRacks /\ aborts \in 0..MaxAborts
      BY <1>5, BoundsAssumption, SMT
    <2> QED BY <1>1, <1>2, <1>3, <1>5, <2>1, NoneIsPod DEF TypeOK, Steps
  <1> QED BY <1>4, <1>5, <1>6 DEF Inv, DecommissioningIsTracked,
       InvalidMeansUntouched, RacksInSpec, StatefulSetsRead, ConditionsCurrent,
       LabelledPod, Decided, IdleContext, EarlySteps

(* Every step keeps the invariant.                                          *)
LEMMA NextKeepsInv ==
    ASSUME "noPods" \notin Reads PROVE Inv /\ [Next]_vars => Inv'
  <1> SUFFICES ASSUME Inv, [Next]_vars PROVE Inv'
    OBVIOUS
  <1>1. CASE UNCHANGED vars
    <2>1. /\ dc' = dc /\ sts' = sts /\ up' = up /\ decomm' = decomm /\ pc' = pc
          /\ rcDc' = rcDc /\ desired' = desired /\ rcSts' = rcSts /\ rcUp' = rcUp
          /\ rcDecomm' = rcDecomm /\ idx' = idx /\ touched' = touched /\ aborts' = aborts
      BY <1>1 DEF vars, apiVars, passVars
    <2>2. TypeOK'
      BY <2>1 DEF Inv, TypeOK
    <2>3. DecommissioningIsTracked' /\ InvalidMeansUntouched' /\ ConditionsCurrent'
      BY <2>1 DEF Inv, DecommissioningIsTracked, InvalidMeansUntouched, ConditionsCurrent
    <2>4. RacksInSpec' /\ StatefulSetsRead'
      BY <2>1 DEF Inv, RacksInSpec, StatefulSetsRead
    <2>5. LabelledPod' /\ Decided' /\ IdleContext'
      BY <2>1 DEF Inv, LabelledPod, Decided, IdleContext
    <2> QED
      BY <2>2, <2>3, <2>4, <2>5 DEF Inv
  <1>2. CASE BeginPass \/ EditSpec \/ Abort
    BY <1>2, BeginPassKeepsInv, EditSpecKeepsInv, AbortKeepsInv
  <1>3. CASE Environment
    BY <1>3, PodStartsKeepsInv, PodTerminatesKeepsInv, NodeLeavesKeepsInv
       DEF Environment
  <1>4. CASE PassStep
    BY <1>4, UpdateStatusKeepsInv, CheckRackCreationKeepsInv,
       CheckDecommissioningNodesKeepsInv, CheckRackStoppedStateKeepsInv,
       StopRackKeepsInv, CheckRackScaleKeepsInv, ScaleRackKeepsInv,
       CheckPodsReadyKeepsInv, DecommissionNodesKeepsInv,
       DecommissionNodeOnRackKeepsInv, CheckClearActionConditionsKeepsInv,
       CheckConditionInitializedAndReadyKeepsInv, SetProgressReadyKeepsInv,
       SetProgressUpdatingKeepsInv DEF PassStep
  <1> QED BY <1>1, <1>2, <1>3, <1>4 DEF Next

(* Inv holds in every reachable state.                                      *)
THEOREM InvAlways ==
    ASSUME "noPods" \notin Reads PROVE Spec => []Inv
  BY InitInv, NextKeepsInv, PTL DEF Spec

(* Type correctness, for every number of racks, nodes, edits and aborts.    *)
THEOREM TypeCorrect ==
    ASSUME "noPods" \notin Reads PROVE Spec => []TypeOK
  <1>1. Inv => TypeOK
    BY DEF Inv
  <1> QED BY <1>1, InvAlways, PTL

(* A pod labelled Decommissioning is never forgotten: ScalingDown, which    *)
(* makes CheckDecommissioningNodes look for the pod, stays True as long as  *)
(* the pod exists, whatever the user edits and wherever passes are cut off. *)
THEOREM DecommissioningAlwaysTracked ==
    ASSUME "noPods" \notin Reads PROVE Spec => []DecommissioningIsTracked
  <1>1. Inv => DecommissioningIsTracked
    BY DEF Inv
  <1> QED BY <1>1, InvAlways, PTL

(* No node is ever leaving a datacenter that CheckForInvalidState has       *)
(* frozen for lack of space.                                                *)
THEOREM InvalidAlwaysUntouched ==
    ASSUME "noPods" \notin Reads PROVE Spec => []InvalidMeansUntouched
  <1>1. Inv => InvalidMeansUntouched
    BY DEF Inv
  <1> QED BY <1>1, InvAlways, PTL

(* The step property behind RacksShrinkSafely: only CheckDecommissioning-   *)
(* Nodes and StopRack make a StatefulSet smaller.                           *)
LEMMA StepsShrinkSafely ==
    ASSUME "noEndpoints" \notin Reads PROVE Inv /\ [Next]_vars => ShrinksSafely
  <1> SUFFICES ASSUME Inv, [Next]_vars, NEW r \in DOMAIN sts, sts'[r] < sts[r]
               PROVE  \/ /\ decomm = [rack |-> r, ord |-> sts[r] - 1, phase |-> "left"]
                         /\ sts'[r] = sts[r] - 1
                      \/ /\ sts'[r] = 0
                         /\ dc.conds["Stopped"] = "True"
                         /\ dc.conds["Ready"] # "True"
                         /\ decomm = None
    BY DEF ShrinksSafely
  <1>1. r \in 1..Len(sts) /\ sts \in Seq(0..MaxSize) /\ sts[r] \in 0..MaxSize
    BY LenProperties, ElementOfSeq DEF Inv, TypeOK
  <1>2. sts' # sts
    BY <1>1, SMT
  <1>3. CASE CheckDecommissioningNodes
    <2>1. /\ pc = "decommissioning" /\ rcDecomm # None /\ RemovableFromSts
          /\ sts' = [sts EXCEPT ![rcDecomm.rack] = rcSts[rcDecomm.rack] - 1]
      BY <1>2, <1>3 DEF CheckDecommissioningNodes, NoPodDecommissioning
    <2>2. rcDecomm.rack = r
      BY <1>1, <2>1, SMT
    <2>3. rcSts[r] = sts[r]
      BY <1>1, <2>1, RackRead
    <2>4. sts'[r] = sts[r] - 1 /\ rcDecomm.ord = sts[r] - 1 /\ rcDecomm.phase = "left"
      BY <1>1, <2>1, <2>2, <2>3 DEF RemovableFromSts
    <2>5. ~(rcDecomm.ord >= sts[r])
      BY <1>1, <2>4, SMT
    <2>6. decomm.rack = r /\ decomm.ord = sts[r] - 1 /\ decomm.phase = "left"
      BY <1>1, <2>1, <2>2, <2>4, <2>5 DEF Inv, LabelledPod, EarlySteps
    <2>7. decomm = [rack |-> r, ord |-> sts[r] - 1, phase |-> "left"]
      BY <2>6 DEF Inv, TypeOK, Pod
    <2> QED BY <2>4, <2>7
  <1>4. CASE StopRack
    <2>1. pc = "stopRack" /\ sts' = [sts EXCEPT ![idx] = 0]
      BY <1>4 DEF StopRack
    <2>2. sts'[r] = 0
      BY <1>1, <2>1, SMT
    <2> QED BY <2>1, <2>2 DEF Inv, Decided, LabelledPod, EarlySteps
  <1>5. CASE ScaleRack
    <2>1. pc = "scaleRack" /\ sts' = [sts EXCEPT ![idx] = desired[idx]]
      BY <1>5 DEF ScaleRack
    <2>2. pc \in LaterSteps
      BY <2>1 DEF LaterSteps, EarlySteps, Steps
    <2>3. /\ idx \in 1..Len(sts) /\ rcSts[idx] = sts[idx]
          /\ sts[idx] \in 0..MaxSize /\ desired[idx] \in 0..MaxSize
      BY <2>2, RackRead
    <2>4. rcSts[idx] < desired[idx]
      BY <2>1 DEF Inv, Decided
    <2>5. sts'[idx] > sts[idx] /\ r = idx
      BY <1>1, <2>1, <2>3, <2>4, SMT
    <2> QED BY <1>1, <2>1, <2>3, <2>4, <2>5, SMT
  <1>6. CASE CheckRackCreation
    <2>1. sts' = Append(sts, 0)
      BY <1>2, <1>6 DEF CheckRackCreation
    <2>2. sts'[r] = sts[r]
      BY <1>1, <2>1, BoundsAssumption, SMT
    <2> QED BY <1>1, <2>2, SMT
  <1> QED BY <1>2, <1>3, <1>4, <1>5, <1>6 DEF Next, PassStep, Environment, vars,
       apiVars, passVars, BeginPass, UpdateStatus, CheckRackStoppedState,
       CheckRackScale, CheckPodsReady, DecommissionNodes,
       DecommissionNodeOnRack, CheckClearActionConditions,
       CheckConditionInitializedAndReady, SetProgressReady,
       SetProgressUpdating, Abort, PodStarts, PodTerminates, NodeLeaves, EditSpec

(* A StatefulSet shrinks only by the last pod of its rack, once its node    *)
(* has left the ring, or to zero in a datacenter reported as stopped, if    *)
(* every pass learns the pods and the state of the leaving node.            *)
THEOREM RacksAlwaysShrinkSafely ==
    ASSUME Reads = {"complete"} PROVE Spec => RacksShrinkSafely
  <1>0. "noEndpoints" \notin Reads /\ "noPods" \notin Reads
    OBVIOUS
  <1>1. Inv /\ [Next]_vars => [ShrinksSafely]_vars
    BY <1>0, StepsShrinkSafely
  <1>2. Spec => []Inv
    BY <1>0, InvAlways
  <1> QED BY <1>1, <1>2, PTL DEF Spec, RacksShrinkSafely

-----------------------------------------------------------------------------
(* The passes implement RackCapacity, step by step: the writes of replicas  *)
(* and the node that is told to leave are steps of it, everything else      *)
(* leaves the replicas and the leaving node alone.                          *)
LEMMA StepsImplementCapacity ==
    ASSUME "noEndpoints" \notin Reads
    PROVE  Inv /\ [Next]_vars => [Capacity!Next]_<<sts, decomm>>
  <1> SUFFICES ASSUME Inv, [Next]_vars PROVE [Capacity!Next]_<<sts, decomm>>
    OBVIOUS
  <1> USE DEF Capacity!Next
  <1>0. Capacity!Nobody = None
    BY DEF Capacity!Nobody, None
  <1>1. sts \in Seq(0..MaxSize) /\ DOMAIN sts = 1..Len(sts)
    BY LenProperties DEF Inv, TypeOK
  <1>2. CASE CheckDecommissioningNodes
    <2>1. decomm' = decomm
      BY <1>2 DEF CheckDecommissioningNodes
    <2>2. ASSUME sts' # sts PROVE Capacity!Remove
      <3>1. /\ pc = "decommissioning" /\ rcDecomm # None /\ RemovableFromSts
            /\ sts' = [sts EXCEPT ![rcDecomm.rack] = rcSts[rcDecomm.rack] - 1]
        BY <1>2, <2>2 DEF CheckDecommissioningNodes, NoPodDecommissioning
      <3>2. rcDecomm.rack \in DOMAIN sts
        <4>1. rcDecomm.rack \notin DOMAIN sts => sts' = sts
          BY <1>1, <3>1, SMT
        <4> QED BY <2>2, <4>1
      <3> DEFINE r == rcDecomm.rack
      <3>3. r \in 1..Len(sts) /\ sts[r] \in 0..MaxSize /\ rcSts[r] = sts[r]
        BY <1>1, <3>1, <3>2, RackRead, ElementOfSeq
      <3>4. rcDecomm.ord = sts[r] - 1 /\ rcDecomm.phase = "left"
        BY <3>1, <3>3 DEF RemovableFromSts
      <3>5. ~(rcDecomm.ord >= sts[r])
        BY <3>3, <3>4, SMT
      <3>6. decomm.rack = r /\ decomm.ord = sts[r] - 1 /\ decomm.phase = "left"
        BY <3>1, <3>3, <3>4, <3>5 DEF Inv, LabelledPod, EarlySteps
      <3> QED BY <2>1, <3>1, <3>3, <3>6 DEF Capacity!Remove
    <2> QED BY <2>1, <2>2
  <1>3. CASE StopRack
    <2>1. pc = "stopRack" /\ sts' = [sts EXCEPT ![idx] = 0] /\ decomm' = decomm
      BY <1>3 DEF StopRack
    <2>2. decomm = None
      BY <2>1 DEF Inv, LabelledPod, EarlySteps
    <2>3. CASE idx \in DOMAIN sts
      BY <1>0, <2>1, <2>2, <2>3 DEF Capacity!Stop
    <2>4. CASE idx \notin DOMAIN sts
      BY <1>1, <2>1, <2>4, SMT
    <2> QED BY <2>3, <2>4
  <1>4. CASE ScaleRack
    <2>1. /\ pc = "scaleRack" /\ sts' = [sts EXCEPT ![idx] = desired[idx]]
          /\ decomm' = decomm
      BY <1>4 DEF ScaleRack
    <2>2. pc \in LaterSteps
      BY <2>1 DEF LaterSteps, EarlySteps, Steps
    <2>3. /\ idx \in 1..Len(sts) /\ rcSts[idx] = sts[idx]
          /\ sts[idx] \in 0..MaxSize /\ desired[idx] \in 0..MaxSize
      BY <2>2, RackRead
    <2>4. rcSts[idx] < desired[idx] /\ decomm = None
      BY <2>1 DEF Inv, Decided, LabelledPod, EarlySteps
    <2>5. sts'[idx] = desired[idx]
      BY <1>1, <2>1, <2>3
    <2>6. sts'[idx] > sts[idx] /\ sts' = [sts EXCEPT ![idx] = sts'[idx]]
      BY <2>1, <2>3, <2>4, <2>5
    <2> QED BY <1>0, <1>1, <2>1, <2>3, <2>4, <2>6 DEF Capacity!Grow
  <1>5. CASE CheckRackCreation
    BY <1>5 DEF CheckRackCreation, Capacity!AddRack
  <1>6. CASE NodeLeaves
    BY <1>6 DEF NodeLeaves, Capacity!Left
  <1>7. CASE PodTerminates
    <2>1. sts' = sts
      BY <1>7 DEF PodTerminates
    <2>2. ASSUME decomm' # decomm PROVE Capacity!Gone
      <3>1. PICK r \in DOMAIN sts : decomm.rack = r /\ decomm.ord >= sts[r] /\ decomm' = None
        BY <1>7, <2>2 DEF PodTerminates
      <3> QED BY <1>0, <2>1, <2>2, <3>1 DEF Capacity!Gone
    <2> QED BY <2>1, <2>2
  <1>8. CASE DecommissionNodeOnRack
    <2>1. pc = "decommissionOnRack" /\ sts' = sts
      BY <1>8 DEF DecommissionNodeOnRack
    <2>2. pc \in LaterSteps /\ decomm = None
      BY <2>1 DEF LaterSteps, EarlySteps, Steps, Inv, LabelledPod
    <2>3. idx \in 1..Len(sts) /\ rcSts[idx] = sts[idx]
      BY <2>2, RackRead
    <2>4. ASSUME decomm' # decomm PROVE Capacity!Leave
      <3>1. /\ rcSts[idx] > 0
            /\ decomm' = [rack |-> idx, ord |-> rcSts[idx] - 1, phase |-> "leaving"]
        BY <1>8, <2>4 DEF DecommissionNodeOnRack
      <3> QED BY <1>0, <1>1, <2>1, <2>2, <2>3, <3>1 DEF Capacity!Leave
    <2> QED BY <2>1, <2>4
  <1> QED BY <1>2, <1>3, <1>4, <1>5, <1>6, <1>7, <1>8 DEF Next, PassStep, Environment,
       vars, apiVars, passVars, BeginPass, UpdateStatus, CheckRackStoppedState,
       CheckRackScale, CheckPodsReady, DecommissionNodes,
       CheckClearActionConditions, CheckConditionInitializedAndReady,
       SetProgressReady, SetProgressUpdating, Abort, PodStarts, EditSpec

(* The scaling of racks keeps the promise of RackCapacity, with any number  *)
(* of racks, nodes, edits and cut-short passes, if every pass learns the    *)
(* pods and the state of the leaving node.                                  *)
THEOREM ScalingImplementsCapacity ==
    ASSUME Reads = {"complete"} PROVE Spec => ImplementsCapacity
  <1>0. "noEndpoints" \notin Reads /\ "noPods" \notin Reads
    OBVIOUS
  <1>1. Init => Capacity!Init
    <2> SUFFICES ASSUME Init PROVE sts \in Seq(Nat) /\ decomm = Capacity!Nobody
      BY DEF Capacity!Init
    <2>1. sts \in Seq(0..MaxSize)
      BY InitInv DEF Inv, TypeOK
    <2>2. sts \in Seq(Nat)
      BY <2>1, BoundsAssumption, SMT
    <2> QED BY <2>2 DEF Init, Capacity!Nobody, None
  <1>2. Inv /\ [Next]_vars => [Capacity!Next]_<<sts, decomm>>
    BY <1>0, StepsImplementCapacity
  <1>3. Spec => []Inv
    BY <1>0, InvAlways
  <1> QED BY <1>1, <1>2, <1>3, PTL DEF Spec, ImplementsCapacity, Capacity!Spec,
       Capacity!capacity
-----------------------------------------------------------------------------
(* What the passes leave of the racks: where a node is taken from another   *)
(* stays, and past CheckRackScale every rack has its share.                 *)

PastScale ==
    {"podsReady", "decommissionNodes", "decommissionOnRack", "clearConditions",
     "conditionReady", "progressReady"}

SharesGiven ==
    /\ pc \in {"rackScale", "scaleRack"} =>
          \A r \in 1..Len(desired) : r < idx => rcSts[r] >= desired[r]
    /\ pc \in PastScale =>
          \A r \in 1..Len(desired) : rcSts[r] >= desired[r]

NodesInv ==
    /\ pc # "idle" => Len(desired) <= rcDc.racks
    /\ decomm # None => decomm.ord >= 1
    /\ rcDecomm # None => rcDecomm.ord >= 1
    /\ pc = "decommissionOnRack" => rcSts[idx] >= 2
    /\ pc = "conditionReady" /\ rcDc.conds["Stopped"] = "False" => ~rcDc.stopped
    /\ SharesGiven

-----------------------------------------------------------------------------
(* The sum of the racks.  Total is a recursive function of the length; that *)
(* it adds up is shown by induction, with the set of the lengths for which  *)
(* a fact holds in the place of the fact.                                   *)

LEMMA SetInduction ==
    ASSUME NEW S, 0 \in S, \A k \in Nat : k \in S => k + 1 \in S
    PROVE  \A k \in Nat : k \in S
  <1> DEFINE T == Nat \ S
  <1>1. SUFFICES ASSUME T # {}
                 PROVE  FALSE
    OBVIOUS
  <1>2. T \subseteq Nat
    OBVIOUS
  <1>3. PICK x \in T : \A y \in T : <<y, x>> \notin OpToRel(<, Nat)
    BY <1>1, <1>2, WFMin, NatLessThanWellFounded
  <1>4. \A y \in T : ~(y < x)
    BY <1>3 DEF OpToRel
  <1>5. x \in Nat /\ x # 0 /\ x - 1 \in Nat /\ x - 1 < x /\ x = (x - 1) + 1
    BY SMT
  <1>6. x - 1 \in S
    BY <1>4, <1>5
  <1> QED
    BY <1>5, <1>6

(* The sums of the first racks.                                             *)
Sums(s) == CHOOSE t : t = [n \in 0..Len(s) |-> IF n = 0 THEN 0 ELSE t[n - 1] + s[n]]

LEMMA TotalIs ==
    ASSUME NEW s
    PROVE  Total(s) = Sums(s)[Len(s)]
  BY DEF Total, Sums

LEMMA SumsAre ==
    ASSUME NEW s \in Seq(Nat)
    PROVE  /\ Sums(s) = [n \in 0..Len(s) |-> IF n = 0 THEN 0 ELSE Sums(s)[n - 1] + s[n]]
           /\ Sums(s) \in [0..Len(s) -> Nat]
  <1> DEFINE IsSum(t, m) == /\ t \in [0..m -> Nat] /\ t[0] = 0
                            /\ \A n \in 1..m : t[n] = t[n - 1] + s[n]
             Has(m) == \E t \in [0..m -> Nat] : IsSum(t, m)
             S == {m \in Nat : m <= Len(s) => Has(m)}
  <1>1. Len(s) \in Nat /\ \A n \in 1..Len(s) : s[n] \in Nat
    BY SMT
  <1>2. Has(0)
    <2> DEFINE z == [n \in 0..0 |-> 0]
    <2>1. 0 \in 0..0 /\ \A n \in 1..0 : FALSE
      BY SMT
    <2>2. z \in [0..0 -> Nat] /\ z[0] = 0
      BY <2>1
    <2>3. IsSum(z, 0)
      BY <2>1, <2>2
    <2> HIDE DEF z
    <2> QED
      BY <2>2, <2>3
  <1>3. ASSUME NEW k \in Nat, k + 1 <= Len(s), Has(k)
        PROVE  Has(k + 1)
    <2>1. PICK t \in [0..k -> Nat] : IsSum(t, k)
      BY <1>3
    <2> DEFINE u == [n \in 0..(k + 1) |-> IF n = k + 1 THEN t[k] + s[k + 1] ELSE t[n]]
    <2>2. s[k + 1] \in Nat /\ t[k] \in Nat
      BY <1>1, <1>3, SMT
    <2>3. u \in [0..(k + 1) -> Nat]
      BY <2>2, SMT
    <2>4. u[0] = 0
      BY <2>1, SMT
    <2>5. \A n \in 1..(k + 1) : u[n] = u[n - 1] + s[n]
      <3> TAKE n \in 1..(k + 1)
      <3>1. CASE n = k + 1
        BY <3>1, SMT
      <3>2. CASE n # k + 1
        <4>1. n \in 1..k /\ n \in 0..(k + 1) /\ n - 1 \in 0..(k + 1) /\ n - 1 # k + 1
          BY <3>2, SMT
        <4>2. u[n] = t[n] /\ u[n - 1] = t[n - 1]
          BY <3>2, <4>1
        <4> QED
          BY <2>1, <4>1, <4>2
      <3> QED
        BY <3>1, <3>2
    <2> HIDE DEF u
    <2> QED
      BY <2>3, <2>4, <2>5
  <1>4. Has(Len(s))
    <2> HIDE DEF Has
    <2>1. 0 \in S
      BY <1>2
    <2>2. \A k \in Nat : k \in S => k + 1 \in S
      BY <1>1, <1>3, SMT
    <2>3. Len(s) \in S
      <3> HIDE DEF S
      <3> QED
        BY <1>1, <2>1, <2>2, SetInduction
    <2> QED
      BY <1>1, <2>3, SMT
  <1>5. PICK t \in [0..Len(s) -> Nat] : IsSum(t, Len(s))
    BY <1>1, <1>4
  <1> DEFINE Step(x) == [n \in 0..Len(s) |-> IF n = 0 THEN 0 ELSE x[n - 1] + s[n]]
  <1>6. t = Step(t)
    <2>1. \A n \in 0..Len(s) : t[n] = IF n = 0 THEN 0 ELSE t[n - 1] + s[n]
      BY <1>1, <1>5, SMT
    <2> QED
      BY <2>1
  <1>7. Sums(s) = Step(Sums(s))
    BY <1>6 DEF Sums
  <1> DEFINE v == Sums(s)
             W == {m \in Nat : m <= Len(s) => v[m] \in Nat}
  <1>8. v = Step(v)
    BY <1>7
  <1> HIDE DEF v
  <1>9. \A n \in 0..Len(s) : v[n] = IF n = 0 THEN 0 ELSE v[n - 1] + s[n]
    BY <1>8
  <1>10. 0 \in W
    BY <1>1, <1>9, SMT
  <1>11. ASSUME NEW k \in Nat, k \in W
         PROVE  k + 1 \in W
    <2>1. SUFFICES ASSUME k + 1 <= Len(s)
                   PROVE  v[k + 1] \in Nat
      BY SMT
    <2>2. k + 1 \in 0..Len(s) /\ k + 1 # 0 /\ (k + 1) - 1 = k /\ k <= Len(s)
      BY <1>1, <2>1, SMT
    <2>3. v[k + 1] = v[k] + s[k + 1]
      BY <1>9, <2>2
    <2>4. v[k] \in Nat /\ s[k + 1] \in Nat
      BY <1>1, <1>11, <2>2, SMT
    <2> QED
      BY <2>3, <2>4, SMT
  <1>12. \A k \in Nat : k \in W
    <2> HIDE DEF W
    <2> QED
      BY <1>10, <1>11, SetInduction
  <1>13. \A n \in 0..Len(s) : v[n] \in Nat
    <2> SUFFICES ASSUME NEW n \in 0..Len(s) PROVE v[n] \in Nat
      OBVIOUS
    <2>1. n \in Nat /\ n <= Len(s)
      BY <1>1, SMT
    <2>2. n \in W
      BY <1>12, <2>1
    <2> QED
      BY <2>1, <2>2
  <1>14. v \in [0..Len(s) -> Nat]
    BY <1>8, <1>13
  <1> QED
    BY <1>7, <1>14 DEF v

(* The sums start at zero and grow by one rack at a time.                   *)
LEMMA SumsGrow ==
    ASSUME NEW s \in Seq(Nat)
    PROVE  /\ Sums(s)[0] = 0 /\ \A n \in 0..Len(s) : Sums(s)[n] \in Nat
           /\ \A k \in Nat : k + 1 <= Len(s) =>
                 /\ s[k + 1] \in Nat /\ Sums(s)[k] \in Nat
                 /\ Sums(s)[k + 1] = Sums(s)[k] + s[k + 1]
  <1> DEFINE v == Sums(s)
  <1>1. /\ v = [n \in 0..Len(s) |-> IF n = 0 THEN 0 ELSE v[n - 1] + s[n]]
        /\ v \in [0..Len(s) -> Nat]
    BY SumsAre
  <1> HIDE DEF v
  <1>2. Len(s) \in Nat /\ \A n \in 1..Len(s) : s[n] \in Nat
    BY SMT
  <1>3. \A n \in 0..Len(s) : v[n] = IF n = 0 THEN 0 ELSE v[n - 1] + s[n]
    BY <1>1
  <1>4. v[0] = 0 /\ \A n \in 0..Len(s) : v[n] \in Nat
    <2>1. 0 \in 0..Len(s)
      BY <1>2, SMT
    <2>2. v[0] = 0
      BY <1>3, <2>1
    <2>3. \A n \in 0..Len(s) : v[n] \in Nat
      <3>1. v \in [0..Len(s) -> Nat]
        BY <1>1
      <3> QED
        BY <3>1
    <2> QED
      BY <2>2, <2>3
  <1>5. ASSUME NEW k \in Nat, k + 1 <= Len(s)
        PROVE  /\ s[k + 1] \in Nat /\ v[k] \in Nat
               /\ v[k + 1] = v[k] + s[k + 1]
    <2>1. k + 1 \in 0..Len(s) /\ k + 1 \in 1..Len(s) /\ k \in 0..Len(s) /\ k + 1 # 0
          /\ (k + 1) - 1 = k
      BY <1>2, <1>5, SMT
    <2> QED
      BY <1>2, <1>3, <1>4, <2>1
  <1> QED
    BY <1>4, <1>5 DEF v

LEMMA TotalNat ==
    ASSUME NEW s \in Seq(Nat)
    PROVE  Total(s) \in Nat
  <1>1. Len(s) \in 0..Len(s)
    BY SMT
  <1> QED
    BY <1>1, SumsGrow, TotalIs

(* No nodes in all are no nodes in any rack.                                *)
LEMMA TotalZero ==
    ASSUME NEW s \in Seq(Nat)
    PROVE  Total(s) = 0 <=> \A i \in 1..Len(s) : s[i] = 0
  <1> DEFINE v == Sums(s)
             None0(m) == \A i \in 1..m : s[i] = 0
             W == {m \in Nat : m <= Len(s) => (v[m] = 0 <=> None0(m))}
  <1>1. 0 \in W
    BY SumsGrow, SMT
  <1>2. ASSUME NEW k \in Nat, k + 1 <= Len(s), v[k] = 0 <=> None0(k)
        PROVE  v[k + 1] = 0 <=> None0(k + 1)
    <2>1. v[k + 1] = v[k] + s[k + 1] /\ s[k + 1] \in Nat /\ v[k] \in Nat
      BY <1>2, SumsGrow
    <2>2. None0(k + 1) <=> None0(k) /\ s[k + 1] = 0
      BY SMT
    <2> HIDE DEF None0, v
    <2> QED
      BY <1>2, <2>1, <2>2, SMT
  <1>3. \A k \in Nat : k \in W => k + 1 \in W
    <2> HIDE DEF v, None0
    <2>1. Len(s) \in Nat
      BY SMT
    <2> QED
      BY <1>2, <2>1, SMT
  <1>4. Len(s) \in Nat
    BY SMT
  <1>5. Len(s) \in W
    <2> HIDE DEF W
    <2> QED
      BY <1>1, <1>3, <1>4, SetInduction
  <1> QED
    BY <1>4, <1>5, TotalIs, SMT

(* Where no rack has more, there are no more nodes in all.                  *)
LEMMA TotalMonotone ==
    ASSUME NEW s \in Seq(Nat), NEW t \in Seq(Nat), Len(s) <= Len(t),
           \A i \in 1..Len(s) : s[i] <= t[i]
    PROVE  Total(s) <= Total(t)
  <1> DEFINE v == Sums(s)
             w == Sums(t)
             A == {m \in Nat : m <= Len(s) => v[m] <= w[m]}
             B == {m \in Nat : Len(s) + m <= Len(t) => w[Len(s)] <= w[Len(s) + m]}
  <1>1. /\ v[0] = 0 /\ \A k \in Nat : k + 1 <= Len(s) =>
              s[k + 1] \in Nat /\ v[k] \in Nat /\ v[k + 1] = v[k] + s[k + 1]
    BY SumsGrow
  <1>2. /\ w[0] = 0 /\ \A n \in 0..Len(t) : w[n] \in Nat
        /\ \A k \in Nat : k + 1 <= Len(t) =>
              t[k + 1] \in Nat /\ w[k] \in Nat /\ w[k + 1] = w[k] + t[k + 1]
    BY SumsGrow
  <1>3. Len(s) \in Nat /\ Len(t) \in Nat
    BY SMT
  <1>4. Total(s) = v[Len(s)] /\ Total(t) = w[Len(t)]
    BY TotalIs
  <1> HIDE DEF v, w
  <1>5. 0 \in A
    BY <1>1, <1>2, SMT
  <1>6. ASSUME NEW k \in Nat, k \in A
        PROVE  k + 1 \in A
    <2> SUFFICES ASSUME k + 1 <= Len(s)
                 PROVE  v[k + 1] <= w[k + 1]
      BY SMT
    <2>1. k <= Len(s) /\ k + 1 <= Len(t) /\ k + 1 \in 1..Len(s)
      BY <1>3, SMT
    <2>2. v[k] <= w[k] /\ s[k + 1] <= t[k + 1]
      BY <1>6, <2>1
    <2>3. v[k] \in Nat /\ s[k + 1] \in Nat /\ v[k + 1] = v[k] + s[k + 1]
      BY <1>1
    <2>4. w[k] \in Nat /\ t[k + 1] \in Nat /\ w[k + 1] = w[k] + t[k + 1]
      BY <1>2, <2>1
    <2>5. \A a, b, c, d \in Nat : a <= b /\ c <= d => a + c <= b + d
      BY SMT
    <2> QED
      BY <2>2, <2>3, <2>4, <2>5
  <1>7. v[Len(s)] <= w[Len(s)]
    <2>1. Len(s) \in A
      <3> HIDE DEF A
      <3> QED
        BY <1>3, <1>5, <1>6, SetInduction
    <2> QED
      BY <1>3, <2>1, SMT
  <1>8. 0 \in B
    <2>1. w[Len(s)] \in Nat /\ Len(s) + 0 = Len(s)
      BY <1>2, <1>3, SMT
    <2> QED
      BY <2>1, SMT
  <1>9. ASSUME NEW k \in Nat, k \in B
        PROVE  k + 1 \in B
    <2> SUFFICES ASSUME Len(s) + (k + 1) <= Len(t)
                 PROVE  w[Len(s)] <= w[Len(s) + (k + 1)]
      BY SMT
    <2> DEFINE n == Len(s) + k
    <2>1. n \in Nat /\ n + 1 <= Len(t) /\ n <= Len(t) /\ Len(s) + (k + 1) = n + 1
      BY <1>3, SMT
    <2>2. w[Len(s)] <= w[n]
      BY <1>9, <2>1
    <2>3. w[n + 1] = w[n] + t[n + 1] /\ w[n] \in Nat /\ t[n + 1] \in Nat
      BY <1>2, <2>1
    <2>4. w[Len(s)] \in Nat
      BY <1>2, <1>3, SMT
    <2> HIDE DEF n
    <2> QED
      BY <2>1, <2>2, <2>3, <2>4, SMT
  <1>10. w[Len(s)] <= w[Len(t)]
    <2>1. Len(t) - Len(s) \in Nat /\ Len(s) + (Len(t) - Len(s)) = Len(t)
      BY <1>3, SMT
    <2>2. Len(t) - Len(s) \in B
      <3> HIDE DEF B
      <3> QED
        BY <1>8, <1>9, <2>1, SetInduction
    <2> QED
      BY <1>3, <2>1, <2>2, SMT
  <1>11. v[Len(s)] \in Nat /\ w[Len(s)] \in Nat /\ w[Len(t)] \in Nat
    <2>1. v[Len(s)] \in Nat
      BY <1>3, SumsGrow, SMT DEF v
    <2> QED
      BY <1>2, <1>3, <2>1, SMT
  <1> QED
    BY <1>4, <1>7, <1>10, <1>11, SMT

(* SplitRacks gives every rack a node when there are as many nodes as racks.*)
LEMMA SplitNodes ==
    ASSUME NEW n \in Nat, NEW r \in Nat \ {0}, r <= n, NEW i \in 1..r
    PROVE  SplitRacks(n, r)[i] \in 1..n
  <1> DEFINE q == n \div r  e == n % r
  <1>1. q \in Nat /\ e \in 0..(r - 1) /\ n = r * q + e
    BY SMT
  <1>2. SplitRacks(n, r)[i] = q + (IF i <= e THEN 1 ELSE 0)
    BY DEF SplitRacks
  <1> HIDE DEF q, e
  <1>3. q # 0
    BY <1>1, SMT
  <1>4. r * q = (r - 1) * q + q /\ (r - 1) * q \in Nat
    BY <1>1, SMT
  <1> QED BY <1>1, <1>2, <1>3, <1>4, SMT

(* No rack gets fewer nodes when there are more nodes to place.             *)
LEMMA SplitMonotone ==
    ASSUME NEW n \in Nat, NEW m \in Nat, n <= m,
           NEW r \in Nat \ {0}, NEW i \in 1..r
    PROVE  SplitRacks(n, r)[i] <= SplitRacks(m, r)[i]
  <1> DEFINE q == n \div r  e == n % r  p == m \div r  d == m % r
  <1>1. q \in Nat /\ e \in 0..(r - 1) /\ n = r * q + e
    BY SMT
  <1>2. p \in Nat /\ d \in 0..(r - 1) /\ m = r * p + d
    BY SMT
  <1>3. /\ SplitRacks(n, r)[i] = q + (IF i <= e THEN 1 ELSE 0)
        /\ SplitRacks(m, r)[i] = p + (IF i <= d THEN 1 ELSE 0)
    BY SplitValue
  <1> HIDE DEF q, e, p, d
  <1>4. q <= p
    <2>1. SUFFICES ASSUME p < q PROVE FALSE
      BY <1>1, <1>2, SMT
    <2>2. q - p - 1 \in Nat /\ r * q = r * p + r + r * (q - p - 1)
      BY <1>1, <1>2, <2>1, SMT
    <2>3. r * (q - p - 1) \in Nat /\ r * p \in Nat
      BY <1>2, <2>2, SMT
    <2> QED BY <1>1, <1>2, <2>2, <2>3, SMT
  <1>5. CASE q = p
    BY <1>1, <1>2, <1>3, <1>5, SMT
  <1>6. CASE q < p
    BY <1>1, <1>2, <1>3, <1>6, SMT
  <1> QED BY <1>1, <1>2, <1>4, <1>5, <1>6, SMT

(* DecommissionNodes takes a node only from a rack that is above its share  *)
(* of a datacenter one node smaller.  Such a rack keeps its share of any    *)
(* size below the current one, however uneven the racks are.                *)
THEOREM DecommissionKeepsRackShare ==
    ASSUME NEW currentSize \in Nat, NEW specSize \in Nat, specSize < currentSize,
           NEW rackCount \in Nat \ {0}, NEW r \in 1..rackCount,
           NEW replicas \in Nat,
           replicas > RackInfoForDecomm(currentSize, rackCount)[r]
    PROVE  replicas - 1 >= SplitRacks(specSize, rackCount)[r]
  <1>1. currentSize - 1 \in Nat /\ specSize <= currentSize - 1
    BY SMT
  <1>2. SplitRacks(specSize, rackCount)[r]
          <= SplitRacks(currentSize - 1, rackCount)[r]
    BY <1>1, SplitMonotone
  <1>3. /\ SplitRacks(specSize, rackCount)[r] \in Nat
        /\ SplitRacks(currentSize - 1, rackCount)[r] \in Nat
    BY <1>1, SplitValue
  <1> QED BY <1>2, <1>3, SMT DEF RackInfoForDecomm

(* SplitRacks spreads all the nodes.                                        *)
LEMMA SplitTotal ==
    ASSUME NEW n \in Nat, NEW r \in Nat \ {0}
    PROVE  /\ SplitRacks(n, r) \in Seq(Nat) /\ Len(SplitRacks(n, r)) = r
           /\ Total(SplitRacks(n, r)) = n
  <1> DEFINE q == n \div r
             e == n % r
             s == SplitRacks(n, r)
             v == Sums(s)
             Sum(m) == m * q + (IF m <= e THEN m ELSE e)
             W == {m \in Nat : m <= r => v[m] = Sum(m)}
  <1>1. q \in Nat /\ e \in 0..(r - 1) /\ n = r * q + e
    BY SMT
  <1>2. \A i \in 1..r : s[i] = q + (IF i <= e THEN 1 ELSE 0) /\ s[i] \in Nat
    BY SplitValue
  <1>3. s \in Seq(Nat) /\ Len(s) = r
    <2>1. s \in [1..r -> Nat]
      BY <1>2 DEF SplitRacks
    <2> QED
      BY <2>1, FunctionIsSeq
  <1> HIDE DEF q, e, s
  <1>4. /\ v[0] = 0
        /\ \A k \in Nat : k + 1 <= r => v[k] \in Nat /\ v[k + 1] = v[k] + s[k + 1]
    BY <1>3, SumsGrow
  <1> HIDE DEF v
  <1>5. Sum(0) = 0
    <2>1. 0 * q = 0
      BY <1>1, SMT
    <2> QED
      BY <1>1, <2>1, SMT
  <1>6. \A k \in Nat : k + 1 <= r => Sum(k + 1) = Sum(k) + s[k + 1]
    <2> TAKE k \in Nat
    <2> HAVE k + 1 <= r
    <2>1. (k + 1) * q = k * q + q /\ k * q \in Nat
      BY <1>1, SMT
    <2>2. s[k + 1] = q + (IF k + 1 <= e THEN 1 ELSE 0)
      BY <1>2, SMT
    <2>3. \A a, b \in Nat : a = b + q => a + (IF k + 1 <= e THEN k + 1 ELSE e)
               = (b + (IF k <= e THEN k ELSE e)) + (q + (IF k + 1 <= e THEN 1 ELSE 0))
      BY <1>1, SMT
    <2>4. (k + 1) * q \in Nat
      BY <1>1, SMT
    <2> QED
      BY <2>1, <2>2, <2>3, <2>4, SMT
  <1> HIDE DEF Sum
  <1>7. 0 \in W
    BY <1>4, <1>5
  <1>8. \A k \in Nat : k \in W => k + 1 \in W
    BY <1>4, <1>6, SMT
  <1>9. r \in W
    <2> HIDE DEF W
    <2> QED
      BY <1>7, <1>8, SetInduction
  <1>10. Sum(r) = n
    BY <1>1, SMT DEF Sum
  <1>11. Total(s) = v[r]
    BY <1>3, TotalIs DEF v
  <1> QED
    BY <1>3, <1>9, <1>10, <1>11, SMT DEF s
-----------------------------------------------------------------------------
(* The steps keep NodesInv.                                                 *)

LEMMA LengthsAre ==
    ASSUME Inv
    PROVE  /\ Len(desired) \in Nat /\ Len(rcSts) \in Nat /\ idx \in Nat
           /\ dc.racks \in Nat /\ rcDc.racks \in Nat /\ dc \in Datacenter
           /\ decomm.ord \in Nat /\ rcDecomm.ord \in Nat
  <1>1. desired \in Seq(0..MaxSize) /\ rcSts \in Seq(0..MaxSize) /\ idx \in 1..MaxRacks
    BY DEF Inv, TypeOK
  <1>2. dc \in Datacenter /\ rcDc \in Datacenter /\ decomm \in Pod /\ rcDecomm \in Pod
    BY DEF Inv, TypeOK
  <1>3. dc.racks \in 1..MaxRacks /\ rcDc.racks \in 1..MaxRacks
    BY <1>2, DatacenterFields
  <1>4. decomm.ord \in 0..MaxSize /\ rcDecomm.ord \in 0..MaxSize
    BY <1>2, PodFields
  <1> QED
    BY <1>1, <1>2, <1>3, <1>4, BoundsAssumption, SMT

LEMMA EndKeepsNodes ==
    ASSUME EndPass, decomm' # None => decomm'.ord >= 1
    PROVE  NodesInv'
  BY DEF EndPass, NodesInv, SharesGiven, PastScale, None

(* A patch leaves the pass with at least the racks it began with.           *)
LEMMA PatchKeepsRacks ==
    ASSUME Inv, NodesInv, pc # "idle", NEW c, PatchConditions(c)
    PROVE  Len(desired) <= rcDc'.racks
  <1>1. CASE rcDc' = rcDc
    BY <1>1 DEF NodesInv
  <1>2. CASE rcDc' = [dc EXCEPT !.conds = c]
    <2>1. rcDc'.racks = dc.racks
      BY <1>2, LengthsAre DEF Datacenter
    <2> QED
      BY <2>1 DEF Inv, RacksInSpec
  <1> QED
    BY <1>1, <1>2 DEF PatchConditions

(* A step that goes on from one check to the next.                          *)
LEMMA GotoKeepsNodes ==
    ASSUME Inv, NodesInv, pc # "idle", NEW step, Goto(step), UNCHANGED decomm,
           Len(desired) <= rcDc'.racks, step \notin {"decommissionOnRack", "conditionReady"},
           \/ step \in PastScale /\ pc \in PastScale
           \/ step = "scaleRack" /\ pc = "rackScale"
           \/ step \notin PastScale \cup {"rackScale", "scaleRack"}
    PROVE  NodesInv'
  <1>1. /\ pc' = step
        /\ UNCHANGED <<desired, rcSts, rcUp, rcDecomm, idx, touched>>
    BY DEF Goto
  <1>2. SharesGiven'
    BY <1>1 DEF NodesInv, SharesGiven, PastScale
  <1> QED
    BY <1>1, <1>2 DEF NodesInv

LEMMA EnvironmentKeepsNodes ==
    ASSUME Inv, NodesInv, EditSpec \/ Environment
    PROVE  NodesInv'
  <1> DEFINE left == [decomm EXCEPT !.phase = "left"]
  <1>1. decomm \in Pod
    BY DEF Inv, TypeOK
  <1>2. left.ord = decomm.ord
    BY <1>1, PodFields
  <1>3. /\ UNCHANGED <<pc, rcDc, desired, rcSts, rcUp, rcDecomm, idx>>
        /\ \/ decomm' = decomm \/ decomm' = None
           \/ decomm.phase = "leaving" /\ decomm' = left
    BY DEF EditSpec, Environment, PodStarts, PodTerminates, NodeLeaves, passVars
  <1> HIDE DEF left
  <1>4. decomm.phase = "leaving" => decomm # None
    BY NoneIsPod
  <1>5. decomm' # None => decomm'.ord >= 1
    BY <1>2, <1>3, <1>4 DEF NodesInv
  <1> QED
    BY <1>3, <1>5 DEF NodesInv, SharesGiven

LEMMA BeginPassKeepsNodes ==
    ASSUME Inv, NodesInv, BeginPass
    PROVE  NodesInv'
  <1>1. /\ pc' = "updateStatus" /\ rcDc' = dc /\ UNCHANGED <<decomm, rcSts, idx>>
        /\ desired' = [r \in 1..dc.racks |->
                         RackInformation(dc.size, dc.racks, dc.stopped)[r].nodes]
        /\ \E reads \in Reads : rcDecomm' = SeenDecomm(reads)
    BY DEF BeginPass, apiVars
  <1>2. Len(desired') <= rcDc'.racks
    <2>1. dc.racks \in Nat
      BY LengthsAre
    <2>2. Len(desired') = dc.racks
      BY <1>1, <2>1, SMT
    <2> QED
      BY <1>1, <2>1, <2>2, SMT
  <1>3. rcDecomm' # None => rcDecomm'.ord >= 1
    <2>1. decomm \in Pod
      BY DEF Inv, TypeOK
    <2>2. [decomm EXCEPT !.phase = "left"].ord = decomm.ord
      BY <2>1, PodFields
    <2>3. \/ rcDecomm' = None \/ rcDecomm' = decomm
          \/ decomm # None /\ rcDecomm' = [decomm EXCEPT !.phase = "left"]
      BY <1>1 DEF SeenDecomm
    <2> QED
      BY <2>2, <2>3 DEF NodesInv
  <1> QED
    BY <1>1, <1>2, <1>3 DEF NodesInv, SharesGiven, PastScale

LEMMA UpdateStatusKeepsNodes ==
    ASSUME Inv, NodesInv, UpdateStatus
    PROVE  NodesInv'
  <1>1. /\ pc = "updateStatus" /\ rcDc' \in {rcDc, dc} /\ Goto("rackCreation")
        /\ UNCHANGED decomm
    BY DEF UpdateStatus, apiVars
  <1>2. Len(desired) <= rcDc'.racks
    BY <1>1 DEF Inv, RacksInSpec, NodesInv
  <1> QED
    BY <1>1, <1>2, GotoKeepsNodes DEF PastScale

LEMMA CheckRackCreationKeepsNodes ==
    ASSUME Inv, NodesInv, CheckRackCreation
    PROVE  NodesInv'
  <1>1. /\ pc = "rackCreation" /\ pc' \in {"rackCreation", "decommissioning"}
        /\ UNCHANGED <<decomm, rcDc, desired, rcDecomm>>
    BY DEF CheckRackCreation, NextRack
  <1> QED
    BY <1>1 DEF NodesInv, SharesGiven, PastScale

LEMMA CheckDecommissioningNodesKeepsNodes ==
    ASSUME Inv, NodesInv, CheckDecommissioningNodes
    PROVE  NodesInv'
  <1>1. CASE EndPass
    BY <1>1, EndKeepsNodes DEF CheckDecommissioningNodes, NodesInv
  <1>2. CASE ~EndPass
    <2>1. /\ pc = "decommissioning" /\ Goto("stoppedState") /\ UNCHANGED decomm
          /\ \/ UNCHANGED rcDc
             \/ PatchConditions([rcDc.conds EXCEPT !["ScalingDown"] = "False"])
      BY <1>2 DEF CheckDecommissioningNodes
    <2>2. Len(desired) <= rcDc'.racks
      BY <2>1, PatchKeepsRacks DEF NodesInv
    <2> QED
      BY <2>1, <2>2, GotoKeepsNodes DEF PastScale
  <1> QED
    BY <1>1, <1>2

LEMMA CheckRackStoppedStateKeepsNodes ==
    ASSUME Inv, NodesInv, CheckRackStoppedState \/ StopRack
    PROVE  NodesInv'
  <1>1. UNCHANGED decomm /\ pc \in {"stoppedState", "stopRack"}
    BY DEF CheckRackStoppedState, StopRack
  <1>2. CASE EndPass
    BY <1>1, <1>2, EndKeepsNodes DEF NodesInv
  <1>3. CASE Goto("stopRack") /\ (UNCHANGED rcDc \/ PatchConditions(StoppedConditions))
    <2>1. Len(desired) <= rcDc'.racks
      BY <1>1, <1>3, PatchKeepsRacks DEF NodesInv
    <2> QED
      BY <1>1, <1>3, <2>1, GotoKeepsNodes DEF PastScale
  <1>4. CASE /\ UNCHANGED <<rcDc, desired, rcDecomm>>
             /\ pc' = "stoppedState" \/ (pc' = "rackScale" /\ idx' = 1)
    <2>1. SharesGiven'
      <3>1. Len(desired) \in Nat
        BY LengthsAre
      <3> QED
        BY <1>4, <3>1, SMT DEF SharesGiven, PastScale
    <2> QED
      BY <1>1, <1>4, <2>1 DEF NodesInv
  <1>5. CASE StopRack /\ ~EndPass
    BY <1>4, <1>5 DEF StopRack
  <1>6. CASE CheckRackStoppedState /\ ~EndPass
    BY <1>3, <1>4, <1>6 DEF CheckRackStoppedState, NextRack
  <1> QED
    BY <1>2, <1>5, <1>6

(* The loop of CheckRackScale leaves a rack with its share.                 *)
LEMMA RackScaled ==
    ASSUME Inv, NodesInv, pc \in {"rackScale", "scaleRack"}, NextRack("rackScale", "podsReady"),
           UNCHANGED <<rcDc, decomm, desired, rcDecomm>>,
           \A r \in 1..Len(desired) : r # idx => rcSts'[r] = rcSts[r],
           rcSts'[idx] >= desired[idx]
    PROVE  NodesInv'
  <1>1. Len(desired) \in Nat /\ idx \in 1..Len(desired)
    <2>1. pc \in LaterSteps
      BY DEF LaterSteps, EarlySteps, Steps
    <2> QED
      BY <2>1, RackRead, LengthsAre
  <1>2. \A r \in 1..Len(desired) : r < idx => rcSts'[r] >= desired[r]
    BY <1>1 DEF NodesInv, SharesGiven
  <1>3. \A r \in 1..Len(desired) : r <= idx => rcSts'[r] >= desired[r]
    BY <1>1, <1>2, SMT
  <1>4. \/ pc' = "rackScale" /\ idx' = idx + 1
        \/ pc' = "podsReady" /\ idx = Len(desired)
    BY <1>1, SMT DEF NextRack
  <1>5. SharesGiven'
    BY <1>1, <1>3, <1>4, SMT DEF SharesGiven, PastScale
  <1> QED
    BY <1>4, <1>5 DEF NodesInv

LEMMA CheckRackScaleKeepsNodes ==
    ASSUME Inv, NodesInv, CheckRackScale
    PROVE  NodesInv'
  <1>1. pc = "rackScale" /\ UNCHANGED decomm
    BY DEF CheckRackScale
  <1>2. CASE BelowShare
    <2>1. Goto("scaleRack") /\ \E c : PatchConditions(c)
      BY <1>2 DEF CheckRackScale
    <2>2. Len(desired) <= rcDc'.racks
      BY <1>1, <2>1, PatchKeepsRacks
    <2> QED
      BY <1>1, <2>1, <2>2, GotoKeepsNodes DEF PastScale
  <1>3. CASE ~BelowShare
    <2>1. pc \in LaterSteps
      BY <1>1 DEF LaterSteps, EarlySteps, Steps
    <2>2. rcSts[idx] \in Nat /\ desired[idx] \in Nat
      BY <2>1, RackRead, SMT
    <2>3. /\ NextRack("rackScale", "podsReady")
          /\ UNCHANGED <<rcDc, desired, rcSts, rcDecomm>>
      BY <1>3 DEF CheckRackScale
    <2>4. rcSts'[idx] >= desired[idx]
      BY <1>3, <2>2, <2>3, SMT DEF BelowShare
    <2> QED
      BY <1>1, <2>3, <2>4, RackScaled
  <1> QED
    BY <1>2, <1>3

LEMMA ScaleRackKeepsNodes ==
    ASSUME Inv, NodesInv, ScaleRack
    PROVE  NodesInv'
  <1>1. /\ pc = "scaleRack" /\ rcSts' = [rcSts EXCEPT ![idx] = desired[idx]]
        /\ NextRack("rackScale", "podsReady")
        /\ UNCHANGED <<rcDc, decomm, desired, rcDecomm>>
    BY DEF ScaleRack
  <1>2. pc \in LaterSteps
    BY <1>1 DEF LaterSteps, EarlySteps, Steps
  <1>3. idx \in 1..Len(rcSts) /\ Len(rcSts) = Len(desired) /\ desired[idx] \in Nat
    BY <1>2, RackRead, SMT
  <1>4. rcSts \in Seq(0..MaxSize)
    BY DEF Inv, TypeOK
  <1>5. \A r \in 1..Len(desired) : rcSts'[r] = IF r = idx THEN desired[idx] ELSE rcSts[r]
    BY <1>1, <1>3, <1>4, SMT
  <1>6. rcSts'[idx] >= desired[idx]
    BY <1>3, <1>5, SMT
  <1> QED
    BY <1>1, <1>5, <1>6, RackScaled

LEMMA SizesAreNat ==
    ASSUME NEW s \in Seq(0..MaxSize)
    PROVE  s \in Seq(Nat) /\ DOMAIN s = 1..Len(s) /\ Len(s) \in Nat
  <1>1. Len(s) \in Nat /\ DOMAIN s = 1..Len(s) /\ \A i \in 1..Len(s) : s[i] \in 0..MaxSize
    BY LenProperties, ElementOfSeq
  <1>2. \A i \in 1..Len(s) : s[i] \in Nat
    BY <1>1, BoundsAssumption, SMT
  <1>3. s \in [1..Len(s) -> Nat]
    BY <1>1, <1>2, SMT
  <1> QED
    BY <1>1, <1>3, FunctionIsSeq

(* The rack that DecommissionNodes picks keeps its share, and a node.       *)
LEMMA RackPicked ==
    ASSUME Inv, NodesInv, pc = "decommissionNodes", Total(rcSts) > rcDc.size,
           ~TooFewNodes(Total(rcSts) - 1, rcDc.racks), NEW r \in RacksOver
    PROVE  /\ r \in 1..Len(desired) /\ rcSts[r] >= 2
           /\ rcSts[r] - 1 >= SplitRacks(rcDc.size, rcDc.racks)[r]
  <1>1. pc \in LaterSteps
    BY DEF LaterSteps, EarlySteps, Steps
  <1>2. rcDc.size \in 1..MaxSize /\ rcDc.racks \in 1..MaxRacks
    BY DatacenterFields DEF Inv, TypeOK
  <1>3. rcSts \in Seq(0..MaxSize) /\ Len(rcSts) = Len(desired)
    BY <1>1, RackRead DEF Inv, TypeOK
  <1>4. rcSts \in Seq(Nat) /\ DOMAIN rcSts = 1..Len(rcSts)
    BY <1>3, SizesAreNat
  <1>5. Total(rcSts) \in Nat
    BY <1>4, TotalNat
  <1>6. r \in 1..Len(rcSts) /\ rcSts[r] \in Nat
    BY <1>4, SMT DEF RacksOver
  <1>7. Len(desired) <= rcDc.racks /\ Len(desired) \in Nat
    BY LengthsAre DEF NodesInv
  <1>8. r \in 1..rcDc.racks
    BY <1>2, <1>3, <1>6, <1>7, BoundsAssumption, SMT
  <1>9. rcSts[r] > RackInfoForDecomm(Total(rcSts), rcDc.racks)[r]
    BY DEF RacksOver
  <1>10. rcDc.racks \in Nat \ {0} /\ rcDc.size \in Nat
    BY <1>2, BoundsAssumption, SMT
  <1>11. rcSts[r] - 1 >= SplitRacks(rcDc.size, rcDc.racks)[r]
    BY <1>5, <1>6, <1>8, <1>9, <1>10, DecommissionKeepsRackShare
  <1>12. rcSts[r] >= 2
    <2>1. Total(rcSts) - 1 \in Nat /\ rcDc.racks <= Total(rcSts) - 1
      BY <1>5, <1>10, SMT DEF TooFewNodes
    <2>2. SplitRacks(Total(rcSts) - 1, rcDc.racks)[r] \in 1..(Total(rcSts) - 1)
      BY <1>8, <1>10, <2>1, SplitNodes
    <2> QED
      BY <1>6, <1>9, <2>1, <2>2, SMT DEF RackInfoForDecomm
  <1> QED
    BY <1>3, <1>6, <1>11, <1>12

LEMMA DecommissionNodesKeepsNodes ==
    ASSUME Inv, NodesInv, DecommissionNodes
    PROVE  NodesInv'
  <1>1. pc = "decommissionNodes" /\ UNCHANGED decomm
    BY DEF DecommissionNodes
  <1>2. CASE EndPass
    BY <1>1, <1>2, EndKeepsNodes DEF NodesInv
  <1>3. CASE Goto("clearConditions") /\ UNCHANGED rcDc
    BY <1>1, <1>3, GotoKeepsNodes DEF NodesInv, PastScale
  <1>4. CASE /\ Total(rcSts) > rcDc.size
             /\ ~TooFewNodes(Total(rcSts) - 1, rcDc.racks) /\ idx' \in RacksOver
             /\ PatchConditions([rcDc.conds EXCEPT !["ScalingDown"] = "True"])
             /\ pc' = "decommissionOnRack"
             /\ UNCHANGED <<desired, rcSts, rcDecomm>>
    <2>1. rcSts[idx'] >= 2
      BY <1>1, <1>4, RackPicked
    <2>2. Len(desired) <= rcDc'.racks
      BY <1>1, <1>4, PatchKeepsRacks
    <2>3. SharesGiven'
      BY <1>1, <1>4 DEF NodesInv, SharesGiven, PastScale
    <2> QED
      BY <1>1, <1>4, <2>1, <2>2, <2>3 DEF NodesInv
  <1> QED
    BY <1>2, <1>3, <1>4 DEF DecommissionNodes

LEMMA DecommissionNodeOnRackKeepsNodes ==
    ASSUME Inv, NodesInv, DecommissionNodeOnRack
    PROVE  NodesInv'
  <1>1. /\ pc = "decommissionOnRack" /\ EndPass
        /\ \/ UNCHANGED decomm
           \/ decomm' = [rack |-> idx, ord |-> rcSts[idx] - 1, phase |-> "leaving"]
    BY DEF DecommissionNodeOnRack
  <1>2. pc \in LaterSteps
    BY <1>1 DEF LaterSteps, EarlySteps, Steps
  <1>3. rcSts[idx] \in Nat /\ rcSts[idx] >= 2
    BY <1>1, <1>2, RackRead, SMT DEF NodesInv
  <1>4. decomm' # None => decomm'.ord >= 1
    BY <1>1, <1>3, SMT DEF NodesInv
  <1> QED
    BY <1>1, <1>4, EndKeepsNodes

LEMMA LastChecksKeepNodes ==
    ASSUME Inv, NodesInv,
           \/ CheckPodsReady \/ CheckClearActionConditions
           \/ CheckConditionInitializedAndReady \/ SetProgressReady \/ Abort
    PROVE  NodesInv'
  <1>1. UNCHANGED decomm
    BY DEF CheckPodsReady, CheckClearActionConditions, CheckConditionInitializedAndReady,
       SetProgressReady, Abort, apiVars
  <1>2. CASE EndPass
    BY <1>1, <1>2, EndKeepsNodes DEF NodesInv
  <1>3. CASE CheckPodsReady /\ ~EndPass
    BY <1>1, <1>3, GotoKeepsNodes DEF CheckPodsReady, NodesInv, PastScale
  <1>4. CASE CheckClearActionConditions /\ ~EndPass
    <2>1. /\ pc = "clearConditions" /\ pc' = "conditionReady" /\ ClearedConditions = rcDc.conds
          /\ UNCHANGED <<rcDc, desired, rcSts, rcDecomm, idx>>
      BY <1>4 DEF CheckClearActionConditions, Goto, PatchConditions
    <2>2. ClearedConditions["Stopped"] = IF rcDc.stopped THEN "True" ELSE "False"
      BY DEF ClearedConditions, ConditionTypes
    <2>3. SharesGiven'
      BY <2>1 DEF NodesInv, SharesGiven, PastScale
    <2> QED
      BY <1>1, <2>1, <2>2, <2>3 DEF NodesInv
  <1>5. CASE CheckConditionInitializedAndReady /\ ~EndPass
    <2>1. /\ pc = "conditionReady" /\ Goto("progressReady") /\ UNCHANGED rcDc
      BY <1>5 DEF CheckConditionInitializedAndReady, PatchConditions
    <2> QED
      BY <1>1, <2>1, GotoKeepsNodes DEF NodesInv, PastScale
  <1> QED
    BY <1>2, <1>3, <1>4, <1>5 DEF SetProgressReady, Abort

LEMMA SetProgressUpdatingKeepsNodes ==
    ASSUME Inv, NodesInv, SetProgressUpdating
    PROVE  NodesInv'
  <1>1. /\ rcDc' = [dc EXCEPT !.progress = "Updating"] /\ pc' = pc
        /\ pc \in {"stopRack", "scaleRack", "decommissionOnRack", "rackCreation",
                   "decommissioning"}
        /\ UNCHANGED <<decomm, desired, rcSts, rcDecomm, idx>>
    BY DEF SetProgressUpdating, Goto
  <1>2. rcDc'.racks = dc.racks
    BY <1>1, LengthsAre DEF Datacenter
  <1>3. Len(desired) <= rcDc'.racks
    BY <1>1, <1>2 DEF Inv, RacksInSpec
  <1> QED
    BY <1>1, <1>3 DEF NodesInv, SharesGiven

LEMMA NextKeepsNodes ==
    ASSUME Inv, NodesInv, [Next]_vars
    PROVE  NodesInv'
  <1>1. CASE UNCHANGED vars
    BY <1>1 DEF vars, apiVars, passVars, NodesInv, SharesGiven
  <1>2. CASE Next
    BY <1>2, EnvironmentKeepsNodes, BeginPassKeepsNodes, UpdateStatusKeepsNodes,
       CheckRackCreationKeepsNodes, CheckDecommissioningNodesKeepsNodes,
       CheckRackStoppedStateKeepsNodes, CheckRackScaleKeepsNodes, ScaleRackKeepsNodes,
       DecommissionNodesKeepsNodes, DecommissionNodeOnRackKeepsNodes,
       LastChecksKeepNodes, SetProgressUpdatingKeepsNodes DEF Next, PassStep
  <1> QED
    BY <1>1, <1>2

(* NodesInv holds in every reachable state.                                 *)
THEOREM NodesAlways ==
    ASSUME "noPods" \notin Reads PROVE Spec => []NodesInv
  <1>1. Init => NodesInv
    BY DEF Init, NodesInv, SharesGiven, PastScale
  <1>2. Inv /\ NodesInv /\ [Next]_vars => NodesInv'
    BY NextKeepsNodes
  <1> QED
    BY <1>1, <1>2, InvAlways, PTL DEF Spec
-----------------------------------------------------------------------------
(* DecommissionNodes leaves the rack it takes a node from with its share of *)
(* the size, however uneven the racks are and whatever was edited meanwhile.*)
THEOREM DecommissionAlwaysKeepsShare ==
    ASSUME "noPods" \notin Reads PROVE Spec => DecommissionKeepsShare
  <1>1. Inv /\ NodesInv /\ [Next]_vars => [KeepsShare]_vars
    <2> SUFFICES ASSUME Inv, NodesInv, Next, pc = "decommissionNodes",
                        pc' = "decommissionOnRack"
                 PROVE  rcSts[idx'] - 1 >= SplitRacks(rcDc.size, rcDc.racks)[idx']
      BY DEF KeepsShare
    <2>1. DecommissionNodes
      BY DEF Next, PassStep, Environment, BeginPass, EditSpec, Abort, UpdateStatus,
         CheckRackCreation, CheckDecommissioningNodes, CheckRackStoppedState, StopRack,
         CheckRackScale, ScaleRack, CheckPodsReady, DecommissionNodeOnRack,
         CheckClearActionConditions, CheckConditionInitializedAndReady, SetProgressReady,
         SetProgressUpdating, PodStarts, PodTerminates, NodeLeaves, passVars, EndPass
    <2>2. /\ Total(rcSts) > rcDc.size /\ ~TooFewNodes(Total(rcSts) - 1, rcDc.racks)
          /\ idx' \in RacksOver
      BY <2>1 DEF DecommissionNodes, Goto, EndPass
    <2> QED
      BY <2>2, RackPicked
  <1> QED
    BY <1>1, InvAlways, NodesAlways, PTL DEF Spec, DecommissionKeepsShare

(* Whenever there are more nodes than the spec asks for, and more than      *)
(* racks, DecommissionNodes finds a rack to take one from: a scale down     *)
(* does not end before the size is reached.                                 *)
THEOREM ScaleDownAlwaysFindsRack ==
    ASSUME "noPods" \notin Reads PROVE Spec => []ScaleDownFindsRack
  <1>1. Inv /\ NodesInv => ScaleDownFindsRack
    <2> SUFFICES ASSUME Inv, NodesInv, pc = "decommissionNodes", Total(rcSts) > rcDc.size,
                        ~TooFewNodes(Total(rcSts) - 1, rcDc.racks), RacksOver = {}
                 PROVE  FALSE
      BY DEF ScaleDownFindsRack
    <2> DEFINE n == Total(rcSts) - 1
               t == SplitRacks(n, rcDc.racks)
    <2>1. pc \in LaterSteps
      BY DEF LaterSteps, EarlySteps, Steps
    <2>2. rcSts \in Seq(0..MaxSize) /\ Len(rcSts) = Len(desired)
      BY <2>1, RackRead DEF Inv, TypeOK
    <2>3. rcSts \in Seq(Nat) /\ DOMAIN rcSts = 1..Len(rcSts) /\ Len(rcSts) \in Nat
      BY <2>2, SizesAreNat
    <2>4. rcDc.size \in 1..MaxSize /\ rcDc.racks \in 1..MaxRacks
      BY DatacenterFields DEF Inv, TypeOK
    <2>5. Total(rcSts) \in Nat /\ n \in Nat /\ rcDc.racks \in Nat \ {0}
      BY <2>3, <2>4, TotalNat, BoundsAssumption, SMT
    <2>6. t \in Seq(Nat) /\ Len(t) = rcDc.racks /\ Total(t) = n
      BY <2>5, SplitTotal
    <2>7. Len(rcSts) <= Len(t)
      BY <2>2, <2>6 DEF NodesInv
    <2>8. \A i \in 1..Len(rcSts) : rcSts[i] <= t[i]
      <3> TAKE i \in 1..Len(rcSts)
      <3>1. ~(rcSts[i] > t[i])
        BY <2>3 DEF RacksOver, RackInfoForDecomm
      <3>2. i \in 1..Len(t)
        BY <2>3, <2>6, <2>7, SMT
      <3>3. rcSts[i] \in Nat /\ t[i] \in Nat
        BY <2>3, <2>6, <3>2, SMT
      <3> QED
        BY <3>1, <3>3, SMT
    <2> HIDE DEF t
    <2>9. Total(rcSts) <= Total(t)
      BY <2>3, <2>6, <2>7, <2>8, TotalMonotone
    <2> QED
      BY <2>5, <2>6, <2>9, SMT
  <1> QED
    BY <1>1, InvAlways, NodesAlways, PTL
-----------------------------------------------------------------------------
(* Only CheckConditionInitializedAndReady makes a datacenter Ready.         *)
LEMMA ReadyStaysFalse ==
    ASSUME Inv, [Next]_vars, ~CheckConditionInitializedAndReady, dc'.conds["Ready"] = "True"
    PROVE  dc.conds["Ready"] = "True"
  <1>1. /\ dc \in Datacenter /\ rcDc \in Datacenter /\ dc.conds \in Conditions
        /\ pc # "idle" => rcDc.conds = dc.conds
    BY DatacenterFields DEF Inv, TypeOK, ConditionsCurrent
  <1>2. ASSUME NEW c \in Conditions, PatchConditions(c), pc # "idle"
        PROVE  c["Ready"] = "True"
    BY <1>2, PatchConditionsEffect
  <1>3. \A t \in {"ScalingDown", "ScalingUp", "Stopped", "Resuming", "Valid"} :
           \A v \in ConditionStatus :
              /\ [dc.conds EXCEPT ![t] = v] \in Conditions
              /\ [dc.conds EXCEPT ![t] = v]["Ready"] = dc.conds["Ready"]
    BY <1>1 DEF Conditions, ConditionTypes
  <1>4. CASE UNCHANGED dc
    BY <1>4
  <1>5. CASE CheckDecommissioningNodes
    <2>1. \/ UNCHANGED dc
          \/ PatchConditions([dc.conds EXCEPT !["ScalingDown"] = "False"]) /\ pc # "idle"
      BY <1>1, <1>5 DEF CheckDecommissioningNodes
    <2>2. "ScalingDown" \in ConditionTypes /\ "False" \in ConditionStatus
      BY DEF ConditionTypes, ConditionStatus
    <2> QED
      BY <1>2, <1>3, <1>4, <2>1, <2>2
  <1>6. CASE CheckRackStoppedState
    <2> DEFINE c == [dc.conds EXCEPT !["Stopped"] = "True", !["Ready"] = "False"]
    <2>1. UNCHANGED dc \/ (PatchConditions(c) /\ pc # "idle")
      BY <1>1, <1>6 DEF CheckRackStoppedState, StoppedConditions
    <2>2. c \in Conditions /\ c["Ready"] = "False"
      BY <1>1 DEF Conditions, ConditionTypes, ConditionStatus
    <2> HIDE DEF c
    <2> QED
      BY <1>2, <1>4, <2>1, <2>2
  <1>7. CASE CheckRackScale
    <2> DEFINE c == [dc.conds EXCEPT !["Stopped"] = "False", !["Resuming"] = "True"]
               d == [dc.conds EXCEPT !["ScalingUp"] = "True"]
    <2>1. UNCHANGED dc \/ ((PatchConditions(c) \/ PatchConditions(d)) /\ pc # "idle")
      BY <1>1, <1>7 DEF CheckRackScale
    <2>2. /\ c \in Conditions /\ c["Ready"] = dc.conds["Ready"]
          /\ d \in Conditions /\ d["Ready"] = dc.conds["Ready"]
      BY <1>1 DEF Conditions, ConditionTypes, ConditionStatus
    <2> HIDE DEF c, d
    <2> QED
      BY <1>2, <1>4, <2>1, <2>2
  <1>8. CASE DecommissionNodes
    <2>1. \/ UNCHANGED dc
          \/ PatchConditions([dc.conds EXCEPT !["ScalingDown"] = "True"]) /\ pc # "idle"
      BY <1>1, <1>8 DEF DecommissionNodes
    <2>2. "True" \in ConditionStatus
      BY DEF ConditionStatus
    <2> QED
      BY <1>2, <1>3, <1>4, <2>1, <2>2
  <1>9. CASE DecommissionNodeOnRack
    <2>1. \/ UNCHANGED dc
          \/ PatchConditions([dc.conds EXCEPT !["Valid"] = "False"]) /\ pc # "idle"
      BY <1>1, <1>9 DEF DecommissionNodeOnRack
    <2>2. "False" \in ConditionStatus
      BY DEF ConditionStatus
    <2> QED
      BY <1>2, <1>3, <1>4, <2>1, <2>2
  <1>10. CASE CheckClearActionConditions
    <2>1. PatchConditions(ClearedConditions) /\ pc # "idle"
      BY <1>10 DEF CheckClearActionConditions
    <2>2. ClearedConditions \in Conditions
      BY <1>1, <2>1 DEF ClearedConditions, Conditions, ConditionTypes, ConditionStatus
    <2>3. ClearedConditions["Ready"] = dc.conds["Ready"]
      BY <1>1, <2>1 DEF ClearedConditions, ConditionTypes
    <2> QED
      BY <1>2, <2>1, <2>2, <2>3
  <1>11. CASE SetProgressReady \/ SetProgressUpdating \/ EditSpec
    <2>1. dc'.conds = dc.conds
      <3>1. CASE SetProgressReady
        <4>1. rcDc.gen \in 0..MaxGeneration
          BY <1>1, DatacenterFields
        <4>2. \/ dc' = dc
              \/ dc' = [dc EXCEPT !.progress = "Ready", !.observed = rcDc.gen]
          BY <3>1 DEF SetProgressReady
        <4>3. [dc EXCEPT !.progress = "Ready", !.observed = rcDc.gen].conds = dc.conds
          BY <1>1, <4>1, NewProgress
        <4> QED
          BY <4>2, <4>3
      <3>2. CASE SetProgressUpdating
        BY <1>1, <3>2 DEF SetProgressUpdating, Datacenter
      <3>3. CASE EditSpec
        <4>1. PICK size \in (IF "size" \in Edits THEN 1..MaxSize ELSE {dc.size}),
                   racks \in (IF "racks" \in Edits THEN 1..MaxRacks ELSE {dc.racks}),
                   stopped \in (IF "stopped" \in Edits THEN BOOLEAN ELSE {dc.stopped}) :
                 dc' = [dc EXCEPT !.size = size, !.racks = racks,
                                  !.stopped = stopped, !.gen = @ + 1]
          BY <3>3 DEF EditSpec
        <4> QED
          BY <1>1, <4>1 DEF Datacenter
      <3> QED
        BY <1>11, <3>1, <3>2, <3>3
    <2> QED
      BY <2>1
  <1> QED
    BY <1>4, <1>5, <1>6, <1>7, <1>8, <1>9, <1>10, <1>11
       DEF Next, PassStep, Environment, vars, apiVars, BeginPass, UpdateStatus,
       CheckRackCreation, StopRack, ScaleRack, CheckPodsReady, Abort, PodStarts,
       PodTerminates, NodeLeaves

(* A datacenter that reports Ready is not emptied.                          *)
LEMMA ReadyKeepsNodes ==
    ASSUME Inv, NodesInv, [Next]_vars, dc'.conds["Ready"] = "True", Total(sts') = 0
    PROVE  Total(sts) = 0
  <1>1. sts \in Seq(0..MaxSize)
    BY DEF Inv, TypeOK
  <1>2. sts \in Seq(Nat) /\ Len(sts) \in Nat
    BY <1>1, SizesAreNat
  <1>3. CASE sts' = sts
    BY <1>3
  <1>4. CASE CheckRackCreation /\ sts' # sts
    <2>1. sts' = Append(sts, 0)
      BY <1>4 DEF CheckRackCreation
    <2>2. sts' \in Seq(Nat) /\ Len(sts') = Len(sts) + 1
          /\ \A i \in 1..Len(sts) : sts'[i] = sts[i]
      BY <1>2, <2>1, SMT
    <2>3. \A i \in 1..Len(sts') : sts'[i] = 0
      BY <2>2, TotalZero
    <2>4. \A i \in 1..Len(sts) : sts[i] = 0
      BY <1>2, <2>2, <2>3, SMT
    <2> QED
      BY <1>2, <2>4, TotalZero
  <1>5. ASSUME NEW r \in 1..Len(sts), NEW n \in Nat \ {0}, sts' = [sts EXCEPT ![r] = n]
        PROVE  FALSE
    <2>1. sts' \in Seq(Nat) /\ Len(sts') = Len(sts) /\ sts'[r] = n
      BY <1>2, <1>5, SMT
    <2> QED
      BY <2>1, TotalZero
  <1>6. CASE CheckDecommissioningNodes /\ sts' # sts
    <2> DEFINE k == rcDecomm.rack
    <2>1. /\ pc = "decommissioning" /\ rcDecomm # None /\ rcDecomm.ord = rcSts[k] - 1
          /\ sts' = [sts EXCEPT ![k] = rcSts[k] - 1]
      BY <1>6 DEF CheckDecommissioningNodes, NoPodDecommissioning, RemovableFromSts
    <2>2. rcDecomm.ord \in Nat \ {0}
      BY <2>1, LengthsAre, SMT DEF NodesInv
    <2>3. k \in 1..Len(sts)
      BY <1>2, <1>6, <2>1, SMT
    <2> HIDE DEF k
    <2> QED
      BY <1>5, <2>1, <2>2, <2>3
  <1>7. CASE StopRack
    <2>1. pc = "stopRack" /\ UNCHANGED dc
      BY <1>7 DEF StopRack
    <2> QED
      BY <2>1 DEF Inv, Decided
  <1>8. CASE ScaleRack
    <2>1. pc = "scaleRack" /\ sts' = [sts EXCEPT ![idx] = desired[idx]]
      BY <1>8 DEF ScaleRack
    <2>2. pc \in LaterSteps
      BY <2>1 DEF LaterSteps, EarlySteps, Steps
    <2>3. /\ idx \in 1..Len(sts) /\ rcSts[idx] = sts[idx]
          /\ sts[idx] \in 0..MaxSize /\ desired[idx] \in 0..MaxSize
      BY <2>2, RackRead
    <2>4. rcSts[idx] < desired[idx]
      BY <2>1 DEF Inv, Decided
    <2>5. desired[idx] \in Nat \ {0}
      BY <2>3, <2>4, BoundsAssumption, SMT
    <2> QED
      BY <1>5, <2>1, <2>3, <2>5
  <1> QED
    BY <1>3, <1>4, <1>6, <1>7, <1>8
       DEF Next, PassStep, Environment, vars, apiVars, BeginPass, UpdateStatus,
       CheckRackStoppedState, CheckRackScale, CheckPodsReady, DecommissionNodes,
       DecommissionNodeOnRack, CheckClearActionConditions,
       CheckConditionInitializedAndReady, SetProgressReady, SetProgressUpdating, Abort,
       PodStarts, PodTerminates, NodeLeaves, EditSpec

(* A datacenter that reports Ready has nodes, unless the pass that reported *)
(* it began when the datacenter was stopped and learnt on its way that it   *)
(* was resumed: CheckRackStoppedState, CheckRackScale, CheckPodsReady and   *)
(* CheckConditionInitializedAndReady together.                              *)
THEOREM ReadyOnlyEverWithNodes ==
    ASSUME "noPods" \notin Reads PROVE Spec => ReadyHasNodes
  <1>1. Inv /\ NodesInv /\ [Next]_vars => [ReadyOnlyWithNodes]_vars
    <2> SUFFICES ASSUME Inv, NodesInv, [Next]_vars, dc'.conds["Ready"] = "True",
                        Total(sts') = 0, dc.conds["Ready"] # "True"
                 PROVE  pc = "conditionReady" /\ ~rcDc.stopped /\ Total(desired) = 0
      BY ReadyKeepsNodes DEF ReadyOnlyWithNodes
    <2>1. CheckConditionInitializedAndReady
      BY ReadyStaysFalse
    <2>2. pc = "conditionReady" /\ PatchConditions(ReadyConditions)
      BY <2>1 DEF CheckConditionInitializedAndReady
    <2>3. rcDc.conds \in Conditions /\ rcDc.conds = dc.conds
      BY <2>2, DatacenterFields DEF Inv, TypeOK, ConditionsCurrent
    <2>4. /\ ReadyConditions \in Conditions
          /\ ReadyConditions["Ready"] =
                IF rcDc.conds["Stopped"] = "False" THEN "True" ELSE rcDc.conds["Ready"]
      BY <2>3 DEF ReadyConditions, Conditions, ConditionTypes, ConditionStatus
    <2>5. dc'.conds = ReadyConditions
      BY <2>2, <2>4, PatchConditionsEffect
    <2>6. ~rcDc.stopped
      BY <2>2, <2>3, <2>4, <2>5 DEF NodesInv
    <2>7. Total(desired) = 0
      <3>1. pc \in LaterSteps
        BY <2>2 DEF LaterSteps, EarlySteps, Steps
      <3>2. /\ Len(sts) = Len(desired)
            /\ \A i \in 1..Len(sts) :
                  rcSts[i] = sts[i] /\ sts[i] \in 0..MaxSize /\ desired[i] \in 0..MaxSize
        BY <3>1, RackRead
      <3>3. sts \in Seq(Nat) /\ desired \in Seq(Nat)
        BY SizesAreNat DEF Inv, TypeOK
      <3>4. \A i \in 1..Len(sts) : sts[i] = 0
        BY <3>3, ReadyKeepsNodes, TotalZero
      <3>5. \A i \in 1..Len(desired) : rcSts[i] >= desired[i]
        BY <2>2 DEF NodesInv, SharesGiven, PastScale
      <3>6. \A i \in 1..Len(desired) : desired[i] = 0
        BY <3>2, <3>4, <3>5, BoundsAssumption, SMT
      <3> QED
        BY <3>3, <3>6, TotalZero
    <2> QED
      BY <2>2, <2>6, <2>7
  <1> QED
    BY <1>1, InvAlways, NodesAlways, PTL DEF Spec, ReadyHasNodes

=============================================================================
