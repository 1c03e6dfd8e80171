-------------------------- MODULE PodStartup_proofs --------------------------
(***************************************************************************)
(* Proofs of the labels and of the order in which nodes are started, for   *)
(* every number of nodes, racks, disruptions and cut-short passes.         *)
(***************************************************************************)
EXTENDS PodStartup, FiniteSetTheorems, WellFoundedInduction, TLAPS

(* A step that names no prover is checked by Zenon.                         *)
USE Zenon

(* The steps before findStartingNodes, and those after it that may start a  *)
(* node.                                                                    *)
Before == {"startedNotReady", "stuckNodes", "seeds", "labelSeeds",
           "refreshSeeds", "startingNodes"}
After  == {"rackNodes", "firstSeed", "start", "labelStarting", "healthy",
           "allNodes"}

(* A pod that is gone has no labels, runs nothing and is not old.           *)
GoneIsBlank ==
    \A p \in Pods : pods[p].phase = "gone" =>
        label[p] = "Ready-to-Start" /\ pods[p] = GonePod

(* A pass has listed every pod labelled Starting, and at most one pod as    *)
(* such; it goes on to start a node only when there is none.                *)
StartingIsListed ==
    pc \in Before =>
        /\ \A p \in Pods :
              label[p] = "Starting" => p \in Listed /\ rcLabel[p] = "Starting"
        /\ \A p, q \in Pods :
              rcLabel[p] = "Starting" /\ rcLabel[q] = "Starting" => p = q
NoneStarting ==
    pc \in After => \A p \in Pods : label[p] # "Starting"

TargetChosen ==
    pc \in {"firstSeed", "start", "labelStarting", "deletePod"} => target \in Pods

(* A pod older than the last restart is in the list of a running pass, as   *)
(* such; a pass that has just set the restart has some old pod in its list. *)
OldIsListed ==
    pc \notin {"idle", "done", "deletePod"} => \A p \in Pods : pods[p].old =>
        \/ p \in Listed /\ rcPods[p].old
        \/ /\ pc \in {"restartSpec", "restartPods"}
           /\ \E q \in Listed : rcPods[q].old
SomeListed == pc = "restart" => Listed # {}
NoneOld == pc = "clear" => \A p \in Pods : ~pods[p].old

(* A joining node has its label, or is about to get it.                     *)
JoiningIsLabelled ==
    \A p \in Pods : pods[p].cass = "joining" =>
        label[p] = "Starting" \/ (pc = "labelStarting" /\ target = p)
JoiningIsUnready ==
    pc \in Before => \A p \in Pods : pods[p].cass = "joining" => ~Ready(rcPods[p])

Inv ==
    /\ TypeOK /\ GoneIsBlank /\ OneStartingLabel
    /\ StartingIsListed /\ NoneStarting /\ TargetChosen
    /\ OldIsListed /\ SomeListed /\ NoneOld /\ RestartIsTracked

(* What more holds when no pass is cut short between a start call and the   *)
(* label that records it.                                                   *)
JoinInv == JoiningIsLabelled /\ JoiningIsUnready

-----------------------------------------------------------------------------
(* The records.                                                             *)

CassStates == {"down", "joining", "ready", "draining", "drained", "unready"}

(* The pods that Init and the environment put in place.                     *)
LEMMA FreshPods ==
    /\ GonePod \in PodState /\ NewPod \in PodState /\ UpPod \in PodState
    /\ GonePod.phase = "gone" /\ GonePod.cass = "down"
    /\ ~GonePod.mgmt /\ ~GonePod.old
    /\ NewPod.phase = "running" /\ NewPod.cass = "down" /\ ~NewPod.old
    /\ UpPod.phase = "running" /\ UpPod.cass = "ready" /\ ~UpPod.old
BY DEF GonePod, NewPod, UpPod, PodState

(* What the updates of single fields keep.                                  *)
LEMMA PodFields ==
    ASSUME NEW r \in PodState
    PROVE  /\ r.cass \in CassStates /\ r.old \in BOOLEAN /\ r.mgmt \in BOOLEAN
           /\ LET s == [r EXCEPT !.mgmt = TRUE] IN
                 s \in PodState /\ s.phase = r.phase /\ s.cass = r.cass /\ s.old = r.old
           /\ LET s == [r EXCEPT !.mgmt = FALSE, !.cass = "down",
                                 !.died = "recent"] IN
                 s \in PodState /\ s.phase = r.phase /\ s.cass = "down" /\ s.old = r.old
           /\ LET s == [r EXCEPT !.phase = "terminating"] IN
                 s \in PodState /\ s.phase = "terminating" /\ s.cass = r.cass
                 /\ s.old = r.old
BY DEF PodState, CassStates

(* The state of Cassandra changes.                                          *)
LEMMA CassField ==
    ASSUME NEW r \in PodState, NEW c \in CassStates
    PROVE  LET s == [r EXCEPT !.cass = c] IN
           s \in PodState /\ s.phase = r.phase /\ s.cass = c /\ s.old = r.old
BY DEF PodState, CassStates

(* The same, with a readiness transition.                                   *)
LEMMA CassAndLongField ==
    ASSUME NEW r \in PodState, NEW c \in CassStates
    PROVE  LET s == [r EXCEPT !.cass = c, !.long = FALSE] IN
           s \in PodState /\ s.phase = r.phase /\ s.cass = c /\ s.old = r.old
BY DEF PodState, CassStates

(* Ten minutes pass.                                                        *)
LEMMA AgeFields ==
    ASSUME NEW r \in PodState, NEW b \in BOOLEAN
    PROVE  LET s == [r EXCEPT !.died = IF @ = "recent" THEN "old" ELSE @,
                              !.long = b] IN
           s \in PodState /\ s.phase = r.phase /\ s.cass = r.cass /\ s.old = r.old
BY DEF PodState

(* The pod becomes older than a rolling restart, or not.                    *)
LEMMA OldField ==
    ASSUME NEW r \in PodState, NEW b \in BOOLEAN
    PROVE  LET s == [r EXCEPT !.old = b] IN
           s \in PodState /\ s.phase = r.phase /\ s.cass = r.cass /\ s.old = b
BY DEF PodState

-----------------------------------------------------------------------------
(* The environment.                                                         *)

(* A pod that changes without being replaced, or is created.                *)
LEMMA PodTurnsKeepsInv ==
    ASSUME Inv, NEW p \in Pods, NEW s \in PodState,
           s.phase # "gone", s.old => pods[p].old,
           PodTurns(p, s), disruptions' \in 0..MaxDisruptions
    PROVE  Inv'
<1> USE DEF PodTurns, dcVars, listVars, passVars
<1>1. Listed' = Listed
  BY DEF Listed
<1>2. pods' \in [Pods -> PodState] /\ pods'[p] = s
      /\ \A q \in Pods : q # p => pods'[q] = pods[q]
  BY DEF Inv, TypeOK
<1>3. TypeOK'
  BY <1>2 DEF Inv, TypeOK
<1>4. /\ GoneIsBlank' /\ OneStartingLabel' /\ StartingIsListed' /\ NoneStarting'
      /\ TargetChosen' /\ SomeListed'
  BY <1>1, <1>2, SMT DEF Inv, GoneIsBlank, OneStartingLabel, StartingIsListed,
     NoneStarting, TargetChosen, SomeListed
<1>5. OldIsListed' /\ NoneOld' /\ RestartIsTracked'
  BY <1>1, <1>2 DEF Inv, OldIsListed, NoneOld, RestartIsTracked
<1> QED
  BY <1>3, <1>4, <1>5 DEF Inv

(* The same for JoinInv, unless Cassandra is started.                       *)
LEMMA PodTurnsKeepsJoinInv ==
    ASSUME Inv, JoinInv, NEW p \in Pods, NEW s \in PodState,
           s.cass = "joining" => pods[p].cass = "joining",
           PodTurns(p, s)
    PROVE  JoinInv'
<1> USE DEF PodTurns, dcVars, listVars, passVars
<1>1. pods'[p] = s /\ \A q \in Pods : q # p => pods'[q] = pods[q]
  BY DEF Inv, TypeOK
<1>2. rcPods' = rcPods
  OBVIOUS
<1> QED
  BY <1>1, <1>2 DEF JoinInv, JoiningIsLabelled, JoiningIsUnready, Ready

(* Every pod event but a removal turns one pod, and starts no Cassandra.    *)
LEMMA PodEvents ==
    ASSUME Inv, NEW p \in Pods,
           \/ CreatePod(p) \/ MgmtApiStarts(p) \/ NodeJoins(p) \/ NodeRecovers(p)
           \/ ProbeFails(p) \/ TenMinutesPass(p) \/ Disruption(p)
    PROVE  \E s \in PodState :
              /\ s.phase # "gone" /\ (s.old => pods[p].old)
              /\ s.cass = "joining" => pods[p].cass = "joining"
              /\ PodTurns(p, s)
              /\ disruptions' \in 0..MaxDisruptions
<1>0. pods[p] \in PodState /\ disruptions \in 0..MaxDisruptions
  BY DEF Inv, TypeOK
<1>c. "ready" \in CassStates /\ "drained" \in CassStates /\ "unready" \in CassStates
  BY DEF CassStates
<1>g. pods[p].cass # "down" => pods[p].phase # "gone"
  BY FreshPods DEF Inv, GoneIsBlank
<1>1. CASE CreatePod(p)
  BY <1>0, <1>1, FreshPods DEF CreatePod
<1>2. CASE MgmtApiStarts(p)
  <2> DEFINE s == [pods[p] EXCEPT !.mgmt = TRUE]
  <2>1. PodTurns(p, s) /\ disruptions' \in 0..MaxDisruptions
    BY <1>0, <1>2 DEF MgmtApiStarts
  <2>2. s \in PodState /\ s.phase # "gone" /\ s.old = pods[p].old
        /\ (s.cass = "joining" => pods[p].cass = "joining")
    BY <1>0, <1>2, PodFields DEF MgmtApiStarts, Exists
  <2> HIDE DEF s
  <2> QED
    BY <2>1, <2>2
<1>3. ASSUME NEW c \in {"ready", "drained"}, NEW from \in CassStates,
             from # "down", CassandraTurns(p, from, c)
      PROVE  \E s \in PodState :
              /\ s.phase # "gone" /\ (s.old => pods[p].old)
              /\ s.cass = "joining" => pods[p].cass = "joining"
              /\ PodTurns(p, s)
              /\ disruptions' \in 0..MaxDisruptions
  <2> DEFINE s == [pods[p] EXCEPT !.cass = c, !.long = FALSE]
  <2>0. pods[p].phase # "gone" /\ c \in CassStates /\ c # "joining"
    BY <1>3, <1>c, <1>g DEF CassandraTurns
  <2>1. PodTurns(p, s) /\ disruptions' \in 0..MaxDisruptions
    BY <1>0, <1>3 DEF CassandraTurns
  <2>2. s \in PodState /\ s.phase # "gone" /\ s.old = pods[p].old
        /\ (s.cass = "joining" => pods[p].cass = "joining")
    BY <1>0, <2>0, CassAndLongField
  <2> HIDE DEF s
  <2> QED
    BY <2>1, <2>2
<1>4. CASE NodeJoins(p)
  BY <1>3, <1>4 DEF NodeJoins, CassStates
<1>5. CASE NodeRecovers(p)
  BY <1>3, <1>5 DEF NodeRecovers, CassStates
<1>6. CASE ProbeFails(p)
  BY <1>3, <1>6 DEF ProbeFails, CassStates
<1>7. CASE TenMinutesPass(p)
  <2> DEFINE b == ~Ready(pods[p])
             s == [pods[p] EXCEPT !.died = IF @ = "recent" THEN "old" ELSE @,
                                  !.long = b]
  <2>1. PodTurns(p, s) /\ disruptions' \in 0..MaxDisruptions /\ b \in BOOLEAN
    BY <1>0, <1>7 DEF TenMinutesPass
  <2>2. pods[p].phase # "gone"
    BY <1>7 DEF TenMinutesPass, Exists
  <2> HIDE DEF b
  <2>3. s \in PodState /\ s.phase # "gone" /\ s.old = pods[p].old
        /\ (s.cass = "joining" => pods[p].cass = "joining")
    BY <1>0, <2>1, <2>2, AgeFields, ZenonT(30)
  <2> HIDE DEF s
  <2> QED
    BY <2>1, <2>3
<1>8. CASE Disruption(p)
  <2>0. ASSUME NEW kind, Disrupt(kind) PROVE disruptions' \in 0..MaxDisruptions
    BY <1>0, <2>0, ConstantsAssumption, SMT DEF Disrupt
  <2>1. CASE ContainerDies(p)
    <3> DEFINE s == [pods[p] EXCEPT !.mgmt = FALSE, !.cass = "down", !.died = "recent"]
    <3>1. PodTurns(p, s) /\ disruptions' \in 0..MaxDisruptions
      BY <2>0, <2>1 DEF ContainerDies
    <3>2. s \in PodState /\ s.phase # "gone" /\ s.old = pods[p].old
          /\ (s.cass = "joining" => pods[p].cass = "joining")
      BY <1>0, <2>1, PodFields DEF ContainerDies
    <3> HIDE DEF s
    <3> QED
      BY <3>1, <3>2
  <2>2. CASE LosesReadiness(p)
    <3> DEFINE s == [pods[p] EXCEPT !.cass = "unready"]
    <3>0. pods[p].phase # "gone"
      BY <1>g, <2>2 DEF LosesReadiness
    <3>1. PodTurns(p, s) /\ disruptions' \in 0..MaxDisruptions
      BY <2>0, <2>2 DEF LosesReadiness
    <3>2. s \in PodState /\ s.phase # "gone" /\ s.old = pods[p].old
          /\ (s.cass = "joining" => pods[p].cass = "joining")
      BY <1>0, <1>c, <3>0, CassField
    <3> HIDE DEF s
    <3> QED
      BY <3>1, <3>2
  <2>3. CASE PodEvicted(p)
    <3> DEFINE s == [pods[p] EXCEPT !.phase = "terminating"]
    <3>1. PodTurns(p, s) /\ disruptions' \in 0..MaxDisruptions
      BY <2>0, <2>3 DEF PodEvicted
    <3>2. s \in PodState /\ s.phase # "gone" /\ s.old = pods[p].old
          /\ (s.cass = "joining" => pods[p].cass = "joining")
      BY <1>0, PodFields
    <3> HIDE DEF s
    <3> QED
      BY <3>1, <3>2
  <2> QED
    BY <1>8, <2>1, <2>2, <2>3 DEF Disruption
<1> QED
  BY <1>1, <1>2, <1>4, <1>5, <1>6, <1>7, <1>8
-----------------------------------------------------------------------------
(* The steps of a pass.                                                     *)

(* The pass lists what there is.                                            *)
LEMMA BeginPassKeepsInv ==
    ASSUME Inv, BeginPass PROVE Inv'
<1> USE DEF BeginPass, Goto, ChooseTarget, podVars, dcVars, listVars, passVars, bounds
<1>1. TypeOK'
  BY DEF Inv, TypeOK, Steps
<1>2. GoneIsBlank' /\ OneStartingLabel'
  BY DEF Inv, GoneIsBlank, OneStartingLabel
<1>3. StartingIsListed' /\ NoneStarting' /\ TargetChosen'
  BY DEF Inv, StartingIsListed, NoneStarting, TargetChosen, Before, After, Listed, GoneIsBlank, OneStartingLabel
<1>4. OldIsListed' /\ SomeListed' /\ NoneOld' /\ RestartIsTracked'
  BY FreshPods DEF Inv, OldIsListed, SomeListed, NoneOld, RestartIsTracked, Listed, GoneIsBlank
<1> QED
  BY <1>1, <1>2, <1>3, <1>4 DEF Inv

(* The seed patches are of listed pods.                                     *)
LEMMA CheckSeedLabelsKeepsInv ==
    ASSUME Inv, CheckSeedLabels PROVE Inv'
<1> USE DEF CheckSeedLabels, Goto, ChooseTarget, podVars, dcVars, listVars, passVars, bounds
<1>1. TypeOK'
  <2> DEFINE A == {q \in SeedPods : ~rcSeed[q]}
             B == {q \in Listed \ SeedPods : rcSeed[q] /\ rcLabel[q] # "Starting"}
  <2>0. A \subseteq Pods /\ B \subseteq Pods
    BY DEF SeedPods, Listed
  <2>a. SeedPatches = {<<p, TRUE>> : p \in A} \cup {<<p, FALSE>> : p \in B}
    BY DEF SeedPatches
  <2> HIDE DEF A, B
  <2>1. SeedPatches \subseteq Pods \X BOOLEAN
    <3> SUFFICES ASSUME NEW t \in SeedPatches PROVE t \in Pods \X BOOLEAN
      OBVIOUS
    <3>1. CASE t \in {<<p, TRUE>> : p \in A}
      <4>1. PICK p \in A : t = <<p, TRUE>>
        BY <3>1
      <4> QED
        BY <2>0, <4>1
    <3>2. CASE t \in {<<p, FALSE>> : p \in B}
      <4>1. PICK p \in B : t = <<p, FALSE>>
        BY <3>2
      <4> QED
        BY <2>0, <4>1
    <3> QED
      BY <2>a, <3>1, <3>2
  <2> QED
    BY <2>1 DEF Inv, TypeOK, Steps
<1>2. GoneIsBlank' /\ OneStartingLabel'
  BY DEF Inv, GoneIsBlank, OneStartingLabel
<1>3. StartingIsListed' /\ NoneStarting' /\ TargetChosen'
  BY DEF Inv, StartingIsListed, NoneStarting, TargetChosen, Before, After, Listed
<1>4. OldIsListed' /\ SomeListed' /\ NoneOld' /\ RestartIsTracked'
  BY DEF Inv, OldIsListed, SomeListed, NoneOld, RestartIsTracked, Listed
<1> QED
  BY <1>1, <1>2, <1>3, <1>4 DEF Inv

(* RefreshSeeds keeps the invariant.                                        *)
LEMMA RefreshSeedsKeepsInv ==
    ASSUME Inv, RefreshSeeds PROVE Inv'
<1> USE DEF RefreshSeeds, Goto, ChooseTarget, podVars, dcVars, listVars, passVars, bounds
<1>1. TypeOK'
  BY DEF Inv, TypeOK, Steps
<1>2. GoneIsBlank' /\ OneStartingLabel'
  BY DEF Inv, GoneIsBlank, OneStartingLabel
<1>3. StartingIsListed' /\ NoneStarting' /\ TargetChosen'
  BY DEF Inv, StartingIsListed, NoneStarting, TargetChosen, Before, After, Listed
<1>4. OldIsListed' /\ SomeListed' /\ NoneOld' /\ RestartIsTracked'
  BY DEF Inv, OldIsListed, SomeListed, NoneOld, RestartIsTracked, Listed
<1> QED
  BY <1>1, <1>2, <1>3, <1>4 DEF Inv

(* The pod to start is a listed one.                                        *)
LEMMA StartOneNodePerRackKeepsInv ==
    ASSUME Inv, StartOneNodePerRack PROVE Inv'
<1> USE DEF StartOneNodePerRack, Goto, ChooseTarget, podVars, dcVars, listVars, passVars, bounds
<1>1. TypeOK'
  <2>1. target' \in Pods \cup {NoPod} /\ pc' \in Steps
    BY DEF Inv, TypeOK, Listed, Steps
  <2> QED
    BY <2>1 DEF Inv, TypeOK
<1>2. GoneIsBlank' /\ OneStartingLabel'
  BY DEF Inv, GoneIsBlank, OneStartingLabel
<1>3. StartingIsListed' /\ NoneStarting' /\ TargetChosen'
  BY DEF Inv, StartingIsListed, NoneStarting, TargetChosen, Before, After, Listed
<1>4. OldIsListed' /\ SomeListed' /\ NoneOld' /\ RestartIsTracked'
  BY DEF Inv, OldIsListed, SomeListed, NoneOld, RestartIsTracked, Listed
<1> QED
  BY <1>1, <1>2, <1>3, <1>4 DEF Inv

(* PatchLastServerNodeStarted keeps the invariant.                          *)
LEMMA PatchLastServerNodeStartedKeepsInv ==
    ASSUME Inv, PatchLastServerNodeStarted PROVE Inv'
<1> USE DEF PatchLastServerNodeStarted, Goto, ChooseTarget, podVars, dcVars, listVars, passVars, bounds
<1>1. TypeOK'
  BY DEF Inv, TypeOK, Steps
<1>2. GoneIsBlank' /\ OneStartingLabel'
  BY DEF Inv, GoneIsBlank, OneStartingLabel
<1>3. StartingIsListed' /\ NoneStarting' /\ TargetChosen'
  BY DEF Inv, StartingIsListed, NoneStarting, TargetChosen, Before, After, Listed
<1>4. OldIsListed' /\ SomeListed' /\ NoneOld' /\ RestartIsTracked'
  BY DEF Inv, OldIsListed, SomeListed, NoneOld, RestartIsTracked, Listed
<1> QED
  BY <1>1, <1>2, <1>3, <1>4 DEF Inv

(* ClusterHealthy keeps the invariant.                                      *)
LEMMA ClusterHealthyKeepsInv ==
    ASSUME Inv, ClusterHealthy PROVE Inv'
<1> USE DEF ClusterHealthy, Goto, ChooseTarget, podVars, dcVars, listVars, passVars, bounds
<1>1. TypeOK'
  BY DEF Inv, TypeOK, Steps
<1>2. GoneIsBlank' /\ OneStartingLabel'
  BY DEF Inv, GoneIsBlank, OneStartingLabel
<1>3. StartingIsListed' /\ NoneStarting' /\ TargetChosen'
  BY DEF Inv, StartingIsListed, NoneStarting, TargetChosen, Before, After, Listed
<1>4. OldIsListed' /\ SomeListed' /\ NoneOld' /\ RestartIsTracked'
  BY DEF Inv, OldIsListed, SomeListed, NoneOld, RestartIsTracked, Listed
<1> QED
  BY <1>1, <1>2, <1>3, <1>4 DEF Inv

(* ClusterUnhealthy keeps the invariant.                                    *)
LEMMA ClusterUnhealthyKeepsInv ==
    ASSUME Inv, ClusterUnhealthy PROVE Inv'
<1> USE DEF ClusterUnhealthy, Goto, ChooseTarget, podVars, dcVars, listVars, passVars, bounds
<1>1. TypeOK'
  BY DEF Inv, TypeOK, Steps
<1>2. GoneIsBlank' /\ OneStartingLabel'
  BY DEF Inv, GoneIsBlank, OneStartingLabel
<1>3. StartingIsListed' /\ NoneStarting' /\ TargetChosen'
  BY DEF Inv, StartingIsListed, NoneStarting, TargetChosen, Before, After, Listed
<1>4. OldIsListed' /\ SomeListed' /\ NoneOld' /\ RestartIsTracked'
  BY DEF Inv, OldIsListed, SomeListed, NoneOld, RestartIsTracked, Listed
<1> QED
  BY <1>1, <1>2, <1>3, <1>4 DEF Inv

(* The pod to start is a listed one.                                        *)
LEMMA StartAllNodesKeepsInv ==
    ASSUME Inv, StartAllNodes PROVE Inv'
<1> USE DEF StartAllNodes, Goto, ChooseTarget, podVars, dcVars, listVars, passVars, bounds
<1>1. TypeOK'
  <2>1. target' \in Pods \cup {NoPod} /\ pc' \in Steps
    BY DEF Inv, TypeOK, Listed, Steps
  <2> QED
    BY <2>1 DEF Inv, TypeOK
<1>2. GoneIsBlank' /\ OneStartingLabel'
  BY DEF Inv, GoneIsBlank, OneStartingLabel
<1>3. StartingIsListed' /\ NoneStarting' /\ TargetChosen'
  BY DEF Inv, StartingIsListed, NoneStarting, TargetChosen, Before, After, Listed
<1>4. OldIsListed' /\ SomeListed' /\ NoneOld' /\ RestartIsTracked'
  BY DEF Inv, OldIsListed, SomeListed, NoneOld, RestartIsTracked, Listed
<1> QED
  BY <1>1, <1>2, <1>3, <1>4 DEF Inv

(* TakeRequestBack keeps the invariant.                                     *)
LEMMA TakeRequestBackKeepsInv ==
    ASSUME Inv, TakeRequestBack PROVE Inv'
<1> USE DEF TakeRequestBack, Goto, ChooseTarget, podVars, dcVars, listVars, passVars, bounds
<1>1. TypeOK'
  BY DEF Inv, TypeOK, Steps
<1>2. GoneIsBlank' /\ OneStartingLabel'
  BY DEF Inv, GoneIsBlank, OneStartingLabel
<1>3. StartingIsListed' /\ NoneStarting' /\ TargetChosen'
  BY DEF Inv, StartingIsListed, NoneStarting, TargetChosen, Before, After, Listed
<1>4. OldIsListed' /\ SomeListed' /\ NoneOld' /\ RestartIsTracked'
  BY DEF Inv, OldIsListed, SomeListed, NoneOld, RestartIsTracked, Listed
<1> QED
  BY <1>1, <1>2, <1>3, <1>4 DEF Inv

(* The condition is cleared when no pod is old.                             *)
LEMMA CheckClearActionConditionsKeepsInv ==
    ASSUME Inv, CheckClearActionConditions PROVE Inv'
<1> USE DEF CheckClearActionConditions, Goto, ChooseTarget, podVars, dcVars, listVars, passVars, bounds
<1>1. TypeOK'
  BY DEF Inv, TypeOK, Steps
<1>2. GoneIsBlank' /\ OneStartingLabel'
  BY DEF Inv, GoneIsBlank, OneStartingLabel
<1>3. StartingIsListed' /\ NoneStarting' /\ TargetChosen'
  BY DEF Inv, StartingIsListed, NoneStarting, TargetChosen, Before, After, Listed
<1>4. OldIsListed' /\ SomeListed' /\ NoneOld' /\ RestartIsTracked'
  BY DEF Inv, OldIsListed, SomeListed, NoneOld, RestartIsTracked, Listed
<1> QED
  BY <1>1, <1>2, <1>3, <1>4 DEF Inv

(* EndPass keeps the invariant.                                             *)
LEMMA EndPassKeepsInv ==
    ASSUME Inv, EndPass PROVE Inv'
<1> USE DEF EndPass, Goto, ChooseTarget, podVars, dcVars, listVars, passVars, bounds
<1>1. TypeOK'
  <2>1. rcLabel' \in [Pods -> Labels] /\ rcSeed' \in [Pods -> BOOLEAN]
        /\ rcPods' \in [Pods -> PodState]
    BY FreshPods DEF NoLabels, NoSeeds, NoPods, Labels
  <2> QED
    BY <2>1 DEF Inv, TypeOK, Steps
<1>2. GoneIsBlank' /\ OneStartingLabel'
  BY DEF Inv, GoneIsBlank, OneStartingLabel
<1>3. StartingIsListed' /\ NoneStarting' /\ TargetChosen'
  BY DEF Inv, StartingIsListed, NoneStarting, TargetChosen, Before, After, Listed
<1>4. OldIsListed' /\ SomeListed' /\ NoneOld' /\ RestartIsTracked'
  BY DEF Inv, OldIsListed, SomeListed, NoneOld, RestartIsTracked, Listed
<1> QED
  BY <1>1, <1>2, <1>3, <1>4 DEF Inv

(* Abort keeps the invariant.                                               *)
LEMMA AbortKeepsInv ==
    ASSUME Inv, Abort PROVE Inv'
<1> USE DEF Abort, Goto, ChooseTarget, podVars, dcVars, listVars, passVars, bounds
<1>1. TypeOK'
  <2>1. aborts' \in 0..MaxAborts
    BY ConstantsAssumption, SMT DEF Inv, TypeOK
  <2> QED
    BY <2>1 DEF Inv, TypeOK, Steps
<1>2. GoneIsBlank' /\ OneStartingLabel'
  BY DEF Inv, GoneIsBlank, OneStartingLabel
<1>3. StartingIsListed' /\ NoneStarting' /\ TargetChosen'
  BY DEF Inv, StartingIsListed, NoneStarting, TargetChosen, Before, After, Listed
<1>4. OldIsListed' /\ SomeListed' /\ NoneOld' /\ RestartIsTracked'
  BY DEF Inv, OldIsListed, SomeListed, NoneOld, RestartIsTracked, Listed
<1> QED
  BY <1>1, <1>2, <1>3, <1>4 DEF Inv

(* CooldownEnds keeps the invariant.                                        *)
LEMMA CooldownEndsKeepsInv ==
    ASSUME Inv, CooldownEnds PROVE Inv'
<1> USE DEF CooldownEnds, Goto, ChooseTarget, podVars, dcVars, listVars, passVars, bounds
<1>1. TypeOK'
  BY ZenonT(30) DEF Inv, TypeOK, Steps
<1>2. GoneIsBlank' /\ OneStartingLabel'
  BY DEF Inv, GoneIsBlank, OneStartingLabel
<1>3. StartingIsListed' /\ NoneStarting' /\ TargetChosen'
  BY DEF Inv, StartingIsListed, NoneStarting, TargetChosen, Before, After, Listed
<1>4. OldIsListed' /\ SomeListed' /\ NoneOld' /\ RestartIsTracked'
  BY DEF Inv, OldIsListed, SomeListed, NoneOld, RestartIsTracked, Listed
<1> QED
  BY <1>1, <1>2, <1>3, <1>4 DEF Inv

(* RequestRollingRestart keeps the invariant.                               *)
LEMMA RequestRollingRestartKeepsInv ==
    ASSUME Inv, RequestRollingRestart PROVE Inv'
<1> USE DEF RequestRollingRestart, Goto, ChooseTarget, podVars, dcVars, listVars, passVars, bounds
<1>1. TypeOK'
  <2>1. requests' \in 0..MaxRequests
    BY ConstantsAssumption, SMT DEF Inv, TypeOK
  <2> QED
    BY <2>1 DEF Inv, TypeOK
<1>2. GoneIsBlank' /\ OneStartingLabel'
  BY DEF Inv, GoneIsBlank, OneStartingLabel
<1>3. StartingIsListed' /\ NoneStarting' /\ TargetChosen'
  BY DEF Inv, StartingIsListed, NoneStarting, TargetChosen, Before, After, Listed
<1>4. OldIsListed' /\ SomeListed' /\ NoneOld' /\ RestartIsTracked'
  BY DEF Inv, OldIsListed, SomeListed, NoneOld, RestartIsTracked, Listed
<1> QED
  BY <1>1, <1>2, <1>3, <1>4 DEF Inv

(* A patch fails without effect if the pod is gone; otherwise the pod and   *)
(* its copy in the list get the label.                                      *)
LEMMA PatchPodFacts ==
    ASSUME Inv, NEW p \in Pods, NEW l \in Labels, NEW b \in BOOLEAN, NEW step,
           PatchPod(p, l, b, step)
    PROVE  /\ pods' = pods
           /\ label' \in [Pods -> Labels] /\ rcLabel' \in [Pods -> Labels]
           /\ seed' \in [Pods -> BOOLEAN] /\ rcSeed' \in [Pods -> BOOLEAN]
           /\ rcPods' \in [Pods -> PodState]
           /\ \/ /\ pods[p].phase = "gone" /\ pc' = "done"
                 /\ label' = label /\ rcLabel' = rcLabel /\ rcPods' = rcPods
              \/ /\ pods[p].phase # "gone" /\ pc' = step
                 /\ label'[p] = l /\ rcLabel'[p] = l /\ rcPods'[p] = pods[p]
                 /\ \A q \in Pods \ {p} : /\ label'[q] = label[q]
                                          /\ rcLabel'[q] = rcLabel[q]
                                          /\ rcPods'[q] = rcPods[q]
                 /\ Listed' = Listed \cup {p}
<1> USE DEF Inv, TypeOK
<1>1. CASE ~Exists(p)
  BY <1>1 DEF PatchPod, Exists, listVars
<1>2. CASE Exists(p)
  <2>1. /\ pods' = pods /\ pc' = step
        /\ label' = [label EXCEPT ![p] = l] /\ rcLabel' = [rcLabel EXCEPT ![p] = l]
        /\ seed' = [seed EXCEPT ![p] = b] /\ rcSeed' = [rcSeed EXCEPT ![p] = b]
        /\ rcPods' = [rcPods EXCEPT ![p] = pods[p]]
    BY <1>2 DEF PatchPod
  <2>2. /\ label'[p] = l /\ rcLabel'[p] = l /\ rcPods'[p] = pods[p]
        /\ \A q \in Pods \ {p} : /\ label'[q] = label[q]
                                 /\ rcLabel'[q] = rcLabel[q]
                                 /\ rcPods'[q] = rcPods[q]
    BY <2>1
  <2>3. pods[p].phase # "gone"
    BY <1>2 DEF Exists
  <2>4. Listed' = Listed \cup {p}
    BY <2>2, <2>3 DEF Listed
  <2> QED
    BY <2>1, <2>2, <2>3, <2>4
<1> QED
  BY <1>1, <1>2

(* A patch keeps the invariant if it leads from the steps before            *)
(* findStartingNodes to each other, or past it when no other pod is         *)
(* starting, or sets Starting when there is no such pod and ends the pass.  *)
LEMMA PatchKeepsInv ==
    ASSUME Inv, NEW p \in Pods, NEW l \in Labels, NEW b \in BOOLEAN, NEW step,
           PatchPod(p, l, b, step),
           UNCHANGED <<requested, restarting, cooldown, rcRequested, seeded,
                       target, disruptions, requests, aborts>>,
           todo' \subseteq todo,
           pc \in Before \cup {"firstSeed", "labelStarting"},
           \/ pc \in Before /\ step \in Before \cup {"done"}
                            /\ (l = "Starting" => label[p] = "Starting")
           \/ step \in {"rackNodes", "start"} /\ l # "Starting"
                 /\ (step = "start" => target \in Pods)
                 /\ \A q \in Pods \ {p} : label[q] # "Starting"
           \/ step = "lastStarted" /\ \A q \in Pods \ {p} : label[q] # "Starting"
    PROVE  Inv'
<1>0. step \in Before \cup {"done", "rackNodes", "start", "lastStarted"}
  OBVIOUS
<1>1. TypeOK'
  <2>1. pc' \in Steps
    BY <1>0, PatchPodFacts, SMT DEF Steps, Before
  <2> QED
    BY <2>1, PatchPodFacts, SMT DEF Inv, TypeOK
<1>2. GoneIsBlank' /\ OneStartingLabel'
  <2>1. GoneIsBlank'
    BY PatchPodFacts, SMT DEF Inv, GoneIsBlank
  <2>2. ASSUME NEW q \in Pods \ {p}, label'[q] = "Starting", label'[p] = "Starting"
        PROVE  FALSE
    BY <2>2, PatchPodFacts, SMT DEF Inv, OneStartingLabel
  <2>3. \A q \in Pods \ {p} : label'[q] = label[q]
    BY PatchPodFacts, SMT
  <2> QED
    BY <2>1, <2>2, <2>3 DEF Inv, OneStartingLabel
<1>3. StartingIsListed' /\ NoneStarting' /\ TargetChosen'
  <2>0. pc' \in {"done", step}
    BY PatchPodFacts, SMT
  <2>1. NoneStarting' /\ TargetChosen'
    <3>1. SUFFICES ASSUME step \in {"rackNodes", "start"}, pc' = step
                   PROVE  (\A q \in Pods : label'[q] # "Starting") /\ TargetChosen'
      BY <1>0, <2>0 DEF NoneStarting, TargetChosen, Before, After
    <3>2. l # "Starting" /\ \A q \in Pods \ {p} : label[q] # "Starting"
      BY <3>1 DEF Before
    <3>3. label'[p] = l /\ \A q \in Pods \ {p} : label'[q] = label[q]
      BY <3>1, PatchPodFacts, SMT
    <3>4. TargetChosen'
      BY <3>1 DEF TargetChosen, Before
    <3> QED
      BY <3>2, <3>3, <3>4
  <2>2. SUFFICES ASSUME pc' \in Before PROVE StartingIsListed'
    BY <2>1 DEF StartingIsListed
  <2>3. /\ pc \in Before /\ (l = "Starting" => label[p] = "Starting")
        /\ pods[p].phase # "gone" /\ label'[p] = l /\ rcLabel'[p] = l
        /\ \A q \in Pods \ {p} : label'[q] = label[q] /\ rcLabel'[q] = rcLabel[q]
        /\ Listed' = Listed \cup {p}
    BY <2>2, PatchPodFacts, SMT DEF Before
  <2> QED
    BY <2>3, SMT DEF Inv, StartingIsListed
<1>4. OldIsListed' /\ SomeListed' /\ NoneOld' /\ RestartIsTracked'
  BY PatchPodFacts, <1>0, SMT DEF Inv, OldIsListed, SomeListed, NoneOld,
     RestartIsTracked, Before, Listed
<1> QED
  BY <1>1, <1>2, <1>3, <1>4 DEF Inv

(* A pod that lost its readiness or got it back is not starting.            *)
LEMMA FindStartedNotReadyNodesKeepsInv ==
    ASSUME Inv, FindStartedNotReadyNodes PROVE Inv'
<1> USE DEF FindStartedNotReadyNodes, dcVars, bounds
<1>1. ASSUME NEW p \in Listed,
             \/ LabelState(p, "Started-not-Ready", "done")
             \/ LabelState(p, "Started", "stuckNodes"),
             UNCHANGED <<rcRequested, todo, seeded, target>>
      PROVE  Inv'
  <2>1. p \in Pods /\ seed[p] \in BOOLEAN
    BY DEF Inv, TypeOK, Listed
  <2>2. "Started-not-Ready" \in Labels /\ "Started" \in Labels
    BY DEF Labels
  <2>3. pc \in Before /\ "stuckNodes" \in Before
    BY DEF Before
  <2>4. CASE PatchPod(p, "Started-not-Ready", seed[p], "done")
    BY <1>1, <2>1, <2>2, <2>3, <2>4, PatchKeepsInv
  <2>5. CASE PatchPod(p, "Started", seed[p], "stuckNodes")
    BY <1>1, <2>1, <2>2, <2>3, <2>5, PatchKeepsInv
  <2> QED
    BY <1>1, <2>4, <2>5 DEF LabelState
<1>2. ASSUME Goto("stuckNodes"), UNCHANGED podVars PROVE Inv'
  <2> USE <1>2 DEF Goto, podVars, listVars
  <2>1. TypeOK' /\ GoneIsBlank' /\ OneStartingLabel'
    BY DEF Inv, TypeOK, Steps, GoneIsBlank, OneStartingLabel
  <2>2. StartingIsListed' /\ NoneStarting' /\ TargetChosen'
    BY DEF Inv, StartingIsListed, NoneStarting, TargetChosen, Before, After, Listed
  <2>3. OldIsListed' /\ SomeListed' /\ NoneOld' /\ RestartIsTracked'
    BY DEF Inv, OldIsListed, SomeListed, NoneOld, RestartIsTracked, Listed
  <2> QED
    BY <2>1, <2>2, <2>3 DEF Inv
<1> QED
  BY <1>1, <1>2

(* A seed patch leaves the node-state label alone.                          *)
LEMMA LabelSeedPodsKeepsInv ==
    ASSUME Inv, LabelSeedPods PROVE Inv'
<1> USE DEF LabelSeedPods, dcVars, bounds
<1>1. CASE todo = {}
  <2> USE <1>1 DEF Goto, podVars, listVars
  <2>1. TypeOK' /\ GoneIsBlank' /\ OneStartingLabel'
    BY DEF Inv, TypeOK, Steps, GoneIsBlank, OneStartingLabel
  <2>2. StartingIsListed' /\ NoneStarting' /\ TargetChosen'
    BY DEF Inv, StartingIsListed, NoneStarting, TargetChosen, Before, After, Listed
  <2>3. OldIsListed' /\ SomeListed' /\ NoneOld' /\ RestartIsTracked'
    BY DEF Inv, OldIsListed, SomeListed, NoneOld, RestartIsTracked, Listed
  <2> QED
    BY <2>1, <2>2, <2>3 DEF Inv
<1>2. CASE todo # {}
  <2>1. PICK t \in todo : /\ PatchPod(t[1], label[t[1]], t[2], "labelSeeds")
                          /\ todo' = todo \ {t}
    BY <1>2 DEF LabelSeed
  <2>2. t[1] \in Pods /\ t[2] \in BOOLEAN
    BY DEF Inv, TypeOK
  <2>3. label[t[1]] \in Labels
    BY <2>2 DEF Inv, TypeOK
  <2>4. pc \in Before /\ "labelSeeds" \in Before
    BY DEF Before
  <2>5. UNCHANGED <<requested, restarting, cooldown, rcRequested, seeded,
                    target, disruptions, requests, aborts>> /\ todo' \subseteq todo
    BY <1>2, <2>1
  <2> DEFINE p == t[1]  l == label[p]  b == t[2]
  <2>6. /\ p \in Pods /\ l \in Labels /\ b \in BOOLEAN
        /\ PatchPod(p, l, b, "labelSeeds") /\ l = label[p]
    BY <2>1, <2>2, <2>3
  <2> HIDE DEF p, l, b
  <2> QED
    BY <2>4, <2>5, <2>6, PatchKeepsInv
<1> QED
  BY <1>1, <1>2

(* The pass goes past findStartingNodes when the one pod that may be        *)
(* starting is ready, or there is none.                                     *)
LEMMA FindStartingNodesKeepsInv ==
    ASSUME Inv, FindStartingNodes PROVE Inv'
<1> USE DEF FindStartingNodes, dcVars, bounds
<1>0. pc \in Before
  BY DEF Before
<1>1. ASSUME NEW p \in Listed, rcLabel[p] = "Starting",
             LabelState(p, "Started", "rackNodes"),
             UNCHANGED <<rcRequested, todo, seeded, target>>
      PROVE  Inv'
  <2>1. p \in Pods /\ seed[p] \in BOOLEAN /\ "Started" \in Labels
    BY DEF Inv, TypeOK, Listed, Labels
  <2>2. \A q \in Pods \ {p} : label[q] # "Starting"
    BY <1>0, <1>1, <2>1 DEF Inv, StartingIsListed
  <2> QED
    BY <1>0, <1>1, <2>1, <2>2, PatchKeepsInv DEF LabelState
<1>2. ASSUME NEW step \in {"done", "rackNodes"}, Goto(step), UNCHANGED podVars,
             step = "rackNodes" => \A p \in Listed : rcLabel[p] # "Starting"
      PROVE  Inv'
  <2> USE <1>2 DEF Goto, podVars, listVars
  <2>1. TypeOK' /\ GoneIsBlank' /\ OneStartingLabel'
    BY DEF Inv, TypeOK, Steps, GoneIsBlank, OneStartingLabel
  <2>2. StartingIsListed' /\ NoneStarting' /\ TargetChosen'
    BY <1>0 DEF Inv, StartingIsListed, NoneStarting, TargetChosen, Before, After, Listed
  <2>3. OldIsListed' /\ SomeListed' /\ NoneOld' /\ RestartIsTracked'
    BY DEF Inv, OldIsListed, SomeListed, NoneOld, RestartIsTracked, Listed
  <2> QED
    BY <2>1, <2>2, <2>3 DEF Inv
<1> QED
  BY <1>1, <1>2

(* The target of the first seed label is a pod, and none is starting.       *)
LEMMA LabelFirstSeedKeepsInv ==
    ASSUME Inv, LabelFirstSeed PROVE Inv'
<1> USE DEF LabelFirstSeed, dcVars, bounds
<1>1. target \in Pods
  BY DEF Inv, TargetChosen
<1>2. \A q \in Pods : label[q] # "Starting"
  BY DEF Inv, NoneStarting, After
<1>3. label[target] \in Labels /\ TRUE \in BOOLEAN
  BY <1>1 DEF Inv, TypeOK
<1> DEFINE l == label[target]
<1>4. l \in Labels /\ l # "Starting" /\ PatchPod(target, l, TRUE, "start")
  BY <1>1, <1>2, <1>3 DEF LabelSeed
<1> HIDE DEF l
<1> QED
  BY <1>1, <1>2, <1>4, PatchKeepsInv

(* The target gets the label while no pod is starting.                      *)
LEMMA LabelServerPodStartingKeepsInv ==
    ASSUME Inv, LabelServerPodStarting PROVE Inv'
<1> USE DEF LabelServerPodStarting, dcVars, bounds
<1>1. target \in Pods
  BY DEF Inv, TargetChosen
<1>2. \A q \in Pods : label[q] # "Starting"
  BY DEF Inv, NoneStarting, After
<1>3. "Starting" \in Labels /\ seed[target] \in BOOLEAN
  BY <1>1 DEF Inv, TypeOK, Labels
<1> QED
  BY <1>1, <1>2, <1>3, PatchKeepsInv DEF LabelState

(* A deleted pod is terminating, if it was not gone already.                *)
LEMMA DeletedFacts ==
    ASSUME Inv, NEW p \in Pods
    PROVE  /\ Deleted(p) \in [Pods -> PodState]
           /\ \A q \in Pods :
                 /\ Deleted(p)[q].cass = pods[q].cass
                 /\ Deleted(p)[q].old = pods[q].old
                 /\ Deleted(p)[q].phase = "gone" => Deleted(p)[q] = pods[q]
<1>0. pods \in [Pods -> PodState] /\ pods[p] \in PodState
  BY DEF Inv, TypeOK
<1>1. CASE ~Exists(p)
  BY <1>0, <1>1 DEF Deleted
<1>2. CASE Exists(p)
  <2> DEFINE s == [pods[p] EXCEPT !.phase = "terminating"]
  <2>1. Deleted(p) = [pods EXCEPT ![p] = s]
    BY <1>2 DEF Deleted
  <2>2. s \in PodState /\ s.phase = "terminating" /\ s.cass = pods[p].cass
        /\ s.old = pods[p].old
    BY <1>0, PodFields
  <2>3. pods[p].phase # "gone"
    BY <1>2 DEF Exists
  <2> HIDE DEF s
  <2> QED
    BY <1>0, <2>1, <2>2, <2>3
<1> QED
  BY <1>1, <1>2

(* A deletion changes only the phase.                                       *)
LEMMA DeletionKeepsInv ==
    ASSUME Inv, NEW p \in Pods, pods' = Deleted(p), Goto("done"),
           UNCHANGED <<label, seed, dcVars, bounds>>
    PROVE  Inv'
<1> USE DeletedFacts DEF Goto, dcVars, bounds, listVars
<1>1. TypeOK'
  BY DEF Inv, TypeOK, Steps
<1>2. GoneIsBlank' /\ OneStartingLabel' /\ RestartIsTracked'
  BY ZenonT(30) DEF Inv, GoneIsBlank, OneStartingLabel, RestartIsTracked
<1>3. /\ StartingIsListed' /\ NoneStarting' /\ TargetChosen'
      /\ OldIsListed' /\ SomeListed' /\ NoneOld'
  BY DEF StartingIsListed, NoneStarting, TargetChosen, OldIsListed, SomeListed,
     NoneOld, Before, After
<1> QED
  BY <1>1, <1>2, <1>3 DEF Inv

(* deleteStuckNodes ends the pass or changes nothing.                       *)
LEMMA DeleteStuckNodesKeepsInv ==
    ASSUME Inv, DeleteStuckNodes PROVE Inv'
<1> USE DEF DeleteStuckNodes
<1>1. ASSUME NEW p \in Listed, pods' = Deleted(p), Goto("done") PROVE Inv'
  BY <1>1, DeletionKeepsInv DEF Listed
<1>2. ASSUME UNCHANGED pods, Goto("seeds") PROVE Inv'
  <2> USE <1>2 DEF Goto, dcVars, bounds, listVars
  <2>1. TypeOK' /\ GoneIsBlank' /\ OneStartingLabel'
    BY DEF Inv, TypeOK, Steps, GoneIsBlank, OneStartingLabel
  <2>2. StartingIsListed' /\ NoneStarting' /\ TargetChosen'
    BY DEF Inv, StartingIsListed, NoneStarting, TargetChosen, Before, After, Listed
  <2>3. OldIsListed' /\ SomeListed' /\ NoneOld' /\ RestartIsTracked'
    BY DEF Inv, OldIsListed, SomeListed, NoneOld, RestartIsTracked, Listed
  <2> QED
    BY <2>1, <2>2, <2>3 DEF Inv
<1> QED
  BY <1>1, <1>2

(* The restart deletes its target.                                          *)
LEMMA DeleteOldPodKeepsInv ==
    ASSUME Inv, DeleteOldPod PROVE Inv'
<1>1. target \in Pods
  BY DEF Inv, TargetChosen, DeleteOldPod
<1> QED
  BY <1>1, DeletionKeepsInv DEF DeleteOldPod

(* The start call changes the state of Cassandra only.                      *)
LEMMA StartCassandraKeepsInv ==
    ASSUME Inv, StartCassandra PROVE Inv'
<1> USE DEF StartCassandra, Goto, dcVars, bounds, listVars
<1>1. target \in Pods /\ pods \in [Pods -> PodState] /\ pods[target] \in PodState
      /\ "joining" \in CassStates
  BY DEF Inv, TargetChosen, TypeOK, CassStates
<1> DEFINE s == [pods[target] EXCEPT !.cass = "joining"]
<1>2. s \in PodState /\ s.phase = pods[target].phase /\ s.old = pods[target].old
  BY <1>1, CassField
<1>3. pods' = IF pods[target].mgmt /\ pods[target].cass = "down"
              THEN [pods EXCEPT ![target] = s] ELSE pods
  OBVIOUS
<1> HIDE DEF s
<1>4. /\ pods' \in [Pods -> PodState]
      /\ \A q \in Pods : pods'[q].phase = pods[q].phase /\ pods'[q].old = pods[q].old
  BY <1>1, <1>2, <1>3
<1>5. TypeOK'
  BY <1>4 DEF Inv, TypeOK, Steps
<1>6. OneStartingLabel' /\ RestartIsTracked'
  BY <1>4 DEF Inv, OneStartingLabel, RestartIsTracked
<1>7. GoneIsBlank'
  BY <1>1, <1>2, <1>3, FreshPods, SMT DEF Inv, GoneIsBlank
<1>8. /\ StartingIsListed' /\ NoneStarting' /\ TargetChosen'
      /\ OldIsListed' /\ SomeListed' /\ NoneOld'
  BY <1>4 DEF Inv, StartingIsListed, NoneStarting, TargetChosen, OldIsListed, SomeListed,
     NoneOld, Before, After, Listed
<1> QED
  BY <1>5, <1>6, <1>7, <1>8 DEF Inv

(* A drained pod stays listed and old.                                      *)
LEMMA DrainOldPodKeepsInv ==
    ASSUME Inv, DrainOldPod PROVE Inv'
<1> USE DEF DrainOldPod, Goto, dcVars, bounds, listVars
<1>1. ASSUME NEW p \in Listed, rcPods[p].old, target' = p, pc' = "deletePod",
             UNCHANGED <<rcLabel, rcSeed, rcPods, rcRequested, todo, seeded>>,
             pods' = IF pods[p].cass \in {"joining", "ready", "unready"}
                     THEN [pods EXCEPT ![p].cass =
                              IF @ = "ready" THEN "draining" ELSE "drained"]
                     ELSE pods
      PROVE  Inv'
  <2>1. p \in Pods /\ pods \in [Pods -> PodState] /\ pods[p] \in PodState
    BY DEF Inv, TypeOK, Listed
  <2> DEFINE c == IF pods[p].cass = "ready" THEN "draining" ELSE "drained"
             s == [pods[p] EXCEPT !.cass = c]
  <2>2. c \in CassStates
    BY DEF CassStates
  <2>3. pods' = IF pods[p].cass \in {"joining", "ready", "unready"}
                THEN [pods EXCEPT ![p] = s] ELSE pods
    BY <1>1
  <2> HIDE DEF c
  <2>4. s \in PodState /\ s.phase = pods[p].phase /\ s.old = pods[p].old
    BY <2>1, <2>2, CassField
  <2> HIDE DEF s
  <2>5. /\ pods' \in [Pods -> PodState]
        /\ \A q \in Pods : /\ pods'[q].phase = pods[q].phase
                           /\ pods'[q].old = pods[q].old
                           /\ pods[q].cass = "down" => pods'[q] = pods[q]
    BY <2>1, <2>3, <2>4
  <2>6. TypeOK'
    BY <1>1, <2>1, <2>5 DEF Inv, TypeOK, Steps
  <2>7. GoneIsBlank' /\ OneStartingLabel' /\ RestartIsTracked'
    BY <2>5, FreshPods, SMT DEF Inv, GoneIsBlank, OneStartingLabel, RestartIsTracked
  <2>8. /\ StartingIsListed' /\ NoneStarting' /\ TargetChosen'
        /\ OldIsListed' /\ SomeListed' /\ NoneOld'
    BY <1>1, <2>1 DEF StartingIsListed, NoneStarting, TargetChosen, OldIsListed,
       SomeListed, NoneOld, Before, After
  <2> QED
    BY <2>6, <2>7, <2>8 DEF Inv
<1>2. ASSUME \A p \in Listed : ~rcPods[p].old, Goto("clear"), UNCHANGED pods
      PROVE  Inv'
  <2> USE <1>2
  <2>1. TypeOK' /\ GoneIsBlank' /\ OneStartingLabel'
    BY DEF Inv, TypeOK, Steps, GoneIsBlank, OneStartingLabel
  <2>2. StartingIsListed' /\ NoneStarting' /\ TargetChosen'
    BY DEF Inv, StartingIsListed, NoneStarting, TargetChosen, Before, After, Listed
  <2>3. \A p \in Pods : ~pods[p].old
    BY DEF Inv, OldIsListed
  <2>4. OldIsListed' /\ SomeListed' /\ NoneOld' /\ RestartIsTracked'
    BY <2>3 DEF OldIsListed, SomeListed, NoneOld, RestartIsTracked
  <2> QED
    BY <2>1, <2>2, <2>4 DEF Inv
<1> QED
  BY <1>1, <1>2

(* A requested restart makes every pod old, in the list too, which is not   *)
(* empty.                                                                   *)
LEMMA CheckRollingRestartKeepsInv ==
    ASSUME Inv, CheckRollingRestart PROVE Inv'
<1> USE DEF CheckRollingRestart, Goto, bounds, listVars, passVars
<1>1. CASE rcRequested
  <2> DEFINE s(p) == [pods[p] EXCEPT !.old = TRUE]
             t(p) == [rcPods[p] EXCEPT !.old = TRUE]
  <2>1. /\ pods' = [p \in Pods |-> IF Exists(p) THEN s(p) ELSE pods[p]]
        /\ rcPods' = [p \in Pods |-> t(p)]
        /\ restarting' = TRUE /\ pc' = "restartSpec"
    BY <1>1
  <2>2. ASSUME NEW p \in Pods
        PROVE  /\ s(p) \in PodState /\ s(p).phase = pods[p].phase
               /\ s(p).cass = pods[p].cass
               /\ t(p) \in PodState /\ t(p).phase = rcPods[p].phase /\ t(p).old
    <3>1. pods[p] \in PodState /\ rcPods[p] \in PodState
      BY DEF Inv, TypeOK
    <3> QED
      BY <3>1, OldField
  <2>0. pods \in [Pods -> PodState]
    BY DEF Inv, TypeOK
  <2> HIDE DEF s, t
  <2>3. /\ pods' \in [Pods -> PodState] /\ rcPods' \in [Pods -> PodState]
        /\ \A p \in Pods : pods'[p].phase = pods[p].phase /\ rcPods'[p].old
        /\ \A p \in Pods : pods[p].phase = "gone" => pods'[p] = pods[p]
        /\ Listed' = Listed
    BY <2>1, <2>2, <2>0 DEF Listed, Exists
  <2>4. TypeOK'
    BY <1>1, <2>1, <2>3 DEF Inv, TypeOK, Steps
  <2>5. GoneIsBlank' /\ OneStartingLabel' /\ RestartIsTracked'
    BY <1>1, <2>1, <2>3, SMT DEF Inv, GoneIsBlank, OneStartingLabel, RestartIsTracked
  <2>6. StartingIsListed' /\ NoneStarting' /\ TargetChosen' /\ SomeListed' /\ NoneOld'
    BY <2>1 DEF StartingIsListed, NoneStarting, TargetChosen, SomeListed, NoneOld,
       Before, After
  <2>7. OldIsListed'
    <3>1. Listed # {} /\ Listed \subseteq Pods
      BY DEF Inv, SomeListed, Listed
    <3> QED
      BY <2>1, <2>3, <3>1 DEF OldIsListed
  <2> QED
    BY <2>4, <2>5, <2>6, <2>7 DEF Inv
<1>2. CASE ~rcRequested
  <2> USE <1>2
  <2>1. TypeOK' /\ GoneIsBlank' /\ OneStartingLabel'
    BY DEF Inv, TypeOK, Steps, GoneIsBlank, OneStartingLabel
  <2>2. StartingIsListed' /\ NoneStarting' /\ TargetChosen'
    BY DEF Inv, StartingIsListed, NoneStarting, TargetChosen, Before, After, Listed
  <2>3. OldIsListed' /\ SomeListed' /\ NoneOld' /\ RestartIsTracked'
    BY DEF Inv, OldIsListed, SomeListed, NoneOld, RestartIsTracked, Listed
  <2> QED
    BY <2>1, <2>2, <2>3 DEF Inv
<1> QED
  BY <1>1, <1>2

(* A removed pod leaves nothing behind.                                     *)
LEMMA PodRemovedKeepsInv ==
    ASSUME Inv, NEW p \in Pods, PodRemoved(p) PROVE Inv'
<1> USE FreshPods DEF PodRemoved, dcVars, listVars, passVars, bounds
<1>1. Listed' = Listed
  BY DEF Listed
<1>2. /\ pods' \in [Pods -> PodState] /\ label' \in [Pods -> Labels]
      /\ seed' \in [Pods -> BOOLEAN]
      /\ pods'[p] = GonePod /\ label'[p] = "Ready-to-Start"
      /\ \A q \in Pods : q # p => pods'[q] = pods[q] /\ label'[q] = label[q]
  BY DEF Inv, TypeOK, Labels
<1>3. TypeOK'
  BY <1>2 DEF Inv, TypeOK
<1>4. GoneIsBlank' /\ OneStartingLabel' /\ NoneStarting' /\ TargetChosen' /\ SomeListed'
  <2>1. GoneIsBlank' /\ OneStartingLabel'
    BY <1>2, SMT DEF Inv, GoneIsBlank, OneStartingLabel
  <2>2. NoneStarting' /\ TargetChosen' /\ SomeListed'
    BY <1>1, <1>2 DEF Inv, NoneStarting, TargetChosen, SomeListed
  <2> QED
    BY <2>1, <2>2
<1>5. StartingIsListed'
  <2>1. /\ pc' = pc /\ rcLabel' = rcLabel
        /\ \A q \in Pods : label'[q] = "Starting" => label[q] = "Starting"
    BY <1>2
  <2> QED
    BY <1>1, <2>1, SMT DEF Inv, StartingIsListed
<1>6. OldIsListed' /\ NoneOld' /\ RestartIsTracked'
  BY <1>1, <1>2 DEF Inv, OldIsListed, NoneOld, RestartIsTracked
<1> QED
  BY <1>3, <1>4, <1>5, <1>6 DEF Inv

(* SplitRacks gives every rack a node when there are as many nodes as racks.*)
LEMMA SplitNodes ==
    ASSUME NEW n \in Nat, NEW r \in Nat \ {0}, r <= n, NEW i \in 1..r
    PROVE  SplitRacks(n, r)[i] \in 1..n
  <1> DEFINE q == n \div r  e == n % r
  <1>1. q \in Nat /\ e \in 0..(r - 1) /\ n = r * q + e
    BY SMT
  <1>2. SplitRacks(n, r)[i] = q + (IF i <= e THEN 1 ELSE 0)
    BY DEF SplitRacks
  <1> HIDE DEF q, e
  <1>3. q # 0
    BY <1>1, SMT
  <1>4. r * q = (r - 1) * q + q /\ (r - 1) * q \in Nat
    BY <1>1, SMT
  <1> QED BY <1>1, <1>2, <1>3, <1>4, SMT

(* There are finitely many pods, and there is one.                          *)
LEMMA PodsFinite == IsFiniteSet(Pods) /\ Pods # {}
<1> USE ConstantsAssumption
<1>1. ASSUME NEW r \in 1..Racks
      PROVE  Info[r].nodes \in 0..Size /\ 1 <= Info[r].nodes
  <2>1. Info[r].nodes = SplitRacks(Size, Racks)[r]
    BY DEF Info, RackInformation, DesiredNodeCount
  <2>2. Info[r].nodes \in 1..Size
    BY <2>1, SplitNodes
  <2> QED
    BY <2>2, SMT
<1>2. Pods \subseteq (1..Racks) \X (0..Size)
  <2> SUFFICES ASSUME NEW p \in Pods PROVE p \in (1..Racks) \X (0..Size)
    OBVIOUS
  <2>1. PICK r \in 1..Racks : p \in {<<r, i>> : i \in 0..Info[r].nodes - 1}
    BY DEF Pods
  <2>2. PICK i \in 0..Info[r].nodes - 1 : p = <<r, i>>
    BY <2>1
  <2>3. i \in 0..Size
    BY <1>1, SMT
  <2> QED
    BY <2>2, <2>3
<1>3. IsFiniteSet(1..Racks) /\ IsFiniteSet(0..Size)
  BY FS_Interval, SMT
<1>4. IsFiniteSet((1..Racks) \X (0..Size))
  BY <1>3, FS_Product
<1>5. <<1, 0>> \in Pods
  <2>1. 1 \in 1..Racks
    BY SMT
  <2>2. 0 \in 0..Info[1].nodes - 1
    BY <1>1, <2>1, SMT
  <2> QED
    BY <2>1, <2>2, SMT DEF Pods
<1> QED
  BY <1>2, <1>4, <1>5, FS_Subset

(* The pass gets to the rolling restart only with all its pods listed.      *)
LEMMA CountReadyAndStartedKeepsInv ==
    ASSUME Inv, CountReadyAndStarted PROVE Inv'
<1> USE DEF CountReadyAndStarted, Goto, podVars, dcVars, listVars, bounds
<1>1. TypeOK' /\ GoneIsBlank' /\ OneStartingLabel'
  BY DEF Inv, TypeOK, Steps, GoneIsBlank, OneStartingLabel
<1>2. StartingIsListed' /\ NoneStarting' /\ TargetChosen'
  BY DEF Inv, StartingIsListed, NoneStarting, TargetChosen, Before, After, Listed
<1>3. SomeListed'
  <2>1. Cardinality(Pods) \in Nat /\ Cardinality(Pods) # 0 /\ Cardinality({}) = 0
    BY PodsFinite, FS_EmptySet, FS_CardinalityType
  <2>2. SUFFICES ASSUME pc' = "restart", Listed = {} PROVE FALSE
    BY DEF SomeListed, Listed
  <2>3. Cardinality(Pods) <= Cardinality({p \in Listed : IsStarted(p)})
    BY <2>2
  <2>4. {p \in Listed : IsStarted(p)} = {}
    BY <2>2
  <2>5. Cardinality({p \in Listed : IsStarted(p)}) = 0
    BY <2>1, <2>4
  <2> DEFINE c == Cardinality(Pods)
             d == Cardinality({p \in Listed : IsStarted(p)})
  <2>6. c \in Nat /\ c # 0 /\ c <= d /\ d = 0
    BY <2>1, <2>3, <2>5
  <2> HIDE DEF c, d
  <2> QED
    BY <2>6, SMT
<1>4. OldIsListed' /\ NoneOld' /\ RestartIsTracked'
  BY DEF Inv, OldIsListed, NoneOld, RestartIsTracked, Listed
<1> QED
  BY <1>1, <1>2, <1>3, <1>4 DEF Inv

-----------------------------------------------------------------------------
(* The invariant.                                                           *)

(* A new datacenter has no pods, another one has no pod that is starting.   *)
LEMMA InitInv ==
    ASSUME Init PROVE Inv
<1>1. PICK new \in FirstStart :
          /\ label = [p \in Pods |-> IF new THEN "Ready-to-Start" ELSE "Started"]
          /\ seed  = [p \in Pods |-> ~new /\ p[2] < Info[p[1]].seeds]
          /\ pods  = [p \in Pods |-> IF new THEN GonePod ELSE UpPod]
  BY DEF Init
<1>2. pods \in [Pods -> PodState] /\ rcPods \in [Pods -> PodState]
  BY <1>1, FreshPods DEF Init, NoPods
<1>3. /\ label \in [Pods -> Labels] /\ rcLabel \in [Pods -> Labels]
      /\ seed \in [Pods -> BOOLEAN] /\ rcSeed \in [Pods -> BOOLEAN]
  BY <1>1 DEF Init, NoLabels, NoSeeds, Labels
<1>4. TypeOK
  <2>1. disruptions \in 0..MaxDisruptions /\ requests \in 0..MaxRequests
        /\ aborts \in 0..MaxAborts
    BY ConstantsAssumption, SMT DEF Init
  <2>2. /\ requested \in BOOLEAN /\ restarting \in BOOLEAN /\ cooldown \in BOOLEAN
        /\ rcRequested \in BOOLEAN /\ seeded \in BOOLEAN /\ pc \in Steps
        /\ todo \subseteq Pods \X BOOLEAN /\ target \in Pods \cup {NoPod}
    BY DEF Init, Steps
  <2> QED
    BY <1>2, <1>3, <2>1, <2>2 DEF TypeOK
<1>5. \A p \in Pods : label[p] # "Starting" /\ ~pods[p].old
                      /\ (pods[p].phase = "gone" =>
                             pods[p] = GonePod /\ label[p] = "Ready-to-Start")
  BY <1>1, FreshPods
<1>6. GoneIsBlank /\ OneStartingLabel /\ RestartIsTracked
  BY <1>5 DEF GoneIsBlank, OneStartingLabel, RestartIsTracked
<1>7. /\ StartingIsListed /\ NoneStarting /\ TargetChosen
      /\ OldIsListed /\ SomeListed /\ NoneOld
  BY DEF Init, StartingIsListed, NoneStarting, TargetChosen, OldIsListed,
     SomeListed, NoneOld, Before, After
<1> QED
  BY <1>4, <1>6, <1>7 DEF Inv

(* Nothing of Inv depends on what a stuttering step leaves alone.           *)
LEMMA StutterKeepsInv ==
    ASSUME Inv, UNCHANGED vars PROVE Inv'
<1> USE DEF vars, podVars, dcVars, listVars, passVars, bounds
<1>1. TypeOK' /\ GoneIsBlank' /\ OneStartingLabel'
  BY DEF Inv, TypeOK, GoneIsBlank, OneStartingLabel
<1>2. StartingIsListed' /\ NoneStarting' /\ TargetChosen'
  BY DEF Inv, StartingIsListed, NoneStarting, TargetChosen, Listed
<1>3. OldIsListed' /\ SomeListed' /\ NoneOld' /\ RestartIsTracked'
  BY DEF Inv, OldIsListed, SomeListed, NoneOld, RestartIsTracked, Listed
<1> QED
  BY <1>1, <1>2, <1>3 DEF Inv

(* Every step keeps the invariant.                                          *)
LEMMA NextKeepsInv ==
    ASSUME Inv, [Next]_vars PROVE Inv'
<1>1. CASE PassStep
  BY <1>1, FindStartedNotReadyNodesKeepsInv, DeleteStuckNodesKeepsInv,
     CheckSeedLabelsKeepsInv, LabelSeedPodsKeepsInv, RefreshSeedsKeepsInv,
     FindStartingNodesKeepsInv, StartOneNodePerRackKeepsInv,
     LabelFirstSeedKeepsInv, StartCassandraKeepsInv,
     LabelServerPodStartingKeepsInv, PatchLastServerNodeStartedKeepsInv,
     ClusterHealthyKeepsInv, ClusterUnhealthyKeepsInv, StartAllNodesKeepsInv,
     CountReadyAndStartedKeepsInv, CheckRollingRestartKeepsInv,
     TakeRequestBackKeepsInv, DrainOldPodKeepsInv, DeleteOldPodKeepsInv,
     CheckClearActionConditionsKeepsInv, EndPassKeepsInv DEF PassStep
<1>2. ASSUME NEW p \in Pods, PodStep(p) \/ Disruption(p) PROVE Inv'
  <2>1. CASE PodRemoved(p)
    BY <2>1, PodRemovedKeepsInv
  <2>2. CASE ~PodRemoved(p)
    <3>1. \/ CreatePod(p) \/ MgmtApiStarts(p) \/ NodeJoins(p) \/ NodeRecovers(p)
          \/ ProbeFails(p) \/ TenMinutesPass(p) \/ Disruption(p)
      BY <1>2, <2>2 DEF PodStep
    <3>2. PICK s \in PodState :
              /\ s.phase # "gone" /\ (s.old => pods[p].old)
              /\ PodTurns(p, s) /\ disruptions' \in 0..MaxDisruptions
      BY <3>1, PodEvents
    <3> QED
      BY <3>2, PodTurnsKeepsInv
  <2> QED
    BY <2>1, <2>2
<1>3. CASE BeginPass \/ Abort \/ CooldownEnds \/ RequestRollingRestart
  BY <1>3, BeginPassKeepsInv, AbortKeepsInv, CooldownEndsKeepsInv,
     RequestRollingRestartKeepsInv
<1>4. CASE UNCHANGED vars
  BY <1>4, StutterKeepsInv
<1> QED
  BY <1>1, <1>2, <1>3, <1>4 DEF Next

(* The invariant holds of every behaviour.                                  *)
THEOREM InvAlways == Spec => []Inv
<1> QED
  BY InitInv, NextKeepsInv, PTL DEF Spec

(* Every variable keeps its type.                                           *)
THEOREM TypeCorrect == Spec => []TypeOK
<1>1. Inv => TypeOK
  BY DEF Inv
<1> QED
  BY <1>1, InvAlways, PTL

(* At most one pod is labelled Starting, for every size of datacenter and   *)
(* any number of crashes, failures and recreated pods: a pass that labels   *)
(* one has seen every such label, and waited for the pod.                   *)
THEOREM StartingLabelAlwaysUnique == Spec => []OneStartingLabel
<1>1. Inv => OneStartingLabel
  BY DEF Inv
<1> QED
  BY <1>1, InvAlways, PTL

(* The RollingRestart condition is not cleared while a pod is older than    *)
(* the last rolling restart, however often the restart is interrupted.      *)
THEOREM RestartAlwaysTracked == Spec => []RestartIsTracked
<1>1. Inv => RestartIsTracked
  BY DEF Inv
<1> QED
  BY <1>1, InvAlways, PTL

-----------------------------------------------------------------------------
(* One node bootstraps at a time, when no pass is cut short between a start *)
(* call and the label that records it.                                      *)

(* A step that starts no node and takes no label from a joining one.        *)
LEMMA QuietKeepsJoinInv ==
    ASSUME JoinInv,
           pc # "labelStarting",
           pc' \in Before => pc \in Before,
           \A p \in Pods : pods'[p].cass = "joining" => pods[p].cass = "joining",
           \A p \in Pods : pods'[p].cass = "joining" /\ label[p] = "Starting"
                              => label'[p] = "Starting",
           pc' \in Before => \A p \in Pods :
              pods'[p].cass = "joining" /\ ~Ready(rcPods[p]) => ~Ready(rcPods'[p])
    PROVE  JoinInv'
<1>1. JoiningIsLabelled'
  BY DEF JoinInv, JoiningIsLabelled
<1>2. JoiningIsUnready'
  BY DEF JoinInv, JoiningIsUnready, Ready
<1> QED
  BY <1>1, <1>2 DEF JoinInv

(* The steps that change neither pods nor labels nor the list.              *)
LEMMA ReadingKeepsJoinInv ==
    ASSUME JoinInv, pc # "labelStarting",
           pc' \in Before => pc \in Before,
           pods' = pods, label' = label, rcPods' = rcPods
    PROVE  JoinInv'
BY QuietKeepsJoinInv

(* The steps that change pods, but neither labels nor the list, and start   *)
(* no node.                                                                 *)
LEMMA DeletionKeepsJoinInv ==
    ASSUME Inv, JoinInv, pc # "labelStarting", pc' \notin Before,
           NEW p \in Pods, pods' = Deleted(p), label' = label
    PROVE  JoinInv'
BY DeletedFacts, QuietKeepsJoinInv

(* A joining node is not ready in the list after a patch either, and keeps  *)
(* its label if the patched pod is another one.                             *)
LEMMA PatchKeepsJoinInv ==
    ASSUME Inv, JoinInv, NEW p \in Pods, NEW l \in Labels, NEW b \in BOOLEAN,
           NEW step, PatchPod(p, l, b, step),
           pc # "labelStarting", step \in Before => pc \in Before,
           l = label[p] \/ ~(pods[p].cass = "joining" /\ label[p] = "Starting")
    PROVE  JoinInv'
<1>1. pc' \in Before => pc \in Before
  BY PatchPodFacts, SMT DEF Before
<1>2. pods' = pods
  BY PatchPodFacts
<1>3. ASSUME NEW q \in Pods, pods[q].cass = "joining"
      PROVE  /\ label[q] = "Starting" => label'[q] = "Starting"
             /\ ~Ready(rcPods[q]) => ~Ready(rcPods'[q])
  <2>1. \/ label' = label /\ rcPods' = rcPods
        \/ /\ label'[p] = l /\ rcPods'[p] = pods[p]
           /\ \A r \in Pods \ {p} : label'[r] = label[r] /\ rcPods'[r] = rcPods[r]
    BY PatchPodFacts, SMT
  <2>2. ~Ready(pods[q])
    BY <1>3 DEF Ready
  <2>3. CASE q = p
    BY <1>3, <2>1, <2>2, <2>3 DEF Ready
  <2>4. CASE q # p
    BY <2>1, <2>4 DEF Ready
  <2> QED
    BY <2>3, <2>4
<1> QED
  BY <1>1, <1>2, <1>3, QuietKeepsJoinInv

(* A pod labelled by findStartedNotReadyNodes is not starting.              *)
LEMMA FindStartedNotReadyNodesKeepsJoinInv ==
    ASSUME Inv, JoinInv, FindStartedNotReadyNodes PROVE JoinInv'
<1> USE DEF FindStartedNotReadyNodes
<1>1. ASSUME NEW p \in Listed,
             \/ LostReadiness(p) /\ LabelState(p, "Started-not-Ready", "done")
             \/ GotReadinessBack(p) /\ LabelState(p, "Started", "stuckNodes")
      PROVE  JoinInv'
  <2>1. p \in Pods /\ seed[p] \in BOOLEAN
    BY DEF Inv, TypeOK, Listed
  <2>2. "Started-not-Ready" \in Labels /\ "Started" \in Labels
    BY DEF Labels
  <2>3. pc \in Before /\ pc # "labelStarting" /\ "done" \notin Before
    BY DEF Before
  <2>4. label[p] # "Starting"
    BY <1>1, <2>1, <2>3 DEF LostReadiness, GotReadinessBack, Inv, StartingIsListed
  <2>5. CASE PatchPod(p, "Started-not-Ready", seed[p], "done")
    BY <2>1, <2>2, <2>3, <2>4, <2>5, PatchKeepsJoinInv
  <2>6. CASE PatchPod(p, "Started", seed[p], "stuckNodes")
    BY <2>1, <2>2, <2>3, <2>4, <2>6, PatchKeepsJoinInv
  <2> QED
    BY <1>1, <2>5, <2>6 DEF LabelState
<1>2. ASSUME Goto("stuckNodes"), UNCHANGED podVars PROVE JoinInv'
  BY <1>2, ReadingKeepsJoinInv DEF Goto, podVars, listVars, Before
<1> QED
  BY <1>1, <1>2

(* A seed patch leaves the node-state label alone.                          *)
LEMMA LabelSeedPodsKeepsJoinInv ==
    ASSUME Inv, JoinInv, LabelSeedPods PROVE JoinInv'
<1> USE DEF LabelSeedPods
<1>0. pc \in Before /\ pc # "labelStarting"
  BY DEF Before
<1>1. CASE todo = {}
  BY <1>0, <1>1, ReadingKeepsJoinInv DEF Goto, podVars, listVars
<1>2. CASE todo # {}
  <2>1. PICK t \in todo : PatchPod(t[1], label[t[1]], t[2], "labelSeeds")
    BY <1>2 DEF LabelSeed
  <2>2. t[1] \in Pods /\ t[2] \in BOOLEAN
    BY DEF Inv, TypeOK
  <2> DEFINE p == t[1]  l == label[p]  b == t[2]
  <2>3. /\ p \in Pods /\ l \in Labels /\ b \in BOOLEAN
        /\ PatchPod(p, l, b, "labelSeeds") /\ l = label[p]
    BY <2>1, <2>2 DEF Inv, TypeOK
  <2> HIDE DEF p, l, b
  <2> QED
    BY <1>0, <2>3, PatchKeepsJoinInv
<1> QED
  BY <1>1, <1>2

(* The pod whose Starting label goes away was listed as ready, and so is    *)
(* not joining.                                                             *)
LEMMA FindStartingNodesKeepsJoinInv ==
    ASSUME Inv, JoinInv, FindStartingNodes PROVE JoinInv'
<1> USE DEF FindStartingNodes
<1>0. pc \in Before /\ pc # "labelStarting" /\ "rackNodes" \notin Before
      /\ "done" \notin Before
  BY DEF Before
<1>1. ASSUME NEW p \in Listed, Ready(rcPods[p]), LabelState(p, "Started", "rackNodes")
      PROVE  JoinInv'
  <2>1. p \in Pods /\ seed[p] \in BOOLEAN /\ "Started" \in Labels
    BY DEF Inv, TypeOK, Listed, Labels
  <2>2. pods[p].cass # "joining"
    BY <1>0, <1>1, <2>1 DEF JoinInv, JoiningIsUnready
  <2> QED
    BY <1>0, <1>1, <2>1, <2>2, PatchKeepsJoinInv DEF LabelState
<1>2. ASSUME NEW step \in {"done", "rackNodes"}, Goto(step), UNCHANGED podVars
      PROVE  JoinInv'
  BY <1>0, <1>2, ReadingKeepsJoinInv DEF Goto, podVars, listVars
<1> QED
  BY <1>1, <1>2

(* A seed patch again.                                                      *)
LEMMA LabelFirstSeedKeepsJoinInv ==
    ASSUME Inv, JoinInv, LabelFirstSeed PROVE JoinInv'
<1> USE DEF LabelFirstSeed
<1> DEFINE l == label[target]
<1>1. /\ target \in Pods /\ l \in Labels /\ TRUE \in BOOLEAN /\ l = label[target]
      /\ PatchPod(target, l, TRUE, "start")
  BY DEF Inv, TypeOK, TargetChosen, LabelSeed
<1>2. "start" \notin Before /\ pc # "labelStarting"
  BY DEF Before
<1> HIDE DEF l
<1> QED
  BY <1>1, <1>2, PatchKeepsJoinInv

(* The start call makes its target join, which is labelled next.            *)
LEMMA StartCassandraKeepsJoinInv ==
    ASSUME Inv, JoinInv, StartCassandra PROVE JoinInv'
<1> USE DEF StartCassandra, Goto
<1>1. target \in Pods /\ target' = target /\ label' = label
  BY DEF Inv, TargetChosen
<1>2. \A p \in Pods \ {target} : pods'[p] = pods[p]
  BY <1>1 DEF Inv, TypeOK
<1>3. pc' \in {"labelStarting", "done"} /\ pc' \notin Before /\ pc # "labelStarting"
  BY DEF Before
<1>4. pc' = "done" => pods' = pods
  OBVIOUS
<1>5. JoiningIsUnready'
  BY <1>3 DEF JoiningIsUnready
<1>6. JoiningIsLabelled'
  BY <1>1, <1>2, <1>3, <1>4 DEF JoinInv, JoiningIsLabelled
<1> QED
  BY <1>5, <1>6 DEF JoinInv

(* The label is set on the node that joins, unless its pod is gone.         *)
LEMMA LabelServerPodStartingKeepsJoinInv ==
    ASSUME Inv, JoinInv, LabelServerPodStarting PROVE JoinInv'
<1>1. /\ target \in Pods /\ "Starting" \in Labels /\ seed[target] \in BOOLEAN
      /\ PatchPod(target, "Starting", seed[target], "lastStarted")
  BY DEF Inv, TypeOK, TargetChosen, Labels, LabelServerPodStarting, LabelState
<1> DEFINE b == seed[target]
<1>2. b \in BOOLEAN /\ PatchPod(target, "Starting", b, "lastStarted")
  BY <1>1
<1> HIDE DEF b
<1>3. pc' \notin Before /\ pc' # "labelStarting"
  <2>1. pc' \in {"done", "lastStarted"}
    BY <1>1, <1>2, PatchPodFacts, SMT
  <2> QED
    BY <2>1 DEF Before
<1>4. pods' = pods
  BY <1>1, <1>2, PatchPodFacts
<1>5. \A q \in Pods \ {target} : label'[q] = label[q]
  BY <1>1, <1>2, PatchPodFacts, SMT
<1>6. pods[target].phase # "gone" => label'[target] = "Starting"
  BY <1>1, <1>2, PatchPodFacts
<1>7. pods[target].phase = "gone" => pods[target].cass # "joining"
  BY <1>1, FreshPods DEF Inv, GoneIsBlank
<1>8. JoiningIsLabelled'
  BY <1>1, <1>4, <1>5, <1>6, <1>7 DEF JoinInv, JoiningIsLabelled
<1>9. JoiningIsUnready'
  BY <1>3 DEF JoiningIsUnready
<1> QED
  BY <1>8, <1>9 DEF JoinInv

(* A drained node does not join any more.                                   *)
LEMMA DrainOldPodKeepsJoinInv ==
    ASSUME Inv, JoinInv, DrainOldPod PROVE JoinInv'
<1> USE DEF DrainOldPod
<1>1. /\ label' = label /\ pc # "labelStarting" /\ pc' \in {"deletePod", "clear"}
      /\ pc' \notin Before
  BY DEF Goto, Before
<1>2. ASSUME NEW q \in Pods PROVE pods'[q].cass = "joining" => pods[q].cass = "joining"
  <2>1. CASE pods' = pods
    BY <2>1
  <2>2. CASE pods' # pods
    <3>1. PICK p \in Pods :
             pods' = [pods EXCEPT ![p].cass =
                         IF @ = "ready" THEN "draining" ELSE "drained"]
      BY <2>2 DEF Listed
    <3> DEFINE c == IF pods[p].cass = "ready" THEN "draining" ELSE "drained"
               s == [pods[p] EXCEPT !.cass = c]
    <3>2. pods' = [pods EXCEPT ![p] = s]
      BY <3>1
    <3>3. c \in CassStates /\ c # "joining"
      BY DEF CassStates
    <3> HIDE DEF c
    <3>4. pods \in [Pods -> PodState] /\ pods[p] \in PodState
      BY DEF Inv, TypeOK
    <3>5. s.cass # "joining"
      BY <3>3, <3>4, CassField
    <3> HIDE DEF s
    <3> QED
      BY <3>2, <3>4, <3>5
  <2> QED
    BY <2>1, <2>2
<1> QED
  BY <1>1, <1>2, QuietKeepsJoinInv

(* A rolling restart only changes the age of the pods.                      *)
LEMMA CheckRollingRestartKeepsJoinInv ==
    ASSUME Inv, JoinInv, CheckRollingRestart PROVE JoinInv'
<1> USE DEF CheckRollingRestart
<1>1. /\ label' = label /\ pc # "labelStarting" /\ pc' \notin Before
  BY DEF Goto, Before
<1>2. ASSUME NEW p \in Pods PROVE pods'[p].cass = pods[p].cass
  <2> DEFINE s == [pods[p] EXCEPT !.old = TRUE]
  <2>1. pods'[p] = s \/ pods'[p] = pods[p]
    OBVIOUS
  <2>2. s.cass = pods[p].cass
    BY OldField DEF Inv, TypeOK
  <2> HIDE DEF s
  <2> QED
    BY <2>1, <2>2
<1> QED
  BY <1>1, <1>2, QuietKeepsJoinInv

(* A removed pod has no Cassandra.                                          *)
LEMMA PodRemovedKeepsJoinInv ==
    ASSUME Inv, JoinInv, NEW p \in Pods, PodRemoved(p) PROVE JoinInv'
<1>1. /\ pods'[p] = GonePod
      /\ \A q \in Pods \ {p} : pods'[q] = pods[q] /\ label'[q] = label[q]
      /\ rcPods' = rcPods /\ pc' = pc /\ target' = target
  BY DEF Inv, TypeOK, PodRemoved, listVars, passVars
<1>2. JoiningIsLabelled'
  BY <1>1, FreshPods DEF JoinInv, JoiningIsLabelled
<1>3. JoiningIsUnready'
  BY <1>1, FreshPods DEF JoinInv, JoiningIsUnready, Ready
<1> QED
  BY <1>2, <1>3 DEF JoinInv

(* The pass lists a joining node as unready.                                *)
LEMMA BeginPassKeepsJoinInv ==
    ASSUME Inv, JoinInv, BeginPass PROVE JoinInv'
<1>1. pods' = pods /\ label' = label /\ rcPods' = pods /\ pc # "labelStarting"
  BY DEF BeginPass, podVars
<1>2. JoiningIsLabelled'
  BY <1>1 DEF JoinInv, JoiningIsLabelled
<1>3. JoiningIsUnready'
  BY <1>1 DEF JoinInv, JoiningIsUnready, Ready
<1> QED
  BY <1>2, <1>3 DEF JoinInv

(* The remaining steps of a pass.                                           *)
LEMMA OtherStepsKeepJoinInv ==
    ASSUME Inv, JoinInv,
           \/ CheckSeedLabels \/ RefreshSeeds \/ StartOneNodePerRack
           \/ PatchLastServerNodeStarted \/ ClusterHealthy \/ ClusterUnhealthy
           \/ StartAllNodes \/ CountReadyAndStarted \/ TakeRequestBack
           \/ CheckClearActionConditions
    PROVE  JoinInv'
<1>1. pods' = pods /\ label' = label /\ rcPods' = rcPods
  BY DEF CheckSeedLabels, RefreshSeeds, StartOneNodePerRack,
     PatchLastServerNodeStarted, ClusterHealthy, ClusterUnhealthy, StartAllNodes,
     CountReadyAndStarted, TakeRequestBack, CheckClearActionConditions,
     Goto, ChooseTarget, podVars, listVars
<1>2. pc # "labelStarting" /\ (pc' \in Before => pc \in Before)
  BY DEF CheckSeedLabels, RefreshSeeds, StartOneNodePerRack,
     PatchLastServerNodeStarted, ClusterHealthy, ClusterUnhealthy, StartAllNodes,
     CountReadyAndStarted, TakeRequestBack, CheckClearActionConditions,
     Goto, ChooseTarget, Before
<1> QED
  BY <1>1, <1>2, ReadingKeepsJoinInv

(* The ends of a pass.                                                      *)
LEMMA EndPassKeepsJoinInv ==
    ASSUME Inv, JoinInv, EndPass PROVE JoinInv'
<1>1. pods' = pods /\ label' = label /\ pc # "labelStarting" /\ pc' \notin Before
  BY DEF EndPass, podVars, Before
<1> QED
  BY <1>1, QuietKeepsJoinInv

(* A pass cut short anywhere but at the label.                              *)
LEMMA AbortKeepsJoinInv ==
    ASSUME Inv, JoinInv, Abort, "labelStarting" \notin AbortSteps PROVE JoinInv'
<1>1. pods' = pods /\ label' = label /\ pc # "labelStarting" /\ pc' \notin Before
      /\ rcPods' = rcPods
  BY DEF Abort, Goto, podVars, listVars, Before
<1> QED
  BY <1>1, ReadingKeepsJoinInv

(* The steps that JoinInv does not look at.                                 *)
LEMMA UserStepsKeepJoinInv ==
    ASSUME JoinInv, CooldownEnds \/ RequestRollingRestart \/ UNCHANGED vars
    PROVE  JoinInv'
<1>1. pods' = pods /\ label' = label /\ rcPods' = rcPods /\ pc' = pc
      /\ target' = target
  BY DEF CooldownEnds, RequestRollingRestart, vars, podVars, listVars, passVars
<1> QED
  BY <1>1 DEF JoinInv, JoiningIsLabelled, JoiningIsUnready, Ready

(* Every step keeps JoinInv, provided no pass is cut short at the label.    *)
LEMMA NextKeepsJoinInv ==
    ASSUME Inv, JoinInv, [Next]_vars, "labelStarting" \notin AbortSteps
    PROVE  JoinInv'
<1>1. CASE PassStep
  <2>1. CASE DeleteStuckNodes
    <3>1. ASSUME NEW p \in Listed, pods' = Deleted(p), Goto("done") PROVE JoinInv'
      BY <2>1, <3>1, DeletionKeepsJoinInv DEF DeleteStuckNodes, Goto, Listed, Before
    <3>2. ASSUME UNCHANGED pods, Goto("seeds") PROVE JoinInv'
      BY <2>1, <3>2, ReadingKeepsJoinInv DEF DeleteStuckNodes, Goto, listVars, Before
    <3> QED
      BY <2>1, <3>1, <3>2 DEF DeleteStuckNodes
  <2>2. CASE DeleteOldPod
    <3>1. target \in Pods /\ pc # "labelStarting" /\ pc' \notin Before
          /\ pods' = Deleted(target) /\ label' = label
      BY <2>2 DEF DeleteOldPod, Goto, Before, Inv, TargetChosen
    <3> QED
      BY <3>1, DeletionKeepsJoinInv
  <2> QED
    BY <1>1, <2>1, <2>2, FindStartedNotReadyNodesKeepsJoinInv,
       LabelSeedPodsKeepsJoinInv, FindStartingNodesKeepsJoinInv,
       LabelFirstSeedKeepsJoinInv, StartCassandraKeepsJoinInv,
       LabelServerPodStartingKeepsJoinInv, DrainOldPodKeepsJoinInv,
       CheckRollingRestartKeepsJoinInv, EndPassKeepsJoinInv,
       OtherStepsKeepJoinInv DEF PassStep
<1>2. ASSUME NEW p \in Pods, PodStep(p) \/ Disruption(p) PROVE JoinInv'
  <2>1. CASE PodRemoved(p)
    BY <2>1, PodRemovedKeepsJoinInv
  <2>2. CASE ~PodRemoved(p)
    <3>1. \/ CreatePod(p) \/ MgmtApiStarts(p) \/ NodeJoins(p) \/ NodeRecovers(p)
          \/ ProbeFails(p) \/ TenMinutesPass(p) \/ Disruption(p)
      BY <1>2, <2>2 DEF PodStep
    <3>2. PICK s \in PodState :
              /\ s.cass = "joining" => pods[p].cass = "joining"
              /\ PodTurns(p, s)
      BY <3>1, PodEvents
    <3> QED
      BY <3>2, PodTurnsKeepsJoinInv
  <2> QED
    BY <2>1, <2>2
<1> QED
  BY <1>1, <1>2, BeginPassKeepsJoinInv, AbortKeepsJoinInv, UserStepsKeepJoinInv
     DEF Next

(* No node joins in an initial state.                                       *)
LEMMA InitJoinInv ==
    ASSUME Init PROVE JoinInv
<1>1. PICK new \in FirstStart : pods = [p \in Pods |-> IF new THEN GonePod ELSE UpPod]
  BY DEF Init
<1>2. \A p \in Pods : pods[p].cass # "joining"
  BY <1>1, FreshPods
<1> QED
  BY <1>2 DEF JoinInv, JoiningIsLabelled, JoiningIsUnready

(* A node joins only with its label, or right before it gets it.            *)
THEOREM JoinInvAlways ==
    ASSUME "labelStarting" \notin AbortSteps PROVE Spec => []JoinInv
<1>1. Inv /\ JoinInv /\ [Next]_vars => JoinInv'
  BY NextKeepsJoinInv
<1> QED
  BY <1>1, InvAlways, InitJoinInv, PTL DEF Spec

(* One node bootstraps at a time, for every size of datacenter, if no pass  *)
(* is cut short between the start call and the patch of the Starting label: *)
(* a start call is only made when no pod is labelled Starting.              *)
THEOREM AlwaysOneBootstrapping ==
    ASSUME "labelStarting" \notin AbortSteps PROVE Spec => []OneBootstrapping
<1>1. Inv /\ JoinInv => OneBootstrapping
  BY DEF Inv, JoinInv, OneStartingLabel, NoneStarting, JoiningIsLabelled, After,
     OneBootstrapping
<1> QED
  BY <1>1, InvAlways, JoinInvAlways, PTL

-----------------------------------------------------------------------------
(* A node is started only with a seed, when no pod is recreated while a     *)
(* pass runs, no node loses its readiness by itself, and no pass is cut     *)
(* short between a start call and the label that records it.                *)

(* The list has the labels of every pod there is; a pod listed as unready   *)
(* that is not starting stays so.                                           *)
LabelsKnown ==
    pc # "idle" => \A p \in Pods :
        Exists(p) => label[p] = rcLabel[p] /\ seed[p] = rcSeed[p]
NoneUnready == \A p \in Pods : pods[p].cass # "unready"
StaysDown ==
    pc \in Before => \A p \in Pods :
        Exists(p) /\ ~Ready(rcPods[p]) /\ rcLabel[p] # "Starting" =>
            pods[p].cass \in {"down", "drained"}
KnownInv == LabelsKnown /\ NoneUnready /\ StaysDown

(* What the pass found by counting the seeds: no ready pod and so no pod to *)
(* make a seed, or a pod that is a seed or is made one.                     *)
SeedlessIsDown ==
    pc \in {"labelSeeds", "refreshSeeds", "startingNodes", "rackNodes"} /\ ~seeded =>
        /\ \A p \in Listed : ~Ready(rcPods[p])
        /\ \A t \in todo : t[1] \in Listed /\ rcLabel[t[1]] # "Starting"
SeedIsComing ==
    pc = "labelSeeds" /\ seeded => \E p \in Listed :
        <<p, FALSE>> \notin todo /\ (rcSeed[p] \/ <<p, TRUE>> \in todo)
SeedIsListed ==
    \/ pc \in {"refreshSeeds", "startingNodes", "rackNodes"} /\ seeded
    \/ pc \in {"healthy", "allNodes", "start"}
    => \E p \in Listed : rcSeed[p]
SeedInv == SeedlessIsDown /\ SeedIsComing /\ SeedIsListed

(* A patch, with the seed labels.                                           *)
LEMMA PatchSeedFacts ==
    ASSUME Inv, NEW p \in Pods, NEW l \in Labels, NEW b \in BOOLEAN, NEW step,
           PatchPod(p, l, b, step)
    PROVE  \/ /\ ~Exists(p) /\ pc' = "done"
              /\ UNCHANGED <<pods, label, seed, rcLabel, rcSeed, rcPods>>
           \/ /\ Exists(p) /\ pc' = step /\ pods' = pods
              /\ label'[p] = l /\ rcLabel'[p] = l /\ rcPods'[p] = pods[p]
              /\ seed'[p] = b /\ rcSeed'[p] = b
              /\ \A q \in Pods \ {p} :
                    /\ label'[q] = label[q] /\ rcLabel'[q] = rcLabel[q]
                    /\ rcPods'[q] = rcPods[q]
                    /\ seed'[q] = seed[q] /\ rcSeed'[q] = rcSeed[q]
              /\ Listed' = Listed \cup {p}
<1> USE DEF Inv, TypeOK
<1>1. CASE ~Exists(p)
  BY <1>1 DEF PatchPod, listVars
<1>2. CASE Exists(p)
  <2>1. /\ pods' = pods /\ pc' = step
        /\ label' = [label EXCEPT ![p] = l] /\ rcLabel' = [rcLabel EXCEPT ![p] = l]
        /\ seed' = [seed EXCEPT ![p] = b] /\ rcSeed' = [rcSeed EXCEPT ![p] = b]
        /\ rcPods' = [rcPods EXCEPT ![p] = pods[p]]
    BY <1>2 DEF PatchPod
  <2>2. Listed' = Listed \cup {p}
    BY <1>2, <2>1 DEF Listed, Exists
  <2> QED
    BY <1>2, <2>1, <2>2
<1> QED
  BY <1>1, <1>2

(* ... unless the pod is gone, which ends the pass.                         *)
LEMMA PatchApplied ==
    ASSUME Inv, NEW p \in Pods, NEW l \in Labels, NEW b \in BOOLEAN, NEW step,
           PatchPod(p, l, b, step), pc' # "done"
    PROVE  /\ Exists(p) /\ pc' = step /\ pods' = pods
           /\ label'[p] = l /\ rcLabel'[p] = l /\ rcPods'[p] = pods[p]
           /\ seed'[p] = b /\ rcSeed'[p] = b
           /\ \A q \in Pods \ {p} :
                 /\ label'[q] = label[q] /\ rcLabel'[q] = rcLabel[q]
                 /\ rcPods'[q] = rcPods[q]
                 /\ seed'[q] = seed[q] /\ rcSeed'[q] = rcSeed[q]
           /\ Listed' = Listed \cup {p}
BY PatchSeedFacts

(* The first rack with a ready pod has a seed: every rack is to have one.   *)
LEMMA SeedsPositive ==
    ASSUME NEW r \in 1..Racks PROVE Info[r].seeds \in Nat /\ 1 <= Info[r].seeds
<1> USE ConstantsAssumption
<1> DEFINE n == SeedCount(Size, Racks)
<1>1. Info[r].seeds = SplitRacks(n, Racks)[r]
  BY DEF Info, RackInformation, DesiredNodeCount
<1>2. n \in Nat /\ Racks <= n /\ Racks \in Nat \ {0}
  BY SMT DEF SeedCount
<1> HIDE DEF n
<1>3. SplitRacks(n, Racks)[r] \in 1..n
  BY <1>2, SplitNodes
<1> QED
  BY <1>1, <1>2, <1>3, SMT

(* A pod is a pair of a rack and a number.                                  *)
LEMMA PodIsPair ==
    ASSUME NEW p \in Pods
    PROVE  p[1] \in 1..Racks /\ p[2] \in Nat /\ p = <<p[1], p[2]>>
<1>1. PICK r \in 1..Racks : p \in {<<r, i>> : i \in 0..Info[r].nodes - 1}
  BY DEF Pods
<1>2. PICK i \in 0..Info[r].nodes - 1 : p = <<r, i>>
  BY <1>1
<1>3. i \in Nat
  BY SMT
<1> QED
  BY <1>2, <1>3

(* checkSeedLabels finds a seed unless no listed pod is ready.              *)
LEMMA NoSeedPods ==
    ASSUME Inv, SeedPods = {} PROVE \A p \in Listed : ~Ready(rcPods[p])
<1> SUFFICES ASSUME NEW p \in Listed, Ready(rcPods[p]) PROVE FALSE
  OBVIOUS
<1> DEFINE T == {i \in Nat : <<p[1], i>> \in Listed /\ Ready(rcPods[<<p[1], i>>])}
<1>1. p \in Pods /\ p[1] \in 1..Racks /\ p[2] \in Nat /\ p = <<p[1], p[2]>>
  BY PodIsPair DEF Listed
<1>2. p[2] \in T /\ T \subseteq Nat
  BY <1>1
<1>3. PICK x \in T : \A y \in T : <<y, x>> \notin OpToRel(<, Nat)
  <2> HIDE DEF T
  <2> QED
    BY <1>2, WFMin, NatLessThanWellFounded
<1>4. \A y \in T : ~(y < x)
  BY <1>2, <1>3 DEF OpToRel
<1> DEFINE m == <<p[1], x>>
           below == {q \in Listed : q[1] = m[1] /\ q[2] < m[2] /\ Ready(rcPods[q])}
<1>5. below = {}
  <2> SUFFICES ASSUME NEW q \in below PROVE FALSE
    OBVIOUS
  <2>1. q \in Listed /\ q[1] = p[1] /\ q[2] < x /\ Ready(rcPods[q])
    OBVIOUS
  <2>2. q[2] \in Nat /\ q = <<q[1], q[2]>>
    BY <2>1, PodIsPair DEF Listed
  <2>3. q[2] \in T
    BY <2>1, <2>2
  <2> QED
    BY <1>4, <2>1, <2>3
<1>6. Cardinality(below) = 0 /\ Cardinality(below) < Info[m[1]].seeds
  <2>1. Cardinality(below) = 0
    <3> HIDE DEF below
    <3> QED
      BY <1>5, FS_EmptySet
  <2>2. p[1] \in 1..Racks
    BY <1>1
  <2>3. Info[p[1]].seeds \in Nat /\ 1 <= Info[p[1]].seeds
    BY <2>2, SeedsPositive
  <2>4. m[1] = p[1]
    OBVIOUS
  <2> HIDE DEF below, m
  <2> QED
    BY <2>1, <2>3, <2>4, SMT
<1>7. m \in Listed /\ Ready(rcPods[m])
  BY <1>3
<1> QED
  BY <1>6, <1>7 DEF SeedPods

(* A step that leaves the labels and the list alone, creates no pod and     *)
(* starts no node.                                                          *)
LEMMA QuietKeepsKnownInv ==
    ASSUME KnownInv, UNCHANGED <<label, seed, rcLabel, rcSeed, rcPods>>,
           pc' # "idle" => pc # "idle" /\ \A q \in Pods : Exists(q)' => Exists(q),
           pc' \in Before => pc \in Before,
           \A q \in Pods : pods'[q].cass # "unready",
           pc' \in Before => \A q \in Pods :
              pods[q].cass \in {"down", "drained"} => pods'[q].cass \in {"down", "drained"}
    PROVE  KnownInv'
<1>1. "idle" \notin Before
  BY DEF Before
<1>2. LabelsKnown'
  BY DEF KnownInv, LabelsKnown
<1>3. NoneUnready'
  BY DEF NoneUnready
<1>4. StaysDown'
  BY <1>1 DEF KnownInv, StaysDown, Ready
<1> QED
  BY <1>2, <1>3, <1>4 DEF KnownInv

(* The steps that change no pod either.                                     *)
LEMMA ReadingKeepsKnownInv ==
    ASSUME KnownInv, UNCHANGED <<pods, label, seed, rcLabel, rcSeed, rcPods>>,
           pc' # "idle" => pc # "idle", pc' \in Before => pc \in Before
    PROVE  KnownInv'
BY QuietKeepsKnownInv DEF KnownInv, NoneUnready, Exists

(* The steps at which SeedInv says something.                               *)
Watched == {"labelSeeds", "refreshSeeds", "startingNodes", "rackNodes",
            "healthy", "allNodes", "start"}

(* A step that changes nothing SeedInv is about, or leaves those steps.     *)
LEMMA QuietKeepsSeedInv ==
    ASSUME SeedInv,
           \/ UNCHANGED <<pc, rcLabel, rcSeed, rcPods, todo, seeded>>
           \/ pc' \notin Watched
    PROVE  SeedInv'
<1>1. CASE pc' \notin Watched
  BY <1>1 DEF SeedInv, SeedlessIsDown, SeedIsComing, SeedIsListed, Watched
<1>2. CASE UNCHANGED <<pc, rcLabel, rcSeed, rcPods, todo, seeded>>
  <2>1. Listed' = Listed
    BY <1>2 DEF Listed
  <2> QED
    BY <1>2, <2>1 DEF SeedInv, SeedlessIsDown, SeedIsComing, SeedIsListed, Ready
<1> QED
  BY <1>1, <1>2

(* The pod events but a removal, when a pass meets no recreated pod and no  *)
(* node loses its readiness by itself.                                      *)
LEMMA CalmPodEvents ==
    ASSUME Inv, NoneUnready, ~SwapsMidPass, "readiness" \notin Disruptions,
           NEW p \in Pods,
           \/ CreatePod(p) \/ MgmtApiStarts(p) \/ NodeJoins(p) \/ NodeRecovers(p)
           \/ ProbeFails(p) \/ TenMinutesPass(p) \/ Disruption(p)
    PROVE  \E s \in PodState :
              /\ PodTurns(p, s)
              /\ s.cass # "unready"
              /\ pc = "idle" \/ Exists(p)
              /\ pods[p].cass \in {"down", "drained"} => s.cass \in {"down", "drained"}
<1>0. pods[p] \in PodState /\ pods[p].cass # "unready"
  BY DEF Inv, TypeOK, NoneUnready
<1>c. "ready" \in CassStates /\ "drained" \in CassStates
  BY DEF CassStates
<1>g. pods[p].cass # "down" => Exists(p)
  BY FreshPods DEF Inv, GoneIsBlank, Exists
<1>1. CASE CreatePod(p)
  BY <1>1, FreshPods DEF CreatePod
<1>2. CASE MgmtApiStarts(p)
  <2> DEFINE s == [pods[p] EXCEPT !.mgmt = TRUE]
  <2>1. PodTurns(p, s) /\ Exists(p)
    BY <1>2 DEF MgmtApiStarts
  <2>2. s \in PodState /\ s.cass = pods[p].cass
    BY <1>0, PodFields
  <2> HIDE DEF s
  <2> QED
    BY <1>0, <2>1, <2>2
<1>3. ASSUME NEW c \in {"ready", "drained"}, NEW from \in {"joining", "draining"},
             CassandraTurns(p, from, c)
      PROVE  \E s \in PodState :
              /\ PodTurns(p, s)
              /\ s.cass # "unready"
              /\ pc = "idle" \/ Exists(p)
              /\ pods[p].cass \in {"down", "drained"} => s.cass \in {"down", "drained"}
  <2> DEFINE s == [pods[p] EXCEPT !.cass = c, !.long = FALSE]
  <2>0. pods[p].cass \notin {"down", "drained"} /\ c \in CassStates /\ c # "unready"
    BY <1>3, <1>c DEF CassandraTurns
  <2>1. PodTurns(p, s) /\ Exists(p)
    BY <1>3, <1>g, <2>0 DEF CassandraTurns
  <2>2. s \in PodState /\ s.cass = c
    BY <1>0, <2>0, CassAndLongField
  <2> HIDE DEF s
  <2> QED
    BY <2>0, <2>1, <2>2
<1>4. CASE NodeJoins(p)
  BY <1>3, <1>4 DEF NodeJoins
<1>5. CASE NodeRecovers(p)
  BY <1>0, <1>5 DEF NodeRecovers, CassandraTurns
<1>6. CASE ProbeFails(p)
  BY <1>3, <1>6 DEF ProbeFails
<1>7. CASE TenMinutesPass(p)
  <2> DEFINE b == ~Ready(pods[p])
             s == [pods[p] EXCEPT !.died = IF @ = "recent" THEN "old" ELSE @,
                                  !.long = b]
  <2>1. PodTurns(p, s) /\ Exists(p) /\ b \in BOOLEAN
    BY <1>7 DEF TenMinutesPass
  <2> HIDE DEF b
  <2>2. s \in PodState /\ s.cass = pods[p].cass
    BY <1>0, <2>1, AgeFields
  <2> HIDE DEF s
  <2> QED
    BY <1>0, <2>1, <2>2
<1>8. CASE ContainerDies(p)
  <2> DEFINE s == [pods[p] EXCEPT !.mgmt = FALSE, !.cass = "down", !.died = "recent"]
  <2>1. PodTurns(p, s) /\ Exists(p)
    BY <1>8 DEF ContainerDies, Exists
  <2>2. s \in PodState /\ s.cass = "down"
    BY <1>0, PodFields
  <2> HIDE DEF s
  <2> QED
    BY <2>1, <2>2
<1>9. CASE LosesReadiness(p)
  BY <1>9 DEF LosesReadiness, Disrupt
<1>10. CASE PodEvicted(p)
  <2> DEFINE s == [pods[p] EXCEPT !.phase = "terminating"]
  <2>1. PodTurns(p, s) /\ Exists(p)
    BY <1>10 DEF PodEvicted, Exists
  <2>2. s \in PodState /\ s.cass = pods[p].cass
    BY <1>0, PodFields
  <2> HIDE DEF s
  <2> QED
    BY <1>0, <2>1, <2>2
<1> QED
  BY <1>1, <1>2, <1>4, <1>5, <1>6, <1>7, <1>8, <1>9, <1>10 DEF Disruption

(* What may befall a pod.                                                   *)
LEMMA PodEventsKeepSeeds ==
    ASSUME Inv, KnownInv, SeedInv, ~SwapsMidPass, "readiness" \notin Disruptions,
           NEW p \in Pods, PodStep(p) \/ Disruption(p)
    PROVE  KnownInv' /\ SeedInv'
<1>1. CASE PodRemoved(p)
  <2>1. /\ pods'[p] = GonePod
        /\ \A q \in Pods \ {p} : /\ pods'[q] = pods[q] /\ label'[q] = label[q]
                                 /\ seed'[q] = seed[q]
        /\ UNCHANGED <<rcLabel, rcSeed, rcPods, pc, todo, seeded>>
    BY <1>1 DEF Inv, TypeOK, PodRemoved, listVars, passVars
  <2>2. LabelsKnown'
    BY <2>1, FreshPods DEF KnownInv, LabelsKnown, Exists
  <2>3. NoneUnready'
    BY <2>1, FreshPods DEF KnownInv, NoneUnready
  <2>4. StaysDown'
    BY <2>1, FreshPods DEF KnownInv, StaysDown, Exists, Ready
  <2>5. SeedInv'
    BY <2>1, QuietKeepsSeedInv
  <2> QED
    BY <2>2, <2>3, <2>4, <2>5 DEF KnownInv
<1>2. CASE ~PodRemoved(p)
  <2>1. \/ CreatePod(p) \/ MgmtApiStarts(p) \/ NodeJoins(p) \/ NodeRecovers(p)
        \/ ProbeFails(p) \/ TenMinutesPass(p) \/ Disruption(p)
    BY <1>2 DEF PodStep
  <2>2. PICK s \in PodState :
           /\ PodTurns(p, s)
           /\ s.cass # "unready"
           /\ pc = "idle" \/ Exists(p)
           /\ pods[p].cass \in {"down", "drained"} => s.cass \in {"down", "drained"}
    BY <2>1, CalmPodEvents DEF KnownInv
  <2>3. /\ pods'[p] = s /\ \A q \in Pods : q # p => pods'[q] = pods[q]
        /\ UNCHANGED <<label, seed, rcLabel, rcSeed, rcPods, pc, todo, seeded>>
    BY <2>2 DEF PodTurns, Inv, TypeOK, listVars, passVars
  <2>4. \A q \in Pods : pods'[q].cass # "unready"
    BY <2>2, <2>3 DEF KnownInv, NoneUnready
  <2>5. \A q \in Pods :
           pods[q].cass \in {"down", "drained"} => pods'[q].cass \in {"down", "drained"}
    BY <2>2, <2>3
  <2>6. pc # "idle" => \A q \in Pods : Exists(q)' => Exists(q)
    BY <2>2, <2>3 DEF Exists
  <2>7. KnownInv'
    BY <2>3, <2>4, <2>5, <2>6, QuietKeepsKnownInv
  <2>8. SeedInv'
    BY <2>3, QuietKeepsSeedInv
  <2> QED
    BY <2>7, <2>8
<1> QED
  BY <1>1, <1>2

(* The pass knows what it has just read; a joining node is labelled.        *)
LEMMA BeginPassKeepsSeeds ==
    ASSUME Inv, JoinInv, KnownInv, SeedInv, BeginPass PROVE KnownInv' /\ SeedInv'
<1>1. /\ rcLabel' = label /\ rcSeed' = seed /\ rcPods' = pods
      /\ UNCHANGED <<pods, label, seed>>
      /\ pc = "idle" /\ pc' = "startedNotReady"
  BY DEF BeginPass, podVars
<1>2. LabelsKnown' /\ NoneUnready'
  BY <1>1 DEF KnownInv, LabelsKnown, NoneUnready
<1>3. ASSUME NEW p \in Pods, ~Ready(pods[p]), label[p] # "Starting"
      PROVE  pods[p].cass \in {"down", "drained"}
  <2>1. pods[p].cass \in CassStates
    BY PodFields DEF Inv, TypeOK
  <2> QED
    BY <1>1, <1>3, <2>1 DEF KnownInv, NoneUnready, JoinInv, JoiningIsLabelled,
       Ready, CassStates
<1>4. StaysDown'
  BY <1>1, <1>3 DEF StaysDown, Ready
<1>5. SeedInv'
  BY <1>1, QuietKeepsSeedInv DEF Watched
<1> QED
  BY <1>2, <1>4, <1>5 DEF KnownInv

(* The pass forgets its list.                                               *)
LEMMA EndPassKeepsSeeds ==
    ASSUME KnownInv, SeedInv, EndPass PROVE KnownInv' /\ SeedInv'
<1>1. pods' = pods /\ pc' = "idle" /\ "idle" \notin Before /\ "idle" \notin Watched
  BY DEF EndPass, podVars, Before, Watched
<1>2. KnownInv'
  BY <1>1 DEF KnownInv, LabelsKnown, NoneUnready, StaysDown
<1> QED
  BY <1>1, <1>2, QuietKeepsSeedInv

(* A patch changes label and list alike.                                    *)
LEMMA PatchKeepsKnownInv ==
    ASSUME Inv, JoinInv, KnownInv,
           NEW p \in Pods, NEW l \in Labels, NEW b \in BOOLEAN, NEW step,
           PatchPod(p, l, b, step), pc # "idle",
           step \in Before =>
              pc \in Before /\ (l = label[p] \/ pods[p].cass # "joining")
    PROVE  KnownInv'
<1>0. "done" \notin Before /\ "labelStarting" \notin Before
  BY DEF Before
<1>1. pods' = pods
  BY PatchSeedFacts
<1>2. NoneUnready'
  BY <1>1 DEF KnownInv, NoneUnready
<1>3. LabelsKnown'
  <2>1. SUFFICES ASSUME NEW q \in Pods, Exists(q)
                 PROVE  label'[q] = rcLabel'[q] /\ seed'[q] = rcSeed'[q]
    BY <1>1 DEF LabelsKnown, Exists
  <2>2. label[q] = rcLabel[q] /\ seed[q] = rcSeed[q]
    BY <2>1 DEF KnownInv, LabelsKnown
  <2>3. \/ label' = label /\ rcLabel' = rcLabel /\ seed' = seed /\ rcSeed' = rcSeed
        \/ /\ label'[p] = l /\ rcLabel'[p] = l /\ seed'[p] = b /\ rcSeed'[p] = b
           /\ \A r \in Pods \ {p} : /\ label'[r] = label[r] /\ rcLabel'[r] = rcLabel[r]
                                    /\ seed'[r] = seed[r] /\ rcSeed'[r] = rcSeed[r]
    BY PatchSeedFacts, SMT
  <2> QED
    BY <2>2, <2>3
<1>4. StaysDown'
  <2>1. SUFFICES ASSUME pc' \in Before, NEW q \in Pods, Exists(q),
                        ~Ready(rcPods'[q]), rcLabel'[q] # "Starting"
                 PROVE  pods[q].cass \in {"down", "drained"}
    BY <1>1 DEF StaysDown, Exists, Ready
  <2>2. /\ pc' = step /\ rcLabel'[p] = l /\ rcPods'[p] = pods[p]
        /\ \A r \in Pods \ {p} : rcLabel'[r] = rcLabel[r] /\ rcPods'[r] = rcPods[r]
    <3>1. pc' # "done"
      BY <1>0, <2>1
    <3> QED
      BY <3>1, PatchApplied, SMT
  <2>3. pc \in Before /\ (l = label[p] \/ pods[p].cass # "joining")
    BY <2>1, <2>2
  <2>4. CASE q = p
    <3>1. pods[p].cass \in CassStates
      BY PodFields DEF Inv, TypeOK
    <3>2. ~Ready(pods[p]) /\ l # "Starting"
      BY <2>1, <2>2, <2>4
    <3>3. pods[p].cass # "joining"
      BY <1>0, <2>3, <3>2 DEF JoinInv, JoiningIsLabelled
    <3> QED
      BY <2>4, <3>1, <3>2, <3>3 DEF KnownInv, NoneUnready, Ready, CassStates
  <2>5. CASE q # p
    BY <2>1, <2>2, <2>3, <2>5 DEF KnownInv, StaysDown
  <2> QED
    BY <2>4, <2>5
<1> QED
  BY <1>2, <1>3, <1>4 DEF KnownInv

(* A pod labelled by findStartedNotReadyNodes is not starting.              *)
LEMMA FindStartedNotReadyNodesKeepsSeeds ==
    ASSUME Inv, JoinInv, KnownInv, SeedInv, FindStartedNotReadyNodes
    PROVE  KnownInv' /\ SeedInv'
<1> USE DEF FindStartedNotReadyNodes
<1>0. pc \in Before /\ pc # "idle" /\ "done" \notin Before /\ pc # "labelStarting"
      /\ "done" \notin Watched /\ "stuckNodes" \notin Watched
  BY DEF Before, Watched
<1>1. ASSUME NEW p \in Listed,
             \/ LostReadiness(p) /\ LabelState(p, "Started-not-Ready", "done")
             \/ GotReadinessBack(p) /\ LabelState(p, "Started", "stuckNodes")
      PROVE  KnownInv' /\ SeedInv'
  <2> DEFINE b == seed[p]
  <2>1. p \in Pods /\ b \in BOOLEAN
    BY DEF Inv, TypeOK, Listed
  <2>2. "Started-not-Ready" \in Labels /\ "Started" \in Labels
    BY DEF Labels
  <2>3. pods[p].cass # "joining"
    BY <1>0, <1>1, <2>1 DEF LostReadiness, GotReadinessBack, Inv, StartingIsListed,
       JoinInv, JoiningIsLabelled
  <2>4. PICK l \in Labels, step \in {"done", "stuckNodes"} : PatchPod(p, l, b, step)
    BY <1>1, <2>2 DEF LabelState
  <2> HIDE DEF b
  <2>5. KnownInv'
    BY <1>0, <2>1, <2>3, <2>4, PatchKeepsKnownInv
  <2>6. pc' \notin Watched
    BY <1>0, <2>1, <2>4, PatchSeedFacts, ZenonT(30)
  <2> QED
    BY <2>5, <2>6, QuietKeepsSeedInv
<1>2. ASSUME Goto("stuckNodes"), UNCHANGED podVars PROVE KnownInv' /\ SeedInv'
  BY <1>0, <1>2, ReadingKeepsKnownInv, QuietKeepsSeedInv DEF Goto, podVars, listVars
<1> QED
  BY <1>1, <1>2

(* The patches of checkSeedLabels, with and without a pod to be a seed.     *)
LEMMA CheckSeedLabelsKeepsSeeds ==
    ASSUME Inv, KnownInv, SeedInv, CheckSeedLabels PROVE KnownInv' /\ SeedInv'
<1> USE DEF CheckSeedLabels
<1>1. KnownInv'
  BY ReadingKeepsKnownInv DEF podVars, listVars, Before
<1>2. /\ pc' = "labelSeeds" /\ todo' = SeedPatches /\ seeded' = (SeedPods # {})
      /\ UNCHANGED <<rcLabel, rcSeed, rcPods>> /\ Listed' = Listed
  BY DEF listVars, Listed
<1>3. ASSUME ~seeded'
      PROVE  /\ \A p \in Listed : ~Ready(rcPods[p])
             /\ \A t \in SeedPatches : t[1] \in Listed /\ rcLabel[t[1]] # "Starting"
  <2>1. SeedPods = {}
    BY <1>2, <1>3
  <2>2. \A p \in Listed : ~Ready(rcPods[p])
    BY <2>1, NoSeedPods
  <2>3. \A t \in SeedPatches : t[1] \in Listed /\ rcLabel[t[1]] # "Starting"
    <3> SUFFICES ASSUME NEW t \in SeedPatches
                 PROVE  t[1] \in Listed /\ rcLabel[t[1]] # "Starting"
      OBVIOUS
    <3>1. ASSUME NEW q \in SeedPods PROVE FALSE
      BY <2>1, <3>1
    <3>2. PICK p \in {q \in Listed \ SeedPods : rcSeed[q] /\ rcLabel[q] # "Starting"} :
             t = <<p, FALSE>>
      BY <3>1 DEF SeedPatches
    <3>3. t[1] = p
      BY <3>2
    <3> QED
      BY <3>2, <3>3
  <2> QED
    BY <2>2, <2>3
<1>4. SeedlessIsDown'
  BY <1>2, <1>3 DEF SeedlessIsDown, Ready
<1>5. SeedIsComing'
  <2> SUFFICES ASSUME seeded'
               PROVE  \E p \in Listed : <<p, FALSE>> \notin SeedPatches
                         /\ (rcSeed[p] \/ <<p, TRUE>> \in SeedPatches)
    BY <1>2 DEF SeedIsComing
  <2>1. PICK p \in SeedPods : TRUE
    BY <1>2
  <2>2. p \in Listed
    BY DEF SeedPods
  <2>3. <<p, FALSE>> \notin SeedPatches
    BY DEF SeedPatches
  <2>4. rcSeed[p] \/ <<p, TRUE>> \in SeedPatches
    BY DEF SeedPatches
  <2> QED
    BY <2>2, <2>3, <2>4
<1>6. SeedIsListed'
  BY <1>2 DEF SeedIsListed
<1> QED
  BY <1>1, <1>4, <1>5, <1>6 DEF SeedInv

(* A seed patch takes the label of no pod that is to be a seed, and finds   *)
(* no ready pod if the pass has counted none.                               *)
LEMMA LabelSeedPodsKeepsSeeds ==
    ASSUME Inv, JoinInv, KnownInv, SeedInv, LabelSeedPods PROVE KnownInv' /\ SeedInv'
<1> USE DEF LabelSeedPods
<1>0. pc \in Before /\ pc = "labelSeeds" /\ pc # "idle" /\ "labelSeeds" \in Before
      /\ "refreshSeeds" \in Before /\ "done" \notin Watched
  BY DEF Before, Watched
<1>1. CASE todo = {}
  <2>1. KnownInv'
    BY <1>0, <1>1, ReadingKeepsKnownInv DEF Goto, podVars, listVars
  <2>2. /\ pc' = "refreshSeeds" /\ Listed' = Listed
        /\ UNCHANGED <<rcLabel, rcSeed, rcPods, todo, seeded>>
    BY <1>1 DEF Goto, listVars, Listed
  <2>3. SeedlessIsDown' /\ SeedIsComing' /\ SeedIsListed'
    BY <1>0, <1>1, <2>2 DEF SeedInv, SeedlessIsDown, SeedIsComing, SeedIsListed, Ready
  <2> QED
    BY <2>1, <2>3 DEF SeedInv
<1>2. CASE todo # {}
  <2>1. PICK t \in todo : /\ PatchPod(t[1], label[t[1]], t[2], "labelSeeds")
                          /\ todo' = todo \ {t}
    BY <1>2 DEF LabelSeed
  <2>2. seeded' = seeded
    BY <1>2
  <2> DEFINE p == t[1]  l == label[p]  b == t[2]
  <2>3. /\ p \in Pods /\ l \in Labels /\ b \in BOOLEAN /\ t = <<p, b>>
        /\ PatchPod(p, l, b, "labelSeeds") /\ l = label[p]
        /\ <<p, b>> \in todo /\ todo' = todo \ {<<p, b>>}
    <3>1. todo \subseteq Pods \X BOOLEAN /\ label \in [Pods -> Labels]
      BY DEF Inv, TypeOK
    <3>2. t[1] \in Pods /\ t[2] \in BOOLEAN /\ t = <<t[1], t[2]>>
      BY <2>1, <3>1, SMT
    <3> QED
      BY <2>1, <3>1, <3>2
  <2>4. ~seeded => p \in Listed /\ rcLabel[p] # "Starting"
    BY <1>0 DEF SeedInv, SeedlessIsDown
  <2> HIDE DEF p, l, b
  <2>5. KnownInv'
    BY <1>0, <2>3, PatchKeepsKnownInv
  <2>6. CASE pc' = "done"
    BY <1>0, <2>5, <2>6, QuietKeepsSeedInv
  <2>7. CASE pc' # "done"
    <3>1. /\ Exists(p) /\ pc' = "labelSeeds"
          /\ rcLabel'[p] = l /\ rcPods'[p] = pods[p] /\ rcSeed'[p] = b
          /\ \A q \in Pods \ {p} :
                /\ rcLabel'[q] = rcLabel[q] /\ rcPods'[q] = rcPods[q]
                /\ rcSeed'[q] = rcSeed[q]
          /\ Listed' = Listed \cup {p}
      BY <2>3, <2>7, PatchApplied, SMT
    <3>2. l = rcLabel[p]
      BY <1>0, <2>3, <3>1 DEF KnownInv, LabelsKnown
    <3>3. SeedlessIsDown'
      <4>1. SUFFICES ASSUME ~seeded
                     PROVE  /\ \A q \in Listed' : ~Ready(rcPods'[q])
                            /\ \A u \in todo' : u[1] \in Listed'
                                                /\ rcLabel'[u[1]] # "Starting"
        BY <2>2, <3>1 DEF SeedlessIsDown
      <4>2. /\ \A q \in Listed : ~Ready(rcPods[q])
            /\ \A u \in todo : u[1] \in Listed /\ rcLabel[u[1]] # "Starting"
        BY <1>0, <4>1 DEF SeedInv, SeedlessIsDown
      <4>3. ~Ready(pods[p])
        <5>1. pods[p].cass \in {"down", "drained"}
          BY <1>0, <2>3, <2>4, <3>1, <4>1, <4>2 DEF KnownInv, StaysDown
        <5> QED
          BY <5>1 DEF Ready
      <4>4. \A q \in Listed' : q \in Pods
        BY DEF Listed
      <4>5. \A q \in Listed' : ~Ready(rcPods'[q])
        BY <3>1, <4>2, <4>3, <4>4
      <4>6. ASSUME NEW u \in todo'
            PROVE  u[1] \in Listed' /\ rcLabel'[u[1]] # "Starting"
        <5>1. u \in todo /\ u[1] \in Pods
          BY <2>3, <4>6 DEF Inv, TypeOK
        <5> QED
          BY <2>4, <3>1, <3>2, <4>1, <4>2, <5>1
      <4> QED
        BY <4>5, <4>6
    <3>4. SeedIsComing'
      <4>1. SUFFICES ASSUME seeded
                     PROVE  \E q \in Listed' : <<q, FALSE>> \notin todo'
                               /\ (rcSeed'[q] \/ <<q, TRUE>> \in todo')
        BY <2>2, <3>1 DEF SeedIsComing
      <4>2. PICK q \in Listed : <<q, FALSE>> \notin todo
                                /\ (rcSeed[q] \/ <<q, TRUE>> \in todo)
        BY <1>0, <4>1 DEF SeedInv, SeedIsComing
      <4>3. q \in Pods /\ q \in Listed'
        BY <3>1 DEF Listed
      <4>4. CASE q = p
        <5>1. b = TRUE
          BY <2>3, <4>2, <4>4
        <5> QED
          BY <2>3, <3>1, <4>2, <4>3, <4>4, <5>1
      <4>5. CASE q # p
        <5>1. <<q, TRUE>> # <<p, b>>
          BY <4>5
        <5> QED
          BY <2>3, <3>1, <4>2, <4>3, <4>5, <5>1
      <4> QED
        BY <4>4, <4>5
    <3>5. SeedIsListed'
      BY <3>1 DEF SeedIsListed
    <3> QED
      BY <2>5, <3>3, <3>4, <3>5 DEF SeedInv
  <2> QED
    BY <2>6, <2>7
<1> QED
  BY <1>1, <1>2

(* The pod that has started keeps its seed label; there is none if no pod   *)
(* is ready.                                                                *)
LEMMA FindStartingNodesKeepsSeeds ==
    ASSUME Inv, JoinInv, KnownInv, SeedInv, FindStartingNodes
    PROVE  KnownInv' /\ SeedInv'
<1> USE DEF FindStartingNodes
<1>0. pc = "startingNodes" /\ pc \in Before /\ pc # "idle"
      /\ "rackNodes" \notin Before /\ "done" \notin Before /\ "done" \notin Watched
  BY DEF Before, Watched
<1>1. ASSUME NEW p \in Listed, Ready(rcPods[p]), LabelState(p, "Started", "rackNodes"),
             UNCHANGED <<todo, seeded>>
      PROVE  KnownInv' /\ SeedInv'
  <2> DEFINE b == seed[p]
  <2>1. p \in Pods /\ b \in BOOLEAN /\ "Started" \in Labels
        /\ PatchPod(p, "Started", b, "rackNodes") /\ b = seed[p]
    BY <1>1 DEF Inv, TypeOK, Listed, Labels, LabelState
  <2> HIDE DEF b
  <2>2. KnownInv'
    BY <1>0, <2>1, PatchKeepsKnownInv
  <2>3. seeded
    BY <1>0, <1>1 DEF SeedInv, SeedlessIsDown
  <2>4. CASE pc' = "done"
    BY <1>0, <2>2, <2>4, QuietKeepsSeedInv
  <2>5. CASE pc' # "done"
    <3>1. /\ Exists(p) /\ pc' = "rackNodes" /\ rcSeed'[p] = b
          /\ \A q \in Pods \ {p} : rcSeed'[q] = rcSeed[q]
          /\ Listed' = Listed \cup {p}
      BY <2>1, <2>5, PatchSeedFacts, ZenonT(30)
    <3>2. b = rcSeed[p]
      BY <1>0, <2>1, <3>1 DEF KnownInv, LabelsKnown
    <3>3. PICK q \in Listed : rcSeed[q]
      BY <1>0, <2>3 DEF SeedInv, SeedIsListed
    <3>4. q \in Listed' /\ rcSeed'[q]
      BY <3>1, <3>2, <3>3 DEF Listed
    <3>5. SeedlessIsDown' /\ SeedIsComing' /\ SeedIsListed'
      BY <1>1, <2>3, <3>1, <3>4 DEF SeedlessIsDown, SeedIsComing, SeedIsListed
    <3> QED
      BY <2>2, <3>5 DEF SeedInv
  <2> QED
    BY <2>4, <2>5
<1>2. ASSUME Goto("done"), UNCHANGED podVars PROVE KnownInv' /\ SeedInv'
  BY <1>0, <1>2, ReadingKeepsKnownInv, QuietKeepsSeedInv DEF Goto, podVars, listVars
<1>3. ASSUME Goto("rackNodes"), UNCHANGED podVars PROVE KnownInv' /\ SeedInv'
  <2>1. KnownInv'
    BY <1>0, <1>3, ReadingKeepsKnownInv DEF Goto, podVars, listVars
  <2>2. /\ pc' = "rackNodes" /\ Listed' = Listed
        /\ UNCHANGED <<rcLabel, rcSeed, rcPods, todo, seeded>>
    BY <1>3 DEF Goto, listVars, Listed
  <2>3. SeedlessIsDown' /\ SeedIsComing' /\ SeedIsListed'
    BY <1>0, <2>2 DEF SeedInv, SeedlessIsDown, SeedIsComing, SeedIsListed, Ready
  <2> QED
    BY <2>1, <2>3 DEF SeedInv
<1> QED
  BY <1>1, <1>2, <1>3

(* The steps that change neither pods nor labels nor the list, but go on to *)
(* a step that SeedInv is about.                                            *)
LEMMA GoingOnKeepsSeeds ==
    ASSUME KnownInv, SeedInv,
           UNCHANGED <<pods, label, seed, rcLabel, rcSeed, rcPods, todo, seeded>>,
           pc # "idle", pc' \in Before => pc \in Before,
           \/ pc' \notin Watched
           \/ pc = "refreshSeeds" /\ pc' = "startingNodes"
           \/ pc = "rackNodes" /\ seeded /\ pc' \in {"healthy", "start"}
           \/ pc = "healthy" /\ pc' = "allNodes"
           \/ pc = "allNodes" /\ pc' = "start"
    PROVE  KnownInv' /\ SeedInv'
<1>1. KnownInv'
  BY ReadingKeepsKnownInv
<1>2. CASE pc' \notin Watched
  BY <1>1, <1>2, QuietKeepsSeedInv
<1>3. CASE pc' \in Watched
  <2>1. Listed' = Listed
    BY DEF Listed
  <2>2. SeedlessIsDown' /\ SeedIsComing' /\ SeedIsListed'
    BY <1>3, <2>1 DEF SeedInv, SeedlessIsDown, SeedIsComing, SeedIsListed, Ready
  <2> QED
    BY <1>1, <2>2 DEF SeedInv
<1> QED
  BY <1>2, <1>3

(* Every rack has a ready node only if a seed was counted.                  *)
LEMMA StartOneNodePerRackKeepsSeeds ==
    ASSUME KnownInv, SeedInv, StartOneNodePerRack PROVE KnownInv' /\ SeedInv'
<1> DEFINE empty == {r \in 1..Racks : \A p \in Listed : p[1] = r => ~Ready(rcPods[p])}
<1>1. /\ UNCHANGED <<pods, label, seed, rcLabel, rcSeed, rcPods, todo, seeded>>
      /\ pc = "rackNodes" /\ pc' \notin Before
  BY DEF StartOneNodePerRack, Goto, ChooseTarget, podVars, listVars, Before
<1>2. \/ pc' = "start" /\ seeded
      \/ pc' = "firstSeed"
      \/ pc' = "healthy" /\ empty = {}
      \/ pc' = "done"
  BY DEF StartOneNodePerRack, Goto, ChooseTarget
<1>3. empty = {} => seeded
  <2>1. SUFFICES ASSUME ~seeded PROVE 1 \in empty
    OBVIOUS
  <2>2. \A p \in Listed : ~Ready(rcPods[p])
    BY <1>1, <2>1 DEF SeedInv, SeedlessIsDown
  <2>3. 1 \in 1..Racks
    BY ConstantsAssumption, SMT
  <2> QED
    BY <2>2, <2>3
<1> HIDE DEF empty
<1>4. "firstSeed" \notin Watched /\ "done" \notin Watched
  BY DEF Watched
<1> QED
  BY <1>1, <1>2, <1>3, <1>4, GoingOnKeepsSeeds

(* The first node is made a seed, or is gone.                               *)
LEMMA LabelFirstSeedKeepsSeeds ==
    ASSUME Inv, JoinInv, KnownInv, SeedInv, LabelFirstSeed PROVE KnownInv' /\ SeedInv'
<1> USE DEF LabelFirstSeed
<1> DEFINE l == label[target]
<1>1. /\ target \in Pods /\ l \in Labels /\ TRUE \in BOOLEAN
      /\ PatchPod(target, l, TRUE, "start")
  BY DEF Inv, TypeOK, TargetChosen, LabelSeed
<1>2. "start" \notin Before /\ pc # "idle" /\ "done" \notin Watched
  BY DEF Before, Watched
<1> HIDE DEF l
<1>3. KnownInv'
  BY <1>1, <1>2, PatchKeepsKnownInv
<1>4. CASE pc' = "done"
  BY <1>2, <1>3, <1>4, QuietKeepsSeedInv
<1>5. CASE pc' # "done"
  <2>1. pc' = "start" /\ rcSeed'[target] /\ target \in Listed'
    BY <1>1, <1>5, PatchSeedFacts
  <2>2. SeedlessIsDown' /\ SeedIsComing' /\ SeedIsListed'
    BY <2>1 DEF SeedlessIsDown, SeedIsComing, SeedIsListed
  <2> QED
    BY <1>3, <2>2 DEF SeedInv
<1> QED
  BY <1>4, <1>5

(* Past the last step that SeedInv is about, only the labels of the list    *)
(* matter.                                                                  *)
LEMMA LeavingKeepsSeeds ==
    ASSUME KnownInv, SeedInv, UNCHANGED <<label, seed, rcLabel, rcSeed>>,
           pc # "idle", pc' \notin Before, pc' \notin Watched,
           \A q \in Pods : Exists(q)' => Exists(q),
           \A q \in Pods : pods'[q].cass # "unready"
    PROVE  KnownInv' /\ SeedInv'
<1>1. LabelsKnown' /\ NoneUnready' /\ StaysDown'
  BY DEF KnownInv, LabelsKnown, NoneUnready, StaysDown
<1> QED
  BY <1>1, QuietKeepsSeedInv DEF KnownInv

(* A deletion ends the pass.                                                *)
LEMMA DeletionKeepsSeeds ==
    ASSUME Inv, KnownInv, SeedInv, pc # "idle", NEW p \in Pods, pods' = Deleted(p),
           Goto("done"), UNCHANGED <<label, seed>>
    PROVE  KnownInv' /\ SeedInv'
<1>1. /\ pc' = "done" /\ pc' \notin Before /\ pc' \notin Watched
      /\ UNCHANGED <<rcLabel, rcSeed>>
  BY DEF Goto, listVars, Before, Watched
<1>2. \A q \in Pods : pods'[q].cass # "unready"
  BY DeletedFacts DEF KnownInv, NoneUnready
<1>3. ASSUME NEW q \in Pods, ~Exists(q) PROVE pods'[q] = pods[q]
  <2>1. CASE q = p
    BY <1>3, <2>1 DEF Deleted
  <2>2. CASE q # p
    BY <2>2 DEF Deleted, Inv, TypeOK
  <2> QED
    BY <2>1, <2>2
<1>4. \A q \in Pods : Exists(q)' => Exists(q)
  BY <1>3 DEF Exists
<1> QED
  BY <1>1, <1>2, <1>4, LeavingKeepsSeeds

(* The start call, and the drain, change what Cassandra does on one pod.    *)
LEMMA CassKeepsSeeds ==
    ASSUME Inv, KnownInv, SeedInv, pc # "idle", NEW p \in Pods,
           NEW c \in CassStates, c # "unready",
           pods' = pods \/ pods' = [pods EXCEPT ![p].cass = c],
           UNCHANGED <<label, seed, rcLabel, rcSeed>>,
           pc' \notin Before, pc' \notin Watched
    PROVE  KnownInv' /\ SeedInv'
<1> DEFINE s == [pods[p] EXCEPT !.cass = c]
<1>0. pods \in [Pods -> PodState] /\ pods[p] \in PodState
  BY DEF Inv, TypeOK
<1>1. s \in PodState /\ s.phase = pods[p].phase /\ s.cass = c
  BY <1>0, CassField
<1>2. pods' = pods \/ pods' = [pods EXCEPT ![p] = s]
  OBVIOUS
<1> HIDE DEF s
<1>3. \A q \in Pods : pods'[q] = pods[q] \/ (q = p /\ pods'[q] = s)
  BY <1>0, <1>2
<1>4. \A q \in Pods : pods'[q].cass # "unready"
  BY <1>1, <1>3 DEF KnownInv, NoneUnready
<1>5. \A q \in Pods : Exists(q)' => Exists(q)
  BY <1>1, <1>3 DEF Exists
<1> QED
  BY <1>4, <1>5, LeavingKeepsSeeds

(* The start call.                                                          *)
LEMMA StartCassandraKeepsSeeds ==
    ASSUME Inv, KnownInv, SeedInv, StartCassandra PROVE KnownInv' /\ SeedInv'
<1>1. /\ target \in Pods /\ pc # "idle" /\ pc' \in {"labelStarting", "done"}
      /\ UNCHANGED <<label, seed, rcLabel, rcSeed>>
      /\ pods' = pods \/ pods' = [pods EXCEPT ![target].cass = "joining"]
  BY DEF StartCassandra, Goto, listVars, Inv, TargetChosen
<1>2. "joining" \in CassStates /\ pc' \notin Before /\ pc' \notin Watched
  BY <1>1 DEF CassStates, Before, Watched
<1> QED
  BY <1>1, <1>2, CassKeepsSeeds

(* The drain of a rolling restart.                                          *)
LEMMA DrainOldPodKeepsSeeds ==
    ASSUME Inv, KnownInv, SeedInv, DrainOldPod PROVE KnownInv' /\ SeedInv'
<1> USE DEF DrainOldPod
<1>1. /\ pc # "idle" /\ pc' \in {"deletePod", "clear"}
      /\ UNCHANGED <<label, seed, rcLabel, rcSeed>>
  BY DEF Goto, listVars
<1>2. pc' \notin Before /\ pc' \notin Watched
  BY <1>1 DEF Before, Watched
<1>3. CASE pods' = pods
  BY <1>1, <1>2, <1>3, LeavingKeepsSeeds DEF KnownInv, NoneUnready, Exists
<1>4. CASE pods' # pods
  <2>1. PICK p \in Pods :
           pods' = [pods EXCEPT ![p].cass =
                       IF @ = "ready" THEN "draining" ELSE "drained"]
    BY <1>4 DEF Listed
  <2> DEFINE c == IF pods[p].cass = "ready" THEN "draining" ELSE "drained"
  <2>2. pods' = [pods EXCEPT ![p].cass = c]
    BY <2>1
  <2>3. c \in CassStates /\ c # "unready"
    BY DEF CassStates
  <2> HIDE DEF c
  <2> QED
    BY <1>1, <1>2, <2>2, <2>3, CassKeepsSeeds
<1> QED
  BY <1>3, <1>4

(* A requested rolling restart ages the pods.                               *)
LEMMA CheckRollingRestartKeepsSeeds ==
    ASSUME Inv, KnownInv, SeedInv, CheckRollingRestart PROVE KnownInv' /\ SeedInv'
<1> USE DEF CheckRollingRestart
<1>1. /\ pc # "idle" /\ pc' \in {"restartSpec", "restartPods"}
      /\ UNCHANGED <<label, seed, rcLabel, rcSeed>>
  BY DEF Goto, listVars
<1>2. pc' \notin Before /\ pc' \notin Watched
  BY <1>1 DEF Before, Watched
<1>3. ASSUME NEW p \in Pods
      PROVE  pods'[p].cass = pods[p].cass /\ pods'[p].phase = pods[p].phase
  <2> DEFINE s == [pods[p] EXCEPT !.old = TRUE]
  <2>1. pods'[p] = s \/ pods'[p] = pods[p]
    OBVIOUS
  <2>2. s.cass = pods[p].cass /\ s.phase = pods[p].phase
    BY OldField DEF Inv, TypeOK
  <2> HIDE DEF s
  <2> QED
    BY <2>1, <2>2
<1>4. /\ \A q \in Pods : Exists(q)' => Exists(q)
      /\ \A q \in Pods : pods'[q].cass # "unready"
  BY <1>3 DEF Exists, KnownInv, NoneUnready
<1> QED
  BY <1>1, <1>2, <1>4, LeavingKeepsSeeds

(* The patch of the Starting label.                                         *)
LEMMA LabelServerPodStartingKeepsSeeds ==
    ASSUME Inv, JoinInv, KnownInv, SeedInv, LabelServerPodStarting
    PROVE  KnownInv' /\ SeedInv'
<1> DEFINE b == seed[target]
<1>1. /\ target \in Pods /\ "Starting" \in Labels /\ b \in BOOLEAN
      /\ PatchPod(target, "Starting", b, "lastStarted") /\ pc # "idle"
  BY DEF Inv, TypeOK, TargetChosen, Labels, LabelServerPodStarting, LabelState
<1> HIDE DEF b
<1>2. "lastStarted" \notin Before /\ "lastStarted" \notin Watched
      /\ "done" \notin Watched
  BY DEF Before, Watched
<1>3. KnownInv'
  BY <1>1, <1>2, PatchKeepsKnownInv
<1>4. pc' \notin Watched
  BY <1>1, <1>2, PatchSeedFacts, ZenonT(30)
<1> QED
  BY <1>3, <1>4, QuietKeepsSeedInv

(* The remaining steps of a pass.                                           *)
LEMMA OtherStepsKeepSeeds ==
    ASSUME KnownInv, SeedInv,
           \/ RefreshSeeds \/ PatchLastServerNodeStarted \/ ClusterHealthy
           \/ ClusterUnhealthy \/ StartAllNodes \/ CountReadyAndStarted
           \/ TakeRequestBack \/ CheckClearActionConditions \/ Abort
    PROVE  KnownInv' /\ SeedInv'
<1>1. UNCHANGED <<pods, label, seed, rcLabel, rcSeed, rcPods, todo, seeded>>
  BY DEF RefreshSeeds, PatchLastServerNodeStarted, ClusterHealthy,
     ClusterUnhealthy, StartAllNodes, CountReadyAndStarted, TakeRequestBack,
     CheckClearActionConditions, Abort, Goto, ChooseTarget, podVars, listVars
<1>2. pc # "idle"
  BY ConstantsAssumption DEF RefreshSeeds, PatchLastServerNodeStarted,
     ClusterHealthy, ClusterUnhealthy, StartAllNodes, CountReadyAndStarted,
     TakeRequestBack, CheckClearActionConditions, Abort
<1>3. \/ pc = "refreshSeeds" /\ pc' = "startingNodes"
      \/ pc = "healthy" /\ pc' = "allNodes"
      \/ pc = "allNodes" /\ pc' = "start"
      \/ pc' \in {"done", "count", "restart", "restartPods"}
  BY DEF RefreshSeeds, PatchLastServerNodeStarted, ClusterHealthy,
     ClusterUnhealthy, StartAllNodes, CountReadyAndStarted, TakeRequestBack,
     CheckClearActionConditions, Abort, Goto, ChooseTarget
<1>4. /\ pc' \in Before => pc \in Before
      /\ pc' \in {"done", "count", "restart", "restartPods"} => pc' \notin Watched
  BY <1>3 DEF Before, Watched
<1> QED
  BY <1>1, <1>2, <1>3, <1>4, GoingOnKeepsSeeds

(* Every step keeps the two invariants.                                     *)
LEMMA NextKeepsSeeds ==
    ASSUME Inv, JoinInv, KnownInv, SeedInv, [Next]_vars,
           ~SwapsMidPass, "readiness" \notin Disruptions
    PROVE  KnownInv' /\ SeedInv'
<1>1. CASE PassStep
  <2>1. CASE DeleteStuckNodes
    <3>1. ASSUME NEW p \in Listed, pods' = Deleted(p), Goto("done")
          PROVE  KnownInv' /\ SeedInv'
      BY <2>1, <3>1, DeletionKeepsSeeds DEF DeleteStuckNodes, Listed
    <3>2. ASSUME UNCHANGED pods, Goto("seeds") PROVE KnownInv' /\ SeedInv'
      BY <2>1, <3>2, ReadingKeepsKnownInv, QuietKeepsSeedInv
         DEF DeleteStuckNodes, Goto, listVars, Before, Watched
    <3> QED
      BY <2>1, <3>1, <3>2 DEF DeleteStuckNodes
  <2>2. CASE DeleteOldPod
    BY <2>2, DeletionKeepsSeeds DEF DeleteOldPod, Inv, TargetChosen
  <2> QED
    BY <1>1, <2>1, <2>2, FindStartedNotReadyNodesKeepsSeeds,
       CheckSeedLabelsKeepsSeeds, LabelSeedPodsKeepsSeeds,
       FindStartingNodesKeepsSeeds, StartOneNodePerRackKeepsSeeds,
       LabelFirstSeedKeepsSeeds, StartCassandraKeepsSeeds,
       LabelServerPodStartingKeepsSeeds, DrainOldPodKeepsSeeds,
       CheckRollingRestartKeepsSeeds, EndPassKeepsSeeds, OtherStepsKeepSeeds
       DEF PassStep
<1>2. CASE CooldownEnds \/ RequestRollingRestart \/ UNCHANGED vars
  <2>1. UNCHANGED <<pods, label, seed, rcLabel, rcSeed, rcPods, todo, seeded, pc>>
    BY <1>2 DEF CooldownEnds, RequestRollingRestart, vars, podVars, listVars, passVars
  <2> QED
    BY <2>1, ReadingKeepsKnownInv, QuietKeepsSeedInv
<1>3. ASSUME NEW p \in Pods, PodStep(p) \/ Disruption(p) PROVE KnownInv' /\ SeedInv'
  BY <1>3, PodEventsKeepSeeds
<1> QED
  BY <1>1, <1>2, <1>3, BeginPassKeepsSeeds, OtherStepsKeepSeeds DEF Next

(* No pass runs in an initial state, and no node is unready.                *)
LEMMA InitSeeds ==
    ASSUME Init PROVE KnownInv /\ SeedInv
<1>1. PICK new \in FirstStart : pods = [p \in Pods |-> IF new THEN GonePod ELSE UpPod]
  BY DEF Init
<1>2. NoneUnready
  BY <1>1, FreshPods DEF NoneUnready
<1>3. pc = "idle" /\ "idle" \notin Before
  BY DEF Init, Before
<1>4. KnownInv
  BY <1>2, <1>3 DEF KnownInv, LabelsKnown, StaysDown
<1>5. SeedInv
  BY <1>3 DEF SeedInv, SeedlessIsDown, SeedIsComing, SeedIsListed
<1> QED
  BY <1>4, <1>5

(* A node is told to start only when the pass knows a pod with the seed     *)
(* label, for every size of datacenter, if no pod is recreated while a pass *)
(* runs, no node loses its readiness by itself, and no pass is cut short    *)
(* between the start call and the patch of the Starting label: a pod that   *)
(* was not ready when the seeds were counted is not found ready afterwards, *)
(* so no rack counts as started unless a seed was counted.                  *)
THEOREM AlwaysStartsWithSeed ==
    ASSUME ~SwapsMidPass, "readiness" \notin Disruptions,
           "labelStarting" \notin AbortSteps
    PROVE  Spec => []StartsWithSeed
<1>1. Init => KnownInv /\ SeedInv
  BY InitSeeds
<1>2. Inv /\ JoinInv /\ KnownInv /\ SeedInv /\ [Next]_vars => (KnownInv /\ SeedInv)'
  BY NextKeepsSeeds
<1>3. SeedInv => StartsWithSeed
  BY DEF SeedInv, SeedIsListed, StartsWithSeed
<1>4. Spec => []JoinInv
  BY JoinInvAlways
<1> QED
  BY <1>1, <1>2, <1>3, <1>4, InvAlways, PTL DEF Spec

=============================================================================
