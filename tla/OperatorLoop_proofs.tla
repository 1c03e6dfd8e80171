------------------------- MODULE OperatorLoop_proofs -------------------------
(***************************************************************************)
(* What a deleted datacenter leaves behind and what becomes of the watches *)
(* on secrets, for any set of datacenters, secrets and Kubernetes nodes,   *)
(* and any number of edits, evictions, failed calls and restarts.          *)
(*                                                                         *)
(* The argument: a datacenter gets its StatefulSet, its claims, its entry  *)
(* in nodeToDc and its watches only while it has the finalizer, and with   *)
(* the finalizer it goes only at the end of ProcessDeletion.               *)
(***************************************************************************)
EXTENDS OperatorLoop, TLAPS

(* A step that names no prover is checked by Zenon.                         *)
USE Zenon

PodRecords == [node : Nodes \cup {"none"}, ready : BOOLEAN]

RcRecords == [dc : Datacenters \cup {"none"}, users : SUBSET (Secrets \ {Generated}),
              stopped : BOOLEAN, fresh : BOOLEAN]

PassSteps == {"unwatch", "claims", "release", "finalizer", "secret", "racks", "watch",
              "upsert", "health"}

(* TypeOK, and the type of what a pass holds.                               *)
Typed ==
    /\ dc \in [Datacenters -> DcRecords] /\ secret \in [Secrets -> SecretRecords]
    /\ sts \in [Datacenters -> -1..1] /\ pod \in [Datacenters -> PodRecords]
    /\ claim \in [Datacenters -> {"none", "made", "late"}]
    /\ tainted \subseteq Nodes /\ health \subseteq Datacenters
    /\ roles \in [Datacenters -> SUBSET Secrets] /\ noticed \subseteq Datacenters
    /\ queue \subseteq Datacenters /\ nodeToDc \in [Nodes -> SUBSET Datacenters]
    /\ pc \in PassSteps \cup {"idle"} /\ rc \in RcRecords
    /\ pc # "idle" => rc.dc \in Datacenters
    /\ unmapped \subseteq Datacenters /\ unpatched \subseteq Datacenters
    /\ edits \in 0..MaxEdits /\ events \in 0..MaxEvents
    /\ \A d \in Datacenters : pod[d] # NoPod => sts[d] = 1
    /\ \A s \in Secrets : secret[s].watchers # {} => secret[s].exists /\ secret[s].labelled

Unmapped(d)  == \A n \in Nodes : d \notin nodeToDc[n]
Unwatched(d) == \A s \in Secrets : d \notin secret[s].watchers

(* What the finalizer stands for.                                           *)
FinalizerInv ==
    \A d \in Datacenters :
        /\ dc[d].finalizer => Exists(d)
        /\ dc[d].state = "deleting" => dc[d].finalizer
        /\ dc[d].state \in {"none", "live"} /\ ~dc[d].finalizer =>
              sts[d] = -1 /\ claim[d] = "none" /\ Unmapped(d) /\ Unwatched(d)

(* What a pass knows of its datacenter.                                     *)
StepsInv ==
    /\ pc \in {"unwatch", "claims", "release"} => dc[rc.dc].state = "deleting"
    /\ pc = "finalizer" /\ rc.fresh => dc[rc.dc].state = "live"
    /\ pc \in {"secret", "racks", "watch", "upsert", "health"} => dc[rc.dc].finalizer
    /\ pc \in {"claims", "release"} /\ rc.dc \notin unpatched => Unwatched(rc.dc)
    /\ pc = "release" => claim[rc.dc] # "made"

Inv == FinalizerInv /\ StepsInv /\ NothingLeft
-----------------------------------------------------------------------------
LEMMA Constants ==
    /\ Running \subseteq Datacenters /\ Generated \in Secrets /\ "none" \notin Nodes
    /\ MaxEdits \in Nat /\ MaxEvents \in Nat
  BY ConstantsAssumption

LEMMA TypedIsTypeOK == Typed => TypeOK
  BY DEF Typed, TypeOK, PodRecords, PassSteps

LEMMA Blanks ==
    /\ NoPod \in PodRecords /\ NoPod.node = "none" /\ ~NoPod.ready
    /\ NoSecret \in SecretRecords /\ NoSecret.watchers = {}
    /\ NoRc \in RcRecords /\ ~NoRc.fresh
    /\ NoDc \in DcRecords /\ NoDc.state = "none" /\ ~NoDc.finalizer
    /\ NewDc \in DcRecords /\ NewDc.state = "live" /\ ~NewDc.finalizer
  <1>1. /\ NoPod \in PodRecords /\ NoPod.node = "none" /\ ~NoPod.ready
        /\ NoSecret \in SecretRecords /\ NoSecret.watchers = {}
    BY DEF NoPod, PodRecords, NoSecret, SecretRecords
  <1>2. NoRc \in RcRecords /\ ~NoRc.fresh
    BY DEF NoRc, RcRecords
  <1>3. NoDc \in DcRecords /\ NoDc.state = "none" /\ ~NoDc.finalizer
    BY DEF NoDc, DcRecords
  <1>4. NewDc \in DcRecords /\ NewDc.state = "live" /\ ~NewDc.finalizer
    <2>1. Secrets \ {Generated} \in SUBSET (Secrets \ {Generated})
      OBVIOUS
    <2> QED
      BY <1>3, <2>1 DEF NewDc, DcRecords
  <1> QED
    BY <1>1, <1>2, <1>3, <1>4

LEMMA InitInv == Init => Typed /\ Inv
  <1> SUFFICES ASSUME Init PROVE Typed /\ Inv
    OBVIOUS
  <1> USE Constants
  <1> DEFINE run == [NewDc EXCEPT !.finalizer = TRUE]
  <1>1. run \in DcRecords /\ run.state = "live" /\ run.finalizer
    BY Blanks DEF DcRecords
  <1>2. dc = [d \in Datacenters |-> IF d \in Running THEN run ELSE NoDc]
    BY DEF Init, Up
  <1> HIDE DEF run
  <1>3. \A d \in Datacenters :
           /\ dc[d] \in DcRecords
           /\ d \in Running => dc[d].state = "live" /\ dc[d].finalizer
           /\ d \notin Running => dc[d].state = "none" /\ ~dc[d].finalizer
    BY <1>1, <1>2, Blanks
  <1>4. /\ secret = [s \in Secrets |-> [exists   |-> Running # {} \/ s # Generated,
                                        watchers |-> Running,
                                        labelled |-> Running # {}]]
        /\ sts = [d \in Datacenters |-> IF d \in Running THEN 1 ELSE -1]
        /\ claim = [d \in Datacenters |-> IF d \in Running THEN "made" ELSE "none"]
        /\ tainted = {} /\ health = {} /\ noticed = {}
        /\ roles = [d \in Datacenters |-> IF d \in Running THEN Secrets ELSE {}]
        /\ queue = {} /\ pc = "idle" /\ rc = NoRc
        /\ unmapped = {} /\ unpatched = {} /\ edits = 0 /\ events = 0
    BY DEF Init, Up
  <1>5. PICK n \in Nodes :
           /\ pod = [d \in Datacenters |->
                       IF d \in Running THEN [node |-> n, ready |-> TRUE] ELSE NoPod]
           /\ nodeToDc = [m \in Nodes |-> IF m = n THEN Running ELSE {}]
    BY DEF Init, Up
  <1>6. Typed
    <2>1. dc \in [Datacenters -> DcRecords]
      BY <1>2, <1>3
    <2>2. /\ secret \in [Secrets -> SecretRecords]
          /\ \A s \in Secrets : secret[s].watchers # {} => secret[s].exists /\ secret[s].labelled
      BY <1>4 DEF SecretRecords
    <2>3. /\ sts \in [Datacenters -> -1..1]
          /\ claim \in [Datacenters -> {"none", "made", "late"}]
          /\ roles \in [Datacenters -> SUBSET Secrets]
      BY <1>4, SMT
    <2>4. /\ pod \in [Datacenters -> PodRecords]
          /\ \A d \in Datacenters : pod[d] # NoPod => sts[d] = 1
      <3>1. [node |-> n, ready |-> TRUE] \in PodRecords
        BY DEF PodRecords
      <3> QED
        BY <1>4, <1>5, <3>1, Blanks
    <2>5. nodeToDc \in [Nodes -> SUBSET Datacenters]
      BY <1>5
    <2>6. edits \in 0..MaxEdits /\ events \in 0..MaxEvents
      BY <1>4, SMT
    <2>7. rc \in RcRecords
      BY <1>4, Blanks
    <2> QED
      BY <1>4, <2>1, <2>2, <2>3, <2>4, <2>5, <2>6, <2>7 DEF Typed
  <1>7. FinalizerInv
    <2>1. \A s \in Secrets : secret[s].watchers = Running
      BY <1>4
    <2> QED
      BY <1>3, <1>4, <1>5, <2>1 DEF FinalizerInv, Exists, Unmapped, Unwatched
  <1>8. StepsInv
    BY <1>4 DEF StepsInv
  <1>9. NothingLeft
    BY <1>3 DEF NothingLeft
  <1> QED
    BY <1>6, <1>7, <1>8, <1>9 DEF Inv

-----------------------------------------------------------------------------
LiveSteps == {"secret", "racks", "watch", "upsert", "health"}

(* A step that takes watches or entries of nodeToDc away at most, and after *)
(* which the pass is over, where it was, or one step further with a         *)
(* datacenter that stays.                                                   *)
LEMMA FrameInv ==
    ASSUME Typed, Inv,
           \A d \in Datacenters : dc'[d].state = dc[d].state /\ dc'[d].finalizer = dc[d].finalizer,
           \A s \in Secrets : secret'[s].watchers \subseteq secret[s].watchers,
           \A n \in Nodes : nodeToDc'[n] \subseteq nodeToDc[n],
           UNCHANGED <<sts, claim, unpatched>>,
           \/ pc' = "idle"
           \/ pc' = pc /\ rc'.dc = rc.dc /\ (rc'.fresh => rc.fresh)
           \/ pc \in LiveSteps /\ pc' \in LiveSteps /\ rc'.dc = rc.dc
    PROVE  Inv'
  <1>0. FinalizerInv /\ StepsInv /\ NothingLeft
    BY DEF Inv
  <1>1. \A d \in Datacenters : /\ Unwatched(d) => Unwatched(d)'
                               /\ Unmapped(d) => Unmapped(d)'
                               /\ Exists(d) <=> Exists(d)'
    BY DEF Unwatched, Unmapped, Exists
  <1>2. FinalizerInv'
    BY <1>0, <1>1 DEF FinalizerInv
  <1>3. NothingLeft'
    BY <1>0, <1>1 DEF NothingLeft, Unwatched, Unmapped
  <1>4. StepsInv'
    <2>1. CASE pc' = "idle"
      BY <2>1 DEF StepsInv
    <2>2. CASE pc' = pc /\ pc # "idle" /\ rc'.dc = rc.dc /\ (rc'.fresh => rc.fresh)
      BY <1>0, <1>1, <2>2 DEF StepsInv, Typed
    <2>3. CASE pc \in LiveSteps /\ pc' \in LiveSteps /\ rc'.dc = rc.dc
      <3>1. rc.dc \in Datacenters
        BY <2>3 DEF Typed, LiveSteps
      <3> QED
        BY <1>0, <2>3, <3>1 DEF StepsInv, LiveSteps
    <2> QED
      BY <2>1, <2>2, <2>3
  <1> QED
    BY <1>2, <1>3, <1>4 DEF Inv

-----------------------------------------------------------------------------
(* The user.                                                                *)

LEMMA Counted ==
    ASSUME Typed
    PROVE  /\ Event => events' \in 0..MaxEvents
           /\ Edit => edits' \in 0..MaxEdits
  BY Constants, SMT DEF Typed, Event, Edit

(* What a pass holds, after a change that makes it stale.                   *)
LEMMA StaleRc ==
    ASSUME Typed, NEW d, Stale(d)
    PROVE  /\ rc' \in RcRecords /\ rc'.dc = rc.dc
           /\ rc'.fresh => rc.fresh /\ rc.dc # d
  <1>1. rc \in RcRecords
    BY DEF Typed
  <1>2. CASE rc.dc = d
    <2>1. rc' = [rc EXCEPT !.fresh = FALSE]
      BY <1>2 DEF Stale
    <2> QED
      BY <1>1, <1>2, <2>1 DEF RcRecords
  <1>3. CASE rc.dc # d
    BY <1>1, <1>3 DEF Stale
  <1> QED
    BY <1>2, <1>3

LEMMA CreateDatacenterInv ==
    ASSUME Typed, Inv, NEW d \in Datacenters, CreateDatacenter(d)
    PROVE  Typed' /\ Inv'
  <1>0. FinalizerInv /\ StepsInv /\ NothingLeft
    BY DEF Inv
  <1>1. /\ dc[d].state = "none" /\ dc' = [dc EXCEPT ![d] = NewDc]
        /\ queue' = queue \cup {d}
        /\ UNCHANGED <<secret, sts, pod, claim, tainted, roles, health, noticed, nodeToDc, pc, rc,
                       unmapped, unpatched, edits, events>>
    BY DEF CreateDatacenter, Enqueue, world, results, history, bounds
  <1>2. /\ dc' \in [Datacenters -> DcRecords]
        /\ dc'[d].state = "live" /\ ~dc'[d].finalizer
        /\ \A e \in Datacenters : e # d => dc'[e] = dc[e]
    BY <1>1, Blanks DEF Typed
  <1>3. Typed'
    BY <1>1, <1>2 DEF Typed
  <1>4. ~dc[d].finalizer
    BY <1>0, <1>1 DEF FinalizerInv, Exists
  <1>5. FinalizerInv'
    BY <1>0, <1>1, <1>2, <1>4 DEF FinalizerInv, Exists, Unmapped, Unwatched
  <1>6. StepsInv'
    BY <1>0, <1>1, <1>2, <1>4 DEF StepsInv, Unwatched, Typed
  <1>7. NothingLeft'
    BY <1>0, <1>1, <1>2 DEF NothingLeft
  <1> QED
    BY <1>3, <1>5, <1>6, <1>7 DEF Inv

LEMMA EditDatacenterInv ==
    ASSUME Typed, Inv, NEW d \in Datacenters,
           NEW users \in SUBSET (Secrets \ {Generated}), NEW stopped \in BOOLEAN,
           EditDatacenter(d, users, stopped)
    PROVE  Typed' /\ Inv'
  <1>1. /\ dc' = [dc EXCEPT ![d].users = users, ![d].stopped = stopped]
        /\ queue' = queue \cup {d}
        /\ UNCHANGED <<secret, sts, pod, claim, tainted, roles, health, noticed, nodeToDc, pc,
                       unmapped, unpatched, events>>
    BY DEF EditDatacenter, Enqueue, world, results, history
  <1>2. dc \in [Datacenters -> DcRecords]
    BY DEF Typed
  <1>3. /\ dc' \in [Datacenters -> DcRecords]
        /\ \A e \in Datacenters : dc'[e].state = dc[e].state /\ dc'[e].finalizer = dc[e].finalizer
    BY <1>1, <1>2, ZenonT(60) DEF DcRecords
  <1>4. rc' \in RcRecords /\ rc'.dc = rc.dc /\ (rc'.fresh => rc.fresh)
    BY StaleRc DEF EditDatacenter
  <1>5. edits' \in 0..MaxEdits
    BY Counted DEF EditDatacenter
  <1>6. Typed'
    BY <1>1, <1>3, <1>4, <1>5 DEF Typed
  <1> QED
    BY <1>1, <1>3, <1>4, <1>6, FrameInv

LEMMA DeleteDatacenterInv ==
    ASSUME Typed, Inv, NEW d \in Datacenters, DeleteDatacenter(d)
    PROVE  Typed' /\ Inv'
  <1>0. FinalizerInv /\ StepsInv /\ NothingLeft
    BY DEF Inv
  <1>1. /\ dc[d].state = "live"
        /\ dc' = [dc EXCEPT ![d].state = IF dc[d].finalizer THEN "deleting" ELSE "gone"]
        /\ queue' = queue \cup {d}
        /\ UNCHANGED <<secret, sts, pod, claim, tainted, roles, health, noticed, nodeToDc, pc,
                       unmapped, unpatched, events>>
    BY DEF DeleteDatacenter, Enqueue, world, results, history
  <1>2. dc \in [Datacenters -> DcRecords]
    BY DEF Typed
  <1>3. /\ dc' \in [Datacenters -> DcRecords]
        /\ \A e \in Datacenters : e # d => dc'[e] = dc[e]
        /\ dc'[d].finalizer = dc[d].finalizer
        /\ dc'[d].state = IF dc[d].finalizer THEN "deleting" ELSE "gone"
    <2> DEFINE st == IF dc[d].finalizer THEN "deleting" ELSE "gone"
    <2>1. dc' = [dc EXCEPT ![d].state = st] /\ st \in {"deleting", "gone"}
      BY <1>1
    <2>2. /\ dc' \in [Datacenters -> DcRecords]
          /\ \A e \in Datacenters : e # d => dc'[e] = dc[e]
          /\ dc'[d].finalizer = dc[d].finalizer
          /\ dc'[d].state = st
      <3> HIDE DEF st
      <3> QED
        BY <1>2, <2>1 DEF DcRecords
    <2> QED
      BY <2>2
  <1>4. rc' \in RcRecords /\ rc'.dc = rc.dc /\ (rc'.fresh => rc.fresh /\ rc.dc # d)
    BY StaleRc DEF DeleteDatacenter
  <1>5. edits' \in 0..MaxEdits
    BY Counted DEF DeleteDatacenter
  <1>6. Typed'
    BY <1>1, <1>3, <1>4, <1>5 DEF Typed
  <1>7. FinalizerInv'
    BY <1>0, <1>1, <1>3, SMT DEF FinalizerInv, Exists, Unmapped, Unwatched
  <1>8. StepsInv'
    BY <1>0, <1>1, <1>3, <1>4 DEF StepsInv, Unwatched, Typed
  <1>9. NothingLeft'
    BY <1>0, <1>1, <1>3, SMT DEF NothingLeft, FinalizerInv, Unmapped, Unwatched
  <1> QED
    BY <1>6, <1>7, <1>8, <1>9 DEF Inv

LEMMA ChangeSecretInv ==
    ASSUME Typed, Inv, NEW s \in Secrets, NEW new \in SecretRecords, ChangeSecret(s, new),
           new.watchers \subseteq secret[s].watchers,
           new.watchers # {} => new.exists /\ new.labelled,
           edits' \in 0..MaxEdits
    PROVE  Typed' /\ Inv'
  <1>1. /\ secret' = [secret EXCEPT ![s] = new]
        /\ roles' = [d \in Datacenters |-> roles[d] \ {s}]
        /\ queue' = queue \cup (secret[s].watchers \cup new.watchers)
        /\ UNCHANGED <<dc, sts, pod, claim, tainted, health, noticed, nodeToDc, pc, rc,
                       unmapped, unpatched, events>>
    BY DEF ChangeSecret, Enqueue, world, history
  <1>2. /\ secret' \in [Secrets -> SecretRecords]
        /\ secret'[s] = new /\ \A t \in Secrets : t # s => secret'[t] = secret[t]
    BY <1>1 DEF Typed
  <1>3. queue' \subseteq Datacenters
    BY <1>1 DEF Typed, SecretRecords
  <1>4. roles' \in [Datacenters -> SUBSET Secrets]
    BY <1>1 DEF Typed
  <1>5. \A t \in Secrets : secret'[t].watchers # {} => secret'[t].exists /\ secret'[t].labelled
    BY <1>2 DEF Typed
  <1>6. Typed'
    BY <1>1, <1>2, <1>3, <1>4, <1>5 DEF Typed
  <1>7. \A t \in Secrets : secret'[t].watchers \subseteq secret[t].watchers
    BY <1>2
  <1> QED
    BY <1>1, <1>6, <1>7, FrameInv

LEMMA EditsSecretInv ==
    ASSUME Typed, Inv, NEW s \in Secrets, EditsSecret(s) \/ RestoreSecret(s)
    PROVE  Typed' /\ Inv'
  <1>1. /\ secret[s] \in SecretRecords
        /\ secret[s].watchers # {} => secret[s].exists /\ secret[s].labelled
    BY DEF Typed
  <1>2. CASE EditSecret(s)
    BY <1>1, <1>2, Counted, ChangeSecretInv DEF EditSecret
  <1>3. CASE DeleteSecret(s)
    BY <1>3, Counted, Blanks, ChangeSecretInv DEF DeleteSecret
  <1>4. ASSUME NEW labelled \in BOOLEAN, ReplaceSecret(s, labelled) PROVE Typed' /\ Inv'
    <2> DEFINE new == [secret[s] EXCEPT !.watchers = {}, !.labelled = labelled]
    <2>1. new \in SecretRecords /\ new.watchers = {}
      BY <1>1 DEF SecretRecords
    <2>2. ChangeSecret(s, new) /\ Edit
      BY <1>4 DEF ReplaceSecret
    <2> HIDE DEF new
    <2> QED
      BY <2>1, <2>2, Counted, ChangeSecretInv
  <1>5. CASE RestoreSecret(s)
    <2> DEFINE new == [NoSecret EXCEPT !.exists = TRUE]
    <2>1. new \in SecretRecords /\ new.watchers = {}
      BY DEF NoSecret, SecretRecords
    <2>2. ChangeSecret(s, new) /\ edits' \in 0..MaxEdits
      BY <1>5 DEF RestoreSecret, Typed
    <2> HIDE DEF new
    <2> QED
      BY <2>1, <2>2, ChangeSecretInv
  <1> QED
    BY <1>2, <1>3, <1>4, <1>5 DEF EditsSecret

-----------------------------------------------------------------------------
(* Kubernetes.                                                              *)

LEMMA PodScheduledInv ==
    ASSUME Typed, Inv, NEW d \in Datacenters, NEW n \in Nodes, PodScheduled(d, n)
    PROVE  Typed' /\ Inv'
  <1>0. FinalizerInv /\ StepsInv /\ NothingLeft
    BY DEF Inv
  <1>1. /\ sts[d] = 1 /\ pod' = [pod EXCEPT ![d].node = n]
        /\ claim' = [claim EXCEPT ![d] = IF @ # "none" THEN @
                                         ELSE IF dc[d].state = "live" THEN "made" ELSE "late"]
        /\ UNCHANGED <<dc, secret, sts, tainted, roles, health, noticed, queue, nodeToDc, pc, rc,
                       unmapped, unpatched, edits, events>>
    BY DEF PodScheduled, results, memory, history, bounds
  <1>2. /\ claim' \in [Datacenters -> {"none", "made", "late"}]
        /\ \A e \in Datacenters : e # d => claim'[e] = claim[e]
        /\ claim'[d] = "made" => claim[d] = "made" \/ dc[d].state = "live"
    BY <1>1 DEF Typed
  <1>3. /\ pod' \in [Datacenters -> PodRecords]
        /\ \A e \in Datacenters : e # d => pod'[e] = pod[e]
    BY <1>1 DEF Typed, PodRecords
  <1>4. Typed'
    BY <1>1, <1>2, <1>3 DEF Typed
  <1>5. FinalizerInv'
    BY <1>0, <1>1, <1>2, SMT DEF FinalizerInv, Exists, Unmapped, Unwatched
  <1>6. StepsInv'
    BY <1>0, <1>1, <1>2, SMT DEF StepsInv, Unwatched, Typed
  <1>7. NothingLeft'
    BY <1>0, <1>1, <1>2 DEF NothingLeft
  <1> QED
    BY <1>4, <1>5, <1>6, <1>7 DEF Inv

LEMMA PodChangesInv ==
    ASSUME Typed, Inv, NEW d \in Datacenters, PodReady(d) \/ PodEvicted(d)
    PROVE  Typed' /\ Inv'
  <1>1. /\ queue' \in {queue, queue \cup {d}} /\ noticed' \subseteq noticed
        /\ UNCHANGED <<dc, secret, sts, claim, tainted, roles, health, nodeToDc, pc, rc,
                       unmapped, unpatched, edits>>
    BY DEF PodReady, PodEvicted, Enqueue, results, operator, history, bounds
  <1>2. pod \in [Datacenters -> PodRecords]
    BY DEF Typed
  <1>3. /\ pod' \in [Datacenters -> PodRecords]
        /\ \A e \in Datacenters : e # d => pod'[e] = pod[e]
        /\ pod'[d] = NoPod \/ pod[d] # NoPod
    <2>1. CASE PodReady(d)
      BY <1>2, <2>1, Blanks DEF PodReady, PodRecords
    <2>2. CASE PodEvicted(d)
      BY <1>2, <2>2, Blanks DEF PodEvicted
    <2> QED
      BY <2>1, <2>2
  <1>4. events' \in 0..MaxEvents
    BY Counted DEF PodReady, PodEvicted, bounds, Typed
  <1>5. Typed'
    BY <1>1, <1>3, <1>4 DEF Typed
  <1> QED
    BY <1>1, <1>5, FrameInv

LEMMA NodeTaintedInv ==
    ASSUME Typed, Inv, NEW n \in Nodes, NodeTainted(n)
    PROVE  Typed' /\ Inv'
  <1>1. /\ tainted' = tainted \cup {n} /\ queue' = queue \cup nodeToDc[n]
        /\ UNCHANGED <<dc, secret, sts, pod, claim, roles, health, noticed, nodeToDc, pc, rc,
                       unmapped, unpatched, edits>>
        /\ events' \in 0..MaxEvents
    BY Counted DEF NodeTainted, Enqueue, DatacentersForNode, results, operator, history
  <1>2. Typed'
    BY <1>1 DEF Typed
  <1> QED
    BY <1>1, <1>2, FrameInv

LEMMA CollectedInv ==
    ASSUME Typed, Inv, NEW d \in Datacenters, Collected(d)
    PROVE  Typed' /\ Inv'
  <1>0. FinalizerInv /\ StepsInv /\ NothingLeft
    BY DEF Inv
  <1>1. /\ sts' = [sts EXCEPT ![d] = -1] /\ pod' = [pod EXCEPT ![d] = NoPod]
        /\ UNCHANGED <<dc, secret, claim, tainted, roles, health, noticed, queue, nodeToDc, pc, rc,
                       unmapped, unpatched, edits, events>>
    BY DEF Collected, results, memory, history, bounds
  <1>2. /\ sts' \in [Datacenters -> -1..1] /\ pod' \in [Datacenters -> PodRecords]
        /\ sts'[d] = -1 /\ pod'[d] = NoPod
        /\ \A e \in Datacenters : e # d => sts'[e] = sts[e] /\ pod'[e] = pod[e]
    BY <1>1, Blanks, SMT DEF Typed
  <1>3. Typed'
    BY <1>1, <1>2 DEF Typed
  <1>4. FinalizerInv'
    BY <1>0, <1>1, <1>2 DEF FinalizerInv, Exists, Unmapped, Unwatched
  <1>5. StepsInv' /\ NothingLeft'
    BY <1>0, <1>1 DEF StepsInv, NothingLeft, Unwatched
  <1> QED
    BY <1>3, <1>4, <1>5 DEF Inv

-----------------------------------------------------------------------------
(* The pass.                                                                *)

LEMMA PassEnds ==
    ASSUME EndPass
    PROVE  pc' = "idle" /\ rc' \in RcRecords
  BY Blanks DEF EndPass

LEMMA ForgetRequestInv ==
    ASSUME Typed, Inv, NEW d \in Datacenters, ForgetRequest(d)
    PROVE  Typed' /\ Inv'
  <1>1. /\ queue' = queue \ {d}
        /\ UNCHANGED <<dc, secret, sts, pod, claim, tainted, roles, health, noticed, nodeToDc,
                       pc, rc, unmapped, unpatched, edits, events>>
    BY DEF ForgetRequest, world, results, history, bounds
  <1>2. Typed'
    BY <1>1 DEF Typed
  <1> QED
    BY <1>1, <1>2, FrameInv

LEMMA HeldRc ==
    ASSUME Typed, NEW d \in Datacenters
    PROVE  Held(d) \in RcRecords /\ Held(d).dc = d
  <1>1. dc[d] \in DcRecords
    BY DEF Typed
  <1> QED
    BY <1>1 DEF Held, RcRecords, DcRecords

(* The pod of a datacenter without finalizer does not exist, so that        *)
(* updateDcMaps adds only datacenters with one.                             *)
LEMMA BeginPassInv ==
    ASSUME Typed, Inv, NEW d \in Datacenters, BeginPass(d)
    PROVE  Typed' /\ Inv'
  <1>0. FinalizerInv /\ StepsInv /\ NothingLeft
    BY DEF Inv
  <1>1. /\ pc = "idle" /\ d \in queue /\ Exists(d)
        /\ queue' = queue \ {d} /\ rc' = Held(d)
        /\ pc' = IF dc[d].state = "deleting" THEN "unwatch" ELSE "finalizer"
        /\ nodeToDc' \in {nodeToDc, UpdateDcMaps(d)}
        /\ unmapped' \in {unmapped \cup {d}, unmapped \ {d}}
        /\ UNCHANGED <<dc, secret, sts, pod, claim, tainted, roles, health, noticed, unpatched,
                       edits>>
    BY DEF BeginPass, world, results
  <1>2. rc' \in RcRecords /\ rc'.dc = d
    BY <1>1, HeldRc
  <1>3. events' \in 0..MaxEvents
    BY Counted DEF BeginPass, Typed
  <1>4. /\ nodeToDc' \in [Nodes -> SUBSET Datacenters]
        /\ \A n \in Nodes, e \in Datacenters :
              e \in nodeToDc'[n] => e \in nodeToDc[n] \/ (e = d /\ pod[d].node = n)
    BY <1>1, SMT DEF UpdateDcMaps, Typed
  <1>5. Typed'
    BY <1>1, <1>2, <1>3, <1>4 DEF Typed, PassSteps
  <1>6. ASSUME ~dc[d].finalizer PROVE Unmapped(d)'
    <2>1. dc[d].state = "live" /\ sts[d] = -1 /\ Unmapped(d)
      BY <1>0, <1>1, <1>6 DEF FinalizerInv, Exists
    <2>2. pod[d] = NoPod
      BY <2>1, SMT DEF Typed
    <2>3. \A n \in Nodes : pod[d].node # n
      BY <2>2, Blanks, Constants
    <2> QED
      BY <1>4, <2>1, <2>3 DEF Unmapped
  <1>7. FinalizerInv'
    BY <1>0, <1>1, <1>4, <1>6 DEF FinalizerInv, Exists, Unmapped, Unwatched
  <1>8. StepsInv'
    BY <1>1, <1>2 DEF StepsInv, Exists
  <1>9. NothingLeft'
    BY <1>0, <1>1, <1>4 DEF NothingLeft, Exists
  <1> QED
    BY <1>5, <1>7, <1>8, <1>9 DEF Inv

LEMMA Watching ==
    ASSUME NEW r \in SecretRecords, NEW w \in SUBSET Datacenters,
           NEW q, q = [r EXCEPT !.watchers = w, !.labelled = (w # {})]
    PROVE  /\ q \in SecretRecords /\ q.watchers = w
           /\ q.exists = r.exists /\ (q.labelled <=> w # {})
  BY DEF SecretRecords

(* Of the watchers, UpdateWatch adds or removes the datacenter of the pass  *)
(* only, removes it where it is not to watch, and everywhere if it is to    *)
(* watch nothing and no patch fails.                                        *)
LEMMA WatchUpdated ==
    ASSUME Typed, NEW names \in SUBSET Secrets, UpdateWatch(names), rc.dc \in Datacenters,
           \A s \in names : secret[s].exists
    PROVE  /\ secret' \in [Secrets -> SecretRecords]
           /\ \A s \in Secrets : /\ secret'[s].exists = secret[s].exists
                                 /\ secret'[s].watchers # {} =>
                                       secret'[s].exists /\ secret'[s].labelled
                                 /\ \A d \in Datacenters \ {rc.dc} :
                                       d \in secret'[s].watchers <=> d \in secret[s].watchers
                                 /\ rc.dc \in secret[s].watchers /\ s \in names =>
                                       rc.dc \in secret'[s].watchers
           /\ names = {} /\ rc.dc \notin unpatched' =>
                 \A s \in Secrets : rc.dc \notin secret'[s].watchers
           /\ queue' \subseteq Datacenters /\ unpatched' \subseteq Datacenters
           /\ \A d \in Datacenters \ {rc.dc} : d \in unpatched' <=> d \in unpatched
           /\ events' \in 0..MaxEvents
  <1> DEFINE new == Watched(rc.dc, names)
  <1>0. /\ secret \in [Secrets -> SecretRecords]
        /\ \A s \in Secrets : secret[s].watchers # {} => secret[s].exists /\ secret[s].labelled
        /\ \A s \in Secrets : secret[s].watchers \subseteq Datacenters
    BY DEF Typed, SecretRecords
  <1>1. new = [s \in Secrets |->
                  IF s \in names THEN SetWatchers(s, secret[s].watchers \cup {rc.dc})
                  ELSE IF secret[s].labelled THEN SetWatchers(s, secret[s].watchers \ {rc.dc})
                  ELSE secret[s]]
    BY DEF Watched
  <1>2. ASSUME NEW s \in Secrets
        PROVE  /\ new[s] \in SecretRecords /\ new[s].exists = secret[s].exists
               /\ new[s].watchers # {} => new[s].exists /\ new[s].labelled
               /\ \A d \in Datacenters \ {rc.dc} :
                     d \in new[s].watchers <=> d \in secret[s].watchers
               /\ IF s \in names THEN rc.dc \in new[s].watchers
                                 ELSE rc.dc \notin new[s].watchers
    <2>0. secret[s] \in SecretRecords
      BY <1>0
    <2>1. CASE s \in names
      <3> DEFINE w == secret[s].watchers \cup {rc.dc}
      <3>1. new[s] = [secret[s] EXCEPT !.watchers = w, !.labelled = (w # {})]
        BY <1>1, <2>1 DEF SetWatchers
      <3>2. w \in SUBSET Datacenters
        BY <1>0
      <3>3. /\ new[s] \in SecretRecords /\ new[s].watchers = w
            /\ new[s].exists = secret[s].exists /\ (new[s].labelled <=> w # {})
        <4> HIDE DEF w, new
        <4> QED
          BY <2>0, <3>1, <3>2, Watching, ZenonT(60)
      <3> HIDE DEF new
      <3> QED
        BY <2>1, <3>3
    <2>2. CASE s \notin names /\ secret[s].labelled
      <3> DEFINE w == secret[s].watchers \ {rc.dc}
      <3>1. new[s] = [secret[s] EXCEPT !.watchers = w, !.labelled = (w # {})]
        BY <1>1, <2>2 DEF SetWatchers
      <3>2. w \in SUBSET Datacenters
        BY <1>0
      <3>3. /\ new[s] \in SecretRecords /\ new[s].watchers = w
            /\ new[s].exists = secret[s].exists /\ (new[s].labelled <=> w # {})
        <4> HIDE DEF w, new
        <4> QED
          BY <2>0, <3>1, <3>2, Watching, ZenonT(60)
      <3> HIDE DEF new
      <3> QED
        BY <1>0, <2>2, <3>3
    <2>3. CASE s \notin names /\ ~secret[s].labelled
      <3>1. new[s] = secret[s] /\ secret[s].watchers = {}
        BY <1>0, <1>1, <2>3
      <3> HIDE DEF new
      <3> QED
        BY <2>0, <2>3, <3>1
    <2> QED
      BY <2>1, <2>2, <2>3
  <1>3. DOMAIN new = Secrets
    BY <1>1
  <1>3a. new \in [Secrets -> SecretRecords]
    <2>1. new = [s \in Secrets |-> new[s]]
      BY <1>1
    <2> HIDE DEF new
    <2> QED
      BY <1>2, <2>1
  <1>4. /\ secret' \in [Secrets -> SecretRecords]
        /\ \A s \in Secrets : secret'[s] \in {secret[s], new[s]}
        /\ \/ secret' = new /\ unpatched' = unpatched \ {rc.dc}
           \/ unpatched' = unpatched \cup {rc.dc}
    <2>1. CASE secret' = new /\ unpatched' = unpatched \ {rc.dc}
      <3> HIDE DEF new
      <3> QED
        BY <1>3a, <2>1
    <2>2. ASSUME NEW left \in SUBSET Secrets,
                 secret' = [s \in Secrets |-> IF s \in left THEN secret[s] ELSE new[s]],
                 unpatched' = unpatched \cup {rc.dc}
          PROVE  <1>4!1 /\ <1>4!2 /\ <1>4!3
      <3> HIDE DEF new
      <3> QED
        BY <1>0, <1>2, <2>2
    <2> QED
      BY <2>1, <2>2 DEF UpdateWatch
  <1> HIDE DEF new
  <1>5. \A s \in Secrets : /\ secret'[s].exists = secret[s].exists
                           /\ secret'[s].watchers # {} =>
                                 secret'[s].exists /\ secret'[s].labelled
                           /\ \A d \in Datacenters \ {rc.dc} :
                                 d \in secret'[s].watchers <=> d \in secret[s].watchers
                           /\ rc.dc \in secret[s].watchers /\ s \in names =>
                                 rc.dc \in secret'[s].watchers
    BY <1>0, <1>2, <1>4
  <1>6. names = {} /\ rc.dc \notin unpatched' =>
           \A s \in Secrets : rc.dc \notin secret'[s].watchers
    BY <1>2, <1>4
  <1>7. queue' \subseteq Datacenters
    <2>1. queue' = queue \cup FindWatchers(secret, secret')
      BY DEF UpdateWatch, Enqueue
    <2>2. \A s \in Secrets : secret'[s].watchers \subseteq Datacenters
      BY <1>4 DEF SecretRecords
    <2> QED
      BY <1>0, <2>1, <2>2, SMT DEF FindWatchers, Typed
  <1>8. /\ unpatched' \subseteq Datacenters
        /\ \A d \in Datacenters \ {rc.dc} : d \in unpatched' <=> d \in unpatched
    BY <1>4 DEF Typed
  <1>9. events' \in 0..MaxEvents
    BY Counted DEF UpdateWatch, Typed
  <1> QED
    BY <1>4, <1>5, <1>6, <1>7, <1>8, <1>9

LEMMA RemoveWatcherInv ==
    ASSUME Typed, Inv, RemoveWatcher
    PROVE  Typed' /\ Inv'
  <1>0. FinalizerInv /\ StepsInv /\ NothingLeft
    BY DEF Inv
  <1>1. /\ pc = "unwatch" /\ pc' = "claims" /\ UpdateWatch({})
        /\ UNCHANGED <<dc, sts, pod, claim, tainted, roles, health, noticed, nodeToDc, rc,
                       unmapped, edits>>
    BY DEF RemoveWatcher, world, results
  <1>2. rc.dc \in Datacenters /\ dc[rc.dc].state = "deleting" /\ dc[rc.dc].finalizer
    BY <1>0, <1>1 DEF Typed, StepsInv, FinalizerInv
  <1>3. /\ secret' \in [Secrets -> SecretRecords]
        /\ \A s \in Secrets : /\ secret'[s].watchers # {} =>
                                    secret'[s].exists /\ secret'[s].labelled
                              /\ \A d \in Datacenters \ {rc.dc} :
                                    d \in secret'[s].watchers <=> d \in secret[s].watchers
        /\ rc.dc \notin unpatched' => \A s \in Secrets : rc.dc \notin secret'[s].watchers
        /\ queue' \subseteq Datacenters /\ unpatched' \subseteq Datacenters
        /\ \A d \in Datacenters \ {rc.dc} : d \in unpatched' <=> d \in unpatched
        /\ events' \in 0..MaxEvents
    BY <1>1, <1>2, WatchUpdated
  <1>4. Typed'
    BY <1>1, <1>2, <1>3 DEF Typed, PassSteps
  <1>5. FinalizerInv'
    BY <1>0, <1>1, <1>2, <1>3 DEF FinalizerInv, Exists, Unmapped, Unwatched
  <1>6. StepsInv'
    BY <1>1, <1>2, <1>3 DEF StepsInv, Unwatched
  <1>7. NothingLeft'
    BY <1>0, <1>1, <1>2, <1>3 DEF NothingLeft
  <1> QED
    BY <1>4, <1>5, <1>6, <1>7 DEF Inv

LEMMA DeletePVCsInv ==
    ASSUME Typed, Inv, DeletePVCs
    PROVE  Typed' /\ Inv'
  <1>0. FinalizerInv /\ StepsInv /\ NothingLeft
    BY DEF Inv
  <1>1. /\ pc = "claims" /\ pc' = "release" /\ claim' = [claim EXCEPT ![rc.dc] = "none"]
        /\ UNCHANGED <<dc, secret, sts, pod, tainted, roles, health, noticed, queue, nodeToDc, rc,
                       unmapped, unpatched, edits, events>>
    BY DEF DeletePVCs, results, history, bounds
  <1>2. rc.dc \in Datacenters
    BY <1>1 DEF Typed
  <1>3. /\ claim' \in [Datacenters -> {"none", "made", "late"}] /\ claim'[rc.dc] = "none"
        /\ \A d \in Datacenters : d # rc.dc => claim'[d] = claim[d]
    BY <1>1, <1>2 DEF Typed
  <1>4. Typed'
    BY <1>1, <1>3 DEF Typed, PassSteps
  <1>5. FinalizerInv'
    BY <1>0, <1>1, <1>3 DEF FinalizerInv, Exists, Unmapped, Unwatched
  <1>6. StepsInv'
    BY <1>0, <1>1, <1>3 DEF StepsInv, Unwatched
  <1>7. NothingLeft'
    BY <1>0, <1>1, <1>3 DEF NothingLeft
  <1> QED
    BY <1>4, <1>5, <1>6, <1>7 DEF Inv

LEMMA RemoveFinalizerInv ==
    ASSUME Typed, Inv, RemoveFinalizer
    PROVE  Typed' /\ Inv'
  <1>0. FinalizerInv /\ StepsInv /\ NothingLeft
    BY DEF Inv
  <1>1. /\ pc = "release" /\ nodeToDc' = RemoveDcFromNodeToDcMap(rc.dc)
        /\ queue' = queue \cup {rc.dc} /\ EndPass
        /\ UNCHANGED <<secret, sts, pod, claim, tainted, roles, health, noticed,
                       unmapped, unpatched, edits, events>>
    BY DEF RemoveFinalizer, Retry, Enqueue, world, results, history, bounds
  <1>2. rc.dc \in Datacenters
    BY <1>1 DEF Typed
  <1>3. /\ nodeToDc' \in [Nodes -> SUBSET Datacenters]
        /\ \A n \in Nodes : nodeToDc'[n] = nodeToDc[n] \ {rc.dc}
    BY <1>1 DEF RemoveDcFromNodeToDcMap, Typed
  <1>4. dc \in [Datacenters -> DcRecords]
    BY DEF Typed
  <1>5. CASE UNCHANGED dc
    <2>1. Typed'
      BY <1>1, <1>2, <1>3, <1>5, PassEnds DEF Typed
    <2> QED
      BY <1>1, <1>3, <1>5, <2>1, PassEnds, FrameInv
  <1>6. CASE dc' = [dc EXCEPT ![rc.dc].state = "gone", ![rc.dc].finalizer = FALSE]
    <2>1. /\ dc' \in [Datacenters -> DcRecords]
          /\ dc'[rc.dc].state = "gone" /\ ~dc'[rc.dc].finalizer
          /\ \A d \in Datacenters : d # rc.dc => dc'[d] = dc[d]
      BY <1>2, <1>4, <1>6, ZenonT(60) DEF DcRecords
    <2>2. Typed'
      BY <1>1, <1>2, <1>3, <2>1, PassEnds DEF Typed
    <2>3. FinalizerInv'
      BY <1>0, <1>1, <1>3, <2>1 DEF FinalizerInv, Exists, Unmapped, Unwatched
    <2>4. StepsInv'
      BY <1>1, PassEnds DEF StepsInv
    <2>5. NothingLeft'
      BY <1>0, <1>1, <1>3, <2>1, SMT DEF NothingLeft, StepsInv, Unwatched
    <2> QED
      BY <2>2, <2>3, <2>4, <2>5 DEF Inv
  <1> QED
    BY <1>5, <1>6 DEF RemoveFinalizer

LEMMA AddFinalizerInv ==
    ASSUME Typed, Inv, AddFinalizer
    PROVE  Typed' /\ Inv'
  <1>0. FinalizerInv /\ StepsInv /\ NothingLeft
    BY DEF Inv
  <1>1. /\ pc = "finalizer"
        /\ UNCHANGED <<secret, sts, pod, claim, tainted, roles, health, noticed, nodeToDc,
                       unmapped, unpatched, edits, events>>
    BY DEF AddFinalizer, world, results, history, bounds
  <1>2. rc.dc \in Datacenters /\ dc \in [Datacenters -> DcRecords]
    BY <1>1 DEF Typed
  <1>3. CASE UNCHANGED dc /\ Retry
    <2>1. queue' = queue \cup {rc.dc} /\ EndPass
      BY <1>3 DEF Retry, Enqueue
    <2>2. Typed'
      BY <1>1, <1>2, <1>3, <2>1, PassEnds DEF Typed
    <2> QED
      BY <1>1, <1>3, <2>1, <2>2, PassEnds, FrameInv
  <1>4. CASE /\ dc[rc.dc].finalizer \/ rc.fresh
             /\ dc' = [dc EXCEPT ![rc.dc].finalizer = TRUE]
             /\ pc' = "secret" /\ UNCHANGED <<rc, queue>>
    <2>1. /\ dc' \in [Datacenters -> DcRecords]
          /\ dc'[rc.dc].state = dc[rc.dc].state /\ dc'[rc.dc].finalizer
          /\ \A d \in Datacenters : d # rc.dc => dc'[d] = dc[d]
      <3>1. dc' = [dc EXCEPT ![rc.dc].finalizer = TRUE]
        BY <1>4
      <3> QED
        BY <1>2, <3>1 DEF DcRecords
    <2>2. Exists(rc.dc)
      BY <1>0, <1>1, <1>2, <1>4 DEF StepsInv, FinalizerInv, Exists
    <2>3. Typed'
      BY <1>1, <1>2, <1>4, <2>1 DEF Typed, PassSteps
    <2>4. FinalizerInv'
      <3>1. /\ Exists(rc.dc)' /\ \A d \in Datacenters : d # rc.dc => (Exists(d)' <=> Exists(d))
        BY <1>4, <2>1, <2>2 DEF Exists
      <3>2. \A d \in Datacenters : (Unmapped(d)' <=> Unmapped(d)) /\ (Unwatched(d)' <=> Unwatched(d))
        BY <1>1 DEF Unmapped, Unwatched
      <3> QED
        BY <1>0, <1>1, <1>4, <2>1, <3>1, <3>2 DEF FinalizerInv
    <2>5. StepsInv'
      BY <1>4, <2>1 DEF StepsInv
    <2>6. NothingLeft'
      BY <1>0, <1>1, <2>1 DEF NothingLeft
    <2> QED
      BY <2>3, <2>4, <2>5, <2>6 DEF Inv
  <1> QED
    BY <1>3, <1>4 DEF AddFinalizer

LEMMA SuperuserSecret ==
    ASSUME Typed
    PROVE  /\ WithSuperuserSecret \in [Secrets -> SecretRecords]
           /\ \A s \in Secrets :
                 /\ WithSuperuserSecret[s].watchers = secret[s].watchers
                 /\ WithSuperuserSecret[s].labelled = secret[s].labelled
                 /\ secret[s].exists => WithSuperuserSecret[s].exists
  <1>1. secret \in [Secrets -> SecretRecords]
    BY DEF Typed
  <1>2. CASE secret[Generated].exists
    BY <1>1, <1>2 DEF WithSuperuserSecret
  <1>3. CASE ~secret[Generated].exists
    BY <1>1, <1>3, Constants DEF WithSuperuserSecret, SecretRecords
  <1> QED
    BY <1>2, <1>3

LEMMA CheckSuperuserSecretCreationInv ==
    ASSUME Typed, Inv, CheckSuperuserSecretCreation
    PROVE  Typed' /\ Inv'
  <1>1. /\ pc = "secret" /\ pc' = "racks" /\ rc' \in {rc, Held(rc.dc)}
        /\ secret' = WithSuperuserSecret
        /\ UNCHANGED <<dc, sts, pod, claim, tainted, roles, health, noticed, queue, nodeToDc,
                       unmapped, unpatched, edits, events>>
    BY DEF CheckSuperuserSecretCreation, world, results, history, bounds
  <1>2. rc.dc \in Datacenters
    BY <1>1 DEF Typed
  <1>3. rc' \in RcRecords /\ rc'.dc = rc.dc
    BY <1>1, <1>2, HeldRc DEF Typed
  <1>4. Typed'
    BY <1>1, <1>2, <1>3, SuperuserSecret DEF Typed, PassSteps
  <1> QED
    BY <1>1, <1>3, <1>4, SuperuserSecret, FrameInv DEF LiveSteps

LEMMA ReconcileRacksInv ==
    ASSUME Typed, Inv, ReconcileRacks
    PROVE  Typed' /\ Inv'
  <1>0. FinalizerInv /\ StepsInv /\ NothingLeft
    BY DEF Inv
  <1>1. /\ pc = "racks" /\ pc' = "health" /\ queue' = queue \cup {rc.dc}
        /\ sts' = [sts EXCEPT ![rc.dc] = Replicas]
        /\ pod' = [pod EXCEPT ![rc.dc] = IF rc.stopped THEN NoPod ELSE @]
        /\ UNCHANGED <<dc, secret, claim, tainted, roles, health, noticed, nodeToDc, rc,
                       unmapped, unpatched, edits, events>>
    BY DEF ReconcileRacks, Enqueue, results, history, bounds
  <1>2. rc.dc \in Datacenters /\ dc[rc.dc].finalizer /\ rc.stopped \in BOOLEAN
    BY <1>0, <1>1 DEF Typed, StepsInv, RcRecords
  <1>3. Replicas = IF rc.stopped THEN 0 ELSE 1
    BY DEF Replicas
  <1>4. /\ sts' \in [Datacenters -> -1..1] /\ pod' \in [Datacenters -> PodRecords]
        /\ sts'[rc.dc] = Replicas
        /\ pod'[rc.dc] = IF rc.stopped THEN NoPod ELSE pod[rc.dc]
        /\ \A d \in Datacenters : d # rc.dc => sts'[d] = sts[d] /\ pod'[d] = pod[d]
    BY <1>1, <1>2, <1>3, Blanks, SMT DEF Typed
  <1>5. Typed'
    BY <1>1, <1>2, <1>3, <1>4, ZenonT(60) DEF Typed, PassSteps
  <1>6. FinalizerInv'
    BY <1>0, <1>1, <1>2, <1>4 DEF FinalizerInv, Exists, Unmapped, Unwatched
  <1>7. StepsInv' /\ NothingLeft'
    BY <1>0, <1>1, <1>2 DEF StepsInv, NothingLeft
  <1> QED
    BY <1>5, <1>6, <1>7 DEF Inv

LEMMA RacksInv ==
    ASSUME Typed, Inv, WaitForPod \/ RacksDone
    PROVE  Typed' /\ Inv'
  <1>1. /\ pc = "racks" /\ pc' \in {"health", "watch"} /\ queue' \in {queue, queue \cup {rc.dc}}
        /\ CheckEMM
        /\ UNCHANGED <<dc, secret, sts, pod, claim, tainted, roles, health, nodeToDc, rc,
                       unmapped, unpatched, edits, events>>
    BY DEF WaitForPod, RacksDone, Enqueue, world, history, bounds
  <1>2. rc.dc \in Datacenters
    BY <1>1 DEF Typed
  <1>3. noticed' \subseteq Datacenters
    BY <1>1, <1>2 DEF CheckEMM, Typed
  <1>4. Typed'
    BY <1>1, <1>2, <1>3 DEF Typed, PassSteps
  <1> QED
    BY <1>1, <1>4, FrameInv DEF LiveSteps

LEMMA RestartedInv ==
    ASSUME Typed, Inv, Restarted, events' \in 0..MaxEvents,
           UNCHANGED <<dc, secret, world, results, history, edits>>
    PROVE  Typed' /\ Inv'
  <1>1. /\ queue' \subseteq Datacenters /\ nodeToDc' = [n \in Nodes |-> {}] /\ EndPass
        /\ UNCHANGED <<dc, secret, sts, pod, claim, tainted, roles, health, noticed,
                       unmapped, unpatched, edits>>
    BY DEF Restarted, world, results, history
  <1>2. /\ nodeToDc' \in [Nodes -> SUBSET Datacenters]
        /\ \A n \in Nodes : nodeToDc'[n] = {}
    BY <1>1
  <1>3. Typed'
    BY <1>1, <1>2, PassEnds DEF Typed
  <1> QED
    BY <1>1, <1>2, <1>3, PassEnds, FrameInv

LEMMA UsersAreSecrets ==
    ASSUME Typed
    PROVE  GetUsers(rc.users) \in SUBSET Secrets
  <1>1. rc.users \in SUBSET Secrets
    BY DEF Typed, RcRecords
  <1> QED
    BY <1>1, Constants DEF GetUsers

LEMMA UpdateSecretWatchesInv ==
    ASSUME Typed, Inv, UpdateSecretWatches
    PROVE  Typed' /\ Inv'
  <1>0. FinalizerInv /\ StepsInv /\ NothingLeft
    BY DEF Inv
  <1>1. /\ pc = "watch"
        /\ UNCHANGED <<dc, sts, pod, claim, tainted, roles, health, noticed, unmapped, edits>>
    BY DEF UpdateSecretWatches, world, results
  <1>2. rc.dc \in Datacenters /\ dc[rc.dc].finalizer /\ Exists(rc.dc)
    BY <1>0, <1>1 DEF Typed, StepsInv, FinalizerInv
  <1>3. CASE Restarted /\ UNCHANGED <<secret, unpatched, events>>
    BY <1>1, <1>3, RestartedInv DEF world, results, history, Typed
  <1>4. CASE /\ \A s \in GetUsers(rc.users) : secret[s].exists
             /\ UpdateWatch(GetUsers(rc.users))
             /\ pc' = "upsert" /\ UNCHANGED <<nodeToDc, rc>>
    <2>1. /\ secret' \in [Secrets -> SecretRecords]
          /\ \A s \in Secrets : /\ secret'[s].watchers # {} =>
                                      secret'[s].exists /\ secret'[s].labelled
                                /\ \A d \in Datacenters \ {rc.dc} :
                                      d \in secret'[s].watchers <=> d \in secret[s].watchers
          /\ queue' \subseteq Datacenters /\ unpatched' \subseteq Datacenters
          /\ \A d \in Datacenters \ {rc.dc} : d \in unpatched' <=> d \in unpatched
          /\ events' \in 0..MaxEvents
      BY <1>2, <1>4, UsersAreSecrets, WatchUpdated
    <2>2. Typed'
      BY <1>1, <1>2, <1>4, <2>1 DEF Typed, PassSteps
    <2>3. FinalizerInv'
      BY <1>0, <1>1, <1>2, <1>4, <2>1 DEF FinalizerInv, Exists, Unmapped, Unwatched
    <2>4. StepsInv'
      BY <1>1, <1>2, <1>4 DEF StepsInv
    <2>5. NothingLeft'
      BY <1>0, <1>1, <1>2, <1>4, <2>1 DEF NothingLeft, Exists
    <2> QED
      BY <2>2, <2>3, <2>4, <2>5 DEF Inv
  <1> QED
    BY <1>3, <1>4 DEF UpdateSecretWatches

LEMMA CreateUsersInv ==
    ASSUME Typed, Inv, CreateUsers
    PROVE  Typed' /\ Inv'
  <1>1. /\ pc = "upsert" /\ secret' = WithSuperuserSecret
        /\ UNCHANGED <<dc, sts, pod, claim, tainted, health, noticed, nodeToDc,
                       unmapped, unpatched, edits, events>>
    BY DEF CreateUsers, world, history, bounds
  <1>2. rc.dc \in Datacenters
    BY <1>1 DEF Typed
  <1>3. PICK done \in SUBSET GetUsers(rc.users) :
           /\ roles' = [roles EXCEPT ![rc.dc] = @ \cup done]
           /\ \/ pc' = "health" /\ UNCHANGED <<rc, queue>>
              \/ Retry
    BY DEF CreateUsers
  <1>4. roles' \in [Datacenters -> SUBSET Secrets]
    BY <1>2, <1>3, UsersAreSecrets DEF Typed
  <1>5. /\ queue' \in {queue, queue \cup {rc.dc}} /\ rc' \in RcRecords
        /\ \/ pc' = "idle"
           \/ pc' = "health" /\ rc' = rc
    BY <1>3, PassEnds DEF Retry, Enqueue, Typed
  <1>6. Typed'
    BY <1>1, <1>2, <1>4, <1>5, SuperuserSecret DEF Typed, PassSteps
  <1> QED
    BY <1>1, <1>5, <1>6, SuperuserSecret, FrameInv DEF LiveSteps

LEMMA LastStepsInv ==
    ASSUME Typed, Inv, UpdateHealth \/ Abort
    PROVE  Typed' /\ Inv'
  <1>1. /\ pc # "idle" /\ EndPass /\ queue' \in {queue, queue \cup {rc.dc}}
        /\ health' \in {health, {rc.dc}}
        /\ UNCHANGED <<dc, secret, sts, pod, claim, tainted, roles, noticed, nodeToDc,
                       unmapped, unpatched, edits>>
    BY DEF UpdateHealth, Abort, LoadHealth, Retry, Enqueue, world, results, history, bounds
  <1>2. rc.dc \in Datacenters
    BY <1>1 DEF Typed
  <1>3. events' \in 0..MaxEvents
    BY Counted DEF UpdateHealth, Abort, bounds, Typed
  <1>4. Typed'
    BY <1>1, <1>2, <1>3, PassEnds DEF Typed
  <1> QED
    BY <1>1, <1>4, PassEnds, FrameInv

LEMMA StutterInv ==
    ASSUME Typed, Inv, UNCHANGED vars
    PROVE  Typed' /\ Inv'
  <1>1. UNCHANGED <<dc, secret, sts, pod, claim, tainted, roles, health, noticed, queue, nodeToDc,
                    pc, rc, unmapped, unpatched, edits, events>>
    BY DEF vars, world, results, memory, history, bounds
  <1>2. Typed'
    BY <1>1 DEF Typed
  <1> QED
    BY <1>1, <1>2, FrameInv

LEMMA StepInv ==
    ASSUME Typed, Inv, [Next]_vars
    PROVE  Typed' /\ Inv'
  <1>1. CASE Pass
    BY <1>1, RemoveWatcherInv, DeletePVCsInv, RemoveFinalizerInv, AddFinalizerInv,
       CheckSuperuserSecretCreationInv, ReconcileRacksInv, RacksInv, UpdateSecretWatchesInv,
       CreateUsersInv, LastStepsInv DEF Pass, ProcessDeletion, ReconcileAllRacks
  <1>2. CASE Abort
    BY <1>2, LastStepsInv
  <1>3. CASE Restart
    <2>1. events' \in 0..MaxEvents
      BY <1>3, Counted DEF Restart
    <2> QED
      BY <1>3, <2>1, RestartedInv DEF Restart
  <1>4. CASE \E s \in Secrets : EditsSecret(s) \/ RestoreSecret(s)
    BY <1>4, EditsSecretInv
  <1>5. CASE \E n \in Nodes : NodeTainted(n)
    BY <1>5, NodeTaintedInv
  <1>6. CASE \E d \in Datacenters :
                Request(d) \/ User(d) \/ ComesUp(d) \/ PodEvicted(d) \/ Collected(d)
    BY <1>6, BeginPassInv, ForgetRequestInv, CreateDatacenterInv, DeleteDatacenterInv,
       EditDatacenterInv, PodScheduledInv, PodChangesInv, CollectedInv
       DEF Request, User, ComesUp
  <1>7. CASE UNCHANGED vars
    BY <1>7, StutterInv
  <1> QED
    BY <1>1, <1>2, <1>3, <1>4, <1>5, <1>6, <1>7 DEF Next

LEMMA Invariance == Spec => [](Typed /\ Inv)
  <1>1. Typed /\ Inv /\ [Next]_vars => (Typed /\ Inv)'
    BY StepInv
  <1> QED
    BY <1>1, InitInv, PTL DEF Spec

(* The objects and the operator's maps keep their types, a pod belongs to a *)
(* StatefulSet with a replica, and only secrets that exist are watched.     *)
THEOREM TypeCorrect == Spec => []TypeOK
  BY Invariance, TypedIsTypeOK, PTL

(* ProcessDeletion, whatever fails, is edited or is restarted: a datacenter *)
(* that is gone left neither claims it had while it lived, nor an entry in  *)
(* nodeToDc, nor, if the patches succeeded, a watch on a secret.            *)
THEOREM DeletionLeavesNothing == Spec => []NothingLeft
  <1>1. Inv => NothingLeft
    BY DEF Inv
  <1> QED
    BY <1>1, Invariance, PTL

-----------------------------------------------------------------------------
(* updateWatcherNames: only the pass over a datacenter takes its name off a *)
(* secret, and not off one that the datacenter still uses, unless the user  *)
(* edits the secret.                                                        *)
THEOREM WatchersAlwaysKept == Spec => WatchersKept
  <1> DEFINE Kept ==
        \A s \in Secrets, d \in Datacenters :
            d \in secret[s].watchers \ secret'[s].watchers /\ edits' = edits =>
                rc.dc = d /\ (pc = "watch" => s \notin GetUsers(rc.users))
  <1>1. ASSUME Typed, Inv, Next PROVE Kept
    <2> USE <1>1
    <2>1. ASSUME \A s \in Secrets : secret[s].watchers \subseteq secret'[s].watchers
          PROVE  Kept
      BY <2>1
    <2>2. CASE UNCHANGED secret
      BY <2>1, <2>2
    <2>3. CASE RemoveWatcher
      <3>1. pc = "unwatch" /\ rc.dc \in Datacenters /\ UpdateWatch({})
        BY <2>3 DEF RemoveWatcher, Typed
      <3>2. \A s \in Secrets : \A d \in Datacenters \ {rc.dc} :
               d \in secret'[s].watchers <=> d \in secret[s].watchers
        BY <3>1, WatchUpdated
      <3> QED
        BY <3>1, <3>2
    <2>4. CASE UpdateSecretWatches
      <3>1. pc = "watch" /\ rc.dc \in Datacenters
        BY <2>4 DEF UpdateSecretWatches, Typed
      <3>2. CASE /\ \A s \in GetUsers(rc.users) : secret[s].exists
                 /\ UpdateWatch(GetUsers(rc.users))
        <4>1. \A s \in Secrets : /\ \A d \in Datacenters \ {rc.dc} :
                                       d \in secret'[s].watchers <=> d \in secret[s].watchers
                                 /\ rc.dc \in secret[s].watchers /\ s \in GetUsers(rc.users) =>
                                       rc.dc \in secret'[s].watchers
          BY <3>1, <3>2, UsersAreSecrets, WatchUpdated
        <4> QED
          BY <4>1
      <3> QED
        BY <2>2, <2>4, <3>2 DEF UpdateSecretWatches
    <2>5. CASE CheckSuperuserSecretCreation \/ CreateUsers
      <3>1. secret' = WithSuperuserSecret
        BY <2>5 DEF CheckSuperuserSecretCreation, CreateUsers
      <3>2. \A s \in Secrets : secret'[s].watchers = secret[s].watchers
        BY <3>1, SuperuserSecret
      <3> QED
        BY <2>1, <3>2
    <2>6. CASE \E s \in Secrets : EditsSecret(s)
      <3>1. edits' # edits
        <4>1. Edit
          BY <2>6 DEF EditsSecret, EditSecret, DeleteSecret, ReplaceSecret
        <4> QED
          BY <4>1, SMT DEF Edit, Typed
      <3> QED
        BY <3>1
    <2>7. ASSUME NEW s \in Secrets, RestoreSecret(s) PROVE Kept
      <3>1. secret[s].watchers = {} /\ secret \in [Secrets -> SecretRecords]
        BY <2>7 DEF RestoreSecret, Typed
      <3>2. \A t \in Secrets : t # s => secret'[t] = secret[t]
        BY <2>7, <3>1 DEF RestoreSecret, ChangeSecret
      <3> QED
        BY <2>1, <3>1, <3>2
    <2>8. CASE \/ DeletePVCs \/ RemoveFinalizer \/ AddFinalizer \/ ReconcileRacks \/ WaitForPod
               \/ RacksDone \/ UpdateHealth \/ Abort \/ Restart
      BY <2>2, <2>8 DEF DeletePVCs, RemoveFinalizer, AddFinalizer, ReconcileRacks, WaitForPod,
                        RacksDone, UpdateHealth, Abort, Restart
    <2>9. CASE \E n \in Nodes : NodeTainted(n)
      BY <2>2, <2>9 DEF NodeTainted
    <2>10. CASE \E d \in Datacenters :
                   Request(d) \/ User(d) \/ ComesUp(d) \/ PodEvicted(d) \/ Collected(d)
      BY <2>2, <2>10 DEF Request, BeginPass, ForgetRequest, User, CreateDatacenter,
                         DeleteDatacenter, EditDatacenter, ComesUp, PodScheduled, PodReady,
                         PodEvicted, Collected
    <2> HIDE DEF Kept
    <2> QED
      BY <2>3, <2>4, <2>5, <2>6, <2>7, <2>8, <2>9, <2>10
         DEF Next, Pass, ProcessDeletion, ReconcileAllRacks
  <1>2. Typed /\ Inv /\ [Next]_vars => [Kept]_vars
    BY <1>1
  <1> QED
    BY <1>2, Invariance, PTL DEF Spec, WatchersKept

=============================================================================
