---------------------------- MODULE OperatorLoop ----------------------------
(***************************************************************************)
(* The controller around the reconciliation: the watches turn events into  *)
(* requests, a single worker takes a request and makes a pass over that    *)
(* datacenter.  This module has the parts of a pass that involve more than *)
(* the datacenter's own nodes: the finalizer and ProcessDeletion, the map  *)
(* from Kubernetes nodes to datacenters, the secrets that hold the users   *)
(* and the annotations with which datacenters watch them, and the health   *)
(* document that all datacenters share.                                    *)
(*                                                                         *)
(* A datacenter has one pod with one claim.  The superuser secret that the *)
(* operator generates is named after the cluster, so the datacenters of a  *)
(* cluster share it.                                                       *)
(***************************************************************************)
EXTENDS Integers, FiniteSets

CONSTANTS
    Datacenters,
    Running,     \* the datacenters that are up to begin with
    Secrets,     \* that hold the users
    Generated,   \* the default superuser secret of the cluster
    Nodes,       \* Kubernetes nodes
    MaxEdits,    \* of secrets and datacenters by the user
    MaxEvents,   \* evictions, taints, failed calls and restarts
    MaxChanges   \* edits and events together

ASSUME ConstantsAssumption ==
    /\ Running \subseteq Datacenters /\ Generated \in Secrets
    /\ {MaxEdits, MaxEvents, MaxChanges} \subseteq Nat
    /\ "none" \notin Nodes

VARIABLES
    dc,        \* the CassandraDatacenters
    secret,    \* the secrets
    sts,       \* replicas of each datacenter's StatefulSet, -1 without one
    pod,       \* [node, ready] of the datacenter's pod
    claim,     \* the claim with the datacenter's label
    tainted,   \* the nodes with a taint
    roles,     \* the secrets whose content the datacenter's database has
    health,    \* the datacenters with an entry in the health document
    noticed,   \* the datacenters whose last EMM check saw the taint
    queue,     \* the controller's work queue
    nodeToDc,  \* the datacenters known to have pods on each node
    pc,        \* the next step of the running pass, or "idle"
    rc,        \* its datacenter as the pass holds it
    unmapped,  \* the datacenters whose pod could not be listed for nodeToDc
    unpatched, \* and those whose watches were not all patched the last time
    edits, events

world   == <<sts, pod, claim, tainted>>
results == <<roles, health, noticed>>
memory  == <<queue, nodeToDc, pc, rc>>
bounds  == <<edits, events>>
history == <<unmapped, unpatched>>
vars    == <<dc, secret, world, results, memory, history, bounds>>

NoPod    == [node |-> "none", ready |-> FALSE]
NoSecret == [exists |-> FALSE, watchers |-> {}, labelled |-> FALSE]
NoRc     == [dc |-> "none", users |-> {}, stopped |-> FALSE, fresh |-> FALSE]
NoDc     == [state |-> "none", finalizer |-> FALSE, users |-> {}, stopped |-> FALSE]

NewDc == [NoDc EXCEPT !.state = "live", !.users = Secrets \ {Generated}]

Up(d, up, notUp) == IF d \in Running THEN up ELSE notUp

Init ==
    /\ dc = [d \in Datacenters |-> Up(d, [NewDc EXCEPT !.finalizer = TRUE], NoDc)]
    /\ secret = [s \in Secrets |-> [exists   |-> Running # {} \/ s # Generated,
                                    watchers |-> Running,
                                    labelled |-> Running # {}]]
    /\ sts = [d \in Datacenters |-> Up(d, 1, -1)]
    /\ claim = [d \in Datacenters |-> Up(d, "made", "none")]
    /\ \E n \in Nodes :
          /\ pod = [d \in Datacenters |-> Up(d, [node |-> n, ready |-> TRUE], NoPod)]
          /\ nodeToDc = [m \in Nodes |-> IF m = n THEN Running ELSE {}]
    /\ tainted = {} /\ health = {} /\ noticed = {}
    /\ roles = [d \in Datacenters |-> Up(d, Secrets, {})]
    /\ queue = {} /\ pc = "idle" /\ rc = NoRc
    /\ unmapped = {} /\ unpatched = {}
    /\ edits = 0 /\ events = 0

MayChange == edits + events < MaxChanges

Event == MayChange /\ events < MaxEvents /\ events' = events + 1
Edit  == MayChange /\ edits < MaxEdits /\ edits' = edits + 1

Exists(d) == dc[d].state \in {"live", "deleting"}

-----------------------------------------------------------------------------
(* The watches.  An event on a watched object asks for a pass over each     *)
(* datacenter it is mapped to.                                              *)

Enqueue(D) == queue' = queue \cup D

(* Secrets are mapped, before and after a change, by their annotation.      *)
FindWatchers(old, new) ==
    UNION {old[s].watchers \cup new[s].watchers : s \in {t \in Secrets : old[t] # new[t]}}

(* Nodes are mapped by the operator's own map when their taints change.     *)
DatacentersForNode(n) == nodeToDc[n]

-----------------------------------------------------------------------------
(* The user.  A change of the datacenter makes what a pass holds stale.     *)

Stale(d) == rc' = IF rc.dc = d THEN [rc EXCEPT !.fresh = FALSE] ELSE rc

CreateDatacenter(d) ==
    /\ dc[d].state = "none"
    /\ dc' = [dc EXCEPT ![d] = NewDc]
    /\ Enqueue({d})
    /\ UNCHANGED <<secret, world, results, nodeToDc, pc, rc, history, bounds>>

EditDatacenter(d, users, stopped) ==
    /\ Edit
    /\ Exists(d) /\ <<users, stopped>> # <<dc[d].users, dc[d].stopped>>
    /\ dc' = [dc EXCEPT ![d].users = users, ![d].stopped = stopped]
    /\ Enqueue({d}) /\ Stale(d)
    /\ UNCHANGED <<secret, world, results, nodeToDc, pc, history, events>>

(* Without a finalizer the object goes at once.                             *)
DeleteDatacenter(d) ==
    /\ Edit /\ dc[d].state = "live"
    /\ dc' = [dc EXCEPT ![d].state = IF dc[d].finalizer THEN "deleting" ELSE "gone"]
    /\ Enqueue({d}) /\ Stale(d)
    /\ UNCHANGED <<secret, world, results, nodeToDc, pc, history, events>>

(* New content is content that no database has.                             *)
ChangeSecret(s, new) ==
    /\ secret' = [secret EXCEPT ![s] = new]
    /\ roles' = [d \in Datacenters |-> roles[d] \ {s}]
    /\ Enqueue(secret[s].watchers \cup new.watchers)
    /\ UNCHANGED <<dc, world, health, noticed, nodeToDc, pc, rc, history, events>>

EditSecret(s) ==
    /\ Edit /\ secret[s].exists
    /\ ChangeSecret(s, secret[s])

(* The secret is replaced by a manifest that has no annotations, or the     *)
(* annotation is garbled: it then counts as naming nobody.                  *)
ReplaceSecret(s, labelled) ==
    /\ Edit /\ secret[s].watchers # {}
    /\ ChangeSecret(s, [secret[s] EXCEPT !.watchers = {}, !.labelled = labelled])

DeleteSecret(s) ==
    /\ Edit /\ secret[s].exists
    /\ ChangeSecret(s, NoSecret)

(* A user who deleted their secret may put it back.                         *)
RestoreSecret(s) ==
    /\ ~secret[s].exists /\ s # Generated
    /\ ChangeSecret(s, [NoSecret EXCEPT !.exists = TRUE])
    /\ UNCHANGED edits

-----------------------------------------------------------------------------
(* Kubernetes.                                                              *)

operator == <<nodeToDc, pc, rc>>

(* The StatefulSet controller creates the claim and the pod.                *)
PodScheduled(d, n) ==
    /\ sts[d] = 1 /\ pod[d] = NoPod /\ n \notin tainted
    /\ pod' = [pod EXCEPT ![d].node = n]
    /\ claim' = [claim EXCEPT ![d] = IF @ # "none" THEN @
                                     ELSE IF dc[d].state = "live" THEN "made" ELSE "late"]
    /\ UNCHANGED <<dc, secret, sts, tainted, results, memory, history, bounds>>

(* The status of the StatefulSet changes, which the operator watches.       *)
PodReady(d) ==
    /\ pod[d].node # "none" /\ ~pod[d].ready
    /\ pod' = [pod EXCEPT ![d].ready = TRUE]
    /\ Enqueue(IF Exists(d) THEN {d} ELSE {})
    /\ UNCHANGED <<dc, secret, sts, claim, tainted, results, operator, history, bounds>>

PodEvicted(d) ==
    /\ Event /\ pod[d].ready
    /\ pod' = [pod EXCEPT ![d] = NoPod]
    /\ noticed' = noticed \ {d}
    /\ Enqueue(IF Exists(d) THEN {d} ELSE {})
    /\ UNCHANGED <<dc, secret, sts, claim, tainted, roles, health, operator, history, edits>>

NodeTainted(n) ==
    /\ Event /\ n \notin tainted
    /\ tainted' = tainted \cup {n}
    /\ Enqueue(DatacentersForNode(n))
    /\ UNCHANGED <<dc, secret, sts, pod, claim, results, operator, history, edits>>

(* What a datacenter that is gone owned is garbage.                         *)
Collected(d) ==
    /\ dc[d].state = "gone" /\ sts[d] # -1
    /\ sts' = [sts EXCEPT ![d] = -1]
    /\ pod' = [pod EXCEPT ![d] = NoPod]
    /\ UNCHANGED <<dc, secret, claim, tainted, results, memory, history, bounds>>

-----------------------------------------------------------------------------
(* The pass.                                                                *)

EndPass == pc' = "idle" /\ rc' = NoRc

\* Mutant: an error is the end of the request.
GiveUp == EndPass /\ UNCHANGED queue

(* An error puts the request back into the queue.                           *)
Retry == EndPass /\ Enqueue({rc.dc})

\* Mutant: a datacenter that is not found is an error.
RetryNotFound(d) ==
    /\ pc = "idle" /\ d \in queue /\ ~Exists(d)
    /\ UNCHANGED vars

(* A datacenter that no longer exists needs nothing.                        *)
ForgetRequest(d) ==
    /\ pc = "idle" /\ d \in queue /\ ~Exists(d)
    /\ queue' = queue \ {d}
    /\ UNCHANGED <<dc, secret, world, results, nodeToDc, pc, rc, history, bounds>>

(* isValid: the secrets of the users exist; the superuser's is generated.   *)
GetUsers(users) == users \cup {Generated}

Valid(d) == \A s \in dc[d].users : secret[s].exists

\* Mutant: a node that is known already is not added.
FirstDatacenterOnly(d) ==
    [n \in Nodes |-> nodeToDc[n] \cup IF pod[d].node = n /\ nodeToDc[n] = {}
                                        THEN {d} ELSE {}]

(* updateDcMaps adds the nodes of the datacenter's pods.                    *)
UpdateDcMaps(d) ==
    [n \in Nodes |-> nodeToDc[n] \cup IF pod[d].node = n THEN {d} ELSE {}]

Held(d) == [dc |-> d, users |-> dc[d].users, stopped |-> dc[d].stopped, fresh |-> TRUE]

(* Requests for an invalid datacenter, or one in a quiet period, wait.  The *)
(* pass goes on if the pods cannot be listed.                               *)
BeginPass(d) ==
    /\ pc = "idle" /\ d \in queue /\ Exists(d) /\ Valid(d)
    /\ queue' = queue \ {d}
    /\ rc' = Held(d)
    /\ pc' = IF dc[d].state = "deleting" THEN "unwatch" ELSE "finalizer"
    /\ \/ /\ Event /\ UNCHANGED nodeToDc /\ unmapped' = unmapped \cup {d}
       \/ /\ nodeToDc' = UpdateDcMaps(d) /\ UNCHANGED events
          /\ unmapped' = unmapped \ {d}
    /\ UNCHANGED <<dc, secret, world, results, unpatched, edits>>

(* updateWatcherNames.                                                      *)
SetWatchers(s, watchers) ==
    [secret[s] EXCEPT !.watchers = watchers, !.labelled = watchers # {}]

\* Mutants: the annotation is written anew; a labelled secret is taken to be
\* watched already.
WatchedAlone(d, names) ==
    [s \in Secrets |-> IF s \in names THEN SetWatchers(s, {d}) ELSE
        IF secret[s].labelled THEN SetWatchers(s, secret[s].watchers \ {d}) ELSE secret[s]]

WatchedUnlessLabelled(d, names) ==
    [s \in Secrets |->
        IF s \in names /\ ~secret[s].labelled THEN SetWatchers(s, {d})
        ELSE IF s \notin names /\ secret[s].labelled
               THEN SetWatchers(s, secret[s].watchers \ {d})
        ELSE secret[s]]

(* UpdateWatch: the watcher is removed from the labelled secrets it does    *)
(* not name and added to those it names.                                    *)
Watched(d, names) ==
    [s \in Secrets |->
        IF s \in names THEN SetWatchers(s, secret[s].watchers \cup {d})
        ELSE IF secret[s].labelled THEN SetWatchers(s, secret[s].watchers \ {d})
        ELSE secret[s]]

(* The secrets are patched one by one; a failed patch does not stop the     *)
(* others.                                                                  *)
UpdateWatch(names) ==
    LET new == Watched(rc.dc, names)
    IN  /\ \/ /\ Event
              /\ \E left \in SUBSET {s \in Secrets : new[s] # secret[s]} :
                    /\ left # {}
                    /\ secret' = [s \in Secrets |-> IF s \in left THEN secret[s] ELSE new[s]]
              /\ unpatched' = unpatched \cup {rc.dc}
           \/ /\ secret' = new /\ UNCHANGED events
              /\ unpatched' = unpatched \ {rc.dc}
        /\ Enqueue(FindWatchers(secret, secret'))

-----------------------------------------------------------------------------
(* ProcessDeletion.                                                         *)

(* An error is logged only.                                                 *)
RemoveWatcher ==
    /\ pc = "unwatch" /\ pc' = "claims"
    /\ UpdateWatch({})
    /\ UNCHANGED <<dc, world, results, nodeToDc, rc, unmapped, edits>>

\* Mutant: failures do not end the pass.
DeletePVCsBestEffort ==
    /\ pc = "claims" /\ pc' = "release"
    /\ \/ claim' = [claim EXCEPT ![rc.dc] = "none"] /\ UNCHANGED events
       \/ Event /\ UNCHANGED claim
    /\ UNCHANGED <<dc, secret, sts, pod, tainted, results, queue, nodeToDc, rc,
                   history, edits>>

(* The claims are listed by label and deleted.  An error ends the pass:     *)
(* Abort.                                                                   *)
DeletePVCs ==
    /\ pc = "claims" /\ pc' = "release"
    /\ claim' = [claim EXCEPT ![rc.dc] = "none"]
    /\ UNCHANGED <<dc, secret, sts, pod, tainted, results, queue, nodeToDc, rc,
                   history, bounds>>

RemoveDcFromNodeToDcMap(d) == [n \in Nodes |-> nodeToDc[n] \ {d}]

(* The update that clears the finalizers fails if the datacenter changed.   *)
(* The deletion that follows it is an event on the datacenter, too.         *)
RemoveFinalizer ==
    /\ pc = "release"
    /\ nodeToDc' = RemoveDcFromNodeToDcMap(rc.dc)
    /\ IF rc.fresh
         THEN dc' = [dc EXCEPT ![rc.dc].state = "gone", ![rc.dc].finalizer = FALSE]
         ELSE UNCHANGED dc
    /\ Retry
    /\ UNCHANGED <<secret, world, results, history, bounds>>

-----------------------------------------------------------------------------
(* The pass over a datacenter that stays.                                   *)

AddFinalizer ==
    /\ pc = "finalizer"
    /\ IF dc[rc.dc].finalizer \/ rc.fresh
         THEN /\ dc' = [dc EXCEPT ![rc.dc].finalizer = TRUE]
              /\ pc' = "secret" /\ UNCHANGED <<rc, queue>>
         ELSE UNCHANGED dc /\ Retry
    /\ UNCHANGED <<secret, world, results, nodeToDc, history, bounds>>

(* retrieveSuperuserSecretOrCreateDefault.                                  *)
WithSuperuserSecret ==
    IF secret[Generated].exists THEN secret
    ELSE [secret EXCEPT ![Generated].exists = TRUE]

(* The status may be patched before, which reads the datacenter again.      *)
CheckSuperuserSecretCreation ==
    /\ pc = "secret" /\ pc' = "racks"
    /\ rc' \in {rc, Held(rc.dc)}
    /\ secret' = WithSuperuserSecret
    /\ UNCHANGED <<dc, world, results, queue, nodeToDc, history, bounds>>

(* The racks: the StatefulSet exists and has its replicas; changing it is   *)
(* an event of its own.  CheckEMM looks at the taints of the pods' nodes.   *)
Replicas == IF rc.stopped THEN 0 ELSE 1

CheckEMM ==
    noticed' = (noticed \ {rc.dc}) \cup IF pod[rc.dc].node \in tainted THEN {rc.dc} ELSE {}

ReconcileRacks ==
    /\ pc = "racks" /\ sts[rc.dc] # Replicas
    /\ sts' = [sts EXCEPT ![rc.dc] = Replicas]
    /\ pod' = [pod EXCEPT ![rc.dc] = IF rc.stopped THEN NoPod ELSE @]
    /\ Enqueue({rc.dc}) /\ pc' = "health"
    /\ UNCHANGED <<dc, secret, claim, tainted, results, nodeToDc, rc, history, bounds>>

WaitForPod ==
    /\ pc = "racks" /\ sts[rc.dc] = Replicas /\ ~rc.stopped /\ ~pod[rc.dc].ready
    /\ CheckEMM
    /\ Enqueue({rc.dc}) /\ pc' = "health"
    /\ UNCHANGED <<dc, secret, world, roles, health, nodeToDc, rc, history, bounds>>

(* CreateUsers does nothing for a datacenter that is stopped.               *)
RacksDone ==
    /\ pc = "racks" /\ sts[rc.dc] = Replicas /\ (rc.stopped \/ pod[rc.dc].ready)
    /\ CheckEMM
    /\ pc' = IF rc.stopped THEN "health" ELSE "watch"
    /\ UNCHANGED <<dc, secret, world, roles, health, queue, nodeToDc, rc, history, bounds>>

(* A restart: the queue is filled with the datacenters there are.           *)
Restarted ==
    /\ queue' = {d \in Datacenters : Exists(d)}
    /\ nodeToDc' = [n \in Nodes |-> {}]
    /\ EndPass

(* Watching a secret that does not exist is a nil dereference.              *)
UpdateSecretWatches ==
    /\ pc = "watch"
    /\ IF \A s \in GetUsers(rc.users) : secret[s].exists
         THEN /\ UpdateWatch(GetUsers(rc.users))
              /\ pc' = "upsert" /\ UNCHANGED <<nodeToDc, rc>>
         ELSE Restarted /\ UNCHANGED <<secret, unpatched, events>>
    /\ UNCHANGED <<dc, world, results, unmapped, edits>>

(* CreateUsers: each user's secret is read and its content given to the     *)
(* database; a secret that is missing ends the pass.                        *)
CreateUsers ==
    /\ pc = "upsert"
    /\ secret' = WithSuperuserSecret
    /\ LET missing == {s \in GetUsers(rc.users) : ~secret'[s].exists}
       IN  \E done \in SUBSET (GetUsers(rc.users) \ missing) :
              /\ roles' = [roles EXCEPT ![rc.dc] = @ \cup done]
              /\ IF missing = {}
                   THEN /\ done = GetUsers(rc.users)
                        /\ pc' = "health" /\ UNCHANGED <<rc, queue>>
                   ELSE Retry
    /\ UNCHANGED <<dc, world, health, noticed, nodeToDc, history, bounds>>

(* The health document is loaded from BinaryData, where it is never saved,  *)
(* so it is written with one entry.                                         *)
LoadHealth == {}

UpdateHealth ==
    /\ pc = "health"
    /\ health' = LoadHealth \cup {rc.dc}
    /\ EndPass
    /\ UNCHANGED <<dc, secret, world, roles, noticed, queue, nodeToDc, history, bounds>>

Abort ==
    /\ pc # "idle" /\ Event /\ Retry
    /\ UNCHANGED <<dc, secret, world, results, nodeToDc, history, edits>>

Restart ==
    /\ Event /\ Restarted
    /\ UNCHANGED <<dc, secret, world, results, history, edits>>

ProcessDeletion == RemoveWatcher \/ DeletePVCs \/ RemoveFinalizer

ReconcileAllRacks ==
    \/ CheckSuperuserSecretCreation \/ ReconcileRacks \/ WaitForPod \/ RacksDone
    \/ UpdateSecretWatches \/ CreateUsers \/ UpdateHealth

Pass == ProcessDeletion \/ AddFinalizer \/ ReconcileAllRacks

Request(d) == BeginPass(d) \/ ForgetRequest(d)

User(d) ==
    \/ CreateDatacenter(d) \/ DeleteDatacenter(d)
    \/ \E users \in SUBSET (Secrets \ {Generated}), stopped \in BOOLEAN :
          EditDatacenter(d, users, stopped)

EditsSecret(s) ==
    \/ EditSecret(s) \/ DeleteSecret(s)
    \/ \E labelled \in BOOLEAN : ReplaceSecret(s, labelled)

ComesUp(d) ==
    \/ \E n \in Nodes : PodScheduled(d, n)
    \/ PodReady(d)

Next ==
    \/ Pass \/ Abort \/ Restart
    \/ \E s \in Secrets : EditsSecret(s) \/ RestoreSecret(s)
    \/ \E n \in Nodes : NodeTainted(n)
    \/ \E d \in Datacenters :
          Request(d) \/ User(d) \/ ComesUp(d) \/ PodEvicted(d) \/ Collected(d)

Spec == Init /\ [][Next]_vars

(* The work queue is fair, a pass goes on and Kubernetes runs the pods.     *)
(* Nobody has to put back a secret that was deleted.                        *)
Fairness ==
    /\ WF_vars(Pass)
    /\ \A d \in Datacenters : SF_vars(Request(d)) /\ WF_vars(ComesUp(d))

FairSpec == Spec /\ Fairness

-----------------------------------------------------------------------------
DcRecords == [state : {"none", "live", "deleting", "gone"}, finalizer : BOOLEAN,
              users : SUBSET (Secrets \ {Generated}), stopped : BOOLEAN]
SecretRecords == [exists : BOOLEAN, watchers : SUBSET Datacenters, labelled : BOOLEAN]

(* Types, and: a pod belongs to a StatefulSet with a replica, and only      *)
(* secrets that exist and carry the label are watched.                      *)
TypeOK ==
    /\ dc \in [Datacenters -> DcRecords]
    /\ secret \in [Secrets -> SecretRecords]
    /\ sts \in [Datacenters -> -1..1]
    /\ pod \in [Datacenters -> [node : Nodes \cup {"none"}, ready : BOOLEAN]]
    /\ claim \in [Datacenters -> {"none", "made", "late"}]
    /\ tainted \subseteq Nodes /\ health \subseteq Datacenters
    /\ roles \in [Datacenters -> SUBSET Secrets] /\ noticed \subseteq Datacenters
    /\ queue \subseteq Datacenters /\ nodeToDc \in [Nodes -> SUBSET Datacenters]
    /\ pc \in {"idle", "unwatch", "claims", "release", "finalizer", "secret",
               "racks", "watch", "upsert", "health"}
    /\ unmapped \cup unpatched \subseteq Datacenters
    /\ edits \in 0..MaxEdits /\ events \in 0..MaxEvents
    /\ \A d \in Datacenters : pod[d] # NoPod => sts[d] = 1
    /\ \A s \in Secrets : secret[s].watchers # {} => secret[s].exists /\ secret[s].labelled

(* ProcessDeletion: a datacenter goes only after the claims it had are      *)
(* deleted, whatever failed or was edited meanwhile, and neither nodeToDc   *)
(* nor, if the patches succeeded, an annotation still names it.             *)
NothingLeft ==
    \A d \in Datacenters : dc[d].state = "gone" =>
        /\ claim[d] # "made"
        /\ \A n \in Nodes : d \notin nodeToDc[n]
        /\ d \notin unpatched => \A s \in Secrets : d \notin secret[s].watchers

(* UpdateWatch: the operator stops watching a secret only for the           *)
(* datacenter of the pass, and only if that no longer names the secret.     *)
WatchersKept ==
    [][\A s \in Secrets, d \in Datacenters :
          d \in secret[s].watchers \ secret'[s].watchers /\ edits' = edits =>
              rc.dc = d /\ (pc = "watch" => s \notin GetUsers(rc.users))]_vars

(* isValid is asked before all else: as long as a secret that the users     *)
(* name is missing, no pass does anything for the datacenter.  The next     *)
(* four except such a datacenter by name.                                   *)

(* CreateUsers and the secret watch: the database ends up with what the     *)
(* users' secrets say, however the secrets are edited, replaced, deleted or *)
(* put back, unless patching an annotation failed or a secret is missing.   *)
UsersFollowSecrets ==
    <>[](\A d \in Datacenters :
            dc[d].state = "live" /\ ~dc[d].stopped /\ d \notin unpatched /\ Valid(d) =>
                GetUsers(dc[d].users) \subseteq roles[d])

(* nodeToDc and the node watch: a taint of the node that runs a pod is seen *)
(* by a pass, across restarts, unless the pods could not be listed or a     *)
(* secret is missing.                                                       *)
TaintsNoticed ==
    <>[](\A d \in Datacenters :
            dc[d].state = "live" /\ pod[d].ready /\ d \notin unmapped /\ Valid(d)
               /\ pod[d].node \in tainted => d \in noticed)

(* ProcessDeletion: a datacenter that is deleted goes, whatever fails,      *)
(* unless a secret is missing.                                              *)
DeletionFinishes ==
    <>[](\A d \in Datacenters : dc[d].state = "deleting" => ~Valid(d))

(* The same without that exception, which does not hold: a datacenter that  *)
(* is deleted together with the secret of one of its users stays for ever,  *)
(* with its finalizer.                                                      *)
DeletedGoes == <>[](\A d \in Datacenters : dc[d].state # "deleting")

(* Reconcile: the passes come to an end, what they change does not queue    *)
(* passes for ever, as long as the pods can be scheduled; the request of a  *)
(* datacenter with a missing secret stays.                                  *)
Quiesces ==
    \/ <>[](pc = "idle" /\ \A d \in queue : Exists(d) /\ ~Valid(d))
    \/ <>[](tainted = Nodes)

(* "Keep in mind that this config map is shared between _all_ the           *)
(* CassandraDatacenter instances": an update of the health document leaves  *)
(* the entries of the other datacenters in it.                              *)
HealthShared == [][health \subseteq health']_vars

=============================================================================
