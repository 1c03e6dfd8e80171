------------------------ MODULE ManagedObjects_proofs ------------------------
(***************************************************************************)
(* What holds of the datacenter's other objects and of its configuration   *)
(* when no pass is asked for, for any sets of settings and any number of   *)
(* edits, failed calls, restarts and lost pods.                            *)
(*                                                                         *)
(* The argument: whatever changes a thing that a pass has looked at asks   *)
(* for another pass, or is in lost or torn.  So if none is asked for, what *)
(* the running pass has looked at is as the specification says now.        *)
(***************************************************************************)
EXTENDS ManagedObjects, SequenceTheorems, TLAPS

(* A step that names no prover is checked by Zenon.                         *)
USE Zenon

Contents   == Seq(Int)
ObjRecords == [exists : BOOLEAN, content : Contents, extra : BOOLEAN, user : BOOLEAN,
               hash : {<<>>} \cup (Contents \X BOOLEAN)]
CopyRecords == [exists : BOOLEAN, config : Contents, version : Nat]
PodRecords  == [hash : Int, config : Contents]

Stages == {"services", "endpoints", "policies"}
Steps  == {"begin", "keystore", "config", "copy", "rack", "budget", "template", "podlabels",
           "ready"}

(* TypeOK, and the types of the objects and of what a pass holds.           *)
TypedCluster ==
    /\ spec \in Specs /\ config \in 0..1 /\ named \in BOOLEAN
    /\ bare \subseteq {"config", "datacenter"}
    /\ (named => "config" \notin bare) /\ (dcHash # -1 => "datacenter" \notin bare)
    /\ obj \in [Objects -> ObjRecords] /\ \A o \in Objects : ~obj[o].exists => obj[o] = NoObject
    /\ ca \in BOOLEAN /\ keystore \in BOOLEAN /\ (keystore => ca)
    /\ labelled \subseteq Resources
    /\ progress \in {"none", "Updating", "Ready"} /\ queue \in BOOLEAN
    /\ lost \subseteq Objects \cup Resources \cup {"config"}
    /\ torn \subseteq {"copy", "keystore"}
    /\ edits \in 0..MaxEdits /\ events \in 0..MaxEvents

TypedRollout ==
    /\ copy \in CopyRecords /\ pod \in PodRecords /\ dcHash \in Int /\ template \in Int
    /\ {dcHash, template, pod.hash} \subseteq -1..copy.version

TypedPass ==
    /\ pc \in Stages \cup Steps \cup {"idle"} /\ (pc = "keystore" => ca)
    /\ rc \in Specs \cup {NoSpec} /\ built \in Specs \cup {NoSpec}
    /\ todo \in Seq(Objects) /\ missing \in Seq(Objects)
    /\ got \in ObjRecords /\ made \in Contents

Typed == TypedCluster /\ TypedRollout /\ TypedPass

(* The hash of an object is that of its content; the node port service has  *)
(* none.                                                                    *)
Hashed(q) == \E e \in BOOLEAN : q.hash = <<q.content, e>> /\ (e => q.extra)

Marked(o, q) ==
    q.exists => /\ o = "nodeport" => q.hash = <<>>
                /\ o # "nodeport" => Hashed(q)

MarkInv == \A o \in Objects : Marked(o, obj[o])

(* The lists of a pass: every object is in one of them at most once, and    *)
(* those to be created do not exist.                                        *)
Elems(s)    == {s[i] : i \in 1..Len(s)}
Distinct(s) == \A i, j \in 1..Len(s) : s[i] = s[j] => i = j

ListsInv ==
    /\ pc # "idle" => rc \in Specs
    /\ pc \in Stages => built \in Specs
    /\ pc \notin Stages => todo = <<>> /\ missing = <<>> /\ got = NoObject
    /\ got # NoObject => todo # <<>>
    /\ Distinct(todo) /\ Distinct(missing) /\ Elems(todo) \cap Elems(missing) = {}
    /\ \A o \in Elems(missing) : ~obj[o].exists

(* The objects that the pass has looked at.                                 *)
Pending == Elems(todo) \cup Elems(missing)

Checked ==
    CASE pc = "begin"     -> {}
      [] pc = "services"  -> Services \ Pending
      [] pc = "endpoints" -> Services \cup ({"endpoints"} \ Pending)
      [] pc = "policies"  -> Services \cup {"endpoints"} \cup ({"policy"} \ Pending)
      [] pc \in {"keystore", "config", "copy", "rack", "budget"} -> Objects \ {"budget"}
      [] OTHER -> Objects

AfterConfig == {"rack", "budget", "template", "podlabels", "ready", "idle"}
AfterLabels == {"budget", "template", "podlabels", "ready", "idle"}

ObjectsInv ==
    ~queue =>
        /\ pc # "idle" => rc = spec
        /\ pc \in Stages => built = spec
        /\ \A o \in (Wanted \cap Checked) \ lost : UpToDate(o)
        /\ pc \in AfterLabels => "sts" \in labelled
        /\ pc \in {"ready", "idle"} => {"pod", "pvc"} \ lost \subseteq labelled
        /\ pc = "idle" => progress = "Ready"

ConfigInv ==
    ~queue /\ "config" \notin lost =>
        /\ pc \in AfterConfig \cup {"copy"} => named
        /\ pc = "copy" => made = ConfigAsJSON(spec)
        /\ pc \in AfterConfig => copy.exists /\ copy.config = ConfigAsJSON(spec)
        /\ pc \in AfterLabels => pod.hash = template
        /\ pc \in {"podlabels", "ready", "idle"} => template = dcHash

(* The hash is one behind the copy, but between the two writes.             *)
HashInv ==
    "copy" \notin torn =>
        /\ copy.exists <=> copy.version > 0
        /\ dcHash = IF pc = "copy" THEN copy.version ELSE copy.version - 1
        /\ template < copy.version /\ pod.hash < copy.version
        /\ pod.hash = copy.version - 1 /\ copy.exists => pod.config = copy.config

Inv == Typed /\ MarkInv /\ ListsInv /\ ObjectsInv /\ ConfigInv /\ HashInv
-----------------------------------------------------------------------------
LEMMA Constants ==
    /\ NodePorts \subseteq Nat /\ Workloads \subseteq Nat /\ SeedLists \subseteq Nat
    /\ Sizes \subseteq Nat /\ 0 \in NodePorts /\ 0 \in Workloads
    /\ MaxEdits \in Nat /\ MaxEvents \in Nat
  BY ConstantsAssumption

LEMMA SpecFields ==
    ASSUME NEW s \in Specs
    PROVE  /\ s.nodePort \in Int /\ s.workloads \in Int /\ s.seeds \in Int /\ s.size \in Int
           /\ s.extra \in BOOLEAN
  <1>1. /\ s.nodePort \in NodePorts /\ s.workloads \in Workloads /\ s.seeds \in SeedLists
        /\ s.size \in Sizes /\ s.extra \in BOOLEAN
    BY DEF Specs
  <1>2. \A S \in {NodePorts, Workloads, SeedLists, Sizes} : \A x \in S : x \in Int
    BY Constants, SMT
  <1> QED
    BY <1>1, <1>2

LEMMA NoObjectIs ==
    /\ NoObject \in ObjRecords /\ ~NoObject.exists /\ ~NoObject.user /\ ~NoObject.extra
  BY SMT DEF NoObject, ObjRecords, Contents

(* An object as it is built.                                                *)
LEMMA WithIs ==
    ASSUME NEW c \in Contents
    PROVE  /\ With(c) \in ObjRecords /\ With(c).exists /\ With(c).content = c
           /\ ~With(c).extra /\ ~With(c).user /\ With(c).hash = <<>>
  BY DEF With, MakeGenericHeadlessService, NoObject, ObjRecords, Contents

LEMMA OptionsAre ==
    ASSUME NEW q \in ObjRecords, NEW s, s.extra \in BOOLEAN, NEW d,
           d = AddAdditionalOptions(q, s)
    PROVE  /\ d \in ObjRecords /\ d.exists = q.exists /\ d.content = q.content
           /\ d.extra = s.extra /\ d.user = q.user /\ d.hash = q.hash
  BY DEF AddAdditionalOptions, ObjRecords

LEMMA HashIs ==
    ASSUME NEW q \in ObjRecords, NEW d, d = AddHashAnnotation(q)
    PROVE  /\ d \in ObjRecords /\ d.exists = q.exists /\ d.content = q.content
           /\ d.extra = q.extra /\ d.user = q.user /\ d.hash = <<d.content, d.extra>>
  BY DEF AddHashAnnotation, ObjRecords

LEMMA Lists ==
    ASSUME NEW a \in Int, NEW b \in Int
    PROVE  <<>> \in Contents /\ <<a>> \in Contents /\ <<a, b>> \in Contents
  BY SMT DEF Contents

(* The object that is wanted: with the hash of its content, but for the     *)
(* node port service.                                                       *)
LEMMA DesiredIs ==
    ASSUME NEW o \in Objects, NEW s \in Specs, NEW d, d = Desired(o, s)
    PROVE  /\ d \in ObjRecords /\ d.exists /\ ~d.user
           /\ o # "nodeport" => d.hash = <<d.content, d.extra>>
           /\ o = "nodeport" => d.hash = <<>> /\ d.extra = s.extra
  <1> USE SpecFields
  <1>1. /\ <<>> \in Contents /\ <<s.nodePort, s.workloads>> \in Contents
        /\ <<s.nodePort>> \in Contents /\ <<s.seeds>> \in Contents
        /\ <<s.size - 1>> \in Contents
    <2>1. s.size - 1 \in Int
      BY SMT
    <2> QED
      BY <2>1, Lists
  <1>2. CASE o = "seed"
    BY <1>1, <1>2, WithIs, OptionsAre, HashIs, SMT DEF Desired, NewSeedService
  <1>3. CASE o = "cql"
    BY <1>1, <1>3, WithIs, OptionsAre, HashIs, SMT DEF Desired, NewService
  <1>4. CASE o = "all"
    BY <1>1, <1>4, WithIs, OptionsAre, HashIs, SMT DEF Desired, NewAllPodsService
  <1>5. CASE o = "nodeport"
    BY <1>1, <1>5, WithIs, OptionsAre, SMT DEF Desired, NewNodePortService
  <1>6. CASE o = "additional"
    BY <1>1, <1>6, WithIs, OptionsAre, HashIs, SMT DEF Desired, NewAdditionalSeedService
  <1>7. CASE o = "endpoints"
    BY <1>1, <1>7, WithIs, HashIs, SMT DEF Desired, NewEndpoints
  <1>8. CASE o = "policy"
    BY <1>1, <1>8, WithIs, HashIs, SMT DEF Desired, NewNetworkPolicy
  <1>9. CASE o = "budget"
    BY <1>1, <1>9, WithIs, HashIs, SMT DEF Desired, NewPodDisruptionBudget
  <1> QED
    BY <1>2, <1>3, <1>4, <1>5, <1>6, <1>7, <1>8, <1>9 DEF Objects, Services

(* UpToDate, of any object and specification.                               *)
Current(o, s, q) ==
    /\ q.exists
    /\ o # "nodeport" \/ ~s.extra => /\ q.content = Desired(o, s).content
                                     /\ Desired(o, s).extra => q.extra

LEMMA UpToDateIsCurrent ==
    ASSUME NEW o \in Objects
    PROVE  UpToDate(o) <=> Current(o, spec, obj[o])
  BY DEF UpToDate, Tracked, Current

LEMMA DesiredIsCurrent ==
    ASSUME NEW o \in Objects, NEW s \in Specs
    PROVE  Marked(o, Desired(o, s)) /\ Current(o, s, Desired(o, s))
  <1> DEFINE d == Desired(o, s)
  <1>1. /\ d \in ObjRecords /\ d.exists
        /\ o # "nodeport" => d.hash = <<d.content, d.extra>>
        /\ o = "nodeport" => d.hash = <<>>
    BY DesiredIs
  <1> HIDE DEF d
  <1>2. d.extra \in BOOLEAN
    BY <1>1 DEF ObjRecords
  <1>3. Marked(o, d)
    BY <1>1, <1>2 DEF Marked, Hashed
  <1>4. Current(o, s, d)
    BY <1>1 DEF Current, d
  <1> QED
    BY <1>3, <1>4 DEF d

(* An object that is left as it is since its hash is the same.              *)
LEMMA SameHashIsCurrent ==
    ASSUME NEW o \in Objects, NEW s \in Specs, NEW q \in ObjRecords, q.exists, Marked(o, q),
           ResourcesHaveSameHash(q, Desired(o, s))
    PROVE  Current(o, s, q)
  <1> DEFINE d == Desired(o, s)
  <1>1. /\ d \in ObjRecords /\ ~d.user
        /\ o # "nodeport" => d.hash = <<d.content, d.extra>>
        /\ o = "nodeport" => d.hash = <<>> /\ d.extra = s.extra
    BY DesiredIs
  <1>2. HasAnnotations(d) /\ q.hash = d.hash
    BY DEF ResourcesHaveSameHash
  <1>3. Current(o, s, q) <=>
           (o # "nodeport" \/ ~s.extra => q.content = d.content /\ (d.extra => q.extra))
    BY DEF Current
  <1> HIDE DEF d
  <1>4. CASE o = "nodeport"
    <2>1. d.extra
      BY <1>1, <1>2, <1>4 DEF HasAnnotations
    <2> QED
      BY <1>1, <1>3, <1>4, <2>1
  <1>5. CASE o # "nodeport"
    <2>1. PICK e \in BOOLEAN : q.hash = <<q.content, e>> /\ (e => q.extra)
      BY <1>5 DEF Marked, Hashed
    <2>2. <<q.content, e>> = <<d.content, d.extra>>
      BY <1>1, <1>2, <1>5, <2>1
    <2>3. q.content = d.content /\ e = d.extra
      BY <2>2
    <2> QED
      BY <1>3, <2>1, <2>3
  <1> QED
    BY <1>4, <1>5

(* An object that is updated.                                               *)
LEMMA MergedIs ==
    ASSUME NEW o \in Objects, NEW s \in Specs, NEW q \in ObjRecords, q.exists, Marked(o, q),
           NEW m, m = Merged(q, Desired(o, s))
    PROVE  m \in ObjRecords /\ m.exists /\ Marked(o, m) /\ Current(o, s, m) /\ m.user = q.user
  <1> DEFINE d == Desired(o, s)
             e == d.extra \/ q.extra
             h == IF d.hash = <<>> THEN q.hash ELSE d.hash
  <1>1. /\ d \in ObjRecords /\ d.exists
        /\ o # "nodeport" => d.hash = <<d.content, d.extra>>
        /\ o = "nodeport" => d.hash = <<>>
    BY DesiredIs
  <1>2. m = [d EXCEPT !.extra = e, !.user = q.user, !.hash = h]
    BY DEF Merged
  <1>3. Current(o, s, m) <=>
           m.exists /\ (o # "nodeport" \/ ~s.extra => m.content = d.content /\ (d.extra => m.extra))
    BY DEF Current
  <1> HIDE DEF d
  <1>4. e \in BOOLEAN /\ q.user \in BOOLEAN
    BY <1>1 DEF ObjRecords
  <1>5. h \in {<<>>} \cup (Contents \X BOOLEAN)
    BY <1>1 DEF ObjRecords
  <1> HIDE DEF e, h
  <1>6. /\ m \in ObjRecords /\ m.exists = d.exists /\ m.content = d.content
        /\ m.extra = e /\ m.user = q.user /\ m.hash = h
    BY <1>1, <1>2, <1>4, <1>5 DEF ObjRecords
  <1>7. Marked(o, m)
    <2>1. CASE o = "nodeport"
      BY <1>1, <1>6, <2>1 DEF Marked, h
    <2>2. CASE o # "nodeport"
      <3>1. <<d.content, d.extra>> # <<>>
        OBVIOUS
      <3>2. h = <<m.content, d.extra>>
        BY <1>1, <1>6, <2>2, <3>1 DEF h
      <3>3. d.extra \in BOOLEAN /\ (d.extra => m.extra)
        BY <1>1, <1>6 DEF ObjRecords, e
      <3> QED
        BY <1>6, <2>2, <3>2, <3>3 DEF Marked, Hashed
    <2> QED
      BY <2>1, <2>2
  <1>8. d.extra => m.extra
    BY <1>6 DEF e
  <1> QED
    BY <1>1, <1>3, <1>6, <1>7, <1>8
-----------------------------------------------------------------------------
(* The lists of a pass.                                                     *)
LEMMA EmptyList ==
    Elems(<<>>) = {} /\ Distinct(<<>>) /\ <<>> \in Seq(Objects) /\ <<>> \in Contents
  BY SMT DEF Elems, Distinct, Contents

LEMMA FirstTaken ==
    ASSUME NEW s \in Seq(Objects), s # <<>>, Distinct(s)
    PROVE  /\ Head(s) \in Objects /\ Tail(s) \in Seq(Objects) /\ Distinct(Tail(s))
           /\ Elems(s) = {Head(s)} \cup Elems(Tail(s)) /\ Head(s) \notin Elems(Tail(s))
  <1>1. Len(s) \in Nat \ {0} /\ Head(s) = s[1] /\ Head(s) \in Objects
    BY SMT
  <1>2. /\ Tail(s) \in Seq(Objects) /\ Len(Tail(s)) = Len(s) - 1
        /\ \A i \in 1..(Len(s) - 1) : Tail(s)[i] = s[i + 1]
    BY <1>1, SMT
  <1>3. Distinct(Tail(s))
    BY <1>1, <1>2, SMT DEF Distinct
  <1>4. Head(s) \notin Elems(Tail(s))
    BY <1>1, <1>2, SMT DEF Distinct, Elems
  <1>5. \A x \in Elems(s) : x = Head(s) \/ x \in Elems(Tail(s))
    <2> SUFFICES ASSUME NEW i \in 1..Len(s), s[i] # s[1]
                 PROVE  s[i] \in Elems(Tail(s))
      BY <1>1 DEF Elems
    <2>1. i - 1 \in 1..(Len(s) - 1) /\ s[i] = Tail(s)[i - 1]
      BY <1>1, <1>2, SMT
    <2> QED
      BY <1>2, <2>1 DEF Elems
  <1>6. \A x \in Elems(Tail(s)) : x \in Elems(s)
    <2> SUFFICES ASSUME NEW i \in 1..(Len(s) - 1)
                 PROVE  s[i + 1] \in Elems(s)
      BY <1>2, SMT DEF Elems
    <2>1. i + 1 \in 1..Len(s)
      BY <1>1, SMT
    <2> QED
      BY <2>1 DEF Elems
  <1>7. Head(s) \in Elems(s)
    BY <1>1, SMT DEF Elems
  <1> QED
    BY <1>1, <1>2, <1>3, <1>4, <1>5, <1>6, <1>7

LEMMA Appended ==
    ASSUME NEW s \in Seq(Objects), Distinct(s), NEW o \in Objects, o \notin Elems(s)
    PROVE  /\ Append(s, o) \in Seq(Objects) /\ Distinct(Append(s, o))
           /\ Elems(Append(s, o)) = Elems(s) \cup {o}
  <1>1. /\ Append(s, o) \in Seq(Objects) /\ Len(Append(s, o)) = Len(s) + 1 /\ Len(s) \in Nat
        /\ \A i \in 1..Len(s) : Append(s, o)[i] = s[i]
        /\ Append(s, o)[Len(s) + 1] = o
    BY SMT
  <1>2. \A i \in 1..Len(s) : s[i] # o
    BY DEF Elems
  <1>3. Distinct(Append(s, o))
    BY <1>1, <1>2, SMT DEF Distinct
  <1>4. Elems(Append(s, o)) = Elems(s) \cup {o}
    <2>1. 1..(Len(s) + 1) = (1..Len(s)) \cup {Len(s) + 1}
      BY <1>1, SMT
    <2> QED
      BY <1>1, <2>1, SMT DEF Elems
  <1> QED
    BY <1>1, <1>3, <1>4

LEMMA OneListed ==
    ASSUME NEW o \in Objects
    PROVE  <<o>> \in Seq(Objects) /\ Distinct(<<o>>) /\ Elems(<<o>>) = {o}
  BY SMT DEF Distinct, Elems

LEMMA OptionListed ==
    ASSUME NEW s \in Seq(Objects), Distinct(s), NEW o \in Objects, o \notin Elems(s),
           NEW b \in BOOLEAN
    PROVE  /\ s \o If(b, <<o>>) \in Seq(Objects) /\ Distinct(s \o If(b, <<o>>))
           /\ Elems(s \o If(b, <<o>>)) = Elems(s) \cup (IF b THEN {o} ELSE {})
  <1>1. s \o <<>> = s /\ s \o <<o>> = Append(s, o)
    BY ConcatEmptySeq, AppendIsConcat
  <1> QED
    BY <1>1, Appended DEF If

LEMMA ServicesListed ==
    ASSUME NEW s \in Specs
    PROVE  /\ ServicesOf(s) \in Seq(Objects) /\ Distinct(ServicesOf(s))
           /\ Elems(ServicesOf(s)) = {"cql", "seed", "all"}
                  \cup (IF s.seeds # 0 THEN {"additional"} ELSE {})
                  \cup (IF s.nodePort # 0 THEN {"nodeport"} ELSE {})
  <1> DEFINE a == <<"cql", "seed", "all">>
             b == a \o If(s.seeds # 0, <<"additional">>)
  <1>1. a \in Seq(Objects) /\ Distinct(a) /\ Elems(a) = {"cql", "seed", "all"}
    BY SMT DEF Distinct, Elems, Objects, Services
  <1>2. {"additional", "nodeport"} \subseteq Objects
    BY DEF Objects, Services
  <1> HIDE DEF a
  <1>3. /\ b \in Seq(Objects) /\ Distinct(b)
        /\ Elems(b) = Elems(a) \cup (IF s.seeds # 0 THEN {"additional"} ELSE {})
    BY <1>1, <1>2, OptionListed
  <1> HIDE DEF b
  <1>4. ServicesOf(s) = b \o If(s.nodePort # 0, <<"nodeport">>)
    BY DEF ServicesOf, a, b
  <1>5. "nodeport" \notin Elems(b)
    BY <1>1, <1>3
  <1> DEFINE c == b \o If(s.nodePort # 0, <<"nodeport">>)
  <1>6. /\ c \in Seq(Objects) /\ Distinct(c)
        /\ Elems(c) = Elems(b) \cup (IF s.nodePort # 0 THEN {"nodeport"} ELSE {})
    BY <1>2, <1>3, <1>5, OptionListed
  <1> HIDE DEF c
  <1>7. ServicesOf(s) = c
    BY <1>4 DEF c
  <1> QED
    BY <1>1, <1>3, <1>6, <1>7
-----------------------------------------------------------------------------
LEMMA InitInv == Init => Inv
  <1> SUFFICES ASSUME Init PROVE Inv
    OBVIOUS
  <1> USE Constants
  <1>1. spec \in Specs /\ rc = NoSpec /\ built = NoSpec /\ pc = "idle" /\ queue = TRUE
    BY DEF Init
  <1>2. \A o \in Objects : obj[o] = NoObject
    BY DEF Init
  <1>3. TypedCluster
    <2>1. obj \in [Objects -> ObjRecords]
      BY NoObjectIs DEF Init
    <2>2. edits \in 0..MaxEdits /\ events \in 0..MaxEvents /\ config \in 0..1
      BY SMT DEF Init
    <2> QED
      BY <1>1, <1>2, <2>1, <2>2 DEF Init, TypedCluster
  <1>4. /\ copy \in CopyRecords /\ copy.version = 0 /\ ~copy.exists
        /\ pod \in PodRecords /\ pod.hash = -1 /\ dcHash = -1 /\ template = -1
    <2>1. copy = [exists |-> FALSE, config |-> <<>>, version |-> 0] /\ <<>> \in Contents
      BY EmptyList DEF Init
    <2>2. pod = [hash |-> -1, config |-> <<>>]
      BY DEF Init
    <2> QED
      BY <2>1, <2>2, SMT DEF Init, CopyRecords, PodRecords
  <1>5. TypedRollout /\ HashInv
    BY <1>1, <1>4, SMT DEF TypedRollout, HashInv
  <1>6. TypedPass
    BY <1>1, EmptyList, NoObjectIs DEF Init, TypedPass
  <1>7. MarkInv
    BY <1>2, NoObjectIs DEF MarkInv, Marked
  <1>8. ListsInv
    BY <1>1, EmptyList DEF Init, ListsInv, Stages
  <1>9. ObjectsInv /\ ConfigInv
    BY <1>1 DEF ObjectsInv, ConfigInv
  <1> QED
    BY <1>3, <1>5, <1>6, <1>7, <1>8, <1>9 DEF Inv, Typed

LEMMA TypedIsTypeOK == Inv => TypeOK
  <1> SUFFICES ASSUME Inv PROVE TypeOK
    OBVIOUS
  <1>1. /\ spec \in Specs /\ {rc, built} \subseteq Specs \cup {NoSpec}
        /\ config \in 0..1 /\ named \in BOOLEAN /\ bare \subseteq {"config", "datacenter"}
        /\ (named => "config" \notin bare) /\ (dcHash # -1 => "datacenter" \notin bare)
    BY DEF Inv, Typed, TypedCluster, TypedPass
  <1>2. DOMAIN obj = Objects /\ \A o \in Objects : ~obj[o].exists => obj[o] = NoObject
    BY DEF Inv, Typed, TypedCluster
  <1>3. ASSUME NEW o \in Objects
        PROVE  [f \in {"exists", "extra", "user"} |-> obj[o][f]] \in Records
    <2>1. obj[o] \in ObjRecords
      BY DEF Inv, Typed, TypedCluster
    <2>2. /\ obj[o].exists \in BOOLEAN /\ obj[o].extra \in BOOLEAN /\ obj[o].user \in BOOLEAN
      BY <2>1 DEF ObjRecords
    <2>3. [f \in {"exists", "extra", "user"} |-> obj[o][f]]
             = [exists |-> obj[o].exists, extra |-> obj[o].extra, user |-> obj[o].user]
      BY SMT
    <2> QED
      BY <2>2, <2>3 DEF Records
  <1>4. {dcHash, template, pod.hash} \subseteq -1..copy.version
    BY DEF Inv, Typed, TypedRollout
  <1>5. got # NoObject => todo # <<>>
    BY DEF Inv, ListsInv
  <1> QED
    BY <1>1, <1>2, <1>3, <1>4, <1>5 DEF Inv, Typed, TypedCluster, TypeOK
-----------------------------------------------------------------------------
(* What steps have in common.                                               *)

(* With a pass asked for nothing is claimed of what passes have done.       *)
LEMMA Queued ==
    ASSUME queue' = TRUE
    PROVE  ObjectsInv' /\ ConfigInv'
  BY DEF ObjectsInv, ConfigInv

LEMMA PassEnded ==
    ASSUME EndPass
    PROVE  TypedPass' /\ ListsInv'
  <1>1. TypedPass'
    BY EmptyList, NoObjectIs DEF EndPass, TypedPass
  <1>2. ListsInv'
    BY EmptyList DEF EndPass, ListsInv, Stages
  <1> QED
    BY <1>1, <1>2

LEMMA ListsKept ==
    ASSUME TypedPass, ListsInv, UNCHANGED <<ca, pc, rc, built, todo, missing, got, made>>,
           \A o \in Objects : obj'[o].exists => obj[o].exists
    PROVE  TypedPass' /\ ListsInv'
  <1>1. Elems(missing) \subseteq Objects
    BY SMT DEF TypedPass, Elems
  <1>2. TypedPass'
    BY DEF TypedPass
  <1> QED
    BY <1>1, <1>2 DEF ListsInv

LEMMA RolloutKept ==
    ASSUME TypedRollout, HashInv, UNCHANGED <<copy, dcHash, template, pod>>,
           torn \subseteq torn', "copy" \notin torn' => (pc = "copy" <=> pc' = "copy")
    PROVE  TypedRollout' /\ HashInv'
  <1>1. TypedRollout'
    BY DEF TypedRollout
  <1>2. HashInv'
    BY DEF HashInv
  <1> QED
    BY <1>1, <1>2

LEMMA EventIs ==
    ASSUME TypedCluster, Event
    PROVE  events' \in 0..MaxEvents
  BY Constants, SMT DEF TypedCluster, Event

LEMMA EditIs ==
    ASSUME TypedCluster, Edit
    PROVE  edits' \in 0..MaxEdits
  BY Constants, SMT DEF TypedCluster, Edit

LEMMA ConfigList ==
    ASSUME NEW s \in Specs, TypedCluster
    PROVE  ConfigAsJSON(s) \in Contents
  <1>1. s.nodePort \in Int /\ s.workloads \in Int /\ config \in Int
    BY SpecFields, SMT DEF TypedCluster
  <1>2. (IF s.seeds = 0 THEN 0 ELSE 1) \in Int
    BY SMT
  <1> QED
    BY <1>1, <1>2, SMT DEF ConfigAsJSON, Contents

(* What a pass has looked at stays as it was, or is lost, or a pass is      *)
(* asked for.                                                               *)
LEMMA ObjectsKept ==
    ASSUME ObjectsInv, UNCHANGED <<spec, pc, rc, built, todo, missing, progress>>,
           queue => queue', lost \subseteq lost',
           ~queue' => /\ \A o \in Objects \ lost' : UpToDate(o) => UpToDate(o)'
                      /\ "sts" \in labelled => "sts" \in labelled'
                      /\ labelled \ lost' \subseteq labelled'
    PROVE  ObjectsInv'
  <1> SUFFICES ASSUME ~queue'
               PROVE  ObjectsInv'
    BY DEF ObjectsInv
  <1>1. Wanted' = Wanted /\ Checked' = Checked /\ Wanted \subseteq Objects
    BY DEF Wanted, Checked, Pending, Objects, Services
  <1>2. \A o \in (Wanted' \cap Checked') \ lost' : UpToDate(o)'
    BY <1>1 DEF ObjectsInv
  <1>3. /\ pc' # "idle" => rc' = spec'
        /\ pc' \in Stages => built' = spec'
        /\ pc' = "idle" => progress' = "Ready"
    BY DEF ObjectsInv
  <1>4. /\ pc' \in AfterLabels => "sts" \in labelled'
        /\ pc' \in {"ready", "idle"} => {"pod", "pvc"} \ lost' \subseteq labelled'
    BY DEF ObjectsInv
  <1> QED
    BY <1>2, <1>3, <1>4 DEF ObjectsInv

LEMMA ConfigKept ==
    ASSUME ConfigInv, UNCHANGED <<spec, config, named, copy, dcHash, template, pod, pc, made>>,
           queue => queue', lost \subseteq lost'
    PROVE  ConfigInv'
  BY DEF ConfigInv, ConfigAsJSON

LEMMA EditSpecInv ==
    ASSUME Inv, EditSpecField
    PROVE  Inv'
  <1>1. /\ spec' \in Specs /\ Edit /\ queue' = TRUE
        /\ UNCHANGED <<config, bare, secrets, rollout, obj, labelled, progress, pc, rc, stage,
                       history, events>>
    <2>1. spec \in Specs
      BY DEF Inv, Typed, TypedCluster
    <2>2. ASSUME NEW v \in NodePorts, EditSpec("nodePort", v) PROVE spec' \in Specs
      BY <2>1, <2>2 DEF EditSpec, Specs
    <2>3. ASSUME NEW v \in Workloads, EditSpec("workloads", v) PROVE spec' \in Specs
      BY <2>1, <2>3 DEF EditSpec, Specs
    <2>4. ASSUME NEW v \in SeedLists, EditSpec("seeds", v) PROVE spec' \in Specs
      BY <2>1, <2>4 DEF EditSpec, Specs
    <2>5. ASSUME NEW v \in Sizes, EditSpec("size", v) PROVE spec' \in Specs
      BY <2>1, <2>5 DEF EditSpec, Specs
    <2>6. ASSUME NEW v \in BOOLEAN, EditSpec("extra", v) PROVE spec' \in Specs
      BY <2>1, <2>6 DEF EditSpec, Specs
    <2>7. spec' \in Specs
      BY <2>2, <2>3, <2>4, <2>5, <2>6 DEF EditSpecField
    <2>8. \E f, v : EditSpec(f, v)
      BY DEF EditSpecField
    <2> QED
      BY <2>7, <2>8 DEF EditSpec
  <1>2. UNCHANGED <<config, bare, ca, keystore, named, copy, dcHash, template, pod, obj, labelled,
                    progress, pc, rc, built, todo, missing, got, made, lost, torn, events>>
    BY <1>1 DEF secrets, rollout, stage, history
  <1>3. TypedCluster'
    BY <1>1, <1>2, EditIs DEF Inv, Typed, TypedCluster
  <1>4. TypedPass' /\ ListsInv'
    BY <1>2, ListsKept DEF Inv, Typed
  <1>5. TypedRollout' /\ HashInv'
    BY <1>2, RolloutKept DEF Inv, Typed
  <1>6. MarkInv'
    BY <1>2 DEF Inv, MarkInv, Marked, Hashed
  <1> QED
    BY <1>1, <1>3, <1>4, <1>5, <1>6, Queued DEF Inv, Typed

LEMMA EditConfigInv ==
    ASSUME Inv, NEW keeps \in BOOLEAN, EditConfig(keeps)
    PROVE  Inv'
  <1>1. /\ UNCHANGED <<spec, ca, keystore, copy, dcHash, template, pod, obj, labelled,
                       progress, pc, rc, built, todo, missing, got, made, lost, torn, events>>
        /\ config' = 1 - config /\ Edit
        /\ named' = (named /\ keeps) /\ queue' = (queue \/ named)
        /\ \E b \in SUBSET {"config"} :
              bare' = (bare \ {"config"}) \cup b /\ (named' => b = {})
    BY DEF EditConfig, secrets, stage, history
  <1>2. TypedCluster'
    <2>1. config' \in 0..1
      BY <1>1, SMT DEF Inv, Typed, TypedCluster
    <2>2. named' \in BOOLEAN /\ queue' \in BOOLEAN
      BY <1>1 DEF Inv, Typed, TypedCluster
    <2>3. /\ bare' \subseteq {"config", "datacenter"} /\ (named' => "config" \notin bare')
          /\ dcHash' # -1 => "datacenter" \notin bare'
      BY <1>1 DEF Inv, Typed, TypedCluster
    <2> QED
      BY <1>1, <2>1, <2>2, <2>3, EditIs DEF Inv, Typed, TypedCluster
  <1>3. TypedPass' /\ ListsInv'
    BY <1>1, ListsKept DEF Inv, Typed
  <1>4. TypedRollout' /\ HashInv'
    BY <1>1, RolloutKept DEF Inv, Typed
  <1>5. MarkInv'
    BY <1>1 DEF Inv, MarkInv, Marked, Hashed
  <1>6. ObjectsInv'
    <2>1. \A o \in Objects : UpToDate(o) => UpToDate(o)'
      BY <1>1 DEF UpToDate, Tracked
    <2> QED
      BY <1>1, <2>1, ObjectsKept DEF Inv
  <1>7. ConfigInv'
    <2> SUFFICES ASSUME ~queue', "config" \notin lost'
                 PROVE  ConfigInv'
      BY DEF ConfigInv
    <2>1. ~queue /\ ~named /\ "config" \notin lost
      BY <1>1
    <2>2. pc \notin AfterConfig \cup {"copy"}
      BY <2>1 DEF Inv, ConfigInv
    <2> QED
      BY <1>1, <2>2 DEF ConfigInv, AfterConfig, AfterLabels
  <1> QED
    BY <1>2, <1>3, <1>4, <1>5, <1>6, <1>7 DEF Inv, Typed

LEMMA AnnotateDatacenterInv ==
    ASSUME Inv, AnnotateDatacenter
    PROVE  Inv'
  <1>1. /\ UNCHANGED <<spec, config, ca, keystore, named, copy, dcHash, template, pod, obj,
                       labelled, progress, queue, pc, rc, built, todo, missing, got, made,
                       lost, torn, events>>
        /\ Edit /\ bare' = bare \ {"datacenter"}
    BY DEF AnnotateDatacenter, secrets, rollout, stage, history
  <1>2. TypedCluster'
    BY <1>1, EditIs DEF Inv, Typed, TypedCluster
  <1>3. TypedPass' /\ ListsInv'
    BY <1>1, ListsKept DEF Inv, Typed
  <1>4. TypedRollout' /\ HashInv'
    BY <1>1, RolloutKept DEF Inv, Typed
  <1>5. MarkInv'
    BY <1>1 DEF Inv, MarkInv, Marked, Hashed
  <1>6. ObjectsInv'
    BY <1>1, ObjectsKept DEF Inv, UpToDate, Tracked
  <1>7. ConfigInv'
    BY <1>1, ConfigKept DEF Inv
  <1> QED
    BY <1>2, <1>3, <1>4, <1>5, <1>6, <1>7 DEF Inv, Typed

LEMMA LabelObjectInv ==
    ASSUME Inv, NEW o \in Objects, LabelObject(o)
    PROVE  Inv'
  <1>1. /\ UNCHANGED <<spec, config, bare, ca, keystore, named, copy, dcHash, template, pod, labelled,
                       progress, pc, rc, built, todo, missing, got, made, lost, torn, events>>
        /\ Edit /\ obj[o].exists /\ obj' = [obj EXCEPT ![o].user = TRUE]
        /\ queue' = (queue \/ o \in Watched)
    BY DEF LabelObject, user, secrets, rollout, stage, history
  <1> DEFINE q == [obj[o] EXCEPT !.user = TRUE]
  <1>2. obj \in [Objects -> ObjRecords] /\ obj[o] \in ObjRecords
    BY DEF Inv, Typed, TypedCluster
  <1>3. /\ q \in ObjRecords /\ q.exists = obj[o].exists /\ q.content = obj[o].content
        /\ q.extra = obj[o].extra /\ q.hash = obj[o].hash
    BY <1>2 DEF ObjRecords
  <1>4. obj' = [obj EXCEPT ![o] = q]
    BY <1>1, <1>2
  <1> HIDE DEF q
  <1>5. obj'[o] = q /\ \A x \in Objects \ {o} : obj'[x] = obj[x]
    BY <1>2, <1>4
  <1>6. TypedCluster'
    <2>1. obj' \in [Objects -> ObjRecords] /\ \A x \in Objects : ~obj'[x].exists => obj'[x] = NoObject
      BY <1>1, <1>2, <1>3, <1>4, <1>5 DEF Inv, Typed, TypedCluster
    <2>2. queue' \in BOOLEAN
      BY <1>1 DEF Inv, Typed, TypedCluster
    <2> QED
      BY <1>1, <2>1, <2>2, EditIs DEF Inv, Typed, TypedCluster
  <1>7. TypedPass' /\ ListsInv'
    BY <1>1, <1>3, <1>5, ListsKept DEF Inv, Typed
  <1>8. TypedRollout' /\ HashInv'
    BY <1>1, RolloutKept DEF Inv, Typed
  <1>9. MarkInv'
    BY <1>3, <1>5, SMT DEF Inv, MarkInv, Marked, Hashed
  <1>10. ObjectsInv'
    <2>1. \A x \in Objects : UpToDate(x) => UpToDate(x)'
      BY <1>1, <1>3, <1>5 DEF UpToDate, Tracked
    <2> QED
      BY <1>1, <2>1, ObjectsKept DEF Inv
  <1>11. ConfigInv'
    BY <1>1, ConfigKept DEF Inv
  <1> QED
    BY <1>6, <1>7, <1>8, <1>9, <1>10, <1>11 DEF Inv, Typed

LEMMA DeleteObjectInv ==
    ASSUME Inv, NEW o \in Objects, DeleteObject(o)
    PROVE  Inv'
  <1>1. /\ UNCHANGED <<spec, config, bare, ca, keystore, named, copy, dcHash, template, pod, labelled,
                       progress, pc, rc, built, todo, missing, got, made, torn, events>>
        /\ Edit /\ obj' = [obj EXCEPT ![o] = NoObject]
        /\ queue' = (queue \/ o \in Watched) /\ lost' = lost \cup ({o} \ Watched)
    BY DEF DeleteObject, user, secrets, rollout, stage
  <1>2. obj \in [Objects -> ObjRecords]
    BY DEF Inv, Typed, TypedCluster
  <1>3. obj'[o] = NoObject /\ \A x \in Objects \ {o} : obj'[x] = obj[x]
    BY <1>1, <1>2
  <1>4. TypedCluster'
    <2>1. obj' \in [Objects -> ObjRecords] /\ \A x \in Objects : ~obj'[x].exists => obj'[x] = NoObject
      BY <1>1, <1>2, <1>3, NoObjectIs DEF Inv, Typed, TypedCluster
    <2>2. queue' \in BOOLEAN
      BY <1>1 DEF Inv, Typed, TypedCluster
    <2> QED
      BY <1>1, <2>1, <2>2, EditIs DEF Inv, Typed, TypedCluster
  <1>5. TypedPass' /\ ListsInv'
    BY <1>1, <1>3, NoObjectIs, ListsKept DEF Inv, Typed
  <1>6. TypedRollout' /\ HashInv'
    BY <1>1, RolloutKept DEF Inv, Typed
  <1>7. MarkInv'
    BY <1>3, NoObjectIs DEF Inv, MarkInv, Marked, Hashed
  <1>8. ObjectsInv'
    <2>1. ~queue' => \A x \in Objects \ lost' : UpToDate(x) => UpToDate(x)'
      BY <1>1, <1>3 DEF UpToDate, Tracked
    <2> QED
      BY <1>1, <2>1, ObjectsKept DEF Inv
  <1>9. ConfigInv'
    BY <1>1, ConfigKept DEF Inv
  <1> QED
    BY <1>4, <1>5, <1>6, <1>7, <1>8, <1>9 DEF Inv, Typed

LEMMA StripLabelInv ==
    ASSUME Inv, NEW r \in Resources, StripLabel(r)
    PROVE  Inv'
  <1>1. /\ UNCHANGED <<spec, config, bare, ca, keystore, named, copy, dcHash, template, pod, obj,
                       progress, pc, rc, built, todo, missing, got, made, torn, events>>
        /\ Edit /\ labelled' = labelled \ {r}
        /\ queue' = (queue \/ r # "pod") /\ lost' = lost \cup ({r} \cap {"pod"})
    BY DEF StripLabel, user, secrets, rollout, stage
  <1>2. TypedCluster'
    <2>1. queue' \in BOOLEAN
      BY <1>1 DEF Inv, Typed, TypedCluster
    <2> QED
      BY <1>1, <2>1, EditIs DEF Inv, Typed, TypedCluster
  <1>3. TypedPass' /\ ListsInv'
    BY <1>1, ListsKept DEF Inv, Typed
  <1>4. TypedRollout' /\ HashInv'
    BY <1>1, RolloutKept DEF Inv, Typed
  <1>5. MarkInv'
    BY <1>1 DEF Inv, MarkInv, Marked, Hashed
  <1>6. ObjectsInv'
    <2>1. \A x \in Objects : UpToDate(x) => UpToDate(x)'
      BY <1>1 DEF UpToDate, Tracked
    <2>2. ~queue' => r = "pod" /\ "pod" \in lost'
      BY <1>1
    <2> QED
      BY <1>1, <2>1, <2>2, ObjectsKept DEF Inv
  <1>7. ConfigInv'
    BY <1>1, ConfigKept DEF Inv
  <1> QED
    BY <1>2, <1>3, <1>4, <1>5, <1>6, <1>7 DEF Inv, Typed

LEMMA StartPodInv ==
    ASSUME Inv, RollPod \/ RestartPod
    PROVE  Inv'
  <1>1. /\ UNCHANGED <<spec, config, bare, ca, keystore, named, copy, dcHash, template, obj, labelled,
                       progress, pc, rc, built, todo, missing, got, made, lost, torn, edits>>
        /\ queue' = TRUE /\ copy.exists
        /\ pod' = [hash |-> template, config |-> copy.config]
    BY DEF RollPod, RestartPod, StartPod, user, secrets, stage, history
  <1>2. events' \in 0..MaxEvents
    BY EventIs DEF RollPod, RestartPod, Inv, Typed, TypedCluster
  <1>3. TypedCluster'
    BY <1>1, <1>2 DEF Inv, Typed, TypedCluster
  <1>4. TypedPass' /\ ListsInv'
    BY <1>1, ListsKept DEF Inv, Typed
  <1>5. pod' \in PodRecords /\ pod'.hash = template /\ pod'.config = copy.config
    <2>1. template \in Int /\ copy.config \in Contents
      BY DEF Inv, Typed, TypedRollout, CopyRecords
    <2> QED
      BY <1>1, <2>1 DEF PodRecords
  <1>6. TypedRollout'
    BY <1>1, <1>5 DEF Inv, Typed, TypedRollout
  <1>7. HashInv'
    BY <1>1, <1>5 DEF Inv, HashInv
  <1>8. MarkInv'
    BY <1>1 DEF Inv, MarkInv, Marked, Hashed
  <1> QED
    BY <1>1, <1>3, <1>4, <1>6, <1>7, <1>8, Queued DEF Inv, Typed
-----------------------------------------------------------------------------
(* The steps of the pass.                                                   *)

(* The pass ends with an error.                                             *)
LEMMA AbortInv ==
    ASSUME Inv, Abort
    PROVE  Inv'
  <1>1. /\ UNCHANGED <<spec, config, bare, ca, keystore, named, copy, dcHash, template, pod, obj,
                       labelled, progress, lost, edits>>
        /\ EndPass /\ queue' = TRUE /\ torn' = torn \cup ({pc} \cap {"copy", "keystore"})
    BY DEF Abort, Retry, user, secrets, rollout
  <1>2. TypedCluster'
    BY <1>1, EventIs DEF Abort, Inv, Typed, TypedCluster
  <1>3. pc' = "idle"
    BY <1>1 DEF EndPass
  <1>4. TypedRollout' /\ HashInv'
    BY <1>1, <1>3, RolloutKept DEF Inv, Typed
  <1>5. MarkInv'
    BY <1>1 DEF Inv, MarkInv, Marked, Hashed
  <1> QED
    BY <1>1, <1>2, <1>4, <1>5, PassEnded, Queued DEF Inv, Typed

LEMMA BeginPassInv ==
    ASSUME Inv, BeginPass
    PROVE  Inv'
  <1>1. /\ UNCHANGED <<spec, config, bare, ca, keystore, named, copy, dcHash, template, pod, obj,
                       labelled, progress, built, todo, missing, got, made, lost, torn,
                       edits, events>>
        /\ pc = "idle" /\ queue' = FALSE /\ pc' = "begin" /\ rc' = spec
    BY DEF BeginPass, user, secrets, rollout, stage, history, bounds
  <1>2. TypedCluster'
    BY <1>1 DEF Inv, Typed, TypedCluster
  <1>3. TypedPass'
    BY <1>1 DEF Inv, Typed, TypedCluster, TypedPass, Steps
  <1>4. ListsInv'
    BY <1>1 DEF Inv, Typed, TypedCluster, ListsInv, Stages
  <1>5. TypedRollout' /\ HashInv'
    BY <1>1, RolloutKept DEF Inv, Typed
  <1>6. MarkInv'
    BY <1>1 DEF Inv, MarkInv, Marked, Hashed
  <1>7. ObjectsInv'
    BY <1>1 DEF ObjectsInv, Checked, Stages, AfterLabels
  <1>8. ConfigInv'
    BY <1>1 DEF ConfigInv, AfterConfig, AfterLabels
  <1> QED
    BY <1>2, <1>3, <1>4, <1>5, <1>6, <1>7, <1>8 DEF Inv, Typed

LEMMA StartStageInv ==
    ASSUME Inv, NEW next \in Stages, NEW list \in Seq(Objects), Distinct(list),
           pc \in Stages \cup {"begin"}, todo = <<>>, missing = <<>>, StartStage(next, list),
           ~queue => Wanted \cap Checked' \subseteq Checked
    PROVE  Inv'
  <1>1. /\ UNCHANGED <<spec, config, bare, ca, keystore, named, copy, dcHash, template, pod, obj,
                       labelled, progress, queue, rc, missing, got, made, lost, torn,
                       edits, events>>
        /\ pc' = next /\ todo' = list /\ built' = rc
    BY DEF StartStage, user, secrets, rollout, history, bounds
  <1>2. pc # "idle" /\ pc # "copy" /\ next # "idle" /\ next # "copy" /\ next # "keystore"
    BY DEF Stages
  <1>3. rc \in Specs
    BY <1>2 DEF Inv, ListsInv
  <1>4. TypedCluster'
    BY <1>1 DEF Inv, Typed, TypedCluster
  <1>5. TypedPass'
    BY <1>1, <1>2, <1>3 DEF Inv, Typed, TypedPass
  <1>6. ListsInv'
    <2>1. got = NoObject
      BY DEF Inv, ListsInv
    <2>2. Elems(missing') = {} /\ Distinct(missing')
      BY <1>1, EmptyList
    <2> QED
      BY <1>1, <1>3, <2>1, <2>2 DEF ListsInv
  <1>7. TypedRollout' /\ HashInv'
    BY <1>1, <1>2, RolloutKept DEF Inv, Typed
  <1>8. MarkInv'
    BY <1>1 DEF Inv, MarkInv, Marked, Hashed
  <1>9. ObjectsInv'
    <2> SUFFICES ASSUME ~queue'
                 PROVE  ObjectsInv'
      BY DEF ObjectsInv
    <2>1. ~queue /\ rc = spec
      BY <1>1, <1>2 DEF Inv, ObjectsInv
    <2>2. Wanted' = Wanted /\ \A o : UpToDate(o) => UpToDate(o)'
      BY <1>1 DEF Wanted, UpToDate, Tracked
    <2>3. \A o \in (Wanted' \cap Checked') \ lost' : UpToDate(o)'
      BY <1>1, <2>1, <2>2 DEF Inv, ObjectsInv
    <2>4. next \notin AfterLabels
      BY DEF Stages, AfterLabels
    <2> QED
      BY <1>1, <1>2, <2>1, <2>3, <2>4 DEF ObjectsInv, AfterLabels
  <1>10. ConfigInv'
    BY <1>1, <1>2 DEF ConfigInv, AfterConfig, AfterLabels, Stages
  <1> QED
    BY <1>4, <1>5, <1>6, <1>7, <1>8, <1>9, <1>10 DEF Inv, Typed

LEMMA StagesInv ==
    ASSUME Inv,
           CheckHeadlessServices \/ CheckAdditionalSeedEndpoints \/ CheckNetworkPolicies
    PROVE  Inv'
  <1>2. CASE CheckHeadlessServices
    <2>1. pc = "begin" /\ StartStage("services", ServicesOf(rc))
      BY <1>2 DEF CheckHeadlessServices
    <2>2. rc \in Specs /\ todo = <<>> /\ missing = <<>>
      BY <2>1 DEF Inv, ListsInv, Stages
    <2>3. ServicesOf(rc) \in Seq(Objects) /\ Distinct(ServicesOf(rc))
      BY <2>2, ServicesListed
    <2>4. ~queue => Wanted \cap Checked' \subseteq Checked
      <3> SUFFICES ASSUME ~queue, NEW o \in Wanted, o \in Checked'
                   PROVE  FALSE
        OBVIOUS
      <3>1. rc = spec /\ pc' = "services" /\ todo' = ServicesOf(rc)
        BY <2>1 DEF Inv, ObjectsInv, StartStage
      <3>2. o \in Services \ Elems(ServicesOf(spec))
        BY <3>1 DEF Checked, Pending
      <3>3. spec \in Specs
        BY <2>2, <3>1
      <3>4. Wanted \cap Services \subseteq Elems(ServicesOf(spec))
        BY <3>3, ServicesListed DEF Wanted, Services
      <3> QED
        BY <3>2, <3>4
    <2> QED
      BY <2>1, <2>2, <2>3, <2>4, StartStageInv DEF Stages
  <1>3. CASE CheckAdditionalSeedEndpoints
    <2> DEFINE list == If(rc.seeds # 0, <<"endpoints">>)
    <2>1. pc = "services" /\ todo = <<>> /\ missing = <<>> /\ StartStage("endpoints", list)
      BY <1>3 DEF CheckAdditionalSeedEndpoints, StageDone
    <2>2. /\ list \in Seq(Objects) /\ Distinct(list)
          /\ Elems(list) = IF rc.seeds # 0 THEN {"endpoints"} ELSE {}
      BY EmptyList, OneListed DEF If, Objects
    <2> HIDE DEF list
    <2>3. ~queue => Wanted \cap Checked' \subseteq Checked
      <3> SUFFICES ASSUME ~queue, NEW o \in Wanted, o \in Checked'
                   PROVE  o \in Checked
        OBVIOUS
      <3>1. rc = spec /\ pc' = "endpoints" /\ todo' = list
        BY <2>1 DEF Inv, ObjectsInv, StartStage
      <3>2. o \in Services \cup ({"endpoints"} \ Elems(list))
        BY <3>1 DEF Checked, Pending
      <3>3. "endpoints" \in Wanted => spec.seeds # 0
        BY DEF Wanted
      <3>4. o \in Services
        BY <2>2, <3>1, <3>2, <3>3
      <3>5. Pending = {}
        BY <2>1, EmptyList DEF Pending
      <3> QED
        BY <2>1, <3>4, <3>5 DEF Checked
    <2> QED
      BY <2>1, <2>2, <2>3, StartStageInv DEF Stages
  <1>4. CASE CheckNetworkPolicies
    <2>1. pc = "endpoints" /\ todo = <<>> /\ missing = <<>> /\ StartStage("policies", <<"policy">>)
      BY <1>4 DEF CheckNetworkPolicies, StageDone
    <2>2. <<"policy">> \in Seq(Objects) /\ Distinct(<<"policy">>) /\ Elems(<<"policy">>) = {"policy"}
      BY OneListed DEF Objects
    <2>3. ~queue => Wanted \cap Checked' \subseteq Checked
      <3>1. pc' = "policies" /\ todo' = <<"policy">>
        BY <2>1 DEF StartStage
      <3>2. Checked' \subseteq Services \cup {"endpoints"}
        BY <2>2, <3>1 DEF Checked, Pending
      <3>3. Pending = {}
        BY <2>1, EmptyList DEF Pending
      <3> QED
        BY <2>1, <3>2, <3>3 DEF Checked
    <2> QED
      BY <2>1, <2>2, <2>3, StartStageInv DEF Stages
  <1> QED
    BY <1>2, <1>3, <1>4

(* A step within a stage: what was looked at stays as it was, but for one   *)
(* object, which is left as the specification says.                         *)
LEMMA StageStepInv ==
    ASSUME Inv, NEW o \in Objects, pc \in Stages, pc' = pc, TypedCluster', TypedPass',
           MarkInv', ListsInv',
           UNCHANGED <<spec, config, labelled, named, copy, dcHash, template, pod, built, made,
                       torn>>,
           rc' \in {rc, spec}, queue => queue',
           \A x \in Objects \ {o} : obj'[x] = obj[x],
           \/ /\ Current(o, built, obj'[o])
              /\ Pending \subseteq Pending' \cup {o} /\ lost \subseteq lost' \cup {o}
           \/ UNCHANGED <<obj, lost>> /\ Pending' = Pending
    PROVE  Inv'
  <1>1. pc # "idle" /\ pc # "copy" /\ pc \notin AfterConfig /\ pc \notin AfterLabels
    BY DEF Stages, AfterConfig, AfterLabels
  <1>2. TypedRollout' /\ HashInv'
    BY RolloutKept DEF Inv, Typed
  <1>3. ConfigInv'
    BY <1>1 DEF ConfigInv, AfterLabels, AfterConfig
  <1>4. ObjectsInv'
    <2> SUFFICES ASSUME ~queue'
                 PROVE  ObjectsInv'
      BY DEF ObjectsInv
    <2>1. ~queue /\ rc = spec /\ built = spec
      BY <1>1 DEF Inv, ObjectsInv
    <2>2. Wanted' = Wanted /\ Wanted \subseteq Objects
      BY DEF Wanted, Objects, Services
    <2>3. ASSUME NEW x \in Objects, obj'[x] = obj[x], UpToDate(x)
          PROVE  UpToDate(x)'
      BY <2>3 DEF UpToDate, Tracked
    <2>4. \A x \in (Wanted \cap Checked) \ lost : UpToDate(x)
      BY <2>1 DEF Inv, ObjectsInv
    <2>5. ASSUME NEW x \in (Wanted' \cap Checked') \ lost'
          PROVE  UpToDate(x)'
      <3>1. CASE UNCHANGED <<obj, lost>> /\ Pending' = Pending
        <4>1. Checked' = Checked
          BY <3>1 DEF Checked
        <4> QED
          BY <2>2, <2>3, <2>4, <3>1, <4>1
      <3>2. CASE /\ Current(o, built, obj'[o])
                 /\ Pending \subseteq Pending' \cup {o} /\ lost \subseteq lost' \cup {o}
        <4>1. CASE x = o
          <5>1. UpToDate(o)' <=> Current(o, built, obj'[o])
            BY <2>1 DEF UpToDate, Tracked, Current
          <5> QED
            BY <3>2, <4>1, <5>1
        <4>2. CASE x # o
          <5>1. x \in Checked
            BY <3>2, <4>2 DEF Checked, Stages
          <5> QED
            BY <2>2, <2>3, <2>4, <3>2, <4>2, <5>1
        <4> QED
          BY <4>1, <4>2
      <3> QED
        BY <3>1, <3>2
    <2>6. rc' = spec' /\ built' = spec' /\ pc' # "idle" /\ pc' \notin AfterLabels
      BY <1>1, <2>1
    <2> QED
      BY <2>5, <2>6 DEF ObjectsInv, AfterLabels
  <1> QED
    BY <1>2, <1>3, <1>4 DEF Inv, Typed

LEMMA InStage ==
    ASSUME Inv, todo # <<>> \/ missing # <<>> \/ got # NoObject
    PROVE  pc \in Stages /\ built \in Specs
  BY DEF Inv, ListsInv

LEMMA CheckObjectInv ==
    ASSUME Inv, CheckObject
    PROVE  Inv'
  <1> DEFINE o == Head(todo)
  <1>1. /\ UNCHANGED <<spec, config, bare, ca, keystore, named, copy, dcHash, template, pod, obj,
                       labelled, progress, queue, pc, rc, built, made, lost, torn, edits, events>>
        /\ todo # <<>> /\ got = NoObject
        /\ \/ /\ ~obj[o].exists
              /\ missing' = Append(missing, o) /\ todo' = Tail(todo) /\ got' = got
           \/ /\ obj[o].exists /\ ResourcesHaveSameHash(obj[o], Desired(o, built))
              /\ todo' = Tail(todo) /\ UNCHANGED <<missing, got>>
           \/ obj[o].exists /\ got' = obj[o] /\ UNCHANGED <<todo, missing>>
    BY DEF CheckObject, user, secrets, rollout, history, bounds
  <1>2. pc \in Stages /\ built \in Specs
    BY <1>1, InStage
  <1>3. /\ todo \in Seq(Objects) /\ Distinct(todo) /\ missing \in Seq(Objects)
        /\ Distinct(missing) /\ Elems(todo) \cap Elems(missing) = {}
        /\ \A x \in Elems(missing) : ~obj[x].exists
        /\ pc # "idle" => rc \in Specs
    BY DEF Inv, Typed, TypedPass, ListsInv
  <1>4. /\ o \in Objects /\ Tail(todo) \in Seq(Objects) /\ Distinct(Tail(todo))
        /\ Elems(todo) = {o} \cup Elems(Tail(todo)) /\ o \notin Elems(Tail(todo))
    BY <1>1, <1>3, FirstTaken
  <1>5. obj[o] \in ObjRecords /\ Marked(o, obj[o])
    BY <1>4 DEF Inv, Typed, TypedCluster, MarkInv
  <1> HIDE DEF o
  <1>6. TypedCluster' /\ MarkInv'
    BY <1>1 DEF Inv, Typed, TypedCluster, MarkInv, Marked, Hashed
  <1>7. CASE /\ ~obj[o].exists
             /\ missing' = Append(missing, o) /\ todo' = Tail(todo) /\ got' = got
    <2>1. /\ missing' \in Seq(Objects) /\ Distinct(missing')
          /\ Elems(missing') = Elems(missing) \cup {o}
      BY <1>3, <1>4, <1>7, Appended
    <2>2. TypedPass'
      BY <1>1, <1>4, <1>7, <2>1 DEF Inv, Typed, TypedPass
    <2>3. ListsInv'
      BY <1>1, <1>2, <1>3, <1>4, <1>7, <2>1 DEF ListsInv
    <2>4. Pending' = Pending
      BY <1>4, <1>7, <2>1 DEF Pending
    <2> QED
      BY <1>1, <1>2, <1>4, <1>6, <2>2, <2>3, <2>4, StageStepInv
  <1>8. CASE /\ obj[o].exists /\ ResourcesHaveSameHash(obj[o], Desired(o, built))
             /\ todo' = Tail(todo) /\ UNCHANGED <<missing, got>>
    <2>1. TypedPass'
      BY <1>1, <1>4, <1>8 DEF Inv, Typed, TypedPass
    <2>2. ListsInv'
      BY <1>1, <1>2, <1>3, <1>4, <1>8 DEF ListsInv
    <2>3. Pending \subseteq Pending' \cup {o}
      BY <1>4, <1>8 DEF Pending
    <2>4. Current(o, built, obj'[o])
      BY <1>1, <1>2, <1>4, <1>5, <1>8, SameHashIsCurrent
    <2> QED
      BY <1>1, <1>2, <1>4, <1>6, <2>1, <2>2, <2>3, <2>4, StageStepInv
  <1>9. CASE obj[o].exists /\ got' = obj[o] /\ UNCHANGED <<todo, missing>>
    <2>1. TypedPass'
      BY <1>1, <1>5, <1>9 DEF Inv, Typed, TypedPass
    <2>2. ListsInv'
      BY <1>1, <1>2, <1>3, <1>9 DEF ListsInv
    <2>3. Pending' = Pending
      BY <1>9 DEF Pending
    <2> QED
      BY <1>1, <1>2, <1>4, <1>6, <2>1, <2>2, <2>3, StageStepInv
  <1> QED
    BY <1>1, <1>7, <1>8, <1>9

LEMMA Written ==
    ASSUME Inv, NEW o \in Objects, NEW q \in ObjRecords, Marked(o, q),
           ~q.exists => q = NoObject, obj' = [obj EXCEPT ![o] = q]
    PROVE  /\ obj' \in [Objects -> ObjRecords] /\ MarkInv'
           /\ \A x \in Objects : ~obj'[x].exists => obj'[x] = NoObject
           /\ obj'[o] = q /\ \A x \in Objects \ {o} : obj'[x] = obj[x]
  <1>1. obj \in [Objects -> ObjRecords]
    BY DEF Inv, Typed, TypedCluster
  <1>2. obj' \in [Objects -> ObjRecords]
    BY <1>1
  <1>3. obj'[o] = q /\ \A x \in Objects \ {o} : obj'[x] = obj[x]
    BY <1>1
  <1>4. MarkInv'
    BY <1>3, SMT DEF Inv, MarkInv, Marked, Hashed
  <1>5. \A x \in Objects : ~obj'[x].exists => obj'[x] = NoObject
    BY <1>3 DEF Inv, Typed, TypedCluster
  <1> QED
    BY <1>2, <1>3, <1>4, <1>5

LEMMA UpdateObjectInv ==
    ASSUME Inv, UpdateObject
    PROVE  Inv'
  <1> DEFINE o == Head(todo)
             m == Merged(got, Desired(o, built))
  <1>1. /\ UNCHANGED <<spec, config, bare, ca, keystore, named, copy, dcHash, template, pod,
                       labelled, progress, lost, torn, edits, events>>
        /\ got # NoObject
        /\ \/ /\ obj[o] = got /\ Writes(o, m)
              /\ todo' = Tail(todo) /\ got' = NoObject
              /\ UNCHANGED <<pc, rc, built, missing, made>>
           \/ Retry /\ UNCHANGED obj
    BY DEF UpdateObject, user, secrets, rollout, history, bounds
  <1>2. pc \in Stages /\ built \in Specs /\ pc # "idle" /\ pc # "copy"
    BY <1>1, InStage DEF Stages
  <1>3. /\ todo \in Seq(Objects) /\ Distinct(todo) /\ missing \in Seq(Objects)
        /\ Distinct(missing) /\ Elems(todo) \cap Elems(missing) = {}
        /\ \A x \in Elems(missing) : ~obj[x].exists
        /\ rc \in Specs /\ todo # <<>>
    BY <1>1, <1>2 DEF Inv, Typed, TypedPass, ListsInv
  <1>4. /\ o \in Objects /\ Tail(todo) \in Seq(Objects) /\ Distinct(Tail(todo))
        /\ Elems(todo) = {o} \cup Elems(Tail(todo)) /\ o \notin Elems(Tail(todo))
    BY <1>3, FirstTaken
  <1> HIDE DEF o
  <1>5. CASE Retry /\ UNCHANGED obj
    <2>1. EndPass /\ queue' = TRUE /\ pc' = "idle"
      BY <1>5 DEF Retry, EndPass
    <2>2. TypedCluster' /\ MarkInv'
      BY <1>1, <1>5, <2>1 DEF Inv, Typed, TypedCluster, MarkInv, Marked, Hashed
    <2>3. TypedRollout' /\ HashInv'
      BY <1>1, <1>2, <2>1, RolloutKept DEF Inv, Typed
    <2> QED
      BY <2>1, <2>2, <2>3, PassEnded, Queued DEF Inv, Typed
  <1>6. CASE /\ obj[o] = got /\ Writes(o, m)
             /\ todo' = Tail(todo) /\ got' = NoObject
             /\ UNCHANGED <<pc, rc, built, missing, made>>
    <2>1. got \in ObjRecords /\ got.exists /\ Marked(o, got)
      BY <1>1, <1>4, <1>6 DEF Inv, Typed, TypedCluster, MarkInv
    <2>2. m \in ObjRecords /\ m.exists /\ Marked(o, m) /\ Current(o, built, m)
      BY <1>2, <1>4, <2>1, MergedIs
    <2> HIDE DEF m
    <2>3. obj' = [obj EXCEPT ![o] = m] /\ queue' = (queue \/ (o \in Watched /\ obj' # obj))
      BY <1>6 DEF Writes
    <2>4. /\ obj' \in [Objects -> ObjRecords] /\ MarkInv'
          /\ \A x \in Objects : ~obj'[x].exists => obj'[x] = NoObject
          /\ obj'[o] = m /\ \A x \in Objects \ {o} : obj'[x] = obj[x]
      BY <1>4, <2>2, <2>3, Written
    <2>5. TypedCluster'
      <3>1. queue' \in BOOLEAN
        BY <2>3 DEF Inv, Typed, TypedCluster
      <3> QED
        BY <1>1, <2>4, <3>1 DEF Inv, Typed, TypedCluster
    <2>6. TypedPass'
      BY <1>1, <1>4, <1>6, NoObjectIs DEF Inv, Typed, TypedPass
    <2>7. ListsInv'
      <3>1. o \notin Elems(missing)
        BY <1>3, <1>4
      <3>2. Elems(missing) \subseteq Objects
        BY <1>3, SMT DEF Elems
      <3> QED
        BY <1>2, <1>3, <1>4, <1>6, <2>4, <3>1, <3>2 DEF ListsInv
    <2>8. Pending \subseteq Pending' \cup {o}
      BY <1>4, <1>6 DEF Pending
    <2> QED
      BY <1>1, <1>2, <1>4, <1>6, <2>2, <2>3, <2>4, <2>5, <2>6, <2>7, <2>8, StageStepInv
  <1> QED
    BY <1>1, <1>5, <1>6

LEMMA CreateObjectInv ==
    ASSUME Inv, CreateObject
    PROVE  Inv'
  <1> DEFINE o == Head(missing)
             d == Desired(o, built)
  <1>1. /\ UNCHANGED <<spec, config, bare, ca, keystore, named, copy, dcHash, template, pod,
                       labelled, pc, built, todo, got, made, torn, edits, events>>
        /\ todo = <<>> /\ missing # <<>> /\ Writes(o, d) /\ lost' = lost \ {o}
        /\ missing' = Tail(missing)
    BY DEF CreateObject, user, secrets, rollout, bounds
  <1>2. pc \in Stages /\ built \in Specs /\ pc # "idle"
    BY <1>1, InStage DEF Stages
  <1>3. rc' \in {rc, spec} /\ progress' \in {progress, "Updating"}
    BY DEF CreateObject, SetProgress
  <1>4. /\ missing \in Seq(Objects) /\ Distinct(missing)
        /\ \A x \in Elems(missing) : ~obj[x].exists
        /\ rc \in Specs /\ spec \in Specs
    BY <1>2 DEF Inv, Typed, TypedCluster, TypedPass, ListsInv
  <1>5. /\ o \in Objects /\ Tail(missing) \in Seq(Objects) /\ Distinct(Tail(missing))
        /\ Elems(missing) = {o} \cup Elems(Tail(missing)) /\ o \notin Elems(Tail(missing))
    BY <1>1, <1>4, FirstTaken
  <1> HIDE DEF o
  <1>6. d \in ObjRecords /\ d.exists /\ Marked(o, d) /\ Current(o, built, d)
    BY <1>2, <1>5, DesiredIs, DesiredIsCurrent
  <1> HIDE DEF d
  <1>7. obj' = [obj EXCEPT ![o] = d] /\ queue' = (queue \/ (o \in Watched /\ obj' # obj))
    BY <1>1 DEF Writes
  <1>8. /\ obj' \in [Objects -> ObjRecords] /\ MarkInv'
        /\ \A x \in Objects : ~obj'[x].exists => obj'[x] = NoObject
        /\ obj'[o] = d /\ \A x \in Objects \ {o} : obj'[x] = obj[x]
    BY <1>5, <1>6, <1>7, Written
  <1>9. TypedCluster'
    <2>1. queue' \in BOOLEAN
      BY <1>7 DEF Inv, Typed, TypedCluster
    <2> QED
      BY <1>1, <1>3, <1>8, <2>1 DEF Inv, Typed, TypedCluster
  <1>10. TypedPass'
    BY <1>1, <1>3, <1>4, <1>5 DEF Inv, Typed, TypedPass
  <1>11. ListsInv'
    <2>1. Elems(missing') \subseteq Objects /\ o \notin Elems(missing')
      <3>1. missing' = Tail(missing)
        BY <1>1
      <3>2. \A s \in Seq(Objects) : Elems(s) \subseteq Objects
        BY SMT DEF Elems
      <3> QED
        BY <1>5, <3>1, <3>2
    <2>2. got = NoObject
      BY <1>1 DEF Inv, ListsInv
    <2>3. Elems(todo) = {} /\ Distinct(todo)
      BY <1>1, EmptyList
    <2> QED
      BY <1>1, <1>2, <1>3, <1>4, <1>5, <1>8, <2>1, <2>2, <2>3 DEF ListsInv
  <1>12. Pending \subseteq Pending' \cup {o}
    BY <1>1, <1>5 DEF Pending
  <1> QED
    BY <1>1, <1>2, <1>3, <1>5, <1>6, <1>7, <1>8, <1>9, <1>10, <1>11, <1>12, StageStepInv
-----------------------------------------------------------------------------
(* The steps of ReconcileAllRacks.                                          *)

(* After the stages nothing is in hand.                                     *)
LEMMA NothingInHand ==
    ASSUME Inv, UNCHANGED <<todo, missing, got, built, made>>, pc' \in Steps, rc' \in Specs,
           pc' = "keystore" => ca',
           \/ pc \notin Stages
           \/ todo = <<>> /\ missing = <<>>
    PROVE  TypedPass' /\ ListsInv'
  <1>1. todo = <<>> /\ missing = <<>> /\ got = NoObject
    BY DEF Inv, ListsInv
  <1>2. TypedPass'
    BY DEF Inv, Typed, TypedPass
  <1>3. pc' \notin Stages
    BY DEF Steps, Stages
  <1>4. Elems(missing) = {} /\ Distinct(todo) /\ Distinct(missing) /\ Elems(todo) = {}
    BY <1>1, EmptyList
  <1> QED
    BY <1>1, <1>2, <1>3, <1>4 DEF ListsInv

(* A pass that goes on leaves what it has looked at, but for its labels.     *)
LEMMA ObjectsGoOn ==
    ASSUME ObjectsInv, UNCHANGED <<spec, obj>>, queue => queue', lost \cap Objects \subseteq lost',
           pc' \in Steps, Checked' \subseteq Checked,
           ~queue' => /\ rc' = spec
                      /\ pc' \in AfterLabels => "sts" \in labelled'
                      /\ pc' = "ready" => {"pod", "pvc"} \ lost' \subseteq labelled'
    PROVE  ObjectsInv'
  <1> SUFFICES ASSUME ~queue'
               PROVE  ObjectsInv'
    BY DEF ObjectsInv
  <1>1. Wanted' = Wanted /\ Wanted \subseteq Objects
    BY DEF Wanted, Objects, Services
  <1>2. \A o \in Objects : UpToDate(o)' <=> UpToDate(o)
    BY DEF UpToDate, Tracked
  <1>3. \A o \in (Wanted' \cap Checked') \ lost' : UpToDate(o)'
    BY <1>1, <1>2 DEF ObjectsInv
  <1>4. pc' # "idle" /\ pc' \notin Stages
    BY DEF Steps, Stages
  <1> QED
    BY <1>3, <1>4 DEF ObjectsInv

(* A pass that ends with an error leaves the rest to the next one.          *)
LEMMA RetryInv ==
    ASSUME Retry, TypedCluster', MarkInv', TypedRollout', HashInv'
    PROVE  Inv'
  <1>1. EndPass /\ queue' = TRUE
    BY DEF Retry
  <1> QED
    BY <1>1, PassEnded, Queued DEF Inv, Typed

LEMMA CheckInternodeCredentialCreationInv ==
    ASSUME Inv, CheckInternodeCredentialCreation
    PROVE  Inv'
  <1>1. /\ UNCHANGED <<spec, config, bare, keystore, named, copy, dcHash, template, pod, obj,
                       labelled, progress, queue, todo, missing, got, made, lost, torn,
                       edits, events>>
        /\ pc = "policies" /\ todo = <<>> /\ missing = <<>> /\ rc' \in {rc, spec} /\ ca' = TRUE
        /\ pc' \in {"config", "keystore"} /\ built' = NoSpec
    BY DEF CheckInternodeCredentialCreation, StageDone, user, rollout, history, bounds
  <1>2. TypedCluster' /\ MarkInv'
    BY <1>1 DEF Inv, Typed, TypedCluster, MarkInv, Marked, Hashed
  <1>3. TypedRollout' /\ HashInv'
    BY <1>1, RolloutKept DEF Inv, Typed
  <1>4. rc \in Specs /\ spec \in Specs /\ got = NoObject
    BY <1>1 DEF Inv, Typed, TypedCluster, ListsInv
  <1>5. TypedPass' /\ ListsInv'
    <2>1. Elems(missing) = {} /\ Distinct(todo) /\ Distinct(missing) /\ Elems(todo) = {}
      BY <1>1, EmptyList
    <2>2. TypedPass'
      BY <1>1, <1>4 DEF Inv, Typed, TypedPass, Steps
    <2> QED
      BY <1>1, <1>4, <2>1, <2>2 DEF ListsInv, Stages
  <1>6. ObjectsInv'
    <2>1. Pending = {}
      BY <1>1, EmptyList DEF Pending
    <2>2. Checked' \subseteq Checked
      BY <1>1, <2>1 DEF Checked, Objects
    <2> QED
      BY <1>1, <2>2, ObjectsGoOn DEF Inv, ObjectsInv, Steps, AfterLabels
  <1>7. ConfigInv'
    BY <1>1 DEF ConfigInv, AfterConfig, AfterLabels
  <1> QED
    BY <1>2, <1>3, <1>5, <1>6, <1>7 DEF Inv, Typed

LEMMA CreateCABootstrappingSecretInv ==
    ASSUME Inv, CreateCABootstrappingSecret
    PROVE  Inv'
  <1>1. /\ UNCHANGED <<spec, config, bare, ca, named, copy, dcHash, template, pod, obj, labelled,
                       progress, queue, rc, built, todo, missing, got, made, lost, torn,
                       edits, events>>
        /\ pc = "keystore" /\ pc' = "config" /\ keystore' = TRUE
    BY DEF CreateCABootstrappingSecret, user, rollout, history, bounds, stage
  <1>2. pc \in Steps /\ pc' \in Steps /\ pc \notin Stages /\ pc # "idle"
    BY <1>1 DEF Steps, Stages
  <1>3. rc \in Specs
    BY <1>2 DEF Inv, ListsInv
  <1>4. TypedCluster' /\ MarkInv'
    <2>1. ca'
      BY <1>1 DEF Inv, Typed, TypedPass
    <2> QED
      BY <1>1, <2>1 DEF Inv, Typed, TypedCluster, MarkInv, Marked, Hashed
  <1>5. TypedRollout' /\ HashInv'
    BY <1>1, RolloutKept DEF Inv, Typed
  <1>6. TypedPass' /\ ListsInv'
    BY <1>1, <1>2, <1>3, NothingInHand
  <1>7. ObjectsInv'
    <2>1. Checked' \subseteq Checked
      BY <1>1 DEF Checked
    <2> QED
      BY <1>1, <1>2, <2>1, ObjectsGoOn DEF Inv, ObjectsInv, AfterLabels
  <1>8. ConfigInv'
    BY <1>1 DEF ConfigInv, AfterConfig, AfterLabels
  <1> QED
    BY <1>4, <1>5, <1>6, <1>7, <1>8 DEF Inv, Typed

LEMMA CheckConfigSecretInv ==
    ASSUME Inv, CheckConfigSecret
    PROVE  Inv'
  <1>1. /\ UNCHANGED <<spec, config, bare, ca, keystore, copy, template, pod, obj, labelled,
                       progress, built, todo, missing, got, torn, edits>>
        /\ pc = "config" /\ pc' \in {"rack", "copy"} /\ pc \in Steps /\ pc' \in Steps
        /\ CheckDatacenterNameAnnotation /\ queue' = (queue \/ named' # named)
        /\ \/ CopyIsCurrent /\ pc' = "rack" /\ UNCHANGED <<dcHash, rc, made>>
           \/ /\ UpdateConfigHashAnnotation /\ made' = ConfigAsJSON(rc) /\ rc' = spec
              /\ pc' = "copy"
    BY DEF CheckConfigSecret, user, secrets, Steps
  <1>2. rc \in Specs /\ spec \in Specs /\ config \in Int
    BY <1>1, SMT DEF Inv, ListsInv, Typed, TypedCluster
  <1>3. /\ \/ named' = TRUE /\ lost' = lost \ {"config"} /\ (queue' <=> queue \/ ~named)
           \/ UNCHANGED named /\ lost' = lost \cup {"config"} /\ (queue' <=> queue)
        /\ events' \in 0..MaxEvents /\ "config" \notin bare /\ queue' \in BOOLEAN
        /\ named' \in BOOLEAN
    <2>1. TypedCluster /\ events \in 0..MaxEvents /\ named \in BOOLEAN
      BY DEF Inv, Typed, TypedCluster
    <2>2. CASE named' = TRUE /\ lost' = lost \ {"config"} /\ UNCHANGED events
      BY <1>1, <2>1, <2>2 DEF CheckDatacenterNameAnnotation
    <2>3. CASE ~named /\ Event /\ lost' = lost \cup {"config"} /\ UNCHANGED named
      BY <1>1, <2>1, <2>3, EventIs DEF CheckDatacenterNameAnnotation
    <2> QED
      BY <1>1, <2>2, <2>3 DEF CheckDatacenterNameAnnotation
  <1>4. TypedCluster' /\ MarkInv'
    <2>1. dcHash' # -1 => "datacenter" \notin bare'
      BY <1>1 DEF Inv, Typed, TypedCluster, UpdateConfigHashAnnotation
    <2> QED
      BY <1>1, <1>3, <2>1 DEF Inv, Typed, TypedCluster, MarkInv, Marked, Hashed
  <1>5. TypedPass' /\ ListsInv'
    <2>1. made' \in Contents
      BY <1>1, <1>2, ConfigList DEF Inv, Typed, TypedPass
    <2>2. todo = <<>> /\ missing = <<>> /\ got = NoObject
      BY <1>1 DEF Inv, ListsInv, Stages
    <2>3. Elems(todo) = {} /\ Elems(missing) = {} /\ Distinct(todo) /\ Distinct(missing)
      BY <2>2, EmptyList
    <2>4. rc' \in Specs
      BY <1>1, <1>2
    <2>5. TypedPass'
      BY <1>1, <2>1, <2>4 DEF Inv, Typed, TypedPass
    <2> QED
      BY <1>1, <2>2, <2>3, <2>4, <2>5 DEF ListsInv, Stages
  <1>6. TypedRollout' /\ HashInv'
    <2>1. CASE UNCHANGED dcHash /\ pc' = "rack"
      BY <1>1, <2>1, RolloutKept DEF Inv, Typed
    <2>2. CASE UpdateConfigHashAnnotation /\ pc' = "copy"
      <3>1. copy \in CopyRecords /\ copy.version \in Nat /\ copy.exists \in BOOLEAN
        BY DEF Inv, Typed, TypedRollout, CopyRecords
      <3>2. dcHash' = IF copy.exists THEN copy.version ELSE 0
        BY <2>2 DEF UpdateConfigHashAnnotation
      <3>3. TypedRollout'
        BY <1>1, <3>1, <3>2, SMT DEF Inv, Typed, TypedRollout
      <3>4. HashInv'
        BY <1>1, <2>2, <3>1, <3>2, SMT DEF Inv, HashInv
      <3> QED
        BY <3>3, <3>4
    <2> QED
      BY <1>1, <2>1, <2>2
  <1>7. ObjectsInv'
    <2>1. Checked' \subseteq Checked
      BY <1>1 DEF Checked
    <2>2. /\ lost \cap Objects \subseteq lost'
          /\ queue => queue'
      <3>1. "config" \notin Objects
        BY DEF Objects, Services
      <3>2. lost \cap Objects \subseteq lost'
        BY <1>3, <3>1
      <3>3. queue => queue'
        BY <1>3
      <3> QED
        BY <3>2, <3>3
    <2>3. ~queue' => rc' = spec
      BY <1>1, <2>2 DEF Inv, ObjectsInv
    <2> QED
      BY <1>1, <2>1, <2>2, <2>3, ObjectsGoOn DEF Inv, AfterLabels
  <1>8. ConfigInv'
    <2>1. SUFFICES ASSUME ~queue', "config" \notin lost'
                   PROVE  ConfigInv'
      BY DEF ConfigInv
    <2>2. named' /\ ~queue
      BY <1>3, <2>1
    <2>3. rc = spec
      BY <1>1, <2>2 DEF Inv, ObjectsInv
    <2>4. ConfigAsJSON(spec)' = ConfigAsJSON(spec)
      BY <1>1 DEF ConfigAsJSON
    <2> QED
      BY <1>1, <2>2, <2>3, <2>4 DEF ConfigInv, CopyIsCurrent, AfterConfig, AfterLabels
  <1> QED
    BY <1>4, <1>5, <1>6, <1>7, <1>8 DEF Inv, Typed

LEMMA CheckConfigSecretPanicsInv ==
    ASSUME Inv, CheckConfigSecretPanics
    PROVE  Inv'
  <1>1. /\ UNCHANGED <<spec, config, bare, ca, keystore, copy, dcHash, template, pod, obj,
                       labelled, progress, torn, edits>>
        /\ pc = "config" /\ Retry /\ queue' = TRUE /\ pc' = "idle"
        /\ \/ UNCHANGED <<named, lost, events>>
           \/ CheckDatacenterNameAnnotation
    BY DEF CheckConfigSecretPanics, user, secrets, Retry, EndPass
  <1>2. /\ named' \in BOOLEAN /\ (named' => "config" \notin bare)
        /\ lost' \subseteq lost \cup {"config"} /\ events' \in 0..MaxEvents
    <2>1. /\ named \in BOOLEAN /\ (named => "config" \notin bare)
          /\ events \in 0..MaxEvents /\ (Event => events' \in 0..MaxEvents)
      BY EventIs DEF Inv, Typed, TypedCluster
    <2>2. CASE UNCHANGED <<named, lost, events>>
      BY <2>1, <2>2
    <2>3. CASE CheckDatacenterNameAnnotation
      BY <2>1, <2>3 DEF CheckDatacenterNameAnnotation
    <2> QED
      BY <1>1, <2>2, <2>3
  <1>3. TypedCluster' /\ MarkInv'
    BY <1>1, <1>2 DEF Inv, Typed, TypedCluster, MarkInv, Marked, Hashed
  <1>4. TypedRollout' /\ HashInv'
    BY <1>1, RolloutKept DEF Inv, Typed
  <1> QED
    BY <1>1, <1>3, <1>4, RetryInv

LEMMA WriteConfigCopyInv ==
    ASSUME Inv, WriteConfigCopy
    PROVE  Inv'
  <1>1. /\ UNCHANGED <<spec, config, bare, ca, keystore, named, dcHash, template, pod, obj,
                       labelled, progress, lost, torn, edits, events>>
        /\ pc = "copy" /\ pc \in Steps /\ pc \notin Stages
        /\ copy' = [exists |-> TRUE, config |-> made, version |-> copy.version + 1]
        /\ \/ Retry
           \/ pc' = "rack" /\ UNCHANGED <<queue, rc, built, todo, missing, got, made>>
    BY DEF WriteConfigCopy, user, secrets, history, bounds, stage, Steps, Stages
  <1>2. TypedCluster' /\ MarkInv'
    <2>1. queue' \in BOOLEAN
      BY <1>1 DEF Retry, Inv, Typed, TypedCluster
    <2> QED
      BY <1>1, <2>1 DEF Inv, Typed, TypedCluster, MarkInv, Marked, Hashed
  <1>3. copy.version \in Nat /\ made \in Contents
    BY DEF Inv, Typed, TypedRollout, TypedPass, CopyRecords
  <1>4. TypedRollout'
    <2>1. copy' \in CopyRecords
      BY <1>1, <1>3, SMT DEF CopyRecords
    <2>2. copy'.version = copy.version + 1
      BY <1>1
    <2> QED
      BY <1>1, <1>3, <2>1, <2>2, SMT DEF Inv, Typed, TypedRollout
  <1>5. pc' # "copy"
    BY <1>1 DEF Retry, EndPass
  <1>6. HashInv'
    <2>1. SUFFICES ASSUME "copy" \notin torn
                   PROVE  HashInv'
      BY <1>1 DEF HashInv
    <2>2. dcHash = copy.version /\ template < copy.version /\ pod.hash < copy.version
      BY <1>1, <2>1 DEF Inv, HashInv
    <2>3. copy'.exists /\ copy'.version = copy.version + 1
      BY <1>1
    <2>4. template \in Int /\ pod.hash \in Int
      BY DEF Inv, Typed, TypedRollout, PodRecords
    <2>5. dcHash' = dcHash /\ template' = template /\ pod' = pod
      BY <1>1
    <2> QED
      BY <1>3, <1>5, <2>2, <2>3, <2>4, <2>5, SMT DEF HashInv
  <1>7. CASE Retry
    BY <1>2, <1>4, <1>6, <1>7, RetryInv
  <1>8. CASE pc' = "rack" /\ UNCHANGED <<queue, rc, built, todo, missing, got, made>>
    <2>1. rc \in Specs
      BY <1>1 DEF Inv, ListsInv
    <2>2. TypedPass' /\ ListsInv'
      BY <1>1, <1>8, <2>1, NothingInHand DEF Steps
    <2>3. ObjectsInv'
      <3>1. Checked' \subseteq Checked /\ pc' \in Steps
        BY <1>1, <1>8 DEF Checked, Steps
      <3> QED
        BY <1>1, <1>8, <3>1, ObjectsGoOn DEF Inv, ObjectsInv, AfterLabels
    <2>4. ConfigInv'
      <3>1. ConfigAsJSON(spec)' = ConfigAsJSON(spec)
        BY <1>1 DEF ConfigAsJSON
      <3>2. copy'.exists /\ copy'.config = made
        BY <1>1
      <3> QED
        BY <1>1, <1>8, <3>1, <3>2 DEF Inv, ConfigInv, AfterConfig, AfterLabels
    <2> QED
      BY <1>2, <1>4, <1>6, <2>2, <2>3, <2>4 DEF Inv, Typed
  <1> QED
    BY <1>1, <1>7, <1>8

(* A new template has the hash of the datacenter, one behind the copy.      *)
LEMMA TemplateSet ==
    ASSUME Inv, pc \in Steps \ {"copy"}, UNCHANGED <<copy, dcHash, pod, torn>>,
           template' = dcHash, pc' # "copy"
    PROVE  TypedRollout' /\ HashInv'
  <1>1. TypedRollout'
    BY DEF Inv, Typed, TypedRollout
  <1>2. copy.version \in Nat
    BY DEF Inv, Typed, TypedRollout, CopyRecords
  <1>3. HashInv'
    <2>1. SUFFICES ASSUME "copy" \notin torn
                   PROVE  HashInv'
      BY DEF HashInv
    <2>2. /\ copy.exists <=> copy.version > 0
          /\ dcHash = copy.version - 1 /\ pod.hash < copy.version
          /\ pod.hash = copy.version - 1 /\ copy.exists => pod.config = copy.config
      BY <2>1 DEF Inv, HashInv
    <2>3. copy' = copy /\ dcHash' = dcHash /\ pod' = pod /\ template' = dcHash
      OBVIOUS
    <2> QED
      BY <1>2, <2>2, <2>3, SMT DEF HashInv
  <1> QED
    BY <1>1, <1>3

LEMMA CheckRackCreationInv ==
    ASSUME Inv, CheckRackCreation
    PROVE  Inv'
  <1>1. /\ UNCHANGED <<spec, config, bare, ca, keystore, named, copy, dcHash, pod, obj, labelled,
                       progress, lost, torn, edits, events>>
        /\ pc = "rack" /\ template' = dcHash /\ Retry
    BY DEF CheckRackCreation, user, secrets, history, bounds
  <1>2. queue' = TRUE /\ pc' = "idle"
    BY <1>1 DEF Retry, EndPass
  <1>3. TypedCluster' /\ MarkInv'
    BY <1>1, <1>2 DEF Inv, Typed, TypedCluster, MarkInv, Marked, Hashed
  <1>4. TypedRollout' /\ HashInv'
    BY <1>1, <1>2, TemplateSet DEF Steps
  <1> QED
    BY <1>1, <1>3, <1>4, RetryInv

LEMMA CheckRackLabelsInv ==
    ASSUME Inv, CheckRackLabels
    PROVE  Inv'
  <1>1. /\ UNCHANGED <<spec, config, bare, ca, keystore, named, copy, dcHash, template, pod, obj,
                       progress, lost, torn, edits, events>>
        /\ pc = "rack" /\ labelled' = labelled \cup {"sts"}
        /\ \/ Retry
           \/ /\ pod.hash = template /\ pc' = "budget"
              /\ queue' = (queue \/ "sts" \notin labelled)
              /\ UNCHANGED <<rc, built, todo, missing, got, made>>
    BY DEF CheckRackLabels, user, secrets, rollout, history, bounds, stage
  <1>2. pc' # "copy" /\ queue' \in BOOLEAN
    BY <1>1 DEF Retry, EndPass
  <1>3. TypedCluster' /\ MarkInv'
    BY <1>1, <1>2 DEF Inv, Typed, TypedCluster, MarkInv, Marked, Hashed, Resources
  <1>4. TypedRollout' /\ HashInv'
    BY <1>1, <1>2, RolloutKept DEF Inv, Typed
  <1>5. CASE Retry
    BY <1>3, <1>4, <1>5, RetryInv
  <1>6. CASE /\ pod.hash = template /\ pc' = "budget"
             /\ queue' = (queue \/ "sts" \notin labelled)
             /\ UNCHANGED <<rc, built, todo, missing, got, made>>
    <2>1. rc \in Specs
      BY <1>1 DEF Inv, ListsInv
    <2>2. TypedPass' /\ ListsInv'
      BY <1>1, <1>6, <2>1, NothingInHand DEF Steps, Stages
    <2>3. queue => queue'
      BY <1>6
    <2>4. ObjectsInv'
      <3>1. Checked' \subseteq Checked /\ pc' \in Steps
        BY <1>1, <1>6 DEF Checked, Steps
      <3>2. ~queue' => rc' = spec
        BY <1>1, <1>6, <2>3 DEF Inv, ObjectsInv
      <3> QED
        BY <1>1, <1>6, <2>3, <3>1, <3>2, ObjectsGoOn DEF Inv
    <2>5. ConfigInv'
      BY <1>1, <1>6, <2>3 DEF Inv, ConfigInv, AfterConfig, ConfigAsJSON
    <2> QED
      BY <1>3, <1>4, <2>2, <2>4, <2>5 DEF Inv, Typed
  <1> QED
    BY <1>1, <1>5, <1>6

LEMMA CheckDcPodDisruptionBudgetInv ==
    ASSUME Inv, CheckDcPodDisruptionBudget
    PROVE  Inv'
  <1> DEFINE d == Desired("budget", rc)
             b == obj["budget"]
  <1>1. /\ UNCHANGED <<spec, config, bare, ca, keystore, named, copy, dcHash, template, pod,
                       labelled, progress, rc, built, todo, missing, got, made, lost, torn,
                       edits, events>>
        /\ pc = "budget" /\ pc' \in {"budget", "template"}
        /\ \/ /\ b.exists /\ ResourcesHaveSameHash(b, d) /\ pc' = "template"
              /\ UNCHANGED <<obj, queue>>
           \/ b.exists /\ Writes("budget", NoObject)
           \/ ~b.exists /\ Writes("budget", d)
    BY DEF CheckDcPodDisruptionBudget, user, secrets, rollout, history, bounds, stage
  <1>2. rc \in Specs /\ "budget" \in Objects /\ pc \in Steps /\ pc' \in Steps /\ pc \notin Stages
    BY <1>1 DEF Inv, ListsInv, Objects, Steps, Stages
  <1>3. d \in ObjRecords /\ d.exists /\ Marked("budget", d)
    BY <1>2, DesiredIs, DesiredIsCurrent
  <1>4. b \in ObjRecords /\ Marked("budget", b) /\ obj \in [Objects -> ObjRecords]
    BY <1>2 DEF Inv, Typed, TypedCluster, MarkInv
  <1>5. TypedRollout' /\ HashInv'
    BY <1>1, RolloutKept DEF Inv, Typed
  <1>6. TypedPass' /\ ListsInv'
    BY <1>1, <1>2, NothingInHand
  <1>7. CASE /\ b.exists /\ ResourcesHaveSameHash(b, d) /\ pc' = "template"
             /\ UNCHANGED <<obj, queue>>
    <2>1. TypedCluster' /\ MarkInv'
      BY <1>1, <1>7 DEF Inv, Typed, TypedCluster, MarkInv, Marked, Hashed
    <2>2. Current("budget", rc, b)
      BY <1>2, <1>4, <1>7, SameHashIsCurrent
    <2>3. ObjectsInv'
      <3> SUFFICES ASSUME ~queue
                   PROVE  ObjectsInv'
        BY <1>7 DEF ObjectsInv
      <3>1. rc = spec
        BY <1>1 DEF Inv, ObjectsInv
      <3>2. UpToDate("budget")
        BY <1>2, <2>2, <3>1, UpToDateIsCurrent
      <3>3. \A o \in Wanted \ lost : UpToDate(o)
        BY <1>1, <3>2 DEF Inv, ObjectsInv, Checked, Wanted, Objects, Services
      <3>4. Wanted' = Wanted /\ \A o \in Wanted : UpToDate(o)' <=> UpToDate(o)
        BY <1>1, <1>7 DEF Wanted, UpToDate, Tracked
      <3> QED
        BY <1>1, <1>7, <3>1, <3>3, <3>4 DEF Inv, ObjectsInv, AfterLabels, Stages
    <2>4. ConfigInv'
      BY <1>1, <1>7 DEF Inv, ConfigInv, AfterConfig, AfterLabels, ConfigAsJSON
    <2> QED
      BY <1>5, <1>6, <2>1, <2>3, <2>4 DEF Inv, Typed
  <1>8. ASSUME NEW q \in ObjRecords, Writes("budget", q), q # b,
               Marked("budget", q), ~q.exists => q = NoObject
        PROVE  Inv'
    <2>1. /\ obj' = [obj EXCEPT !["budget"] = q]
          /\ queue' = (queue \/ ("budget" \in Watched /\ obj' # obj))
      BY <1>8 DEF Writes
    <2>2. /\ obj' \in [Objects -> ObjRecords] /\ MarkInv'
          /\ \A x \in Objects : ~obj'[x].exists => obj'[x] = NoObject
          /\ obj'["budget"] = q
      BY <1>2, <1>8, <2>1, Written
    <2>3. obj' # obj /\ "budget" \in Watched
      BY <1>8, <2>2 DEF Watched
    <2>4. queue' = TRUE
      BY <2>1, <2>3
    <2>5. TypedCluster'
      BY <1>1, <2>2, <2>4 DEF Inv, Typed, TypedCluster
    <2> QED
      BY <1>5, <1>6, <2>2, <2>4, <2>5, Queued DEF Inv, Typed
  <1> HIDE DEF d, b
  <1>9. CASE b.exists /\ Writes("budget", NoObject)
    BY <1>8, <1>9, NoObjectIs DEF Marked
  <1>10. CASE ~b.exists /\ Writes("budget", d)
    BY <1>3, <1>8, <1>10
  <1> QED
    BY <1>1, <1>7, <1>9, <1>10

LEMMA CheckRackPodTemplateInv ==
    ASSUME Inv, CheckRackPodTemplate
    PROVE  Inv'
  <1>1. /\ UNCHANGED <<spec, config, bare, ca, keystore, named, copy, dcHash, pod, obj, labelled,
                       lost, torn, edits, events>>
        /\ pc = "template" /\ template' = dcHash
        /\ \/ /\ template = dcHash /\ pc' = "podlabels"
              /\ UNCHANGED <<progress, queue, rc, built, todo, missing, got, made>>
           \/ progress' = "Updating" /\ Retry
    BY DEF CheckRackPodTemplate, user, secrets, history, bounds, stage
  <1>2. pc' # "copy" /\ queue' \in BOOLEAN /\ progress' \in {"none", "Updating", "Ready"}
    BY <1>1 DEF Retry, EndPass, Inv, Typed, TypedCluster
  <1>3. TypedCluster' /\ MarkInv'
    BY <1>1, <1>2 DEF Inv, Typed, TypedCluster, MarkInv, Marked, Hashed
  <1>4. TypedRollout' /\ HashInv'
    BY <1>1, <1>2, TemplateSet DEF Steps
  <1>5. CASE Retry
    BY <1>3, <1>4, <1>5, RetryInv
  <1>6. CASE /\ template = dcHash /\ pc' = "podlabels"
             /\ UNCHANGED <<progress, queue, rc, built, todo, missing, got, made>>
    <2>1. rc \in Specs
      BY <1>1 DEF Inv, ListsInv
    <2>2. TypedPass' /\ ListsInv'
      BY <1>1, <1>6, <2>1, NothingInHand DEF Steps, Stages
    <2>3. ObjectsInv'
      <3>1. Checked' \subseteq Checked /\ pc' \in Steps
        BY <1>1, <1>6 DEF Checked, Steps
      <3> QED
        BY <1>1, <1>6, <3>1, ObjectsGoOn DEF Inv, ObjectsInv, AfterLabels
    <2>4. ConfigInv'
      BY <1>1, <1>6 DEF Inv, ConfigInv, AfterConfig, AfterLabels, ConfigAsJSON
    <2> QED
      BY <1>3, <1>4, <2>2, <2>3, <2>4 DEF Inv, Typed
  <1> QED
    BY <1>1, <1>5, <1>6

LEMMA ReconcilePodsInv ==
    ASSUME Inv, ReconcilePods
    PROVE  Inv'
  <1>1. /\ UNCHANGED <<spec, config, bare, ca, keystore, named, copy, dcHash, template, pod, obj,
                       progress, rc, built, todo, missing, got, made, torn, edits>>
        /\ pc = "podlabels" /\ pc' = "ready"
    BY DEF ReconcilePods, user, secrets, rollout, stage
  <1>2. PICK failed \in SUBSET ({"pod", "pvc"} \ labelled) :
               /\ IF failed = {} THEN UNCHANGED events ELSE Event
               /\ labelled' = labelled \cup ({"pod", "pvc"} \ failed)
               /\ lost' = (lost \ {"pod", "pvc"}) \cup failed
               /\ queue' = (queue \/ "pvc" \in labelled' \ labelled)
    BY DEF ReconcilePods
  <1>3. events' \in 0..MaxEvents
    BY <1>2, EventIs DEF Inv, Typed, TypedCluster
  <1>4. /\ queue' \in BOOLEAN
        /\ queue => queue'
    BY <1>2
  <1>5. TypedCluster' /\ MarkInv'
    BY <1>1, <1>2, <1>3, <1>4
       DEF Inv, Typed, TypedCluster, MarkInv, Marked, Hashed, Resources
  <1>6. TypedRollout' /\ HashInv'
    BY <1>1, RolloutKept DEF Inv, Typed
  <1>7. TypedPass' /\ ListsInv'
    <2>1. rc \in Specs
      BY <1>1 DEF Inv, ListsInv
    <2> QED
      BY <1>1, <2>1, NothingInHand DEF Steps, Stages
  <1>8. ObjectsInv'
    <2>1. Checked' \subseteq Checked /\ pc' \in Steps
      BY <1>1 DEF Checked, Steps
    <2>2. lost \cap Objects \subseteq lost'
      BY <1>2 DEF Objects, Services
    <2>3. ~queue' => rc' = spec /\ "sts" \in labelled'
      BY <1>1, <1>2, <1>4 DEF Inv, ObjectsInv, AfterLabels
    <2>4. {"pod", "pvc"} \ lost' \subseteq labelled'
      BY <1>2
    <2> QED
      BY <1>1, <1>4, <2>1, <2>2, <2>3, <2>4, ObjectsGoOn DEF Inv
  <1>9. ConfigInv'
    <2>1. "config" \in lost => "config" \in lost'
      BY <1>2
    <2> QED
      BY <1>1, <1>4, <2>1 DEF Inv, ConfigInv, AfterConfig, AfterLabels, ConfigAsJSON
  <1> QED
    BY <1>5, <1>6, <1>7, <1>8, <1>9 DEF Inv, Typed

LEMMA FinishPassInv ==
    ASSUME Inv, FinishPass
    PROVE  Inv'
  <1>1. /\ UNCHANGED <<spec, config, bare, ca, keystore, named, copy, dcHash, template, pod, obj,
                       labelled, queue, lost, torn, edits, events>>
        /\ pc = "ready" /\ pc' = "idle" /\ progress' = "Ready" /\ EndPass
    BY DEF FinishPass, EndPass, user, secrets, rollout, history, bounds
  <1>2. TypedCluster' /\ MarkInv'
    BY <1>1 DEF Inv, Typed, TypedCluster, MarkInv, Marked, Hashed
  <1>3. TypedRollout' /\ HashInv'
    BY <1>1, RolloutKept DEF Inv, Typed
  <1>4. ObjectsInv'
    <2>1. Checked' = Checked
      BY <1>1 DEF Checked
    <2>2. Wanted' = Wanted /\ \A o \in Wanted : UpToDate(o)' <=> UpToDate(o)
      BY <1>1 DEF Wanted, UpToDate, Tracked
    <2> QED
      BY <1>1, <2>1, <2>2 DEF Inv, ObjectsInv, AfterLabels, Stages
  <1>5. ConfigInv'
    BY <1>1 DEF Inv, ConfigInv, AfterConfig, AfterLabels, ConfigAsJSON
  <1> QED
    BY <1>1, <1>2, <1>3, <1>4, <1>5, PassEnded DEF Inv, Typed

LEMMA StutterInv ==
    ASSUME Inv, UNCHANGED vars
    PROVE  Inv'
  <1>1. UNCHANGED <<spec, config, bare, ca, keystore, named, copy, dcHash, template, pod, obj,
                    labelled, progress, queue, pc, rc, built, todo, missing, got, made,
                    lost, torn, edits, events>>
    BY DEF vars, user, secrets, rollout, stage, history, bounds
  <1>2. TypedCluster' /\ MarkInv'
    BY <1>1 DEF Inv, Typed, TypedCluster, MarkInv, Marked, Hashed
  <1>3. TypedRollout' /\ HashInv'
    BY <1>1, RolloutKept DEF Inv, Typed
  <1>4. TypedPass' /\ ListsInv'
    BY <1>1, ListsKept DEF Inv, Typed
  <1>5. ObjectsInv'
    BY <1>1, ObjectsKept DEF Inv, UpToDate, Tracked
  <1>6. ConfigInv'
    BY <1>1, ConfigKept DEF Inv
  <1> QED
    BY <1>2, <1>3, <1>4, <1>5, <1>6 DEF Inv, Typed

LEMMA StepInv ==
    ASSUME Inv, [Next]_vars
    PROVE  Inv'
  <1>1. CASE Pass
    BY <1>1, BeginPassInv, StagesInv, CheckObjectInv, UpdateObjectInv, CreateObjectInv,
       CheckInternodeCredentialCreationInv, CreateCABootstrappingSecretInv,
       CheckConfigSecretInv, CheckConfigSecretPanicsInv, WriteConfigCopyInv, CheckRackCreationInv, CheckRackLabelsInv,
       CheckDcPodDisruptionBudgetInv, CheckRackPodTemplateInv, ReconcilePodsInv,
       FinishPassInv
       DEF Pass, CheckObjects, ReconcileAllRacks
  <1>2. CASE Abort \/ RollPod \/ RestartPod
    BY <1>2, AbortInv, StartPodInv
  <1>3. CASE EditSpecField \/ AnnotateDatacenter \/ \E keeps \in BOOLEAN : EditConfig(keeps)
    BY <1>3, EditSpecInv, EditConfigInv, AnnotateDatacenterInv
  <1>4. CASE \/ \E o \in Objects : LabelObject(o) \/ DeleteObject(o)
             \/ \E r \in Resources : StripLabel(r)
    BY <1>4, LabelObjectInv, DeleteObjectInv, StripLabelInv
  <1> QED
    BY <1>1, <1>2, <1>3, <1>4, StutterInv DEF Next

(* What holds of the objects, the config and the hash in every state.       *)
THEOREM Invariance == Spec => []Inv
  BY InitInv, StepInv, PTL DEF Spec
-----------------------------------------------------------------------------
(* The variables of ManagedObjects have their types.                        *)
THEOREM TypeCorrect == Spec => []TypeOK
  <1>1. Inv => TypeOK
    BY TypedIsTypeOK
  <1> QED
    BY <1>1, Invariance, PTL

(* calculateReconciliationActions: when no pass is asked for, every object  *)
(* that the specification wants is as it says, the racks' resources have    *)
(* their labels and the status says Ready, but for what no event reports.   *)
THEOREM SettledAlwaysMatches == Spec => []SettledMatchesSpec
  <1>1. Inv => SettledMatchesSpec
    <2> SUFFICES ASSUME Inv, Settled
                 PROVE  /\ \A o \in Wanted \ lost : UpToDate(o)
                        /\ Resources \ lost \subseteq labelled
                        /\ progress = "Ready"
      BY DEF SettledMatchesSpec
    <2>1. pc = "idle" /\ ~queue
      BY DEF Settled
    <2>2. Checked = Objects /\ Wanted \subseteq Objects
      BY <2>1 DEF Checked, Wanted, Objects, Services
    <2>3. /\ \A o \in (Wanted \cap Checked) \ lost : UpToDate(o)
          /\ "sts" \in labelled /\ {"pod", "pvc"} \ lost \subseteq labelled
          /\ progress = "Ready"
      BY <2>1 DEF Inv, ObjectsInv, AfterLabels
    <2> QED
      BY <2>2, <2>3 DEF Resources
  <1> QED
    BY <1>1, Invariance, PTL

(* updateConfigHashAnnotation: a pod that started with the datacenter's     *)
(* hash has the config of the copy, unless a pass was cut off between the   *)
(* writes of the two.                                                       *)
THEOREM HashAlwaysIdentifies == Spec => []HashIdentifiesConfig
  <1>1. Inv => HashIdentifiesConfig
    <2> SUFFICES ASSUME Inv, pod.hash = dcHash, dcHash # -1, "copy" \notin torn
                 PROVE  pod.config = copy.config
      BY DEF HashIdentifiesConfig
    <2>1. copy.version \in Nat
      BY DEF Inv, Typed, TypedRollout, CopyRecords
    <2>2. dcHash = copy.version - 1 /\ copy.exists
      BY <2>1, SMT DEF Inv, HashInv
    <2> QED
      BY <2>2 DEF Inv, HashInv
  <1> QED
    BY <1>1, Invariance, PTL

(* CheckConfigSecret, CheckRackPodTemplate: when no pass is asked for, the  *)
(* pods run the user's config as it is now.                                 *)
THEOREM SettledConfigAlwaysRuns == Spec => []SettledConfigRuns
  <1>1. Inv => SettledConfigRuns
    <2> SUFFICES ASSUME Inv, Settled, "copy" \notin torn, "config" \notin lost
                 PROVE  pod.config = ConfigAsJSON(spec)
      BY DEF SettledConfigRuns
    <2>1. pc = "idle" /\ ~queue
      BY DEF Settled
    <2>2. /\ copy.exists /\ copy.config = ConfigAsJSON(spec)
          /\ pod.hash = template /\ template = dcHash
      BY <2>1 DEF Inv, ConfigInv, AfterConfig, AfterLabels
    <2>3. dcHash = copy.version - 1
      BY <2>1 DEF Inv, HashInv
    <2> QED
      BY <2>2, <2>3 DEF Inv, HashInv
  <1> QED
    BY <1>1, Invariance, PTL

(* A step that is not the user's writes no object, or one that is in hand.  *)
LEMMA WhoWritesObjects ==
    ASSUME Inv, [Next]_vars, edits' = edits
    PROVE  \/ UpdateObject \/ CreateObject \/ CheckDcPodDisruptionBudget
           \/ UNCHANGED obj
  <1>1. edits \in Nat
    BY Constants, SMT DEF Inv, Typed, TypedCluster
  <1>2. ~Edit
    BY <1>1, SMT DEF Edit
  <1>3. CASE Pass
    BY <1>3 DEF Pass, CheckObjects, ReconcileAllRacks, BeginPass, CheckHeadlessServices,
       CheckAdditionalSeedEndpoints, CheckNetworkPolicies, StartStage, CheckObject,
       CheckInternodeCredentialCreation, CreateCABootstrappingSecret, CheckConfigSecret,
       CheckConfigSecretPanics, WriteConfigCopy, CheckRackCreation, CheckRackLabels, CheckRackPodTemplate,
       ReconcilePods, FinishPass
  <1>4. CASE Abort \/ RollPod \/ RestartPod
    BY <1>4 DEF Abort, RollPod, RestartPod, StartPod
  <1>5. ~EditSpecField /\ ~AnnotateDatacenter /\ ~ \E keeps \in BOOLEAN : EditConfig(keeps)
    BY <1>2 DEF EditSpecField, EditSpec, EditConfig, AnnotateDatacenter
  <1>6. /\ ~ \E o \in Objects : LabelObject(o) \/ DeleteObject(o)
        /\ ~ \E r \in Resources : StripLabel(r)
    BY <1>2 DEF LabelObject, DeleteObject, StripLabel
  <1> QED
    BY <1>3, <1>4, <1>5, <1>6 DEF Next, vars

(* ReconcileServices and the like: labels and annotations that a user added *)
(* to an object are taken away by the user only, or with the old disruption *)
(* budget.                                                                  *)
THEOREM UserLabelsAlwaysKept == Spec => UserLabelsKept
  <1> DEFINE Kept == \A o \in Objects \ {"budget"} :
                        obj[o].user /\ edits' = edits => obj'[o].user
  <1>1. Inv /\ [Next]_vars => [Kept]_vars
    <2> SUFFICES ASSUME Inv, [Next]_vars, NEW o \in Objects \ {"budget"}, obj[o].user,
                        edits' = edits
                 PROVE  obj'[o].user
      OBVIOUS
    <2>1. obj \in [Objects -> ObjRecords] /\ \A x \in Objects : ~obj[x].exists => obj[x] = NoObject
      BY DEF Inv, Typed, TypedCluster
    <2>2. CASE UpdateObject
      <3> DEFINE h == Head(todo)
      <3>1. /\ got # NoObject
            /\ \/ UNCHANGED obj
               \/ obj[h] = got /\ obj' = [obj EXCEPT ![h] = Merged(got, Desired(h, built))]
        BY <2>2 DEF UpdateObject, Writes
      <3>2. h \in Objects /\ built \in Specs
        BY <3>1, InStage, FirstTaken DEF Inv, Typed, TypedPass, ListsInv
      <3> HIDE DEF h
      <3>3. obj[h] = got => Merged(got, Desired(h, built)).user = got.user
        BY <2>1, <3>1, <3>2, MergedIs, SMT DEF Inv, MarkInv
      <3> QED
        BY <2>1, <3>1, <3>2, <3>3
    <2>3. CASE CreateObject
      <3> DEFINE h == Head(missing)
      <3>1. missing # <<>> /\ obj' = [obj EXCEPT ![h] = Desired(h, built)]
        BY <2>3 DEF CreateObject, Writes
      <3>2. h \in Objects /\ ~obj[h].exists
        BY <3>1, FirstTaken, SMT DEF Inv, Typed, TypedPass, ListsInv
      <3> HIDE DEF h
      <3>3. h # o
        BY <2>1, <3>2, NoObjectIs
      <3> QED
        BY <2>1, <3>1, <3>3
    <2>4. CASE CheckDcPodDisruptionBudget
      BY <2>1, <2>4 DEF CheckDcPodDisruptionBudget, Writes
    <2> QED
      BY <2>2, <2>3, <2>4, WhoWritesObjects
  <1> QED
    BY <1>1, Invariance, PTL DEF Spec, UserLabelsKept

=============================================================================
