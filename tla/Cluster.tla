------------------------------ MODULE Cluster ------------------------------
(***************************************************************************)
(* What surrounds a reconciler of Configurator: one ConfigMap and its      *)
(* CustomConfigMaps (CCMs) in the API server, the informer caches the      *)
(* reconciler reads, its work queue, the workloads that mount the          *)
(* ConfigMap, and the people and webhooks that write to it.                *)
(*                                                                         *)
(* The API server stores an object only from a copy of its newest resource *)
(* version.  A cache lags it by the events still in its watch.             *)
(***************************************************************************)
EXTENDS Naturals, Sequences, FiniteSets

CONSTANTS
  Versions,       \* the names RandomSequence can return
  Data,           \* the contents of a ConfigMap (Data and BinaryData together)
  Deployments,    \* the Deployments that may mount the ConfigMap
  StatefulSets,   \* the StatefulSets that may mount it
  NoVersion,      \* the empty version
  NoData,         \* the content of what does not exist
  Bare,           \* a pod template without any annotation (a nil map)
  Absent,         \* a workload that is named in an annotation but does not exist
  MaxEdits,       \* bound: how often the user changes the ConfigMap
  MaxApplies,     \* bound: how often a workload is created or applied
  MaxPods,        \* bound: how often the pod webhook rolls the ConfigMap back
  MaxFaults,      \* bound: calls the API server fails for no reason of the caller's
  MaxCrashes      \* bound: crashes of the process other than by a panic

ASSUME ValuesAssumption ==
  /\ NoVersion \notin Versions
  /\ NoData \notin Data
  /\ {Bare, Absent} \cap (Versions \cup {NoVersion}) = {}
  /\ Deployments \cap StatefulSets = {}

ASSUME BoundsAssumption == {MaxEdits, MaxApplies, MaxPods, MaxFaults, MaxCrashes} \subseteq Nat

VARIABLES
  cm,                  \* the ConfigMap, in the API server
  ccm,                 \* the CustomConfigMaps, in the API server
  cmCache, ccmCache,   \* the informers' copies
  cmWatch, ccmWatch,   \* the events the informers have not seen, oldest first
  queued,              \* the ConfigMap's key is in the work queue
  template,            \* the version each workload's pod template carries
  revisions,           \* the versions a template has carried: the ReplicaSets
  left                 \* what is left of the bounds

cmVars == <<cm, cmWatch>>
ccmVars == <<ccm, ccmWatch>>
caches == <<cmCache, ccmCache>>
rollout == <<template, revisions>>
clusterVars == <<cmVars, ccmVars, caches, queued, rollout, left>>

-----------------------------------------------------------------------------
Workloads == Deployments \cup StatefulSets

\* A ConfigMap: its content and the annotations Configurator keeps on it.
CMs == [data : Data, annotated : BOOLEAN, version : Versions \cup {NoVersion},
        deployments : SUBSET Deployments, statefulsets : SUBSET StatefulSets,
        rv : Nat]
NoCM == [data |-> NoData, annotated |-> FALSE, version |-> NoVersion,
         deployments |-> {}, statefulsets |-> {}, rv |-> 0]

\* A CustomConfigMap: its content and its two labels.
CCMs == [data : Data, current : BOOLEAN, latest : BOOLEAN, rv : Nat \ {0}]
NoCCM == [data |-> NoData, current |-> FALSE, latest |-> FALSE, rv |-> 0]

\* A copy of a CCM, in an event or in a handler, with the version it is of.
Copies == [of : Versions, obj : CCMs]
NoCopy == [of |-> NoVersion, obj |-> NoCCM]

\* What a watch says of a CCM: a copy of what was stored, or that it was deleted.
Events == [of : Versions, obj : CCMs \cup {NoCCM}]

Exists(v) == ccm[v].rv > 0
CurrentIn(store) == {v \in Versions : store[v].current}
LatestIn(store) == {v \in Versions : store[v].latest}

ClusterTypeOK ==
  /\ cm \in CMs /\ cmCache \in CMs /\ cmWatch \in Seq(CMs)
  /\ ccm \in [Versions -> CCMs \cup {NoCCM}]
  /\ ccmCache \in [Versions -> CCMs \cup {NoCCM}] /\ ccmWatch \in Seq(Events)
  /\ queued \in BOOLEAN
  /\ template \in [Workloads -> Versions \cup {NoVersion, Bare, Absent}]
  /\ revisions \subseteq Versions
  /\ left \in [edits : Nat, applies : Nat, pods : Nat,
              faults : Nat, crashes : Nat]

\* A ConfigMap nobody versioned yet.  The workload webhooks may have written
\* annotations on it and an empty version on the workloads' templates.
ClusterInit ==
  /\ cm \in [data : Data, annotated : BOOLEAN, version : {NoVersion},
             deployments : SUBSET Deployments, statefulsets : SUBSET StatefulSets,
             rv : {1}]
  /\ ~cm.annotated => cm.deployments = {} /\ cm.statefulsets = {}
  /\ cmCache = cm /\ cmWatch = <<>>
  /\ ccm = [v \in Versions |-> NoCCM]
  /\ ccmCache = ccm /\ ccmWatch = <<>>
  /\ queued = TRUE
  /\ template \in [Workloads -> {NoVersion, Bare, Absent}]
  /\ revisions = {}
  /\ left = [edits |-> MaxEdits, applies |-> MaxApplies, pods |-> MaxPods,
             faults |-> MaxFaults, crashes |-> MaxCrashes]

-----------------------------------------------------------------------------
(* The API server.                                                         *)

Spend(what) ==
  /\ left[what] > 0
  /\ left' = [left EXCEPT ![what] = @ - 1]

\* Storing an object that is stored already changes nothing and sends no event.
StoreCM(copy) ==
  IF copy = cm THEN UNCHANGED cmVars
  ELSE /\ cm' = [copy EXCEPT !.rv = @ + 1]
       /\ cmWatch' = Append(cmWatch, cm')

StoreCCM(copy) ==
  IF copy.obj = ccm[copy.of] THEN UNCHANGED ccmVars
  ELSE /\ ccm' = [ccm EXCEPT ![copy.of] = [copy.obj EXCEPT !.rv = copy.obj.rv + 1]]
       /\ ccmWatch' = Append(ccmWatch, [of |-> copy.of, obj |-> ccm'[copy.of]])

\* How a client call can end.  "error" is any error that is no conflict; the server
\* may have carried the request out before the caller sees one.
Outcomes == {"ok", "conflict", "error"}

UpdateCM(copy, out) ==
  LET newest == copy.rv = cm.rv IN
  \/ out = "ok" /\ newest /\ StoreCM(copy) /\ UNCHANGED left
  \/ out = "conflict" /\ ~newest /\ UNCHANGED <<cmVars, left>>
  \/ /\ out = "error" /\ Spend("faults")
     /\ (newest /\ StoreCM(copy)) \/ UNCHANGED cmVars

\* A CCM that was deleted is not found, which is an error of no fault.
UpdateCCM(copy, out) ==
  LET newest == copy.obj.rv = ccm[copy.of].rv IN
  \/ out = "ok" /\ newest /\ StoreCCM(copy) /\ UNCHANGED left
  \/ out = "conflict" /\ ~newest /\ Exists(copy.of) /\ UNCHANGED <<ccmVars, left>>
  \/ out = "error" /\ ~Exists(copy.of) /\ UNCHANGED <<ccmVars, left>>
  \/ /\ out = "error" /\ Spend("faults")
     /\ (newest /\ StoreCCM(copy)) \/ UNCHANGED ccmVars

-----------------------------------------------------------------------------
(* The informers and the work queue.                                       *)

DeliverCM ==
  /\ cmWatch # <<>>
  /\ cmCache' = Head(cmWatch) /\ cmWatch' = Tail(cmWatch)
  /\ queued' = TRUE
  /\ UNCHANGED <<cm, ccmVars, ccmCache, rollout, left>>

DeliverCCM ==
  /\ ccmWatch # <<>>
  /\ LET event == Head(ccmWatch) IN ccmCache' = [ccmCache EXCEPT ![event.of] = event.obj]
  /\ ccmWatch' = Tail(ccmWatch)
  /\ UNCHANGED <<ccm, cmVars, cmCache, queued, rollout, left>>

\* The periodic resync of the informer queues the key.
Resync ==
  /\ ~queued /\ queued' = TRUE
  /\ UNCHANGED <<cmVars, ccmVars, caches, rollout, left>>

\* A new process lists everything before its first handler runs.
Relist ==
  /\ cmCache' = cm /\ cmWatch' = <<>> /\ ccmCache' = ccm /\ ccmWatch' = <<>>
  /\ queued' = TRUE
  /\ UNCHANGED <<cm, ccm>>

-----------------------------------------------------------------------------
(* The user and the admission webhooks.                                    *)

\* kubectl edit or apply: the annotations stay.
Edit(d) ==
  /\ d # cm.data /\ Spend("edits")
  /\ StoreCM([cm EXCEPT !.data = d])
  /\ UNCHANGED <<ccmVars, caches, queued, rollout>>

\* kubectl replace: the annotations are those of the user's file.
Replace(d, annotated) ==
  /\ Spend("edits")
  /\ StoreCM([NoCM EXCEPT !.data = d, !.annotated = annotated, !.rv = cm.rv])
  /\ UNCHANGED <<ccmVars, caches, queued, rollout>>

User ==
  \/ \E d \in Data : Edit(d)
  \/ \E d \in Data, annotated \in BOOLEAN : Replace(d, annotated)

\* The workload's webhook puts its name on the ConfigMap: beside the names of other
\* Deployments, in place of the name of another StatefulSet.
DeploymentNamed(w) == [cm EXCEPT !.annotated = TRUE, !.deployments = @ \cup {w}]
StatefulSetNamed(w) == [cm EXCEPT !.annotated = TRUE, !.statefulsets = {w}]

\* A workload whose template carries no version is created, applied or replaced: its
\* webhook names it on the ConfigMap and puts the version it finds there, which may be
\* empty, on the template.
Apply(w) ==
  /\ Spend("applies")
  /\ StoreCM(IF w \in Deployments THEN DeploymentNamed(w) ELSE StatefulSetNamed(w))
  /\ template' = [template EXCEPT ![w] = cm.version]
  /\ revisions' = revisions \cup ({cm.version} \ {NoVersion})
  /\ UNCHANGED <<ccmVars, caches, queued>>

\* The ConfigMap when its webhook has rolled it back to v.
RolledBack(v) == [cm EXCEPT !.version = v, !.data = ccm[v].data]

\* Mutant: the pod webhook writes the version and forgets the content.
BadAdmitPod(v) ==
  /\ v \in revisions /\ v # cm.version /\ cm.annotated /\ Exists(v)
  /\ Spend("pods")
  /\ StoreCM([cm EXCEPT !.version = v])
  /\ UNCHANGED <<ccmVars, caches, queued, rollout>>

\* A pod of a revision that carries v is admitted: the pod webhook reads the
\* ConfigMap and v from the API server and writes v and its content.
AdmitPod(v) ==
  /\ v \in revisions /\ v # cm.version /\ cm.annotated /\ Exists(v)
  /\ Spend("pods")
  /\ StoreCM(RolledBack(v))
  /\ UNCHANGED <<ccmVars, caches, queued, rollout>>
=============================================================================
