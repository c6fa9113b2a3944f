-------------------------- MODULE WorkloadWebhooks --------------------------
(***************************************************************************)
(* The webhooks of Deployments and StatefulSets.  A request to store a     *)
(* workload goes to the webhook first, which visits each ConfigMap and     *)
(* Secret the workload mounts and whose version its template lacks: it     *)
(* reads the object, writes the workload's name on it and remembers the    *)
(* version it is stamped with.  Its answer is a patch of the template's    *)
(* annotations.  Requests run side by side, and each call is a step.  The   *)
(* reconcilers stamp the same objects, and ask to store workloads as well. *)
(***************************************************************************)
EXTENDS Naturals, FiniteSets

CONSTANTS
  ConfigMaps, Secrets,
  Missing,         \* the ConfigMaps and Secrets that workloads mount and nobody created
  Deployments, StatefulSets,
  Owners,          \* keys of annotations that are the owner's, on a template
  Lookalikes,      \* those of them that contain "ccm-" or "cs-", as in "metrics-path"
  Sync,            \* the key config-sync-controller
  Versions, NoVersion,
  Written,         \* the value of any other annotation
  NoKey,           \* the value of an annotation that is not there
  Clients,         \* the requests under way
  InitClient,      \* the one of them that is the init controller's
  MaxRequests,     \* bound: how often a user creates or changes a workload
  MaxStamps,       \* bound: how often a reconciler sets about stamping an object
  MaxFaults        \* bound: calls that fail for no reason of the caller's

Objects == ConfigMaps \cup Secrets
Workloads == Deployments \cup StatefulSets
Keys == Objects \cup Owners \cup {Sync}
Values == Versions \cup {NoVersion, Written, NoKey}

ASSUME WorkloadsAssumption ==
  /\ ConfigMaps \cap Secrets = {} /\ Deployments \cap StatefulSets = {}
  /\ Missing \subseteq Objects /\ Lookalikes \subseteq Owners
  /\ Objects \cap Owners = {} /\ Sync \notin Objects \cup Owners
  /\ NoVersion # Written /\ NoVersion # NoKey /\ Written # NoKey
  /\ Versions \cap {NoVersion, Written, NoKey} = {}
  /\ InitClient \in Clients
  /\ {MaxRequests, MaxStamps, MaxFaults} \subseteq Nat

VARIABLES
  object,      \* the ConfigMaps and Secrets: Configurator's annotations on them
  saved,       \* the versions each has
  stamped,     \* history: those of them it has been stamped with
  handler,     \* per object: where the reconciler stands that handles it
  workload,    \* the workloads: what they mount, and their templates' annotations
  request,     \* per request: where its webhook stands
  left         \* what is left of the bounds

versionVars == <<saved, stamped, handler>>
webhookVars == <<object, versionVars, workload, request, left>>

Annotations == [Keys -> Values]
Bare == [k \in Keys |-> NoKey]
Stamped == [stamp : Versions \cup {NoVersion}, deployments : SUBSET Deployments,
            statefulsets : SUBSET StatefulSets, rv : Nat]
Unstamped == [stamp |-> NoVersion, deployments |-> {}, statefulsets |-> {}, rv |-> 0]

\* A request: the workload as it is to be stored, the resource version it is based on,
\* the mounts still to visit, the copy of the one under way, and what the patch adds.
NoRequest == [at |-> "idle", w |-> NoKey, mounts |-> {}, ann |-> Bare, rv |-> 0,
              todo |-> {}, o |-> NoKey, copy |-> Unstamped, added |-> Bare]

\* A handler: the copy it has read, and the version it is going to stamp it with.
NoHandler == [at |-> "idle", copy |-> Unstamped, v |-> NoVersion]

WebhookTypeOK ==
  /\ object \in [Objects -> Stamped]
  /\ {saved, stamped} \subseteq [Objects -> SUBSET Versions]
  /\ handler \in [Objects ->
       [at : {"idle", "create", "stamp", "restamp", "deployments", "statefulsets"},
        copy : Stamped, v : Versions \cup {NoVersion}]]
  /\ workload \in [Workloads -> [mounts : SUBSET Objects, ann : Annotations, rv : Nat]]
  /\ request \in [Clients ->
       [at : {"idle", "visit", "update", "rejected"}, w : Workloads \cup {NoKey},
        mounts : SUBSET Objects, ann : Annotations, rv : Nat, todo : SUBSET Objects,
        o : Objects \cup {NoKey}, copy : Stamped, added : Annotations]]
  /\ left \in [requests : Nat, stamps : Nat, faults : Nat]

\* Configurator was not installed so far.
WebhookInit ==
  /\ object = [o \in Objects |-> [Unstamped EXCEPT !.rv = 1]]
  /\ saved = [o \in Objects |-> {}] /\ stamped = saved
  /\ handler = [o \in Objects |-> NoHandler]
  /\ \E exist \in SUBSET Workloads, mounted \in [Workloads -> SUBSET Objects],
        keys \in [Workloads -> SUBSET Owners] :
       workload = [w \in Workloads |->
         IF w \in exist
         THEN [mounts |-> mounted[w], rv |-> 1,
               ann |-> [k \in Keys |-> IF k \in keys[w] THEN Written ELSE NoKey]]
         ELSE [mounts |-> {}, ann |-> Bare, rv |-> 0]]
  /\ request = [r \in Clients |-> NoRequest]
  /\ left = [requests |-> MaxRequests, stamps |-> MaxStamps, faults |-> MaxFaults]

-----------------------------------------------------------------------------
Exists(w) == workload[w].rv > 0

Spend(what) ==
  /\ left[what] > 0
  /\ left' = [left EXCEPT ![what] = @ - 1]

\* The API server stores a copy of the newest version, and a change makes a newer one.
Newest(o, copy) == copy.rv = object[o].rv
Store(o, copy) ==
  IF copy = object[o] THEN UNCHANGED object
  ELSE object' = [object EXCEPT ![o] = [copy EXCEPT !.rv = copy.rv + 1]]

\* The annotation is not there, or empty.
Lacking(ann, mounts) == {o \in mounts : ann[o] \in {NoKey, NoVersion}}

\* A client asks to store w, from a copy of version rv.
Requests(r, w, mounts, ann, rv) ==
  /\ request[r].at = "idle"
  /\ request' = [request EXCEPT ![r] =
       [NoRequest EXCEPT !.at = "visit", !.w = w, !.mounts = mounts, !.ann = ann,
                         !.rv = rv, !.todo = Lacking(ann, mounts)]]

\* The request is over.  A user need not know how it ended.
Accepted(r) == request' = [request EXCEPT ![r] = NoRequest]
Rejected(r) ==
  request' = [request EXCEPT ![r] =
    IF r = InitClient THEN [NoRequest EXCEPT !.at = "rejected"] ELSE NoRequest]

-----------------------------------------------------------------------------
(* createDeploymentPatch and createStatefulsetPatch.                       *)

\* The next mount is read.
VisitMount(r) ==
  /\ request[r].at = "visit"
  /\ \E o \in request[r].todo :
       \/ o \in Missing /\ Rejected(r)
       \/ /\ o \notin Missing
          /\ request' = [request EXCEPT ![r].at = "update", ![r].o = o, ![r].copy = object[o]]
  /\ UNCHANGED <<object, versionVars, workload, left>>

\* A Deployment's name goes beside the names of other Deployments, a StatefulSet's in
\* the place of another StatefulSet's.
Named(copy, w) ==
  IF w \in Deployments THEN [copy EXCEPT !.deployments = @ \cup {w}]
  ELSE IF w \in copy.statefulsets THEN copy
  ELSE [copy EXCEPT !.statefulsets = {w}]

\* Mutant: the update carries no resource version.
BadUpdateMount(r) ==
  /\ request[r].at = "update"
  /\ LET o == request[r].o
         copy == Named(request[r].copy, request[r].w) IN
     /\ Store(o, [copy EXCEPT !.rv = object[o].rv])
     /\ request' = [request EXCEPT ![r].at = "visit", ![r].todo = @ \ {o}, ![r].o = NoKey,
                                      ![r].copy = Unstamped, ![r].added[o] = copy.stamp]
  /\ UNCHANGED <<versionVars, workload, left>>

\* The named copy is stored, and the version goes into the patch.
UpdateMount(r) ==
  /\ request[r].at = "update"
  /\ LET o == request[r].o
         copy == Named(request[r].copy, request[r].w) IN
     \/ /\ Newest(o, copy) /\ Store(o, copy)
        /\ request' = [request EXCEPT ![r].at = "visit", ![r].todo = @ \ {o}, ![r].o = NoKey,
                                         ![r].copy = Unstamped, ![r].added[o] = copy.stamp]
     \/ ~Newest(o, copy) /\ Rejected(r) /\ UNCHANGED object
  /\ UNCHANGED <<versionVars, workload, left>>

\* A call of the webhook fails: the request is denied.
WebhookFails(r) ==
  /\ request[r].at \in {"visit", "update"}
  /\ Spend("faults")
  /\ Rejected(r)
  /\ UNCHANGED <<object, versionVars, workload>>

-----------------------------------------------------------------------------
(* updateAnnotation: the JSON patch, and what the API server makes of it.  *)

\* What the patch removes: the versions of what is not mounted any more, and every key
\* that looks like one.
Stale(mounts, ann) ==
  {k \in (Objects \ mounts) \cup Lookalikes : ann[k] # NoKey}

\* Mutant: what is not mounted any more stays.
BadPatched(ann, added, stale) ==
  [k \in Keys |-> IF added[k] # NoKey THEN added[k] ELSE ann[k]]

\* The patch adds and replaces, then removes.
Patched(ann, added, stale) ==
  [k \in Keys |-> IF k \in stale THEN NoKey ELSE IF added[k] # NoKey THEN added[k] ELSE ann[k]]

\* When nothing is kept the patch begins with a new set of annotations, and cannot
\* remove from it what was in the old one.
Applicable(ann, added, stale) ==
  \/ {k \in Keys : ann[k] # NoKey} \ stale # {}
  \/ \A k \in stale : added[k] # NoKey

\* The API server stores the workload, unless it changed meanwhile.
Persist(r, ann) ==
  LET w == request[r].w
      new == [mounts |-> request[r].mounts, ann |-> ann, rv |-> request[r].rv] IN
  \/ /\ new.rv = workload[w].rv
     /\ IF new = workload[w] /\ Exists(w) THEN UNCHANGED workload
        ELSE workload' = [workload EXCEPT ![w] = [new EXCEPT !.rv = new.rv + 1]]
     /\ Accepted(r)
  \/ new.rv # workload[w].rv /\ Rejected(r) /\ UNCHANGED workload

\* All mounts are visited; the request is patched, and marked as Configurator's.
PatchWorkload(r) ==
  /\ request[r].at = "visit" /\ request[r].todo = {}
  /\ LET ann == request[r].ann
         added == [request[r].added EXCEPT ![Sync] = Written]
         stale == Stale(request[r].mounts, ann) IN
     \/ Applicable(ann, added, stale) /\ Persist(r, Patched(ann, added, stale))
     \/ ~Applicable(ann, added, stale) /\ Rejected(r) /\ UNCHANGED workload
  /\ UNCHANGED <<object, versionVars, left>>

\* The webhook cannot be reached: its failure policy is to go on without it.
Unreachable(r) ==
  /\ request[r].at \in {"visit", "update"}
  /\ Spend("faults")
  /\ Persist(r, request[r].ann)
  /\ UNCHANGED <<object, versionVars>>

Webhook(r) == VisitMount(r) \/ UpdateMount(r) \/ PatchWorkload(r)
Outages(r) == WebhookFails(r) \/ Unreachable(r)

-----------------------------------------------------------------------------
(* The reconcilers, as far as stamps and templates go: the labels, whose   *)
(* part it is to tell edits from rollbacks, are ConfigMapController's      *)
(* matter.  What a lagging cache shows is a copy read earlier.             *)

HandlerGoes(o, at) == handler' = [handler EXCEPT ![o].at = at]

\* An object is handled that has no stamp, or another content than its version.
Read(o) ==
  /\ o \notin Missing /\ handler[o].at = "idle" /\ Spend("stamps")
  /\ handler' = [handler EXCEPT ![o] = [NoHandler EXCEPT !.at = "create", !.copy = object[o]]]
  /\ UNCHANGED <<object, saved, stamped, workload, request>>

NewVersion(o, v) == v \notin saved[o] /\ saved' = [saved EXCEPT ![o] = @ \cup {v}]

\* Without a stamp the version is the first, or one that there is, or takes the place of
\* one that there is; with a stamp it takes the place of the version stamped.
MakeVersion(o) ==
  /\ handler[o].at = "create"
  /\ \E v \in Versions :
       LET Going(at) == handler' = [handler EXCEPT ![o].at = at, ![o].v = v] IN
       \/ handler[o].copy.stamp = NoVersion /\ NewVersion(o, v) /\ Going("stamp")
       \/ handler[o].copy.stamp = NoVersion /\ v \in saved[o] /\ UNCHANGED saved /\ Going("stamp")
       \/ saved[o] # {} /\ NewVersion(o, v) /\ Going("restamp")
  /\ UNCHANGED <<object, stamped, workload, request, left>>

\* The copy is stored with its stamp.
Stamp(o) ==
  /\ handler[o].at \in {"stamp", "restamp"} /\ Newest(o, handler[o].copy)
  /\ Store(o, [handler[o].copy EXCEPT !.stamp = handler[o].v])
  /\ stamped' = [stamped EXCEPT ![o] = @ \cup {handler[o].v}]

\* A version that took another one's place is rolled out, Deployments first.
StampObject(o) ==
  /\ Stamp(o)
  /\ IF handler[o].at = "stamp" THEN handler' = [handler EXCEPT ![o] = NoHandler]
     ELSE HandlerGoes(o, IF handler[o].copy.deployments = {} THEN "statefulsets" ELSE "deployments")
  /\ UNCHANGED <<saved, workload, request, left>>

\* The one workload of its kind that the copy names is read, and is to be stored with the
\* version on its template.
RollOut(r, o, w) ==
  /\ Exists(w) /\ workload[w].ann # Bare
  /\ \/ /\ handler[o].at = "deployments" /\ handler[o].copy.deployments = {w}
        /\ HandlerGoes(o, "statefulsets")
     \/ /\ handler[o].at = "statefulsets" /\ handler[o].copy.statefulsets = {w}
        /\ handler' = [handler EXCEPT ![o] = NoHandler]
  /\ Requests(r, w, workload[w].mounts, [workload[w].ann EXCEPT ![o] = handler[o].v],
              workload[w].rv)
  /\ UNCHANGED <<object, saved, stamped, workload, left>>

\* A handler ends anywhere, in a conflict, an error or a panic, or with nothing more to do.
\* A call that was under way may have been carried out.
HandlerEnds(o) ==
  /\ handler[o].at # "idle"
  /\ handler' = [handler EXCEPT ![o] = NoHandler]
  /\ \/ UNCHANGED <<object, saved, stamped>>
     \/ /\ handler[o].at = "create" /\ UNCHANGED <<object, stamped>>
        /\ \E v \in Versions : NewVersion(o, v)
     \/ Stamp(o) /\ UNCHANGED saved
  /\ UNCHANGED <<workload, request, left>>

Reconcile(o) == Read(o) \/ MakeVersion(o) \/ StampObject(o) \/ HandlerEnds(o)

-----------------------------------------------------------------------------
(* The clients.                                                            *)

\* kubectl create or replace, with the annotations of the user's file, which are the
\* owner's: a file that was taken from a cluster, with Configurator's keys, is left out.
Create(r, w) ==
  /\ Spend("requests")
  /\ \E mounts \in SUBSET Objects, keys \in SUBSET Owners :
       Requests(r, w, mounts, [k \in Keys |-> IF k \in keys THEN Written ELSE NoKey],
                workload[w].rv)
  /\ UNCHANGED <<object, versionVars, workload>>

\* kubectl edit or apply: the annotations stay.
Edit(r, w) ==
  /\ Exists(w) /\ Spend("requests")
  /\ \E mounts \in SUBSET Objects \ {workload[w].mounts} :
       Requests(r, w, mounts, workload[w].ann, workload[w].rv)
  /\ UNCHANGED <<object, versionVars, workload>>

\* A workload is rolled back, and the webhook of its pod stamps an earlier version.
RollBack(o) ==
  /\ o \notin Missing /\ Spend("requests")
  /\ \E v \in stamped[o] \ {object[o].stamp} : Store(o, [object[o] EXCEPT !.stamp = v])
  /\ UNCHANGED <<versionVars, workload, request>>

Client(r) ==
  \/ \E w \in Workloads : Create(r, w) \/ Edit(r, w)
  \/ \E o \in Objects, w \in Workloads : RollOut(r, o, w)
=============================================================================
