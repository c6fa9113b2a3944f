--------------------------- MODULE InitController ---------------------------
(***************************************************************************)
(* The init container of the manager's pod, beside the webhooks and the    *)
(* users: it walks over the Deployments and then over the StatefulSets,    *)
(* versions and stamps every ConfigMap and Secret it finds without a       *)
(* stamp, and puts the versions it made on the workload.  Any error ends   *)
(* the container, which runs again until a walk succeeds; the manager      *)
(* starts after that, and the next pod of the manager walks again.         *)
(***************************************************************************)
EXTENDS WorkloadWebhooks

VARIABLE init      \* the walk

vars == <<webhookVars, init>>

\* A workload as it was listed.
Items == [w : Workloads \cup {NoKey}, mounts : SUBSET Objects, ann : Annotations, rv : Nat]
NoItem == [w |-> NoKey, mounts |-> {}, ann |-> Bare, rv |-> 0]

\* The workloads listed and not walked over yet, the one under way, its mounts not looked
\* at yet, the copy of the one under way, and the versions made for the workload.
NoWalk == [at |-> "listDeployments", listed |-> {}, item |-> NoItem, todo |-> {},
           o |-> NoKey, copy |-> Unstamped, annotations |-> Bare]

InitTypeOK ==
  /\ WebhookTypeOK
  /\ init \in [at : {"listDeployments", "deployments", "listStatefulSets", "statefulSets",
                     "create", "update", "answer", "done"},
               listed : SUBSET Items, item : Items, todo : SUBSET Objects,
               o : Objects \cup {NoKey}, copy : Stamped, annotations : Annotations]

InstallInit == WebhookInit /\ init = NoWalk

-----------------------------------------------------------------------------
\* The container ends in an error and runs again.
InitExit == init' = NoWalk

\* Where the walk goes on after a workload.
Walking == IF init.item.w \in StatefulSets THEN "statefulSets" ELSE "deployments"

InitList(at, kind, next) ==
  /\ init.at = at
  /\ init' = [NoWalk EXCEPT !.at = next, !.listed =
      {[w |-> w, mounts |-> workload[w].mounts, ann |-> workload[w].ann, rv |-> workload[w].rv]
         : w \in {x \in kind : Exists(x)}}]
  /\ UNCHANGED webhookVars

InitListDeployments == InitList("listDeployments", Deployments, "deployments")
InitListStatefulSets == InitList("listStatefulSets", StatefulSets, "statefulSets")

\* The next workload of the list; at its end the StatefulSets are listed, or all is done.
InitNext ==
  /\ init.at \in {"deployments", "statefulSets"} /\ init.item = NoItem
  /\ \/ \E item \in init.listed :
          init' = [init EXCEPT !.item = item, !.listed = @ \ {item},
                               !.todo = Lacking(item.ann, item.mounts)]
     \/ /\ init.listed = {}
        /\ init' = [NoWalk EXCEPT !.at = IF init.at = "deployments" THEN "listStatefulSets"
                                                                   ELSE "done"]
  /\ UNCHANGED webhookVars

\* A mount whose version the template lacks is read.  If it is stamped it is left, and
\* so is the template.
InitGet ==
  /\ init.at \in {"deployments", "statefulSets"}
  /\ \E o \in init.todo :
       \/ o \in Missing /\ InitExit
       \/ /\ o \notin Missing /\ object[o].stamp # NoVersion
          /\ init' = [init EXCEPT !.todo = @ \ {o}]
       \/ /\ o \notin Missing /\ object[o].stamp = NoVersion
          /\ init' = [init EXCEPT !.at = "create", !.todo = @ \ {o}, !.o = o,
                                  !.copy = object[o]]
  /\ UNCHANGED webhookVars

\* Mutant: a StatefulSet is named where the Deployments are.
BadInitNamed(v) == [init.copy EXCEPT !.stamp = v, !.deployments = @ \cup {init.item.w}]

\* The copy as it is to be stored.  Names go beside names, those of StatefulSets too.
InitNamed(v) ==
  LET w == init.item.w IN
  [init.copy EXCEPT !.stamp = v,
                    !.deployments = @ \cup ({w} \cap Deployments),
                    !.statefulsets = @ \cup ({w} \cap StatefulSets)]

\* A version is made, and the stamp and the workload's name go on the copy.
InitCreate ==
  /\ init.at = "create"
  /\ \E v \in Versions :
       /\ NewVersion(init.o, v)
       /\ init' = [init EXCEPT !.at = "update", !.copy = InitNamed(v)]
  /\ UNCHANGED <<object, stamped, handler, workload, request, left>>

\* The copy is stored, and goes into the history of stamps.
InitStore ==
  /\ Newest(init.o, init.copy) /\ Store(init.o, init.copy)
  /\ stamped' = [stamped EXCEPT ![init.o] = @ \cup {init.copy.stamp}]

InitStored ==
  init' = [init EXCEPT !.at = Walking, !.o = NoKey, !.copy = Unstamped,
                       !.annotations[init.o] = init.copy.stamp]

\* Mutant: a conflict is retried with the same copy.
BadInitUpdate ==
  /\ init.at = "update"
  /\ \/ InitStore /\ InitStored
     \/ ~Newest(init.o, init.copy) /\ UNCHANGED <<init, object, stamped>>
  /\ UNCHANGED <<saved, handler, workload, request, left>>

\* Mutant: a conflict is not looked at.
HastyInitUpdate ==
  /\ init.at = "update"
  /\ InitStored
  /\ \/ InitStore
     \/ ~Newest(init.o, init.copy) /\ UNCHANGED <<object, stamped>>
  /\ UNCHANGED <<saved, handler, workload, request, left>>

\* A conflict ends the container.
InitUpdate ==
  /\ init.at = "update"
  /\ \/ InitStore /\ InitStored
     \/ ~Newest(init.o, init.copy) /\ InitExit /\ UNCHANGED <<object, stamped>>
  /\ UNCHANGED <<saved, handler, workload, request, left>>

\* The workload is updated if a version was made for it; the request is the webhook's.
InitWrite ==
  /\ init.at \in {"deployments", "statefulSets"}
  /\ init.item # NoItem /\ init.todo = {}
  /\ LET item == init.item
         made == [k \in Keys |-> IF init.annotations[k] # NoKey THEN init.annotations[k]
                                                               ELSE item.ann[k]] IN
     \/ /\ init.annotations = Bare /\ UNCHANGED request
        /\ init' = [init EXCEPT !.item = NoItem]
     \/ /\ init.annotations # Bare
        /\ Requests(InitClient, item.w, item.mounts, made, item.rv)
        /\ init' = [init EXCEPT !.at = "answer"]
  /\ UNCHANGED <<object, versionVars, workload, left>>

InitAnswer ==
  /\ init.at = "answer"
  /\ \/ /\ request[InitClient].at = "idle" /\ UNCHANGED request
        /\ init' = [init EXCEPT !.at = Walking, !.item = NoItem, !.annotations = Bare]
     \/ /\ request[InitClient].at = "rejected"
        /\ request' = [request EXCEPT ![InitClient] = NoRequest]
        /\ InitExit
  /\ UNCHANGED <<object, versionVars, workload, left>>

Walk ==
  \/ InitListDeployments \/ InitListStatefulSets \/ InitNext \/ InitGet
  \/ InitCreate \/ InitUpdate \/ InitWrite \/ InitAnswer

\* A call fails, or the container is killed.  What was asked for may be done all the same:
\* a version made, a copy stored, a request gone on with by another client's hand.
InitFails ==
  /\ init.at # "done" /\ InitExit
  /\ Spend("faults")
  /\ \/ init.at # "answer" /\ UNCHANGED <<object, saved, stamped, request>>
     \/ /\ init.at = "create" /\ UNCHANGED <<object, stamped, request>>
        /\ \E v \in Versions : NewVersion(init.o, v)
     \/ init.at = "update" /\ InitStore /\ UNCHANGED <<saved, request>>
     \/ /\ init.at = "answer" /\ UNCHANGED <<object, saved, stamped>>
        /\ \/ request' = [request EXCEPT ![InitClient] = NoRequest]
           \/ /\ request[InitClient].at \in {"visit", "update"}
              /\ \E r \in Clients \ {InitClient} :
                   /\ request[r].at = "idle"
                   /\ request' = [request EXCEPT ![r] = request[InitClient],
                                                 ![InitClient] = NoRequest]
  /\ UNCHANGED <<handler, workload>>

\* A new pod of the manager walks again.
InitAgain ==
  /\ init.at = "done"
  /\ init' = NoWalk
  /\ UNCHANGED webhookVars

-----------------------------------------------------------------------------
InstallNext ==
  \/ Walk \/ InitFails \/ InitAgain
  \/ /\ \/ \E r \in Clients : Webhook(r) \/ Outages(r)
        \/ \E r \in Clients \ {InitClient} : Client(r)
        \/ \E o \in Objects : Reconcile(o) \/ RollBack(o)
     /\ UNCHANGED init

InstallSpec == InstallInit /\ [][InstallNext]_vars

\* Kubernetes runs the container until it succeeds, and its requests are answered.
FairInstallSpec ==
  /\ InstallSpec
  /\ WF_vars(Walk)
  /\ WF_vars(Webhook(InitClient) /\ UNCHANGED init)

-----------------------------------------------------------------------------
\* A Deployment whose template carries a version of what it mounts is named there, where
\* the reconciler looks for the workloads to roll out: requests that run side by side,
\* the walk and outages of the webhook lose no name.
DeploymentsNamed ==
  \A w \in Deployments, o \in Objects :
    o \in workload[w].mounts /\ workload[w].ann[o] # NoKey => w \in object[o].deployments

\* Templates carry no version that the object was never stamped with, and objects none
\* that was never made: what a walk, a webhook or a handler made or read before it came to
\* grief goes no further.
TemplatesCarrySaved ==
  \A o \in Objects :
    /\ stamped[o] \subseteq saved[o]
    /\ {object[o].stamp} \cup {workload[w].ann[o] : w \in Workloads}
         \subseteq stamped[o] \cup {NoVersion, NoKey}

\* A template that the webhook went over carries the key of exactly what is
\* mounted, whatever it carried before and whichever requests came between.
TemplatesMatchMounts ==
  [][\A w \in Workloads : \A r \in Clients :
       PatchWorkload(r) /\ workload[w]' # workload[w]
         => {o \in Objects : workload'[w].ann[o] # NoKey} = workload'[w].mounts]_vars

\* A stamp gives way to a version that was never stamped only when the one who stores it
\* is a reconciler that has read the stamp.  Walk and reconciler may both make an object's
\* first version; the one that comes second does not put its own in the place of the
\* first, and neither does a webhook that read the object before.
StampsSeen ==
  [][\A o \in Objects :
       object[o].stamp # NoVersion /\ object[o].stamp # object'[o].stamp
         => object'[o].stamp \in stamped[o] \/ handler[o].copy.stamp = object[o].stamp]_vars

\* The init container succeeds some day, and the manager starts, if nobody mounts what
\* does not exist: conflicts with the webhooks and failed calls do not stop it for ever.
InitEnds == [](\A w \in Workloads : workload[w].mounts \cap Missing = {}) => <>(init.at = "done")

\* "check the version of ccm and cs; version available add annotation if not create new
\* version": after the walk the workloads carry versions of all they mount.
WalkAnnotates ==
  init.at = "done" =>
    \A w \in Workloads : \A o \in workload[w].mounts \ Missing : workload[w].ann[o] \in Versions
=============================================================================
