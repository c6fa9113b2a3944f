----------------------------- MODULE PodWebhook -----------------------------
(***************************************************************************)
(* The pod webhook of Configurator call by call, for several pods at a     *)
(* time, beside the ConfigMap reconciler.  In Cluster the admission of a   *)
(* pod is one step, AdmitPod; here it is five calls to the API server, and *)
(* the other actors move in between.  The webhook moves the label current  *)
(* too, but of the versions of one ConfigMap whose name is fixed in a      *)
(* selector, whatever ConfigMap the pod mounts.                            *)
(***************************************************************************)
EXTENDS ConfigMapProperties

CONSTANT Pods    \* the pods under admission

VARIABLES
  hook,      \* per pod: the handler's next call, and its copies of the ConfigMap and of CCMs
  selected,  \* who has the name in the selector: this ConfigMap, another one, or none
  foreign    \* the other ConfigMap has a current version

hookVars == <<hook, selected, foreign>>
allVars == <<vars, hookVars>>

NoHook == [at |-> "idle", configmap |-> NoCM, ccm |-> NoCopy, currentCCM |-> NoCopy]

HookTypeOK ==
  /\ TypeOK
  /\ hook \in [Pods -> [at : {"idle", "getCCM", "update", "list", "drop", "raise"},
                        configmap : CMs \cup {NoCM}, ccm : Copies \cup {NoCopy},
                        currentCCM : Copies \cup {NoCopy}]]
  /\ selected \in {"self", "other", "none"}
  /\ foreign \in BOOLEAN

HookInit ==
  /\ Init
  /\ hook = [p \in Pods |-> NoHook]
  /\ selected \in {"self", "other", "none"}
  /\ foreign = (selected = "other")

-----------------------------------------------------------------------------
(* ConfigValidation and CopyCCMToCM.                                       *)

At(p, location) == hook[p].at = location

\* The handler of pod p goes on, or returns: its pod is admitted or denied.
Continues(p, handler) == hook' = [hook EXCEPT ![p] = handler]
Returns(p) == Continues(p, NoHook)

\* What the pods of the workloads carry: the version of a revision, or none when the
\* ConfigMap was not stamped yet as its workload was applied.
Carried == revisions \cup ({NoVersion} \cap {template[w] : w \in Workloads})

\* The ConfigMap is read for a pod that carries v.  If it is not stamped with v, the
\* copy is; without annotations that is a write to a nil map.
HookGet(p, v) ==
  /\ At(p, "idle") /\ v # cm.version /\ cm.annotated
  /\ Continues(p, [NoHook EXCEPT !.at = "getCCM", !.configmap = [cm EXCEPT !.version = v]])
  /\ UNCHANGED <<vars, selected, foreign>>

\* Mutant: the copy keeps its content.
BadHookGetCCM(p) ==
  LET v == hook[p].configmap.version IN
  /\ At(p, "getCCM")
  /\ \/ v \in Versions /\ Exists(v)
        /\ Continues(p, [hook[p] EXCEPT !.at = "update", !.ccm = [of |-> v, obj |-> ccm[v]]])
     \/ ~(v \in Versions /\ Exists(v)) /\ Returns(p)
  /\ UNCHANGED <<vars, selected, foreign>>

\* The version is read.  If there is none, the pod is denied.
HookGetCCM(p) ==
  LET v == hook[p].configmap.version IN
  /\ At(p, "getCCM")
  /\ \/ v \in Versions /\ Exists(v)
        /\ Continues(p, [hook[p] EXCEPT !.at = "update", !.ccm = [of |-> v, obj |-> ccm[v]],
                                        !.configmap.data = ccm[v].data])
     \/ ~(v \in Versions /\ Exists(v)) /\ Returns(p)
  /\ UNCHANGED <<vars, selected, foreign>>

\* Mutant: the update carries no resource version.
BadHookUpdate(p) ==
  /\ At(p, "update")
  /\ Spend("pods") /\ StoreCM([hook[p].configmap EXCEPT !.rv = cm.rv])
  /\ Continues(p, [hook[p] EXCEPT !.at = "list"])
  /\ UNCHANGED <<ccmVars, caches, queued, rollout, pc, locals, selected, foreign>>

\* The ConfigMap is updated.
HookUpdate(p) ==
  /\ At(p, "update")
  /\ hook[p].configmap.rv = cm.rv
  /\ Spend("pods") /\ StoreCM(hook[p].configmap)
  /\ Continues(p, [hook[p] EXCEPT !.at = "list"])
  /\ UNCHANGED <<ccmVars, caches, queued, rollout, pc, locals, selected, foreign>>

\* The versions with the fixed name and the label current are listed.  The first of an
\* empty list panics; the server survives that and the admission ends.
HookList(p) ==
  /\ At(p, "list")
  /\ \/ \E v \in CurrentIn(ccm) :
          /\ selected = "self"
          /\ Continues(p, [hook[p] EXCEPT !.at = "drop", !.currentCCM = [of |-> v, obj |-> ccm[v]]])
     \/ foreign /\ Continues(p, [hook[p] EXCEPT !.at = "drop"])
     \/ (selected = "self" => CurrentIn(ccm) = {}) /\ ~foreign /\ Returns(p)
  /\ UNCHANGED <<vars, selected, foreign>>

\* The copy is stored if it is one of the newest, or the call returns a conflict.
HookStores(p, copy, handler) ==
  /\ \/ copy.obj.rv = ccm[copy.of].rv /\ StoreCCM(copy) /\ Continues(p, handler)
     \/ copy.obj.rv # ccm[copy.of].rv /\ UNCHANGED ccmVars /\ Returns(p)
  /\ UNCHANGED <<cmVars, caches, queued, rollout, left, pc, locals>>

\* The listed version loses the label current, whosever it is.
HookDrop(p) ==
  /\ At(p, "drop")
  /\ LET on == [hook[p] EXCEPT !.at = "raise"] IN
     \/ selected = "self" /\ HookStores(p, Current(hook[p].currentCCM, FALSE), on)
        /\ UNCHANGED <<selected, foreign>>
     \/ selected = "other" /\ foreign' = FALSE /\ UNCHANGED <<vars, selected>>
        /\ IF foreign THEN Continues(p, on) ELSE Returns(p)

\* The version the pod carries gets it.
HookRaise(p) ==
  /\ At(p, "raise")
  /\ HookStores(p, Current(hook[p].ccm, TRUE), NoHook)
  /\ UNCHANGED <<selected, foreign>>

\* A call fails (a conflict included), or the webhook's process dies.
HookFails(p) ==
  /\ ~At(p, "idle")
  /\ Returns(p)
  /\ UNCHANGED <<vars, selected, foreign>>

ConfigValidation(p) ==
  \/ \E v \in Carried : HookGet(p, v)
  \/ HookGetCCM(p) \/ HookUpdate(p) \/ HookList(p) \/ HookDrop(p) \/ HookRaise(p)

-----------------------------------------------------------------------------
\* The others: all of Next but AdmitPod.
Others ==
  /\ \/ Controller \/ Crash \/ Deliver(DeliverCM) \/ Deliver(DeliverCCM)
     \/ (Resync \/ User \/ \E w \in Workloads : Apply(w)) /\ UNCHANGED <<pc, locals>>
  /\ UNCHANGED hookVars

HookNext == Others \/ \E p \in Pods : ConfigValidation(p) \/ HookFails(p)
HookSpec == HookInit /\ [][HookNext]_allVars

FairHookSpec ==
  /\ HookSpec
  /\ WF_allVars(Controller /\ UNCHANGED hookVars)
  /\ WF_allVars(Deliver(DeliverCM) /\ UNCHANGED hookVars)
  /\ WF_allVars(Deliver(DeliverCCM) /\ UNCHANGED hookVars)

\* Patient surroundings: the user waits until the reconciler and the webhook are at rest,
\* the admission of a pod begins when they are (and the bound lets it end), and no call of
\* the webhook fails.
Quiet == Settled /\ \A p \in Pods : At(p, "idle")
PatientHookNext ==
  \/ (Controller \/ Crash \/ Deliver(DeliverCM) \/ Deliver(DeliverCCM)) /\ UNCHANGED hookVars
  \/ Quiet /\ Others
  \/ \E p \in Pods : ConfigValidation(p) /\ (At(p, "idle") => Quiet /\ left.pods > 0)
PatientHookSpec == HookInit /\ [][PatientHookNext]_allVars

-----------------------------------------------------------------------------
\* When nobody has the name in the selector, the webhook's calls are one step as far as
\* the ConfigMap, its versions and the reconciler can tell: no interleaving makes two
\* pods, or a pod and the reconciler, mix contents and stamps.
HookIsAtomic == [][selected = "none" => [Next]_vars]_allVars

\* "getting current ccm", "remove current label from currentCCM": after a rollback the
\* version the ConfigMap is stamped with is the current one.
RollbackSettles == Quiet => SettledInStep
=============================================================================
