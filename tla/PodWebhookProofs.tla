-------------------------- MODULE PodWebhookProofs --------------------------
(***************************************************************************)
(* Proofs about the pod webhook beside the ConfigMap reconciler, for any   *)
(* number of pods under admission at a time.                               *)
(***************************************************************************)
EXTENDS PodWebhook, ConfigMapRefinement, PatientProofs

(* What a webhook knows is about the ConfigMap map, the versions in store, *)
(* the revisions revs and the selector sel, which it takes as parameters.  *)

\* A copy of the ConfigMap that can still be stored is the ConfigMap, but for what the
\* webhook has changed on it.
Fresh(copy, map) ==
  /\ copy.rv <= map.rv
  /\ copy.rv = map.rv =>
       /\ map.annotated /\ copy.version # map.version
       /\ copy = [map EXCEPT !.version = copy.version, !.data = copy.data]

\* A copy of a version that exists has its content.
Held(copy, store) ==
  /\ copy \in Copies
  /\ store[copy.of].rv > 0 /\ copy.obj.data = store[copy.of].data

\* What the webhook of one pod knows.
PodSide(h, map, store, revs, sel) ==
  /\ h.at = "getCCM" => /\ h.configmap \in CMs /\ h.configmap.version \in revs \cup {NoVersion}
                        /\ Fresh(h.configmap, map)
                        /\ h.configmap.rv = map.rv => h.configmap.data = map.data
  /\ h.at = "update" => /\ h.configmap \in CMs /\ h.configmap.version \in revs
                        /\ h.configmap.data = store[h.configmap.version].data
                        /\ Fresh(h.configmap, map)
  /\ h.at \in {"update", "list", "drop", "raise"} => Held(h.ccm, store)
  /\ h.at = "drop" /\ sel = "self" => Held(h.currentCCM, store)
  /\ h.at \in {"drop", "raise"} => sel # "none"

Hooks == [at : {"idle", "getCCM", "update", "list", "drop", "raise"},
          configmap : CMs \cup {NoCM}, ccm : Copies \cup {NoCopy}, currentCCM : Copies \cup {NoCopy}]

\* The inductive invariant: the reconciler's, and what each webhook knows.
HookInv ==
  /\ IInv
  /\ hook \in [Pods -> Hooks] /\ selected \in {"self", "other", "none"} /\ foreign \in BOOLEAN
  /\ foreign => selected = "other"
  /\ \A p \in Pods : PodSide(hook[p], cm, ccm, revisions, selected)

\* What a step does to the ConfigMap and the revisions: a change makes a newer one, and a
\* revision stays.
Ages == (cm' = cm \/ cm'.rv > cm.rv) /\ revisions \subseteq revisions'

-----------------------------------------------------------------------------
(* What stays true of a webhook when the others move.                      *)

\* A ConfigMap that is stored is newer than the one before.
LEMMA StoredIsNewer ==
  ASSUME cm \in CMs, NEW copy \in CMs, copy.rv = cm.rv, StoreCM(copy)
  PROVE  cm' = cm \/ cm'.rv > cm.rv
<1>1. CASE copy = cm
  BY <1>1 DEF StoreCM, cmVars
<1>2. CASE copy # cm
  <2>1. cm' = [copy EXCEPT !.rv = @ + 1]
    BY <1>2 DEF StoreCM
  <2> QED BY <2>1 DEF CMs
<1> QED BY <1>1, <1>2

\* So does an update of it.
LEMMA UpdatedIsNewer ==
  ASSUME cm \in CMs, NEW copy \in CMs, NEW out, UpdateCM(copy, out)
  PROVE  cm' = cm \/ cm'.rv > cm.rv
BY StoredIsNewer DEF UpdateCM, cmVars

\* The reconciler's steps.
LEMMA ControllerAges == ASSUME IInv, Controller PROVE Ages
<1> USE DEF IInv
<1>1. cm \in CMs /\ cmCache \in CMs
  BY DEF CMSide
<1>2. CASE AdoptVersion
  <2>1. PICK v \in Versions, out \in Outcomes :
          UpdateCM([cmCache EXCEPT !.version = v, !.annotated = TRUE], out)
    BY <1>2 DEF AdoptVersion
  <2>2. [cmCache EXCEPT !.version = v, !.annotated = TRUE] \in CMs
    BY <1>1 DEF CMs
  <2>3. UNCHANGED revisions
    BY <1>2 DEF AdoptVersion, rollout
  <2> QED BY <1>1, <2>1, <2>2, <2>3, UpdatedIsNewer DEF Ages
<1>3. CASE RollBack
  <2> DEFINE copy == [cmCache EXCEPT !.data = ccmCache[cmCache.version].data]
  <2>1. PICK v \in Versions, out \in Outcomes :
          Starts(TRUE, {v}) /\ ccmCache[cmCache.version].rv > 0 /\ UpdateCM(copy, out)
    BY <1>3 DEF RollBack
  <2>2. cmCache.version \in Versions
    BY <1>1, <2>1 DEF CMs, Starts
  <2>3. ccmCache[cmCache.version] \in CCMs
    BY <2>1, <2>2, Listed DEF CCMSide
  <2>4. copy \in CMs
    BY <1>1, <2>3 DEF CMs, CCMs
  <2>5. UNCHANGED revisions
    BY <1>3 DEF RollBack, rollout
  <2> HIDE DEF copy
  <2> QED BY <1>1, <2>1, <2>4, <2>5, UpdatedIsNewer DEF Ages
<1>4. CASE StampFirst \/ StampNew
  <2>1. my \in CMs
    BY <1>4 DEF HandlerSide, HandlerKnows, StampFirst, StampNew, CMStep
  <2>2. PICK out \in Outcomes : UpdateCM(my, out)
    BY <1>4 DEF StampFirst, StampNew, CMStep
  <2>3. UNCHANGED revisions
    BY <1>4 DEF StampFirst, StampNew, CMStep, rollout
  <2> QED BY <1>1, <2>1, <2>2, <2>3, UpdatedIsNewer DEF Ages
<1>5. CASE RollDeployments \/ RollStatefulSets
  <2>1. UNCHANGED cm
    BY <1>5 DEF RollDeployments, RollStatefulSets, cmVars
  <2>2. revisions \subseteq revisions'
    BY <1>5 DEF RollDeployments, RollStatefulSets, Roll, Carry, rollout
  <2> QED BY <2>1, <2>2 DEF Ages
<1>6. CASE \/ FirstVersion \/ NewVersion \/ RollBackMissing \/ NothingToDo \/ RaiseCurrent
           \/ DropOld \/ DropLatest \/ UndoDrop \/ CreateNew \/ RevertCurrent \/ RevertLatest
           \/ Panics
  <2>1. UNCHANGED <<cm, revisions>>
    BY <1>6 DEF FirstVersion, NewVersion, RollBackMissing, NothingToDo, RaiseCurrent, DropOld,
         DropLatest, UndoDrop, CreateNew, RevertCurrent, RevertLatest, CCMStep, Panics,
         DropLatestPanics, StampNewPanics, RollPanics, Restart, Relist, cmVars, rollout
  <2> QED BY <2>1 DEF Ages
<1> QED BY <1>2, <1>3, <1>4, <1>5, <1>6 DEF Controller, Calls

\* The steps of the others.
LEMMA NextAges == ASSUME IInv, [Next]_vars PROVE Ages
<1>1. cm \in CMs
  BY DEF IInv, CMSide
<1>2. CASE Deliver(DeliverCM) \/ Deliver(DeliverCCM) \/ Crash \/ Resync \/ UNCHANGED vars
  <2>1. UNCHANGED <<cm, revisions>>
    BY <1>2 DEF Deliver, DeliverCM, DeliverCCM, Crash, Restart, Relist, Resync, vars, clusterVars,
         cmVars, rollout
  <2> QED BY <2>1 DEF Ages
<1>3. ASSUME NEW d \in Data, Edit(d) PROVE Ages
  <2>1. [cm EXCEPT !.data = d] \in CMs /\ [cm EXCEPT !.data = d].rv = cm.rv
    BY <1>1 DEF CMs
  <2> QED BY <1>1, <1>3, <2>1, StoredIsNewer DEF Edit, Ages, rollout
<1>4. ASSUME NEW d \in Data, NEW annotated \in BOOLEAN, Replace(d, annotated) PROVE Ages
  <2> DEFINE copy == [NoCM EXCEPT !.data = d, !.annotated = annotated, !.rv = cm.rv]
  <2>1. copy \in CMs /\ copy.rv = cm.rv
    BY <1>1 DEF CMs, NoCM
  <2>2. StoreCM(copy) /\ UNCHANGED revisions
    BY <1>4 DEF Replace, rollout
  <2> HIDE DEF copy
  <2> QED BY <1>1, <2>1, <2>2, StoredIsNewer DEF Ages
<1>5. ASSUME NEW w \in Workloads, Apply(w) PROVE Ages
  <2> DEFINE copy == IF w \in Deployments THEN DeploymentNamed(w) ELSE StatefulSetNamed(w)
  <2>1. copy \in CMs /\ copy.rv = cm.rv
    BY <1>1 DEF CMs, Workloads, DeploymentNamed, StatefulSetNamed
  <2>2. StoreCM(copy) /\ revisions \subseteq revisions'
    BY <1>5 DEF Apply
  <2> HIDE DEF copy
  <2> QED BY <1>1, <2>1, <2>2, StoredIsNewer DEF Ages
<1>6. ASSUME NEW v \in Versions, AdmitPod(v) PROVE Ages
  <2> DEFINE copy == [cm EXCEPT !.version = v, !.data = ccm[v].data]
  <2>1. ccm[v] \in CCMs
    BY <1>6 DEF IInv, CCMSide, AdmitPod, RolledBack, Exists, NoCCM
  <2>2. copy \in CMs /\ copy.rv = cm.rv
    BY <1>1, <2>1 DEF CMs, CCMs
  <2>3. StoreCM(copy) /\ UNCHANGED revisions
    BY <1>6 DEF AdmitPod, RolledBack, rollout
  <2> HIDE DEF copy
  <2> QED BY <1>1, <2>2, <2>3, StoredIsNewer DEF Ages
<1> QED BY <1>2, <1>3, <1>4, <1>5, <1>6, ControllerAges DEF Next, Surroundings, User

\* A webhook's knowledge is not disturbed by versions that are added, newer ConfigMaps
\* and more revisions.
LEMMA PodStays ==
  ASSUME IInv, NEW h \in Hooks, NEW sel, PodSide(h, cm, ccm, revisions, sel), Grows, Ages, cm' \in CMs
  PROVE  PodSide(h, cm', ccm', revisions', sel)
<1>1. cm.rv \in Nat /\ cm'.rv \in Nat
  BY DEF IInv, CMSide, CMs
<1>2. ASSUME NEW copy \in CMs, Fresh(copy, cm)
      PROVE  Fresh(copy, cm') /\ (copy.rv = cm'.rv => cm' = cm)
  <2>1. copy.rv \in Nat /\ copy.rv <= cm.rv
    BY <1>2 DEF CMs, Fresh
  <2>2. copy.rv <= cm'.rv /\ (copy.rv = cm'.rv => cm' = cm)
    BY <1>1, <2>1 DEF Ages
  <2> QED BY <1>2, <2>2 DEF Fresh
<1>3. ASSUME NEW copy, Held(copy, ccm)
      PROVE  Held(copy, ccm')
  BY <1>3 DEF Held, Grows, Copies, Exists
<1>4. revisions \subseteq Versions /\ \A v \in revisions : Exists(v) /\ ccm'[v].data = ccm[v].data
  BY DEF IInv, WorkloadSide, RevisionsSaved, Grows
<1>5. h.at = "getCCM" => /\ h.configmap \in CMs /\ h.configmap.version \in revisions' \cup {NoVersion}
                         /\ Fresh(h.configmap, cm')
                         /\ h.configmap.rv = cm'.rv => h.configmap.data = cm'.data
  BY <1>2 DEF PodSide, Ages
<1>6. h.at = "update" => /\ h.configmap \in CMs /\ h.configmap.version \in revisions'
                         /\ h.configmap.data = ccm'[h.configmap.version].data
                         /\ Fresh(h.configmap, cm')
  BY <1>2, <1>4 DEF PodSide, Ages
<1> QED BY <1>3, <1>5, <1>6 DEF PodSide

-----------------------------------------------------------------------------
(* The steps of the webhook.                                               *)

\* The invariant after a step of the webhook of pod p.
LEMMA PodMoves ==
  ASSUME HookInv, NEW p \in Pods, NEW h \in Hooks, Continues(p, h),
         PodSide(h, cm', ccm', revisions', selected),
         IInv', Grows, Ages, UNCHANGED selected, foreign' \in BOOLEAN, foreign' => foreign
  PROVE  HookInv'
<1>1. cm' \in CMs
  BY DEF IInv, CMSide
<1>2. ASSUME NEW q \in Pods PROVE PodSide(hook'[q], cm', ccm', revisions', selected)
  <2>1. CASE q = p
    BY <2>1 DEF HookInv, Continues
  <2>2. CASE q # p
    <3>1. hook'[q] = hook[q] /\ hook[q] \in Hooks /\ PodSide(hook[q], cm, ccm, revisions, selected)
      BY <2>2 DEF HookInv, Continues
    <3>2. IInv
      BY DEF HookInv
    <3> QED BY <1>1, <3>1, <3>2, PodStays
  <2> QED BY <2>1, <2>2
<1>3. hook' \in [Pods -> Hooks]
  BY DEF HookInv, Continues
<1> QED BY <1>2, <1>3 DEF HookInv

\* A handler that is over knows nothing.
LEMMA IdleKnows ==
  ASSUME NEW map, NEW store, NEW revs, NEW sel
  PROVE  NoHook \in Hooks /\ PodSide(NoHook, map, store, revs, sel)
BY DEF NoHook, Hooks, PodSide

\* A step of the webhook that stores nothing.
LEMMA PodReads ==
  ASSUME HookInv, NEW p \in Pods, NEW h \in Hooks, Continues(p, h),
         PodSide(h, cm, ccm, revisions, selected), UNCHANGED <<vars, selected, foreign>>
  PROVE  HookInv'
<1>1. UNCHANGED <<cm, ccm, revisions>>
  BY DEF vars, clusterVars, cmVars, ccmVars, rollout
<1>2. IInv' /\ Grows /\ Ages
  BY NextInv, NextAges DEF HookInv
<1> QED BY <1>1, <1>2, PodMoves DEF HookInv

\* The ConfigMap is read.
LEMMA HookGetInv ==
  ASSUME HookInv, NEW p \in Pods, NEW v \in Carried, HookGet(p, v)
  PROVE  HookInv'
<1> DEFINE copy == [cm EXCEPT !.version = v]
           h == [NoHook EXCEPT !.at = "getCCM", !.configmap = copy]
<1>1. cm \in CMs /\ cm.rv \in Nat
  BY DEF HookInv, IInv, CMSide, CMs
<1>2. v \in revisions \cup {NoVersion} /\ revisions \subseteq Versions
  BY DEF Carried, HookInv, IInv, WorkloadSide
<1>3. cm.annotated /\ v # cm.version /\ Continues(p, h) /\ UNCHANGED <<vars, selected, foreign>>
  BY DEF HookGet
<1>4. /\ copy \in CMs /\ copy.version = v /\ copy.rv = cm.rv /\ copy.data = cm.data
      /\ copy = [cm EXCEPT !.version = copy.version, !.data = copy.data]
  BY <1>1, <1>2 DEF CMs
<1> HIDE DEF copy
<1>5. Fresh(copy, cm)
  BY <1>1, <1>3, <1>4 DEF Fresh
<1>6. h \in Hooks /\ h.at = "getCCM" /\ h.configmap = copy
  BY <1>4, IdleKnows DEF Hooks, NoHook
<1>7. PodSide(h, cm, ccm, revisions, selected)
  BY <1>2, <1>4, <1>5, <1>6 DEF PodSide
<1> QED BY <1>3, <1>6, <1>7, PodReads

\* The version is read, or the pod denied.
LEMMA HookGetCCMInv ==
  ASSUME HookInv, NEW p \in Pods, HookGetCCM(p)
  PROVE  HookInv'
<1> DEFINE v == hook[p].configmap.version
           h == [hook[p] EXCEPT !.at = "update", !.ccm = [of |-> v, obj |-> ccm[v]],
                                !.configmap.data = ccm[v].data]
<1>1. /\ hook[p] \in Hooks /\ PodSide(hook[p], cm, ccm, revisions, selected)
      /\ hook[p].at = "getCCM" /\ UNCHANGED <<vars, selected, foreign>>
  BY DEF HookInv, HookGetCCM, At
<1>2. CASE Returns(p)
  BY <1>1, <1>2, IdleKnows, PodReads DEF Returns
<1>3. CASE v \in Versions /\ Exists(v) /\ Continues(p, h)
  <2>1. ccm[v] \in CCMs /\ ccm[v].data \in Data
    BY <1>3 DEF HookInv, IInv, CCMSide, CCMs, NoCCM, Exists
  <2>2. /\ hook[p].configmap \in CMs /\ v \in revisions \cup {NoVersion}
        /\ Fresh(hook[p].configmap, cm)
    BY <1>1 DEF PodSide
  <2>3. v \in revisions
    BY <1>3, <2>2, ValuesAssumption
  <2> DEFINE configmap == [hook[p].configmap EXCEPT !.data = ccm[v].data]
             c == [of |-> v, obj |-> ccm[v]]
  <2>4. configmap \in CMs /\ configmap.version = v /\ configmap.data = ccm[v].data
    BY <2>1, <2>2 DEF CMs
  <2>5. Fresh(configmap, cm)
    <3>1. cm \in CMs
      BY DEF HookInv, IInv, CMSide
    <3> QED BY <2>1, <2>2, <3>1 DEF Fresh, CMs
  <2>6. Held(c, ccm)
    BY <1>3, <2>1 DEF Held, Copies, Exists
  <2>7. c \in Copies
    BY <2>6 DEF Held
  <2>8. h = [hook[p] EXCEPT !.at = "update", !.ccm = c, !.configmap = configmap]
    BY <1>1 DEF Hooks
  <2> HIDE DEF configmap, c, h
  <2>9. h \in Hooks /\ h.at = "update" /\ h.ccm = c /\ h.configmap = configmap
    BY <1>1, <2>4, <2>7, <2>8 DEF Hooks
  <2>10. PodSide(h, cm, ccm, revisions, selected)
    BY <2>3, <2>4, <2>5, <2>6, <2>9 DEF PodSide
  <2> QED BY <1>1, <1>3, <2>9, <2>10, PodReads
<1> QED BY <1>2, <1>3 DEF HookGetCCM

\* The update of the ConfigMap is the one step AdmitPod.
LEMMA HookUpdateAdmits ==
  ASSUME HookInv, NEW p \in Pods, HookUpdate(p)
  PROVE  [Next]_vars /\ \E v \in Versions : AdmitPod(v) /\ UNCHANGED <<pc, locals>>
<1> DEFINE copy == hook[p].configmap
           v == copy.version
<1>1. PodSide(hook[p], cm, ccm, revisions, selected) /\ hook[p].at = "update"
  BY DEF HookInv, HookUpdate, At
<1>2. /\ copy \in CMs /\ v \in revisions /\ copy.data = ccm[v].data
      /\ cm.annotated /\ v # cm.version
      /\ copy = [cm EXCEPT !.version = v, !.data = ccm[v].data]
  BY <1>1 DEF PodSide, Fresh, HookUpdate
<1>3. v \in Versions /\ Exists(v)
  BY <1>2 DEF HookInv, IInv, WorkloadSide, RevisionsSaved
<1>4. /\ Spend("pods") /\ StoreCM(copy)
      /\ UNCHANGED <<ccmVars, caches, queued, rollout, pc, locals>>
  BY DEF HookUpdate
<1>5. AdmitPod(v)
  BY <1>2, <1>3, <1>4 DEF AdmitPod, RolledBack
<1>6. \E u \in Versions : AdmitPod(u) /\ UNCHANGED <<pc, locals>>
  BY <1>3, <1>4, <1>5
<1> QED BY <1>6 DEF Next, Surroundings

\* What the webhook learns of the version it is going to raise stays right.
LEMMA HookUpdateInv ==
  ASSUME HookInv, NEW p \in Pods, HookUpdate(p)
  PROVE  HookInv'
<1> DEFINE h == [hook[p] EXCEPT !.at = "list"]
<1>1. /\ hook[p] \in Hooks /\ PodSide(hook[p], cm, ccm, revisions, selected)
      /\ hook[p].at = "update" /\ UNCHANGED <<selected, foreign>> /\ Continues(p, h)
  BY DEF HookInv, HookUpdate, At
<1>2. IInv' /\ Grows /\ Ages
  BY HookUpdateAdmits, NextInv, NextAges DEF HookInv
<1>3. h \in Hooks /\ h.at = "list" /\ h.ccm = hook[p].ccm
  BY <1>1 DEF Hooks
<1> HIDE DEF h
<1>4. PodSide(hook[p], cm', ccm', revisions', selected)
  BY <1>1, <1>2, PodStays DEF HookInv, IInv, CMSide
<1>5. PodSide(h, cm', ccm', revisions', selected)
  BY <1>1, <1>3, <1>4 DEF PodSide
<1> QED BY <1>1, <1>2, <1>3, <1>5, PodMoves DEF HookInv

\* What the list of current versions shows is a version of the one that has the name.
LEMMA HookListInv ==
  ASSUME HookInv, NEW p \in Pods, HookList(p)
  PROVE  HookInv'
<1>1. /\ hook[p] \in Hooks /\ PodSide(hook[p], cm, ccm, revisions, selected)
      /\ hook[p].at = "list" /\ UNCHANGED <<vars, selected, foreign>>
  BY DEF HookInv, HookList, At
<1>2. Held(hook[p].ccm, ccm)
  BY <1>1 DEF PodSide
<1>3. CASE Returns(p)
  BY <1>1, <1>3, IdleKnows, PodReads DEF Returns
<1>4. ASSUME NEW v \in CurrentIn(ccm), selected = "self",
             Continues(p, [hook[p] EXCEPT !.at = "drop", !.currentCCM = [of |-> v, obj |-> ccm[v]]])
      PROVE  HookInv'
  <2> DEFINE c == [of |-> v, obj |-> ccm[v]]
             h == [hook[p] EXCEPT !.at = "drop", !.currentCCM = c]
  <2>1. v \in Versions /\ ccm[v] \in CCMs
    BY DEF CurrentIn, HookInv, IInv, CCMSide, NoCCM
  <2>2. Held(c, ccm) /\ c \in Copies
    BY <2>1 DEF Held, Copies, CCMs
  <2> HIDE DEF c
  <2>3. h \in Hooks /\ h.at = "drop" /\ h.ccm = hook[p].ccm /\ h.currentCCM = c
    BY <1>1, <2>2 DEF Hooks
  <2>4. Continues(p, h)
    BY <1>4 DEF c
  <2> HIDE DEF h
  <2>5. PodSide(h, cm, ccm, revisions, selected)
    BY <1>2, <1>4, <2>2, <2>3 DEF PodSide
  <2> QED BY <1>1, <2>3, <2>4, <2>5, PodReads
<1>5. CASE foreign /\ Continues(p, [hook[p] EXCEPT !.at = "drop"])
  <2> DEFINE h == [hook[p] EXCEPT !.at = "drop"]
  <2>1. h \in Hooks /\ h.at = "drop" /\ h.ccm = hook[p].ccm
    BY <1>1 DEF Hooks
  <2>2. selected = "other"
    BY <1>5 DEF HookInv
  <2>3. PodSide(h, cm, ccm, revisions, selected)
    BY <1>2, <2>1, <2>2 DEF PodSide
  <2> QED BY <1>1, <1>5, <2>1, <2>3, PodReads
<1> QED BY <1>3, <1>4, <1>5 DEF HookList

\* A label call of the webhook, seen from the reconciler.
LEMMA HookStoresInv ==
  ASSUME HookInv, NEW p \in Pods, NEW copy, Held(copy, ccm), NEW is \in BOOLEAN, NEW h,
         HookStores(p, Current(copy, is), h)
  PROVE  IInv' /\ Grows /\ Ages /\ StoreStep /\ (Continues(p, h) \/ Returns(p))
<1> DEFINE relabelled == Current(copy, is)
<1>1. copy \in Copies /\ Agrees(copy.of, copy.obj)
  BY DEF Held, Agrees, Exists
<1>2. relabelled \in Copies /\ Agrees(relabelled.of, relabelled.obj)
  BY <1>1, Relabelled
<1>3. UNCHANGED <<cmVars, caches, queued, rollout, left, pc, locals>>
  BY DEF HookStores
<1>4. UpdateCCM(relabelled, "ok") \/ UNCHANGED ccmVars
  BY <1>3 DEF HookStores, UpdateCCM
<1> HIDE DEF relabelled
<1>5. Ages
  BY <1>3 DEF Ages, cmVars, rollout
<1>6. CASE UpdateCCM(relabelled, "ok")
  <2>1. CMSide' /\ CCMSide' /\ WorkloadSide' /\ left' \in Budgets /\ Grows
    BY <1>2, <1>3, <1>6, CCMCall DEF HookInv, IInv
  <2>2. HandlerSide' /\ queued' \in BOOLEAN
    BY <1>3, <2>1, SameHandler DEF HookInv, IInv
  <2>3. StoreStep
    BY <1>2, <1>3, <1>6, RelabelCall DEF HookInv, IInv, cmVars
  <2> QED BY <1>5, <2>1, <2>2, <2>3 DEF IInv, HookStores
<1>7. CASE UNCHANGED ccmVars
  <2>1. HandlerSide' /\ queued' \in BOOLEAN
    BY <1>3, <1>7, SameGrows, SameHandler DEF HookInv, IInv, ccmVars
  <2>2. IInv' /\ Grows
    BY <1>3, <1>7, <2>1, NoCallInv DEF HookInv
  <2>3. StoreStep
    BY <1>3, <1>7, NoStore DEF cmVars, ccmVars
  <2> QED BY <1>5, <2>2, <2>3 DEF HookStores
<1> QED BY <1>4, <1>6, <1>7

\* A version loses the label current, or the other ConfigMap's does.
LEMMA HookDropInv ==
  ASSUME HookInv, NEW p \in Pods, HookDrop(p)
  PROVE  HookInv' /\ StoreStep /\ selected # "none"
<1> DEFINE h == [hook[p] EXCEPT !.at = "raise"]
<1>1. /\ hook[p] \in Hooks /\ PodSide(hook[p], cm, ccm, revisions, selected) /\ hook[p].at = "drop"
  BY DEF HookInv, HookDrop, At
<1>2. h \in Hooks /\ h.at = "raise" /\ h.ccm = hook[p].ccm
  BY <1>1 DEF Hooks
<1>3. Held(h.ccm, ccm) /\ selected # "none"
  BY <1>1, <1>2 DEF PodSide
<1>4. PodSide(h, cm, ccm, revisions, selected)
  BY <1>2, <1>3 DEF PodSide
<1>5. CASE /\ selected = "self" /\ HookStores(p, Current(hook[p].currentCCM, FALSE), h)
           /\ UNCHANGED <<selected, foreign>>
  <2>1. Held(hook[p].currentCCM, ccm)
    BY <1>1, <1>5 DEF PodSide
  <2> HIDE DEF h
  <2>2. IInv' /\ Grows /\ Ages /\ StoreStep /\ (Continues(p, h) \/ Returns(p))
    BY <1>5, <2>1, HookStoresInv
  <2>3. PodSide(h, cm', ccm', revisions', selected)
    BY <1>2, <1>4, <2>2, PodStays DEF HookInv, IInv, CMSide
  <2>4. HookInv'
    BY <1>2, <1>5, <2>2, <2>3, IdleKnows, PodMoves DEF Returns, HookInv
  <2> QED BY <1>3, <2>2, <2>4
<1>6. CASE /\ selected = "other" /\ foreign' = FALSE /\ UNCHANGED <<vars, selected>>
           /\ Continues(p, h) \/ Returns(p)
  <2>1. UNCHANGED <<cm, ccm, revisions>>
    BY <1>6 DEF vars, clusterVars, cmVars, ccmVars, rollout
  <2>2. IInv' /\ Grows /\ Ages
    BY <1>6, NextInv, NextAges DEF HookInv
  <2> HIDE DEF h
  <2>3. HookInv'
    BY <1>2, <1>4, <1>6, <2>1, <2>2, IdleKnows, PodMoves DEF Returns, HookInv
  <2> QED BY <1>3, <2>1, <2>3, NoStore
<1> QED BY <1>5, <1>6 DEF HookDrop

\* The version the pod carries gets the label current.
LEMMA HookRaiseInv ==
  ASSUME HookInv, NEW p \in Pods, HookRaise(p)
  PROVE  HookInv' /\ StoreStep /\ selected # "none"
<1>1. /\ hook[p] \in Hooks /\ PodSide(hook[p], cm, ccm, revisions, selected) /\ hook[p].at = "raise"
      /\ HookStores(p, Current(hook[p].ccm, TRUE), NoHook) /\ UNCHANGED <<selected, foreign>>
  BY DEF HookInv, HookRaise, At
<1>2. Held(hook[p].ccm, ccm) /\ selected # "none"
  BY <1>1 DEF PodSide
<1>3. IInv' /\ Grows /\ Ages /\ StoreStep /\ Continues(p, NoHook)
  BY <1>1, <1>2, HookStoresInv DEF Returns
<1>4. HookInv'
  BY <1>1, <1>3, IdleKnows, PodMoves DEF HookInv
<1> QED BY <1>2, <1>3, <1>4

-----------------------------------------------------------------------------
(* All steps.                                                              *)

\* A step of the others leaves what the webhooks know right.
LEMMA OthersInv ==
  ASSUME HookInv, [Next]_vars, UNCHANGED hookVars
  PROVE  HookInv'
<1>1. IInv' /\ Grows /\ Ages /\ UNCHANGED <<hook, selected, foreign>>
  BY NextInv, NextAges DEF HookInv, hookVars
<1>2. ASSUME NEW p \in Pods PROVE PodSide(hook[p], cm', ccm', revisions', selected)
  <2>1. IInv /\ hook[p] \in Hooks /\ PodSide(hook[p], cm, ccm, revisions, selected) /\ cm' \in CMs
    BY <1>1 DEF HookInv, IInv, CMSide
  <2> QED BY <1>1, <2>1, PodStays
<1> QED BY <1>1, <1>2 DEF HookInv

\* Every step keeps the invariant, does one of a few things to the version store, and is
\* a step of the reconciler's world if nobody has the name in the selector.
LEMMA HookNextInv ==
  ASSUME HookInv, [HookNext]_allVars
  PROVE  HookInv' /\ StoreStep /\ (selected = "none" => [Next]_vars)
<1>0. ASSUME [Next]_vars PROVE StoreStep
  BY <1>0, NextStores DEF HookInv
<1>1. CASE Others \/ UNCHANGED allVars
  <2>1. [Next]_vars /\ UNCHANGED hookVars
    BY <1>1 DEF Others, allVars, Next, Surroundings
  <2> QED BY <2>1, <1>0, OthersInv
<1>2. ASSUME NEW p \in Pods, NEW v \in Carried, HookGet(p, v)
      PROVE  HookInv' /\ [Next]_vars
  BY <1>2, HookGetInv DEF HookGet
<1>3. ASSUME NEW p \in Pods, HookGetCCM(p) \/ HookList(p) \/ HookFails(p)
      PROVE  HookInv' /\ [Next]_vars
  <2>1. CASE HookGetCCM(p)
    BY <2>1, HookGetCCMInv DEF HookGetCCM
  <2>2. CASE HookList(p)
    BY <2>2, HookListInv DEF HookList
  <2>3. CASE HookFails(p)
    BY <2>3, IdleKnows, PodReads DEF HookFails, Returns
  <2> QED BY <1>3, <2>1, <2>2, <2>3
<1>4. ASSUME NEW p \in Pods, HookUpdate(p)
      PROVE  HookInv' /\ [Next]_vars
  BY <1>4, HookUpdateInv, HookUpdateAdmits
<1>5. ASSUME NEW p \in Pods, HookDrop(p) \/ HookRaise(p)
      PROVE  HookInv' /\ StoreStep /\ selected # "none"
  BY <1>5, HookDropInv, HookRaiseInv
<1> QED BY <1>0, <1>1, <1>2, <1>3, <1>4, <1>5 DEF HookNext, ConfigValidation

-----------------------------------------------------------------------------
(* Patient surroundings.                                                   *)

OneAtATime == \A p, q \in Pods : ~At(p, "idle") /\ ~At(q, "idle") => p = q

\* The webhook has read the ConfigMap and not yet written it.
UnderWay(p) == At(p, "getCCM") \/ At(p, "update")

\* One pod at a time; and where nobody has the name in the selector, the invariant of the
\* reconciler, and nothing moves between the webhook's read and its update.
PatientHookInv ==
  /\ HookInv /\ OneAtATime
  /\ selected = "none" =>
       PatientInv /\ (Unharmed => \A p \in Pods : UnderWay(p) => Settled)

\* What a step of the webhook of pod p leaves to the others.
LEMMA PodContinues ==
  ASSUME HookInv, NEW p \in Pods, ConfigValidation(p)
  PROVE  /\ UNCHANGED selected
         /\ \A q \in Pods \ {p} : hook'[q] = hook[q]
         /\ HookUpdate(p) \/ HookDrop(p) \/ HookRaise(p) \/ UNCHANGED vars
         /\ UnderWay(p)' => UnderWay(p) \/ At(p, "idle")
         /\ UnderWay(p)' => UNCHANGED vars
<1>1. hook \in [Pods -> Hooks]
  BY DEF HookInv
<1>2. CASE (\E v \in Carried : HookGet(p, v)) \/ HookGetCCM(p) \/ HookList(p)
  <2>1. /\ UNCHANGED <<vars, selected>> /\ \E h : Continues(p, h)
        /\ At(p, "list") => HookList(p)
    BY <1>2 DEF HookGet, HookGetCCM, HookList, Returns, At
  <2>2. At(p, "list") => ~UnderWay(p)'
    <3> SUFFICES ASSUME HookList(p) PROVE \E h : h.at \in {"drop", "idle"} /\ Continues(p, h)
      BY <1>1, <2>1 DEF Continues, UnderWay, At
    <3>1. /\ \A c : [hook[p] EXCEPT !.at = "drop", !.currentCCM = c].at = "drop"
          /\ [hook[p] EXCEPT !.at = "drop"].at = "drop" /\ NoHook.at = "idle"
      BY <1>1 DEF Hooks, NoHook
    <3>2. CASE Returns(p)
      BY <3>1, <3>2 DEF Returns
    <3>3. ASSUME NEW c, Continues(p, [hook[p] EXCEPT !.at = "drop", !.currentCCM = c])
          PROVE  \E h : h.at \in {"drop", "idle"} /\ Continues(p, h)
      <4> DEFINE h == [hook[p] EXCEPT !.at = "drop", !.currentCCM = c]
      <4>1. h.at = "drop" /\ Continues(p, h)
        BY <3>1, <3>3
      <4> HIDE DEF h
      <4> QED BY <4>1
    <3>4. CASE Continues(p, [hook[p] EXCEPT !.at = "drop"])
      <4> DEFINE h == [hook[p] EXCEPT !.at = "drop"]
      <4>1. h.at = "drop" /\ Continues(p, h)
        BY <3>1, <3>4
      <4> HIDE DEF h
      <4> QED BY <4>1
    <3> QED BY <3>2, <3>3, <3>4 DEF HookList
  <2>3. At(p, "idle") \/ At(p, "getCCM") \/ At(p, "list")
    BY <1>2 DEF HookGet, HookGetCCM, HookList
  <2> QED BY <1>1, <2>1, <2>2, <2>3 DEF Continues, UnderWay
<1>3. CASE HookUpdate(p)
  BY <1>1, <1>3 DEF HookUpdate, Continues, UnderWay, At, Hooks
<1>4. CASE HookDrop(p) \/ HookRaise(p)
  <2>1. UNCHANGED selected /\ \E h : h.at \in {"raise", "idle"} /\ Continues(p, h)
    <3> DEFINE on == [hook[p] EXCEPT !.at = "raise"]
    <3>1. on.at = "raise" /\ NoHook.at = "idle"
      BY <1>1 DEF Hooks, NoHook
    <3>2. Continues(p, on) \/ Continues(p, NoHook)
      BY <1>4 DEF HookDrop, HookRaise, HookStores, Returns
    <3>3. UNCHANGED selected
      BY <1>4 DEF HookDrop, HookRaise
    <3> HIDE DEF on
    <3> QED BY <3>1, <3>2, <3>3
  <2> QED BY <1>1, <1>4, <2>1 DEF Continues, UnderWay, At
<1> QED BY <1>2, <1>3, <1>4 DEF ConfigValidation

\* Where no key, event or handler is under way, the reconciler has nothing to do.
LEMMA SettledRests ==
  ASSUME Settled PROVE ~Controller /\ ~Deliver(DeliverCM) /\ ~Deliver(DeliverCCM)
<1>1. pc = "idle" /\ ~queued /\ cmWatch = <<>> /\ ccmWatch = <<>>
  BY DEF Settled
<1>2. ~Panics /\ ~Deliver(DeliverCM) /\ ~Deliver(DeliverCCM)
  BY <1>1 DEF Panics, DropLatestPanics, StampNewPanics, RollPanics, Deliver, DeliverCM, DeliverCCM
<1>3. ~Calls
  BY <1>1 DEF Calls, FirstVersion, AdoptVersion, NewVersion, RollBack, RollBackMissing, NothingToDo,
     Starts, StampFirst, RaiseCurrent, DropOld, DropLatest, UndoDrop, CreateNew, RevertCurrent,
     RevertLatest, StampNew, RollDeployments, RollStatefulSets, CMStep, CCMStep
<1> QED BY <1>2, <1>3 DEF Controller

\* As far as the reconciler can tell, the system is patient.
LEMMA PatientHookStep ==
  ASSUME PatientHookInv, [PatientHookNext]_allVars
  PROVE  /\ PatientHookInv'
         /\ selected = "none" /\ Unharmed' => [PatientNext]_vars /\ Keeping
<1>1. /\ HookInv /\ OneAtATime /\ hook \in [Pods -> Hooks]
      /\ selected = "none" =>
           PatientInv /\ (Unharmed => \A p \in Pods : UnderWay(p) => Settled)
  BY DEF PatientHookInv, HookInv
<1>2. [HookNext]_allVars
  BY DEF PatientHookNext, HookNext, Others
<1>3. HookInv' /\ (selected = "none" => [Next]_vars)
  BY <1>1, <1>2, HookNextInv
<1>4. \/ UNCHANGED hookVars
      \/ \E p \in Pods : ConfigValidation(p) /\ (At(p, "idle") => Quiet)
  BY DEF PatientHookNext, Others, allVars
<1>5. UNCHANGED selected /\ OneAtATime'
  <2>1. CASE UNCHANGED hookVars
    BY <1>1, <2>1 DEF hookVars, OneAtATime, At
  <2>2. ASSUME NEW p \in Pods, ConfigValidation(p), At(p, "idle") => Quiet
        PROVE  UNCHANGED selected /\ OneAtATime'
    <3>1. UNCHANGED selected /\ \A q \in Pods \ {p} : hook'[q] = hook[q]
      BY <1>1, <2>2, PodContinues
    <3>2. \A q \in Pods \ {p} : At(q, "idle")
      BY <1>1, <2>2 DEF OneAtATime, Quiet
    <3> QED BY <3>1, <3>2 DEF OneAtATime, At
  <2> QED BY <1>4, <2>1, <2>2
<1>6. ASSUME selected = "none", Unharmed, Unharmed' PROVE [PatientNext]_vars
  <2>1. CASE Controller \/ Crash \/ Deliver(DeliverCM) \/ Deliver(DeliverCCM)
    BY <2>1 DEF PatientNext
  <2>2. CASE Quiet /\ Others
    BY <2>2 DEF Quiet, Others, PatientNext, Surroundings
  <2>3. ASSUME NEW p \in Pods, ConfigValidation(p) PROVE [PatientNext]_vars
    <3>1. CASE HookUpdate(p)
      <4>1. Settled
        BY <1>1, <1>6, <3>1 DEF HookUpdate, UnderWay
      <4> QED BY <1>1, <3>1, <4>1, HookUpdateAdmits DEF PatientNext, Surroundings
    <3>2. ~HookDrop(p) /\ ~HookRaise(p)
      BY <1>1, <1>6, HookDropInv, HookRaiseInv
    <3> QED BY <1>1, <2>3, <3>1, <3>2, PodContinues
  <2>4. CASE UNCHANGED allVars
    BY <2>4 DEF allVars
  <2> QED BY <2>1, <2>2, <2>3, <2>4 DEF PatientHookNext
<1>7. ASSUME selected = "none"
      PROVE  PatientInv' /\ (Unharmed' => Unharmed /\ [PatientNext]_vars /\ Keeping)
  <2>1. IInv' /\ Informed' /\ Counted' /\ (Unharmed' => Unharmed /\ Calm)
    BY <1>1, <1>3, <1>7, NextInv, InformedStep, CountedStep DEF PatientInv
  <2>2. Unharmed' => Steady' /\ Keeping
    BY <1>1, <1>6, <1>7, <2>1, CalmStep DEF PatientInv
  <2> QED BY <1>6, <1>7, <2>1, <2>2 DEF PatientInv
<1>8. ASSUME selected = "none", Unharmed, Unharmed', NEW p \in Pods, UnderWay(p)' PROVE Settled'
  <2>1. UnderWay(p) => Settled /\ ~At(p, "idle") /\ ~Quiet
    BY <1>1, <1>8 DEF UnderWay, At, Quiet
  <2>2. UNCHANGED vars /\ Settled => Settled'
    BY DEF vars, clusterVars, cmVars, ccmVars, Settled
  <2>3. UNCHANGED hook => UnderWay(p)
    BY <1>8 DEF UnderWay, At
  <2>4. ~Crash
    <3>1. Calm /\ left \in Budgets
      BY <1>1, <1>3, <1>8, CountedStep DEF PatientInv, IInv
    <3> QED BY <3>1, CalmSpends DEF Crash
  <2>5. CASE (Controller \/ Deliver(DeliverCM) \/ Deliver(DeliverCCM)) /\ UNCHANGED hookVars
    BY <2>1, <2>3, <2>5, SettledRests DEF hookVars
  <2>6. CASE Quiet /\ Others
    BY <2>1, <2>3, <2>6 DEF Others, hookVars
  <2>7. ASSUME NEW q \in Pods, ConfigValidation(q), At(q, "idle") => Quiet
        PROVE  Settled'
    <3>1. CASE q = p
      BY <1>1, <1>8, <2>1, <2>2, <2>7, <3>1, PodContinues DEF Quiet
    <3>2. CASE q # p
      <4>1. UnderWay(p)
        BY <1>1, <1>8, <2>7, <3>2, PodContinues DEF UnderWay, At
      <4> QED BY <1>1, <2>1, <2>7, <3>2, <4>1 DEF OneAtATime
    <3> QED BY <3>1, <3>2
  <2>8. CASE UNCHANGED allVars
    BY <2>1, <2>2, <2>3, <2>8 DEF allVars, hookVars
  <2> QED BY <2>4, <2>5, <2>6, <2>7, <2>8 DEF PatientHookNext
<1> QED BY <1>1, <1>3, <1>5, <1>7, <1>8 DEF PatientHookInv

-----------------------------------------------------------------------------
(* The theorems.                                                           *)

\* The inductive invariant holds of every behaviour.
THEOREM HookInvariant == HookSpec => []HookInv
<1>1. HookInit => HookInv
  BY InitInv, IdleKnows DEF HookInit, HookInv
<1>2. HookInv /\ [HookNext]_allVars => HookInv'
  BY HookNextInv
<1> QED BY <1>1, <1>2, PTL DEF HookSpec

\* The variables keep their types.
THEOREM HookTypeCorrect == HookSpec => []HookTypeOK
<1>1. HookInv => HookTypeOK
  BY IInvSuffices DEF HookInv, HookTypeOK, Hooks
<1> QED BY <1>1, HookInvariant, PTL

\* Where nobody has the name in the selector, the admission of a pod is atomic to all
\* others, however many pods are under admission and whatever is done between the calls.
THEOREM AdmissionIsAtomic == HookSpec => HookIsAtomic
<1>1. HookInv /\ [HookNext]_allVars => [selected = "none" => [Next]_vars]_allVars
  BY HookNextInv
<1> QED BY <1>1, HookInvariant, PTL DEF HookSpec, HookIsAtomic

\* The stamp and the content of the ConfigMap stay together although the webhook reads
\* and writes them in calls of their own.
THEOREM AdmissionIsTruthful == HookSpec => StampIsTruthful
<1>1. HookInv /\ [HookNext]_allVars => [Truthful]_vars
  BY HookNextInv, StoreStepTruthful
<1> QED BY <1>1, HookInvariant, PTL DEF HookSpec, StampIsTruthful, Truthful

\* With the webhook call by call the system still implements the version store.
THEOREM HookRefinement == HookSpec => ImplementsVersionStore
<1>1. HookInit => Store!Init
  BY StoreInit DEF HookInit
<1>2. HookInv /\ [HookNext]_allVars => [Store!Next]_Store!vars
  BY HookNextInv, StoreStepRefines DEF HookInv
<1> QED BY <1>1, <1>2, HookInvariant, PTL DEF HookSpec, ImplementsVersionStore, Store!Spec

\* The invariant of patient surroundings holds of every behaviour.
THEOREM PatientHookInvariant == PatientHookSpec => []PatientHookInv
<1>1. HookInit => PatientHookInv
  <2> SUFFICES ASSUME HookInit PROVE PatientHookInv
    OBVIOUS
  <2>1. HookInv /\ PatientInv
    BY InitInv, PatientInit, IdleKnows DEF HookInit, HookInv
  <2>2. \A p \in Pods : At(p, "idle") /\ ~UnderWay(p)
    BY DEF HookInit, At, UnderWay, NoHook
  <2> QED BY <2>1, <2>2 DEF PatientHookInv, OneAtATime
<1>2. PatientHookInv /\ [PatientHookNext]_allVars => PatientHookInv'
  BY PatientHookStep
<1> QED BY <1>1, <1>2, PTL DEF PatientHookSpec

\* With patient surroundings, and where nobody has the name in the selector, a pod's
\* admission call by call is the one step PatientSpec takes for it.
THEOREM PatientAdmission ==
  PatientHookSpec => [][selected = "none" /\ Unharmed' => [PatientNext]_vars]_allVars
<1>1. PatientHookInv /\ [PatientHookNext]_allVars
        => [selected = "none" /\ Unharmed' => [PatientNext]_vars]_allVars
  BY PatientHookStep
<1> QED BY <1>1, PatientHookInvariant, PTL DEF PatientHookSpec

\* Nothing but the name in the selector keeps rollbacks from settling: where nobody has it,
\* and no call fails, a rollback ends with the stamped version being the current one.
THEOREM RollbacksSettle ==
  PatientHookSpec => [](selected = "none" /\ Unharmed => RollbackSettles)
<1>1. PatientHookInv => (selected = "none" /\ Unharmed => RollbackSettles)
  BY PatientSettled DEF PatientHookInv, RollbackSettles
<1> QED BY <1>1, PatientHookInvariant, PTL
=============================================================================
