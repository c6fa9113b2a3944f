------------------------- MODULE ConfigMapRefinement -------------------------
(***************************************************************************)
(* The ConfigMap reconciler implements VersionStore, and what it writes    *)
(* into the ConfigMap is the content of the version it stamps it with.     *)
(***************************************************************************)
EXTENDS ConfigMapProofs

\* What a step does to the version store.
Keeps == cm'.data = cm.data /\ cm'.version = cm.version
SavesNothing == \A v \in Versions : ccm'[v].data = ccm[v].data
Saves ==
  \E v \in Versions, d \in Data :
    ~Exists(v) /\ \A u \in Versions : ccm'[u].data = IF u = v THEN d ELSE ccm[u].data
Installs ==
  cm'.version \in Versions /\ Exists(cm'.version) /\ cm'.data = ccm[cm'.version].data
Edits ==
  cm'.data \in Data /\ cm'.version \in {cm.version, NoVersion} /\ left'.edits # left.edits

StoreStep ==
  \/ Keeps /\ (SavesNothing \/ Saves)
  \/ SavesNothing /\ (Installs \/ Edits)

-----------------------------------------------------------------------------
(* The calls.                                                              *)

\* The ConfigMap is written with a version's content and its stamp, or not written.
LEMMA InstallCall ==
  ASSUME NEW copy \in CMs, copy.version \in Versions, Exists(copy.version),
         copy.data = ccm[copy.version].data, StoreCM(copy) \/ UNCHANGED cm, UNCHANGED ccm
  PROVE  StoreStep
<1>1. CASE UNCHANGED cm
  BY <1>1 DEF StoreStep, Keeps, SavesNothing
<1>2. CASE StoreCM(copy) /\ cm' # cm
  <2>1. cm' = [copy EXCEPT !.rv = @ + 1]
    BY <1>2 DEF StoreCM, cmVars
  <2>2. cm'.version = copy.version /\ cm'.data = copy.data
    BY <2>1 DEF CMs
  <2> QED BY <2>2 DEF StoreStep, Installs, SavesNothing, Exists
<1> QED BY <1>1, <1>2

\* An update of a CCM leaves every content as it is.
LEMMA RelabelCall ==
  ASSUME CCMSide, NEW copy \in Copies, Agrees(copy.of, copy.obj), NEW out,
         UpdateCCM(copy, out), UNCHANGED cm
  PROVE  StoreStep
<1>1. CASE UNCHANGED ccm
  BY <1>1 DEF StoreStep, Keeps, SavesNothing
<1>2. CASE StoreCCM(copy) /\ ccm' # ccm
  <2>1. ccm' = [ccm EXCEPT ![copy.of] = [copy.obj EXCEPT !.rv = copy.obj.rv + 1]]
    BY <1>2 DEF StoreCCM, ccmVars
  <2>2. copy.of \in Versions /\ copy.obj \in CCMs /\ copy.obj # NoCCM
    BY DEF Copies, CCMs, NoCCM
  <2>3. copy.obj.data = ccm[copy.of].data
    BY <2>2 DEF Agrees
  <2>4. [copy.obj EXCEPT !.rv = @ + 1].data = copy.obj.data
    BY <2>2 DEF CCMs
  <2>5. ccm \in [Versions -> CCMs \cup {NoCCM}]
    BY DEF CCMSide
  <2> QED BY <2>1, <2>2, <2>3, <2>4, <2>5 DEF StoreStep, Keeps, SavesNothing
<1> QED BY <1>1, <1>2 DEF UpdateCCM, ccmVars

\* A new CCM takes a name that no content was saved under.
LEMMA SaveCall ==
  ASSUME CCMSide, NEW v \in Versions, NEW d \in Data, NEW out,
         CreateCCM(v, d, out), UNCHANGED cm
  PROVE  StoreStep
<1> DEFINE new == [data |-> d, current |-> TRUE, latest |-> TRUE, rv |-> 0]
<1>1. CASE UNCHANGED ccm
  BY <1>1 DEF StoreStep, Keeps, SavesNothing
<1>2. CASE StoreCCM([of |-> v, obj |-> new]) /\ ccm' # ccm
  <2>1. ccm' = [ccm EXCEPT ![v] = [new EXCEPT !.rv = new.rv + 1]]
    BY <1>2 DEF StoreCCM, ccmVars
  <2>2. \A u \in Versions : ccm'[u].data = IF u = v THEN d ELSE ccm[u].data
    BY <2>1 DEF CCMSide
  <2>3. ~Exists(v)
    BY DEF CreateCCM
  <2> QED BY <2>2, <2>3 DEF StoreStep, Keeps, Saves
<1> QED BY <1>1, <1>2 DEF CreateCCM, ccmVars

\* A step that touches neither kind of object.
LEMMA NoStore == ASSUME UNCHANGED <<cm, ccm>> PROVE StoreStep
BY DEF StoreStep, Keeps, SavesNothing

-----------------------------------------------------------------------------
(* The steps.                                                              *)

\* The steps of the reconciler that write the ConfigMap.
LEMMA CMStepStores ==
  ASSUME IInv, AdoptVersion \/ RollBack \/ StampFirst \/ StampNew
  PROVE  StoreStep
<1> USE DEF IInv
<1>1. UNCHANGED ccm
  BY DEF AdoptVersion, RollBack, StampFirst, StampNew, CMStep, ccmVars
<1>2. CASE AdoptVersion
  <2>1. PICK v \in Versions, out \in Outcomes :
          /\ Starts(FALSE, {v}) /\ cmCache.data = ccmCache[v].data
          /\ UpdateCM([cmCache EXCEPT !.version = v, !.annotated = TRUE], out)
    BY <1>2 DEF AdoptVersion
  <2> DEFINE copy == [cmCache EXCEPT !.version = v, !.annotated = TRUE]
  <2>2. copy \in CMs /\ copy.version = v /\ copy.data = ccmCache[v].data
    BY <2>1 DEF CMSide, CMs
  <2>3. Exists(v) /\ ccmCache[v].data = ccm[v].data
    BY <2>1, Listed DEF Starts, CurrentIn, CCMSide, CopiesAgree, Agrees
  <2>4. StoreCM(copy) \/ UNCHANGED cm
    BY <2>1 DEF UpdateCM, cmVars
  <2> HIDE DEF copy
  <2> QED BY <1>1, <2>2, <2>3, <2>4, InstallCall
<1>3. CASE RollBack
  <2> DEFINE target == cmCache.version
             copy == [cmCache EXCEPT !.data = ccmCache[target].data]
  <2>1. PICK v \in Versions, out \in Outcomes :
          Starts(TRUE, {v}) /\ ccmCache[target].rv > 0 /\ UpdateCM(copy, out)
    BY <1>3 DEF RollBack
  <2>2. target \in Versions /\ cmCache \in CMs
    BY <2>1 DEF CMSide, CMs, Starts
  <2>3. /\ Exists(target) /\ ccmCache[target].data = ccm[target].data
        /\ ccmCache[target] \in CCMs
    BY <2>1, <2>2, Listed DEF CCMSide, CopiesAgree, Agrees
  <2>4. copy \in CMs /\ copy.version = target /\ copy.data = ccm[target].data
    BY <2>2, <2>3 DEF CMs, CCMs
  <2>5. StoreCM(copy) \/ UNCHANGED cm
    BY <2>1 DEF UpdateCM, cmVars
  <2> HIDE DEF copy, target
  <2> QED BY <1>1, <2>2, <2>3, <2>4, <2>5, InstallCall
<1>4. CASE StampFirst \/ StampNew
  <2>1. /\ my \in CMs /\ my.version \in Versions
        /\ Exists(my.version) /\ my.data = ccm[my.version].data
    BY <1>4 DEF HandlerSide, HandlerKnows, StampFirst, StampNew, CMStep
  <2>2. StoreCM(my) \/ UNCHANGED cm
    BY <1>4 DEF StampFirst, StampNew, CMStep, UpdateCM, cmVars
  <2> QED BY <1>1, <2>1, <2>2, InstallCall
<1> QED BY <1>2, <1>3, <1>4

\* The steps that write a CCM.
LEMMA CCMStepStores ==
  ASSUME IInv,
         \/ FirstVersion \/ CreateNew \/ NewVersion \/ DropLatest
         \/ RaiseCurrent \/ DropOld \/ UndoDrop \/ RevertCurrent \/ RevertLatest
  PROVE  StoreStep
<1> USE DEF IInv
<1>1. UNCHANGED cm
  BY DEF FirstVersion, CreateNew, NewVersion, DropLatest, RaiseCurrent, DropOld,
         UndoDrop, RevertCurrent, RevertLatest, CCMStep, cmVars
<1>2. CASE FirstVersion
  <2>1. cmCache.data \in Data
    BY DEF CMSide, CMs
  <2> QED BY <1>1, <1>2, <2>1, SaveCall DEF FirstVersion
<1>3. CASE CreateNew
  <2>1. my.data \in Data
    BY <1>3 DEF CreateNew, HandlerSide, HandlerKnows, CMs
  <2> QED BY <1>1, <1>3, <2>1, SaveCall DEF CreateNew
<1>4. CASE NewVersion
  <2>1. PICK v \in Versions, out \in Outcomes :
          Starts(cmCache.version # NoVersion, {v}) /\ UpdateCCM(Current(Cached(v), FALSE), out)
    BY <1>4 DEF NewVersion
  <2>2. Cached(v) \in Copies /\ Agrees(Cached(v).of, Cached(v).obj)
    BY <2>1, Listed, CachedCopy DEF Starts, CurrentIn
  <2> QED BY <1>1, <2>1, <2>2, Relabelled, RelabelCall
<1>5. CASE DropLatest
  <2>1. PICK v \in LatestIn(ccmCache), out \in Outcomes : UpdateCCM(Latest(Cached(v), FALSE), out)
    BY <1>5 DEF DropLatest
  <2>2. Cached(v) \in Copies /\ Agrees(Cached(v).of, Cached(v).obj)
    BY Listed, CachedCopy DEF LatestIn
  <2> QED BY <1>1, <2>1, <2>2, Relabelled, RelabelCall
<1>6. CASE RaiseCurrent \/ RevertLatest
  <2>1. other \in Copies /\ Agrees(other.of, other.obj)
    BY <1>6 DEF RaiseCurrent, RevertLatest, CCMStep, HandlerSide, HandlerKnows
  <2>2. PICK out \in Outcomes : \/ UpdateCCM(Current(other, TRUE), out)
                                \/ UpdateCCM(Latest(other, TRUE), out)
    BY <1>6 DEF RaiseCurrent, RevertLatest, CCMStep
  <2> QED BY <1>1, <2>1, <2>2, Relabelled, RelabelCall
<1>7. CASE DropOld \/ UndoDrop \/ RevertCurrent
  <2>1. cur \in Copies /\ Agrees(cur.of, cur.obj)
    BY <1>7 DEF DropOld, UndoDrop, RevertCurrent, CCMStep, HandlerSide, HandlerKnows
  <2>2. PICK out \in Outcomes, is \in BOOLEAN : UpdateCCM(Current(cur, is), out)
    BY <1>7 DEF DropOld, UndoDrop, RevertCurrent, CCMStep
  <2> QED BY <1>1, <2>1, <2>2, Relabelled, RelabelCall
<1> QED BY <1>2, <1>3, <1>4, <1>5, <1>6, <1>7

\* What the user and the workloads do.
LEMMA SurroundingsStores ==
  ASSUME IInv, Surroundings
  PROVE  StoreStep
<1>1. cm \in CMs /\ UNCHANGED ccm
  BY DEF IInv, CMSide, Surroundings, Resync, User, Edit, Replace, Apply, AdmitPod, ccmVars
<1>2. CASE Resync
  BY <1>2, <1>1, NoStore DEF Resync, cmVars
<1>3. ASSUME NEW what \in {"edits", "applies", "pods"}, Spend(what)
      PROVE  what = "edits" => left'.edits # left.edits
  BY <1>3 DEF IInv, Spend, Budgets
<1>4. ASSUME NEW d \in Data, Edit(d) PROVE StoreStep
  <2> DEFINE copy == [cm EXCEPT !.data = d]
  <2>1. copy \in CMs /\ copy.data = d /\ copy.version = cm.version
    BY <1>1 DEF CMs
  <2>2. StoreCM(copy) /\ left'.edits # left.edits
    BY <1>4, <1>3 DEF Edit
  <2> HIDE DEF copy
  <2>3. cm'.data = d /\ cm'.version = cm.version
    BY <2>1, <2>2 DEF StoreCM, CMs, cmVars
  <2> QED BY <1>1, <2>2, <2>3 DEF StoreStep, SavesNothing, Edits
<1>5. ASSUME NEW d \in Data, NEW annotated \in BOOLEAN, Replace(d, annotated) PROVE StoreStep
  <2> DEFINE copy == [NoCM EXCEPT !.data = d, !.annotated = annotated, !.rv = cm.rv]
  <2>1. copy \in CMs /\ copy.data = d /\ copy.version = NoVersion
    BY <1>1 DEF CMs, NoCM
  <2>2. StoreCM(copy) /\ left'.edits # left.edits
    BY <1>5, <1>3 DEF Replace
  <2> HIDE DEF copy
  <2>3. cm'.data = d /\ cm'.version = NoVersion
    BY <2>1, <2>2 DEF StoreCM, CMs, cmVars
  <2> QED BY <1>1, <2>2, <2>3 DEF StoreStep, SavesNothing, Edits
<1>6. ASSUME NEW w \in Workloads, Apply(w) PROVE StoreStep
  <2> DEFINE copy == IF w \in Deployments THEN DeploymentNamed(w) ELSE StatefulSetNamed(w)
  <2>1. copy \in CMs /\ copy.data = cm.data /\ copy.version = cm.version
    BY <1>1 DEF CMs, Workloads, DeploymentNamed, StatefulSetNamed
  <2>2. StoreCM(copy)
    BY <1>6 DEF Apply
  <2> HIDE DEF copy
  <2>3. Keeps
    BY <2>1, <2>2 DEF StoreCM, CMs, cmVars, Keeps
  <2> QED BY <1>1, <2>3 DEF StoreStep, SavesNothing
<1>7. ASSUME NEW v \in Versions, AdmitPod(v) PROVE StoreStep
  <2> DEFINE copy == [cm EXCEPT !.version = v, !.data = ccm[v].data]
  <2>1. Exists(v) /\ ccm[v] \in CCMs
    BY <1>7 DEF IInv, CCMSide, AdmitPod, RolledBack, Exists, NoCCM
  <2>2. copy \in CMs /\ copy.data = ccm[v].data /\ copy.version = v
    BY <1>1, <2>1 DEF CMs, CCMs
  <2>3. StoreCM(copy)
    BY <1>7 DEF AdmitPod, RolledBack
  <2> HIDE DEF copy
  <2> QED BY <1>1, <2>1, <2>2, <2>3, InstallCall
<1> QED BY <1>2, <1>4, <1>5, <1>6, <1>7 DEF Surroundings, User

\* Every step does one of these things to the version store.
LEMMA NextStores == IInv /\ [Next]_vars => StoreStep
<1> SUFFICES ASSUME IInv, [Next]_vars PROVE StoreStep
  OBVIOUS
<1>1. CASE \/ RollBackMissing \/ NothingToDo \/ DropLatestPanics \/ StampNewPanics
           \/ RollDeployments \/ RollStatefulSets \/ RollPanics \/ Crash
           \/ Deliver(DeliverCM) \/ Deliver(DeliverCCM) \/ UNCHANGED vars
  <2>1. UNCHANGED <<cm, ccm>>
    BY <1>1 DEF RollBackMissing, NothingToDo, DropLatestPanics, StampNewPanics, RollDeployments,
         RollStatefulSets, RollPanics, Crash, Restart, Relist, Deliver, DeliverCM, DeliverCCM,
         vars, clusterVars, cmVars, ccmVars
  <2> QED BY <2>1, NoStore
<1> QED BY <1>1, CMStepStores, CCMStepStores, SurroundingsStores DEF Next, Controller, Calls, Panics

-----------------------------------------------------------------------------
(* The theorems.                                                           *)

\* What StampIsTruthful says of a step.
Truthful ==
  <<cm.data, cm.version>>' # <<cm.data, cm.version>> /\ left'.edits = left.edits
    => cm'.version # NoVersion /\ cm'.data = ccm'[cm'.version].data

\* It holds of whatever is done to the version store.
LEMMA StoreStepTruthful == ASSUME StoreStep PROVE Truthful
BY ValuesAssumption DEF Truthful, StoreStep, Keeps, SavesNothing, Installs, Edits

\* Whatever the reconciler or a webhook writes into the ConfigMap is the content of
\* the version it stamps it with.
THEOREM StampsAreTruthful == Spec => StampIsTruthful
<1>1. IInv /\ [Next]_vars => [Truthful]_vars
  BY StoreStepTruthful, NextStores
<1> QED BY Invariant, <1>1, PTL DEF Spec, StampIsTruthful, Truthful

\* The initial states are initial states of the version store.
LEMMA StoreInit == Init => Store!Init
BY DEF Init, ClusterInit, Store!Init, NoCCM

\* What a step does to the version store is a step of it, or nothing.
LEMMA StoreStepRefines ==
  ASSUME IInv, StoreStep
  PROVE  [Store!Next]_Store!vars
<1> DEFINE saved == [v \in Versions |-> ccm[v].data]
<1>1. StoreStep
  OBVIOUS
<1>2. /\ \A v \in Versions : Exists(v) <=> ccm[v].data # NoData
      /\ \A v \in Versions : ~Exists(v) => ccm[v].data = NoData
  BY ValuesAssumption DEF IInv, CCMSide, CCMs, NoCCM, Exists
<1>3. CASE SavesNothing
  <2>1. saved' = saved
    BY <1>3 DEF SavesNothing
  <2>2. CASE Keeps
    BY <2>1, <2>2 DEF Keeps, Store!vars
  <2>3. CASE Installs
    <3>1. Store!Install(cm'.version)
      BY <2>1, <2>3, <1>2 DEF Installs, Store!Install, Store!Saved
    <3> QED BY <3>1, <2>3 DEF Installs, Store!Next
  <2>4. CASE Edits
    <3>1. Store!Edit(cm'.data)
      BY <2>1, <2>4 DEF Edits, Store!Edit
    <3> QED BY <3>1, <2>4 DEF Edits, Store!Next
  <2> QED BY <1>1, <1>3, <2>2, <2>3, <2>4 DEF StoreStep, Saves, Keeps
<1>4. CASE Saves /\ Keeps
  <2>1. PICK v \in Versions, d \in Data :
          ~Exists(v) /\ \A u \in Versions : ccm'[u].data = IF u = v THEN d ELSE ccm[u].data
    BY <1>4 DEF Saves
  <2>2. saved' = [saved EXCEPT ![v] = d] /\ saved[v] = NoData
    BY <2>1, <1>2
  <2>3. Store!Save(v, d)
    BY <2>2, <1>4 DEF Keeps, Store!Save, Store!Saved
  <2> QED BY <2>3 DEF Store!Next
<1> QED BY <1>1, <1>3, <1>4 DEF StoreStep

\* A step of the reconciler or its cluster is a step of the version store, or nothing.
LEMMA StoreNext == IInv /\ [Next]_vars => [Store!Next]_Store!vars
BY NextStores, StoreStepRefines

\* The ConfigMap reconciler, its cluster and the pod webhook implement VersionStore:
\* saved contents are immutable and the stamp always installs one of them.
THEOREM Refinement == Spec => ImplementsVersionStore
BY Invariant, StoreInit, StoreNext, PTL DEF Spec, ImplementsVersionStore, Store!Spec
=============================================================================
