---------------------------- MODULE SecretProofs ----------------------------
(***************************************************************************)
(* Proofs about the Secret reconciler, for any number of versions,         *)
(* payloads, annotations and workloads.  The invariant is the ConfigMap    *)
(* reconciler's; the actions both share keep it as proved there, and the   *)
(* Secret's own are dealt with here.                                       *)
(***************************************************************************)
EXTENDS SecretController, ConfigMapRefinement

\* What a write of the Secret by Configurator installs: the payload of the version it is
\* stamped with, and its annotations if it has any.
SecretInstalls ==
  /\ cm'.version \in Versions /\ Exists(cm'.version)
  /\ cm'.data.payload = ccm[cm'.version].data.payload
  /\ ccm[cm'.version].data.notes \in {NoNotes, cm'.data.notes}

\* What a step does to the version store.
SecretStoreStep ==
  \/ Keeps /\ (SavesNothing \/ Saves)
  \/ SavesNothing /\ (SecretInstalls \/ Edits)

\* What installs the whole content installs what is asked of a Secret.
LEMMA StoreStepOfSecret == ASSUME StoreStep PROVE SecretStoreStep
BY DEF StoreStep, SecretStoreStep, Installs, SecretInstalls

-----------------------------------------------------------------------------
(* The Secret's own steps.                                                 *)

\* The stamp that is put back is that of a version the cache has shown, and what does
\* not differ from a version has its payload, and its annotations if it has any.
LEMMA SecretAdoptVersionInv ==
  ASSUME IInv, SecretAdoptVersion
  PROVE  IInv' /\ Grows /\ SecretStoreStep
<1> USE DEF IInv
<1>1. PICK v \in Versions, out \in Outcomes :
        /\ Starts(FALSE, {v})
        /\ ~Differs(cmCache.data, ccmCache[v].data)
        /\ UpdateCM([cmCache EXCEPT !.version = v, !.annotated = TRUE], out)
        /\ IF out = "ok" THEN Begin("idle") /\ Forget ELSE Retry
  BY DEF SecretAdoptVersion
<1> DEFINE copy == [cmCache EXCEPT !.version = v, !.annotated = TRUE]
<1>2. copy \in CMs /\ copy.version = v /\ copy.data = cmCache.data /\ UpdateCM(copy, out)
  BY <1>1 DEF CMSide, CMs
<1> HIDE DEF copy
<1>3. Exists(v) /\ ccmCache[v].data = ccm[v].data
  BY <1>1, Listed DEF Starts, CurrentIn, CCMSide, CopiesAgree, Agrees
<1>4. UNCHANGED <<ccmVars, caches, rollout>>
  BY DEF SecretAdoptVersion
<1>5. Known(copy)
  BY <1>2, <1>3 DEF Known
<1>6. CMSide' /\ CCMSide' /\ WorkloadSide' /\ left' \in Budgets /\ Grows
  BY <1>2, <1>4, <1>5, CMCall
<1>7. HandlerSide' /\ queued' \in BOOLEAN
  BY <1>1, NoHandler DEF Begin, Retry
<1>8. SecretStoreStep
  <2>1. CASE UNCHANGED cm
    BY <1>4, <2>1 DEF SecretStoreStep, Keeps, SavesNothing, ccmVars
  <2>2. CASE StoreCM(copy) /\ cm' # cm
    <3>1. cm' = [copy EXCEPT !.rv = @ + 1]
      BY <2>2 DEF StoreCM, cmVars
    <3>2. cm'.version = v /\ cm'.data = cmCache.data
      BY <1>2, <3>1 DEF CMs
    <3>3. SecretInstalls
      BY <1>1, <1>3, <3>2 DEF SecretInstalls, Differs, HasOwn
    <3> QED BY <1>4, <3>3 DEF SecretStoreStep, SavesNothing, ccmVars
  <2> QED BY <1>2, <2>1, <2>2 DEF UpdateCM, cmVars
<1> QED BY <1>6, <1>7, <1>8

\* A handler that finds nothing to do changes nothing.
LEMMA SecretNothingToDoInv ==
  ASSUME IInv, SecretNothingToDo
  PROVE  IInv' /\ Grows /\ SecretStoreStep
<1>1. HandlerSide'
  BY DEF IInv, SecretNothingToDo, Starts, Begin, HandlerSide, HandlerKnows, Locations, locals
<1>2. IInv' /\ Grows
  BY <1>1, NoCallInv DEF SecretNothingToDo, Begin
<1>3. StoreStep
  BY NoStore DEF SecretNothingToDo, cmVars, ccmVars
<1> QED BY <1>2, <1>3, StoreStepOfSecret

\* The panic of a rollback restarts the process.
LEMMA SecretRollBackPanicsInv ==
  ASSUME IInv, SecretRollBackPanics
  PROVE  IInv' /\ Grows /\ SecretStoreStep
<1> USE DEF IInv
<1>1. Restart /\ UNCHANGED <<rollout, left>>
  BY DEF SecretRollBackPanics
<1>2. CMSide' /\ CCMSide' /\ Grows /\ queued' \in BOOLEAN
  BY <1>1, Relisted DEF Restart
<1>3. HandlerSide' /\ WorkloadSide'
  BY <1>1, <1>2, NoHandler, SameWorkloads DEF Restart
<1>4. StoreStep
  BY <1>1, NoStore DEF Restart, Relist
<1> QED BY <1>1, <1>2, <1>3, <1>4, StoreStepOfSecret

\* The owner leaves the stamp on the Secret or drops it.
LEMMA SecretUserInv ==
  ASSUME IInv, SecretUser, UNCHANGED <<pc, locals>>
  PROVE  IInv' /\ Grows /\ SecretStoreStep
<1> USE DEF IInv
<1>1. cm \in CMs /\ Known(cm) /\ cm.data \in Contents
  BY ContentsAssumption DEF CMSide, StampsKnown, CMs
<1>2. Spend("edits") /\ UNCHANGED <<ccmVars, caches, queued, rollout>>
  BY DEF SecretUser
<1>3. left'.edits # left.edits
  BY <1>2 DEF Spend, Budgets
<1>4. PICK payload \in Payloads, notes \in Notes \cup {NoNotes} :
        LET held == [cm.data EXCEPT !.payload = payload, !.notes = notes]
            stays == cm.version # NoVersion \/ cm.deployments \cup cm.statefulsets # {}
        IN  \/ held # cm.data /\ StoreCM([cm EXCEPT !.data = held,
                                                    !.annotated = stays \/ HasOwn(held)])
            \/ StoreCM([NoCM EXCEPT !.data = [held EXCEPT !.tag = NoVersion],
                                    !.annotated = notes # NoNotes, !.rv = cm.rv])
  BY DEF SecretUser
<1> DEFINE held == [cm.data EXCEPT !.payload = payload, !.notes = notes]
           stays == cm.version # NoVersion \/ cm.deployments \cup cm.statefulsets # {}
           edited == [cm EXCEPT !.data = held, !.annotated = stays \/ HasOwn(held)]
           replaced == [NoCM EXCEPT !.data = [held EXCEPT !.tag = NoVersion],
                                    !.annotated = notes # NoNotes, !.rv = cm.rv]
<1>5. PICK copy \in {edited, replaced} : StoreCM(copy)
  BY <1>4
<1>6. /\ copy \in CMs /\ Known(copy)
      /\ copy.data \in Data /\ copy.version \in {cm.version, NoVersion}
  <2>1. held \in Data /\ [held EXCEPT !.tag = NoVersion] \in Data
    BY <1>1, ContentsAssumption DEF Contents
  <2>2. (stays \/ HasOwn(held)) \in BOOLEAN
    BY DEF HasOwn
  <2> HIDE DEF held, stays
  <2>3. edited \in CMs /\ edited.data = held /\ edited.version = cm.version
    BY <1>1, <2>1, <2>2 DEF CMs
  <2>4. replaced \in CMs /\ replaced.data = [held EXCEPT !.tag = NoVersion] /\ replaced.version = NoVersion
    BY <1>1, <2>1 DEF CMs, NoCM
  <2> QED BY <1>1, <2>1, <2>3, <2>4 DEF Known
<1> HIDE DEF edited, replaced
<1>7. IInv' /\ Grows
  BY <1>2, <1>5, <1>6, SurroundingsStore, SameWorkloads
<1>8. SecretStoreStep
  <2>1. cm'.data = copy.data /\ cm'.version = copy.version
    BY <1>5, <1>6 DEF StoreCM, CMs, cmVars
  <2> QED BY <1>2, <1>3, <1>6, <2>1 DEF SecretStoreStep, SavesNothing, Edits, ccmVars
<1> QED BY <1>7, <1>8

\* The pod webhook sets the stamp of a version it has read, and its payload and notes.
LEMMA SecretAdmitPodInv ==
  ASSUME IInv, NEW v \in Versions, SecretAdmitPod(v), UNCHANGED <<pc, locals>>
  PROVE  IInv' /\ Grows /\ SecretStoreStep
<1> USE DEF IInv
<1> DEFINE held == [ccm[v].data EXCEPT !.tag = v]
           copy == [cm EXCEPT !.version = v, !.data = held]
<1>1. cm \in CMs /\ Exists(v) /\ ccm[v] \in CCMs
  BY DEF CMSide, CCMSide, SecretAdmitPod, Exists, NoCCM
<1>2. ccm[v].data \in Contents
  BY <1>1, ContentsAssumption DEF CCMs
<1>3. held \in Data /\ held.payload = ccm[v].data.payload /\ held.notes = ccm[v].data.notes
  BY <1>2, ContentsAssumption DEF Contents
<1>4. StoreCM(copy) /\ Spend("pods") /\ UNCHANGED <<ccmVars, caches, queued, rollout>>
  BY DEF SecretAdmitPod
<1> HIDE DEF held
<1>5. copy \in CMs /\ copy.version = v /\ copy.data = held
  BY <1>1, <1>3 DEF CMs
<1>6. Known(copy)
  BY <1>1, <1>5 DEF Known
<1> HIDE DEF copy
<1>7. IInv' /\ Grows
  BY <1>4, <1>5, <1>6, SurroundingsStore, SameWorkloads
<1>8. SecretStoreStep
  <2>1. cm'.data = held /\ cm'.version = v
    BY <1>4, <1>5 DEF StoreCM, CMs, cmVars
  <2> QED BY <1>1, <1>3, <1>4, <2>1 DEF SecretStoreStep, SavesNothing, SecretInstalls, ccmVars
<1> QED BY <1>7, <1>8

-----------------------------------------------------------------------------
(* All steps.                                                              *)

\* A step of the Secret's world that is one of the ConfigMap's.
LEMMA SharedStep ==
  ASSUME IInv, [Next]_vars
  PROVE  IInv' /\ Grows /\ SecretStoreStep
BY NextInv, NextStores, StoreStepOfSecret

\* Every step keeps the invariant and every version there is, and does one of a few
\* things to the version store.
LEMMA SecretNextInv ==
  ASSUME IInv, [SecretNext]_vars
  PROVE  IInv' /\ Grows /\ SecretStoreStep
<1>1. CASE SecretController
  <2>1. CASE SecretNewVersion \/ SecretRollBack
    <3>1. Next
      BY <2>1 DEF SecretNewVersion, SecretRollBack, Next, Controller, Calls
    <3> QED BY <3>1, SharedStep
  <2>2. CASE Controller
    BY <2>2, SharedStep DEF Next
  <2> QED BY <1>1, <2>1, <2>2, SecretAdoptVersionInv, SecretNothingToDoInv, SecretRollBackPanicsInv
          DEF SecretController, CopyCSToSecret, CreateNewCS, Controller, Calls, Panics
<1>2. CASE SecretSurroundings /\ UNCHANGED <<pc, locals>>
  <2>1. CASE Surroundings
    BY <1>2, <2>1, SharedStep DEF Next
  <2> QED BY <1>2, <2>1, SecretUserInv, SecretAdmitPodInv DEF SecretSurroundings, Surroundings
<1>3. CASE Deliver(DeliverCM) \/ Deliver(DeliverCCM) \/ Crash \/ UNCHANGED vars
  BY <1>3, SharedStep DEF Next
<1> QED BY <1>1, <1>2, <1>3 DEF SecretNext

-----------------------------------------------------------------------------
(* The theorems.                                                           *)

\* The inductive invariant of the ConfigMap reconciler holds of the Secret's.
THEOREM SecretInvariant == SecretSpec => []IInv
<1>1. SecretInit => IInv
  BY InitInv DEF SecretInit
<1>2. IInv /\ [SecretNext]_vars => IInv'
  BY SecretNextInv
<1> QED BY <1>1, <1>2, PTL DEF SecretSpec

\* The variables keep their types, contents with annotations included.
THEOREM SecretTypeCorrect == SecretSpec => []TypeOK
BY SecretInvariant, IInvSuffices, PTL

\* The annotation currentCustomSecretVersion never dangles.
THEOREM SecretStampsAreSaved == SecretSpec => []StampedVersionSaved
BY SecretInvariant, IInvSuffices, PTL

\* Every revision of a workload refers to a CustomSecret that exists.
THEOREM SecretRevisionsAreSaved == SecretSpec => []RevisionsSaved
BY SecretInvariant, IInvSuffices, PTL

\* Whatever Configurator writes into the Secret is the payload of the version it stamps
\* it with, and its annotations if it has any.
THEOREM SecretStampsAreTruthful == SecretSpec => SecretStampIsTruthful
<1> DEFINE SecretTruthful ==
      <<cm.data, cm.version>>' # <<cm.data, cm.version>> /\ left'.edits = left.edits
        => /\ cm'.version # NoVersion
           /\ cm'.data.payload = ccm'[cm'.version].data.payload
           /\ ccm'[cm'.version].data.notes \in {NoNotes, cm'.data.notes}
<1>1. SecretStoreStep => SecretTruthful
  BY ValuesAssumption DEF SecretStoreStep, Keeps, SavesNothing, SecretInstalls, Edits
<1>2. IInv /\ [SecretNext]_vars => [SecretTruthful]_vars
  BY <1>1, SecretNextInv
<1> QED BY SecretInvariant, <1>2, PTL DEF SecretSpec, SecretStampIsTruthful

\* The initial states are initial states of the version store of payloads.
LEMMA SecretStoreInit == SecretInit => SecretStore!Init
<1> SUFFICES ASSUME SecretInit PROVE SecretStore!Init
  OBVIOUS
<1>1. cm.data \in Contents /\ cm.version = NoVersion /\ ccm = [v \in Versions |-> NoCCM]
  BY ContentsAssumption DEF SecretInit, Init, ClusterInit
<1>2. \A v \in Versions : ~Exists(v)
  BY <1>1 DEF Exists, NoCCM
<1> QED BY <1>1, <1>2 DEF SecretStore!Init, Contents

\* A step is a step of that store, or changes nothing of it.
LEMMA SecretStoreNext == IInv /\ [SecretNext]_vars => [SecretStore!Next]_SecretStore!vars
<1> SUFFICES ASSUME IInv, [SecretNext]_vars PROVE SecretStore!Next \/ UNCHANGED SecretStore!vars
  OBVIOUS
<1> DEFINE saved == [v \in Versions |-> IF Exists(v) THEN ccm[v].data.payload ELSE NoData]
<1>1. SecretStoreStep /\ IInv'
  BY SecretNextInv
<1>2. \A v \in Versions : /\ Exists(v) <=> ccm[v].data # NoData
                          /\ Exists(v)' <=> ccm'[v].data # NoData
                          /\ Exists(v) => ccm[v].data \in Contents
  BY <1>1, ValuesAssumption, ContentsAssumption DEF IInv, CCMSide, CCMs, NoCCM, Exists
<1>3. \A v \in Versions : Exists(v) <=> saved[v] # NoData
  BY <1>2, ContentsAssumption DEF Contents
<1>4. CASE SavesNothing
  <2>1. saved' = saved
    BY <1>2, <1>4 DEF SavesNothing
  <2>2. CASE Keeps
    BY <2>1, <2>2 DEF Keeps, SecretStore!vars
  <2>3. CASE SecretInstalls
    <3>1. SecretStore!Install(cm'.version)
      BY <2>1, <2>3, <1>3 DEF SecretInstalls, SecretStore!Install, SecretStore!Saved
    <3> QED BY <3>1, <2>3 DEF SecretInstalls, SecretStore!Next
  <2>4. CASE Edits
    <3>1. cm'.data.payload \in Payloads
      BY <2>4, ContentsAssumption DEF Edits, Contents
    <3>2. SecretStore!Edit(cm'.data.payload)
      BY <2>1, <2>4 DEF Edits, SecretStore!Edit
    <3> QED BY <3>1, <3>2 DEF SecretStore!Next
  <2> QED BY <1>1, <1>4, <2>2, <2>3, <2>4 DEF SecretStoreStep, Saves, Keeps
<1>5. CASE Saves /\ Keeps
  <2>1. PICK v \in Versions, d \in Data :
          ~Exists(v) /\ \A u \in Versions : ccm'[u].data = IF u = v THEN d ELSE ccm[u].data
    BY <1>5 DEF Saves
  <2>2. d.payload \in Payloads /\ d # NoData
    BY ContentsAssumption, ValuesAssumption DEF Contents
  <2>3. \A u \in Versions : Exists(u)' <=> (u = v \/ Exists(u))
    BY <1>2, <2>1, <2>2
  <2>4. saved' = [saved EXCEPT ![v] = d.payload] /\ saved[v] = NoData
    BY <2>1, <2>3
  <2>5. SecretStore!Save(v, d.payload)
    BY <2>4, <1>5 DEF Keeps, SecretStore!Save, SecretStore!Saved
  <2> QED BY <2>2, <2>5 DEF SecretStore!Next
<1> QED BY <1>1, <1>4, <1>5 DEF SecretStoreStep

\* The Secret reconciler, its cluster and the pod webhook implement VersionStore over
\* payloads, although annotations are compared and written back by rules of their own.
THEOREM SecretRefinement == SecretSpec => SecretImplementsVersionStore
BY SecretInvariant, SecretStoreInit, SecretStoreNext, PTL DEF SecretSpec, SecretImplementsVersionStore, SecretStore!Spec
=============================================================================
