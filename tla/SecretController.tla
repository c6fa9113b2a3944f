-------------------------- MODULE SecretController --------------------------
(***************************************************************************)
(* The Secret reconciler of Configurator.  It is the protocol of           *)
(* ConfigMapController over a Secret and its CustomSecrets (cm is the      *)
(* Secret here, ccm are the CustomSecrets), but a Secret's annotations     *)
(* are part of what is versioned, and are compared and written back by     *)
(* rules of their own.  The actions defined here replace those of          *)
(* ConfigMapController that touch contents; the others are line by line    *)
(* the same.                                                               *)
(***************************************************************************)
EXTENDS ConfigMapProperties

CONSTANTS
  Payloads,   \* what a Secret holds: Data (its Type never changes)
  Notes,      \* the owner's annotations on a Secret, if there are any
  NoNotes     \* no such annotation

\* The content of a Secret and of a CustomSecret.  tag is the annotation
\* customConfigMap-name, which the pod webhook puts on Secrets and which the
\* reconciler takes for the owner's.
Contents == [payload : Payloads, notes : Notes \cup {NoNotes}, tag : Versions \cup {NoVersion}]

ASSUME ContentsAssumption == Data = Contents /\ NoNotes \notin Notes /\ NoData \notin Payloads

\* len(SecretAnnotations) != 0.  The map of a version without annotations is nil.
HasOwn(content) == content.notes # NoNotes \/ content.tag # NoVersion

\* Mutant: the annotations are not compared.
BadDiffers(held, saved) == held.payload # saved.payload

\* Whether the Secret's content is another than a version's: the annotations are
\* compared only when the version has some.
Differs(held, saved) ==
  \/ held.payload # saved.payload
  \/ HasOwn(saved) /\ held # saved

-----------------------------------------------------------------------------
(* The Secret's surroundings.                                              *)

\* The owner edits the Secret (annotations that are not edited stay) or replaces it.
SecretUser ==
  /\ Spend("edits")
  /\ \E payload \in Payloads, notes \in Notes \cup {NoNotes} :
       LET held == [cm.data EXCEPT !.payload = payload, !.notes = notes]
           stays == cm.version # NoVersion \/ cm.deployments \cup cm.statefulsets # {}
       IN  \/ held # cm.data /\ StoreCM([cm EXCEPT !.data = held,
                                                   !.annotated = stays \/ HasOwn(held)])
           \/ StoreCM([NoCM EXCEPT !.data = [held EXCEPT !.tag = NoVersion],
                                   !.annotated = notes # NoNotes, !.rv = cm.rv])
  /\ UNCHANGED <<ccmVars, caches, queued, rollout>>

\* Mutant: the webhook keeps the payload it read.
BadSecretAdmitPod(v) ==
  /\ v \in revisions /\ v # cm.version /\ cm.annotated /\ Exists(v)
  /\ HasOwn(ccm[v].data)
  /\ Spend("pods")
  /\ StoreCM([cm EXCEPT !.version = v, !.data.notes = ccm[v].data.notes, !.data.tag = v])
  /\ UNCHANGED <<ccmVars, caches, queued, rollout>>

\* The pod webhook rolls the Secret back to v.  It names v under the wrong key, and
\* panics, which its server survives, when v has no annotation of its own.  Its label
\* calls, which write that key into the version too, are left out.
SecretAdmitPod(v) ==
  /\ v \in revisions /\ v # cm.version /\ cm.annotated /\ Exists(v)
  /\ HasOwn(ccm[v].data)
  /\ Spend("pods")
  /\ StoreCM([cm EXCEPT !.version = v, !.data = [ccm[v].data EXCEPT !.tag = v]])
  /\ UNCHANGED <<ccmVars, caches, queued, rollout>>

-----------------------------------------------------------------------------
(* Reconcile and UpdateSecret.                                             *)

\* The Secret does not differ from the current version: its stamp is put back.
SecretAdoptVersion ==
  /\ \E v \in Versions, out \in Outcomes :
       /\ Starts(FALSE, {v})
       /\ ~Differs(cmCache.data, ccmCache[v].data)
       /\ UpdateCM([cmCache EXCEPT !.version = v, !.annotated = TRUE], out)
       /\ IF out = "ok" THEN Begin("idle") /\ Forget ELSE Retry
  /\ UNCHANGED <<ccmVars, caches, rollout>>

\* The Secret differs from the current version: CreateNewCS is called.
SecretNewVersion ==
  /\ \A v \in CurrentIn(ccmCache) : Differs(cmCache.data, ccmCache[v].data)
  /\ NewVersion

\* The stamp is not the current version: CopyCSToSecret writes the stamped version's
\* payload and annotations back into the Secret, if it has annotations...
SecretRollBack == RollBack /\ HasOwn(ccmCache[cmCache.version].data)

\* ... and writes to a nil map if it has none.
FindsNilMap ==
  /\ \E v \in Versions \ {cmCache.version} : Starts(TRUE, {v})
  /\ ccmCache[cmCache.version].rv > 0
  /\ ~HasOwn(ccmCache[cmCache.version].data)
SecretRollBackPanics ==
  /\ FindsNilMap
  /\ Restart
  /\ UNCHANGED <<rollout, left>>

\* Nothing differs, or the label current is on no version or on several.
SecretNothingToDo ==
  /\ Starts(cmCache.version # NoVersion, CurrentIn(ccmCache))
  /\ \/ /\ CurrentIn(ccmCache) = {cmCache.version}
        /\ ~Differs(cmCache.data, ccmCache[cmCache.version].data)
     \/ CurrentIn(ccmCache) = {} /\ cmCache.version # NoVersion
     \/ Cardinality(CurrentIn(ccmCache)) > 1
  /\ Begin("idle")
  /\ UNCHANGED <<cmVars, ccmVars, caches, locals, rollout, left>>

CopyCSToSecret == SecretRollBack \/ SecretRollBackPanics \/ RollBackMissing \/ RaiseCurrent

CreateNewCS ==
  \/ SecretNewVersion
  \/ DropLatest \/ DropLatestPanics \/ UndoDrop
  \/ CreateNew \/ RevertCurrent \/ RevertLatest \/ StampNew \/ StampNewPanics
  \/ RollDeployments \/ RollStatefulSets \/ RollPanics

SecretController ==
  \/ FirstVersion \/ StampFirst \/ SecretAdoptVersion \/ SecretNothingToDo
  \/ CopyCSToSecret \/ DropOld
  \/ CreateNewCS

-----------------------------------------------------------------------------
SecretSurroundings ==
  \/ Resync \/ SecretUser
  \/ \E w \in Workloads : Apply(w)
  \/ \E v \in Versions : SecretAdmitPod(v)

\* A Secret has annotations when it has any: Configurator's or its owner's.
SecretInit ==
  /\ Init
  /\ cm.data.tag = NoVersion
  /\ cm.annotated = (HasOwn(cm.data) \/ cm.deployments \cup cm.statefulsets # {})

SecretNext ==
  \/ SecretController
  \/ Deliver(DeliverCM) \/ Deliver(DeliverCCM)
  \/ SecretSurroundings /\ UNCHANGED <<pc, locals>>
  \/ Crash

SecretSpec == SecretInit /\ [][SecretNext]_vars
FairSecretSpec ==
  SecretSpec /\ WF_vars(SecretController)
             /\ WF_vars(Deliver(DeliverCM)) /\ WF_vars(Deliver(DeliverCCM))

\* The system when its surroundings are patient, as in ConfigMapProperties.
PatientSecretNext ==
  \/ SecretController \/ Deliver(DeliverCM) \/ Deliver(DeliverCCM) \/ Crash
  \/ Settled /\ SecretSurroundings /\ UNCHANGED <<pc, locals>>
PatientSecretSpec == SecretInit /\ [][PatientSecretNext]_vars

-----------------------------------------------------------------------------
\* Whenever Configurator itself changes the content or the stamp of the Secret, the
\* stamped version has the Secret's payload, and its annotations if it has any.
SecretStampIsTruthful ==
  [][<<cm.data, cm.version>>' # <<cm.data, cm.version>> /\ left'.edits = left.edits
       => /\ cm'.version # NoVersion
          /\ cm'.data.payload = ccm'[cm'.version].data.payload
          /\ ccm'[cm'.version].data.notes \in {NoNotes, cm'.data.notes}]_vars

\* The Secret reconciler implements the version store: what a Secret holds, saved and
\* installed, whatever becomes of its annotations.
SecretStore == INSTANCE VersionStore
                 WITH Data <- Payloads, content <- cm.data.payload, stamp <- cm.version,
                      saved <- [v \in Versions |-> IF Exists(v) THEN ccm[v].data.payload
                                                                ELSE NoData]
SecretImplementsVersionStore == SecretStore!Spec

\* With a patient owner and an API server that fails no call, a settled Secret is stamped
\* with the one current version, does not differ from it as far as the code compares
\* them, and one version is the latest.
SecretSettledInStep ==
  Settled => /\ CurrentIn(ccm) = {cm.version}
             /\ ~Differs(cm.data, ccm[cm.version].data)
             /\ LatestIn(ccm) # {}

\* Under the same conditions, a payload is not taken out of the Secret by Configurator
\* before a version keeps it.  Annotations are, if the version they belong to has none.
PayloadsKept ==
  [][cm'.data.payload # cm.data.payload /\ left'.edits = left.edits
       => \E v \in Versions : Exists(v) /\ ccm[v].data.payload = cm.data.payload]_vars

\* Under the same conditions, only a handler whose cache lags writes to a nil map: the
\* label current is where the stamp is, and the process that starts again finds it there.
NilMapOnlyOnEchoes == FindsNilMap => CurrentIn(ccm) = {cm.version}

\* "works well for both rolling updates and rollbacks": the reconciler comes to rest
\* again after each update of the Secret, also when one call has failed and the next
\* handler takes the stamp that was left for a rollback.
SecretSettles == []<>Settled
=============================================================================
