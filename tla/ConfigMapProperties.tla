------------------------ MODULE ConfigMapProperties ------------------------
(***************************************************************************)
(* What the ConfigMap reconciler should guarantee.                         *)
(***************************************************************************)
EXTENDS ConfigMapController

\* The stamp on the ConfigMap (annotation currentCustomConfigMapVersion) always
\* names a CustomConfigMap that exists, whatever faults, crashes, conflicts and
\* rollbacks do to the handler that set it.
StampedVersionSaved == cm.version # NoVersion => Exists(cm.version)

\* Every version a pod template has ever carried exists: a revision of a workload
\* can be rolled back to.
RevisionsSaved == \A v \in revisions : Exists(v)

\* Whenever Configurator itself (reconciler or webhook) changes the content or the
\* stamp, the stamped version has that content: only the user's edits separate the
\* two.
StampIsTruthful ==
  [][<<cm.data, cm.version>>' # <<cm.data, cm.version>> /\ left'.edits = left.edits
       => cm'.version # NoVersion /\ cm'.data = ccm'[cm'.version].data]_vars

\* The reconciler implements the version store: saved contents never change or
\* vanish, and a stamp installs the content of a saved version.
Store == INSTANCE VersionStore
           WITH content <- cm.data, stamp <- cm.version,
                saved <- [v \in Versions |-> ccm[v].data]
ImplementsVersionStore == Store!Spec

-----------------------------------------------------------------------------
\* Neither a key, nor an event, nor a handler is under way.
Settled == pc = "idle" /\ ~queued /\ cmWatch = <<>> /\ ccmWatch = <<>>

\* The system when its surroundings are patient: the ConfigMap is left alone, and
\* the informer does not resync, until what was done before has been handled.
PatientNext ==
  \/ Controller \/ Deliver(DeliverCM) \/ Deliver(DeliverCCM) \/ Crash
  \/ Settled /\ Surroundings /\ UNCHANGED <<pc, locals>>
PatientSpec == Init /\ [][PatientNext]_vars
FairPatientSpec == PatientSpec /\ Fairness

\* With a patient user and an API server that fails no call, a settled ConfigMap is
\* stamped with the one current version and has its content, and one version is the
\* latest: edits, replacements, rollbacks and the panics on the way leave no trace.
SettledInStep ==
  Settled => /\ CurrentIn(ccm) = {cm.version}
             /\ cm.data = ccm[cm.version].data
             /\ LatestIn(ccm) # {}

\* Under the same conditions, and as long as nobody rolls back, the template of the
\* one Deployment that uses the ConfigMap carries the stamped version from the
\* second version on.
TemplateFollows ==
  \A w \in Deployments :
    Settled /\ cm.deployments = {w} /\ template[w] \notin {Bare, Absent} /\ left.pods = MaxPods
      => template[w] = cm.version \/ Cardinality({v \in Versions : Exists(v)}) = 1

\* "When a ConfigMap content is changed, Configurator creates a custom resource":
\* what the ConfigMap holds is sooner or later the content of a version.
EditsSaved ==
  \A d \in Data : cm.data = d ~> \E v \in Versions : ccm[v].data = d

-----------------------------------------------------------------------------
\* However the user, the pod webhook, faults and crashes treat it, the controller
\* comes to rest again: no retry, conflict, panic or event of its own making keeps
\* it going for ever.
Settles == []<>Settled

-----------------------------------------------------------------------------
(* What the repository says and the code does only for the patient.        *)

\* "When a ConfigMap content is changed, Configurator creates a custom resource":
\* a content is not taken out of the ConfigMap by Configurator before a version
\* keeps it.  It holds of a patient user, and fails one who edits while a handler runs.
EditsKept ==
  [][cm'.data # cm.data /\ left'.edits = left.edits
       => \E v \in Versions : ccm[v].data = cm.data]_vars
=============================================================================
