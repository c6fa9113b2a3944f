------------------------- MODULE SecretPatientProofs -------------------------
(***************************************************************************)
(* Proofs about the Secret reconciler when its surroundings are patient.   *)
(* A change of a Secret goes through the phases of PatientProofs, but for  *)
(* two things: a Secret may differ from its version in annotations that    *)
(* are not compared, and a rollback is written twice, because the pod      *)
(* webhook adds an annotation that the reconciler takes away again.        *)
(***************************************************************************)
EXTENDS SecretProofs, PatientProofs

-----------------------------------------------------------------------------
(* The phases a ConfigMap does not have.                                   *)

\* All is done, and the Secret has annotations its version does not keep.
Fitting ==
  /\ pc = "idle" /\ ~queued /\ Caught /\ Synced
  /\ \E d \in Data : InForce(cm.version, d) /\ ~Differs(cm.data, d)

\* The reconciler has heard of the Secret, or is going to.
Hearing == Caught \/ (Behind /\ ~queued)

\* After a rollback the Secret has the payload of the version it is stamped with.
Rolled ==
  /\ cm.version \in Versions /\ Exists(cm.version) /\ left.pods # MaxPods
  /\ cm.data.payload = ccm[cm.version].data.payload

\* The pod webhook has written the Secret.
Admitted ==
  /\ pc = "idle" /\ Synced /\ Rolled
  /\ \/ Caught /\ queued
     \/ Behind /\ ~queued
  /\ \E v \in Versions \ {cm.version}, d \in Data : InForce(v, d)

\* CopyCSToSecret has written it again; the label current moves.
SecretRaising ==
  /\ pc = "raiseCurrent" /\ Hearing /\ Synced /\ Rolled
  /\ cm.data = ccm[cm.version].data
  /\ cur.of # cm.version /\ InForce(cur.of, ccm[cur.of].data)
  /\ cur.obj = ccm[cur.of] /\ other = [of |-> cm.version, obj |-> ccm[cm.version]]
SecretDropping ==
  /\ pc = "dropOld" /\ Hearing /\ Rolled
  /\ cm.data = ccm[cm.version].data
  /\ cur.of \in Versions /\ cur.of # cm.version
  /\ CurrentIn(ccm) = {cur.of, cm.version} /\ LatestIn(ccm) # {}
  /\ cur.obj = ccm[cur.of]

\* The rollback is done.  The event of the second write makes the handler start once more,
\* and it may begin the same rollback again with versions as they were before.
Reheard ==
  /\ pc \in {"idle", "raiseCurrent"} /\ Hearing /\ Rolled /\ InStep
  /\ pc = "raiseCurrent"
       => Caught /\ other.of = cm.version /\ other.obj.rv # ccm[cm.version].rv

OwnPhases == Fitting \/ Admitted \/ SecretRaising \/ SecretDropping \/ Reheard

\* What holds as long as nothing is harmed.
SecretSteady == Steady \/ (Annotated /\ OwnPhases /\ Follows)

\* The inductive invariant.
SecretPatientInv == IInv /\ Informed /\ Counted /\ (Unharmed => SecretSteady)

\* What PayloadsKept says of a step.
KeepingPayload ==
  cm'.data.payload # cm.data.payload /\ left'.edits = left.edits
    => \E v \in Versions : Exists(v) /\ ccm[v].data.payload = cm.data.payload

-----------------------------------------------------------------------------
(* The surroundings act.                                                   *)

\* A settled system is as that of a ConfigMap, or the Secret has annotations of its own.
LEMMA SecretRests ==
  ASSUME IInv, Informed, SecretSteady, Settled
  PROVE  /\ Steady \/ (Fitting /\ Annotated)
         /\ Follows /\ Annotated /\ Caught /\ Synced /\ pc = "idle" /\ ~queued
         /\ cm \in CMs /\ cm.version \in Versions /\ cm.version # NoVersion
         /\ \E d \in Data : InForce(cm.version, d) /\ ~Differs(cm.data, d)
<1>1. pc = "idle" /\ ~queued /\ cmWatch = <<>> /\ ccmWatch = <<>> /\ cm \in CMs
  BY DEF Settled, IInv, CMSide
<1>2. CASE Steady
  <2>1. /\ InForce(cm.version, cm.data) /\ Caught /\ Synced /\ Follows
        /\ cm.version \in Versions /\ cm.version # NoVersion
    BY <1>2, SettledPhase DEF InStep
  <2>2. cm.data \in Data /\ ~Differs(cm.data, cm.data)
    BY <1>1 DEF Differs, CMs
  <2> QED BY <1>1, <1>2, <2>1, <2>2 DEF Steady
<1>3. CASE Annotated /\ OwnPhases /\ Follows
  <2>1. ~Admitted /\ ~SecretRaising /\ ~SecretDropping
    BY <1>1 DEF Admitted, SecretRaising, SecretDropping, Behind
  <2>2. CASE Fitting
    BY <1>1, <1>3, <2>2, ValuesAssumption DEF Fitting, InForce
  <2>3. CASE Reheard
    <3>1. InStep /\ Caught
      BY <1>1, <2>3 DEF Reheard, Hearing, Behind
    <3>2. Drained
      BY <1>1, <3>1 DEF Drained
    <3> QED BY <1>2, <1>3, <3>2 DEF Steady, Phases
  <2> QED BY <1>3, <2>1, <2>2, <2>3 DEF OwnPhases
<1> QED BY <1>2, <1>3 DEF SecretSteady

\* What is stored in a settled system is something to hear of.
LEMMA SecretStored ==
  ASSUME IInv, Informed, SecretSteady, Settled, UNCHANGED <<ccmVars, caches, queued, pc>>,
         NEW copy \in CMs, copy.rv = cm.rv, copy # cm, StoreCM(copy)
  PROVE  /\ Behind' /\ Synced' /\ pc' = "idle" /\ ~queued' /\ UNCHANGED ccm
         /\ cm'.data = copy.data /\ cm'.version = copy.version /\ cm'.annotated = copy.annotated
         /\ cm'.deployments = copy.deployments /\ cm'.statefulsets = copy.statefulsets
         /\ \E v \in Versions, d \in Data :
              v = cm.version /\ InForce(v, d)' /\ ccm[v].data = d /\ ~Differs(cm.data, d)
<1>1. /\ Caught /\ Synced /\ pc = "idle" /\ ~queued /\ cm \in CMs /\ cm.version \in Versions
      /\ UNCHANGED <<ccm, ccmWatch, cmCache, ccmCache, queued, pc>>
  BY SecretRests DEF ccmVars, caches
<1>2. /\ Behind' /\ cm'.data = copy.data /\ cm'.version = copy.version
      /\ cm'.annotated = copy.annotated
      /\ cm'.deployments = copy.deployments /\ cm'.statefulsets = copy.statefulsets
  BY <1>1, StoredCM
<1>3. PICK v \in Versions, d \in Data : v = cm.version /\ InForce(v, d) /\ ~Differs(cm.data, d)
  BY <1>1, SecretRests
<1>4. InForce(v, d)' /\ ccm[v].data = d /\ Synced'
  BY <1>1, <1>3 DEF InForce, CurrentIn, LatestIn, Synced
<1> QED BY <1>1, <1>2, <1>3, <1>4

\* The owner edits or replaces the Secret.
LEMMA SecretUserSteady ==
  ASSUME IInv, Informed, SecretSteady, Settled, UNCHANGED <<pc, locals>>, SecretUser
  PROVE  SecretSteady' /\ KeepingPayload
<1>1. /\ Follows /\ cm \in CMs /\ cm.version \in Versions /\ cm.version # NoVersion
      /\ pc = "idle" /\ left \in Budgets
  BY SecretRests DEF IInv
<1>2. Spend("edits") /\ UNCHANGED <<ccmVars, caches, queued, rollout>>
  BY DEF SecretUser
<1>3. left'.pods = left.pods /\ left'.edits # left.edits
  BY <1>1, <1>2 DEF Spend, Budgets
<1>4. PICK payload \in Payloads, notes \in Notes \cup {NoNotes} :
        LET held == [cm.data EXCEPT !.payload = payload, !.notes = notes]
            stays == cm.version # NoVersion \/ cm.deployments \cup cm.statefulsets # {}
        IN  \/ held # cm.data /\ StoreCM([cm EXCEPT !.data = held,
                                                    !.annotated = stays \/ HasOwn(held)])
            \/ StoreCM([NoCM EXCEPT !.data = [held EXCEPT !.tag = NoVersion],
                                    !.annotated = notes # NoNotes, !.rv = cm.rv])
  BY DEF SecretUser
<1> DEFINE held == [cm.data EXCEPT !.payload = payload, !.notes = notes]
           edited == [cm EXCEPT !.data = held, !.annotated = TRUE]
           replaced == [NoCM EXCEPT !.data = [held EXCEPT !.tag = NoVersion],
                                    !.annotated = notes # NoNotes, !.rv = cm.rv]
<1>5. held \in Data /\ [held EXCEPT !.tag = NoVersion] \in Data
  BY <1>1, ContentsAssumption DEF CMs, Contents
<1>6. \/ held # cm.data /\ StoreCM(edited)
      \/ StoreCM(replaced)
  BY <1>1, <1>4
<1> HIDE DEF held
<1>7. /\ edited \in CMs /\ edited.rv = cm.rv /\ edited.data = held
      /\ edited.version = cm.version /\ edited.annotated /\ edited.deployments = cm.deployments
  BY <1>1, <1>5 DEF CMs
<1>8. /\ replaced \in CMs /\ replaced.rv = cm.rv /\ replaced.version = NoVersion
      /\ replaced.deployments = {} /\ replaced.statefulsets = {}
  BY <1>1, <1>5 DEF CMs, NoCM
<1> HIDE DEF edited, replaced
<1>9. ASSUME NEW copy \in {edited, replaced}, copy # cm, StoreCM(copy)
      PROVE  SecretSteady'
  <2>1. /\ Behind' /\ Synced' /\ pc' = "idle" /\ ~queued' /\ UNCHANGED ccm
        /\ cm'.version = copy.version /\ cm'.annotated = copy.annotated
        /\ cm'.deployments = copy.deployments /\ cm'.statefulsets = copy.statefulsets
        /\ \E v \in Versions, d \in Data : v = cm.version /\ InForce(v, d)'
    BY <1>2, <1>7, <1>8, <1>9, SecretStored
  <2>2. cm'.version \in {cm.version, NoVersion} /\ Nameless' /\ Annotated'
    BY <1>1, <1>7, <1>8, <2>1 DEF Nameless, Annotated
  <2>3. Changed'
    BY <2>1, <2>2 DEF Changed
  <2>4. Follows'
    <3>1. CASE copy = edited
      BY <1>1, <1>2, <1>3, <1>7, <2>1, <3>1, FollowsStill DEF rollout, Exists
    <3>2. CASE copy = replaced
      BY <1>8, <2>1, <3>2 DEF Follows
    <3> QED BY <3>1, <3>2
  <2> QED BY <2>2, <2>3, <2>4 DEF SecretSteady, Steady, Phases
<1>10. SecretSteady'
  <2>1. held # cm.data => edited # cm
    BY <1>7
  <2>2. replaced # cm
    BY <1>1, <1>8
  <2> QED BY <1>6, <1>9, <2>1, <2>2
<1> QED BY <1>3, <1>10 DEF KeepingPayload

\* The pod webhook takes the payload away when a version keeps it.
LEMMA SecretAdmitPodSteady ==
  ASSUME IInv, Informed, Counted, SecretSteady, Settled, UNCHANGED <<pc, locals>>,
         NEW v \in Versions, SecretAdmitPod(v)
  PROVE  SecretSteady' /\ KeepingPayload
<1> DEFINE held == [ccm[v].data EXCEPT !.tag = v]
           copy == [cm EXCEPT !.version = v, !.data = held]
<1>1. /\ v # cm.version /\ cm.annotated /\ Exists(v) /\ Spend("pods") /\ StoreCM(copy)
      /\ UNCHANGED <<ccmVars, caches, queued, rollout>>
  BY DEF SecretAdmitPod
<1>2. cm \in CMs /\ left \in Budgets /\ CCMSide /\ MaxPods \in Nat
  BY BoundsAssumption DEF IInv, CMSide
<1>3. ccm[v] \in CCMs /\ ccm[v].data \in Contents
  BY <1>1, <1>2, ContentsAssumption DEF CCMSide, Exists, NoCCM, CCMs
<1>4. held \in Data /\ held.payload = ccm[v].data.payload
  BY <1>3, ContentsAssumption DEF Contents
<1> HIDE DEF held
<1>5. /\ copy \in CMs /\ copy.rv = cm.rv /\ copy.data = held /\ copy.version = v
      /\ copy.annotated
  BY <1>1, <1>2, <1>4 DEF CMs
<1>6. copy # cm
  BY <1>1, <1>5
<1> HIDE DEF copy
<1>7. /\ Behind' /\ Synced' /\ pc' = "idle" /\ ~queued' /\ UNCHANGED ccm
      /\ cm'.data = held /\ cm'.version = v /\ cm'.annotated
  BY <1>1, <1>5, <1>6, SecretStored
<1>8. PICK u \in Versions, d \in Data :
        u = cm.version /\ InForce(u, d)' /\ ccm[u].data = d /\ ~Differs(cm.data, d)
  BY <1>1, <1>5, <1>6, SecretStored
<1>9. left'.pods # MaxPods
  BY <1>1, <1>2 DEF Spend, Budgets, Counted
<1>10. Admitted'
  <2>1. Rolled'
    BY <1>1, <1>4, <1>7, <1>9 DEF Rolled, Exists
  <2>2. u \in Versions \ {cm'.version}
    BY <1>1, <1>7, <1>8
  <2> QED BY <1>7, <1>8, <2>1, <2>2 DEF Admitted
<1>11. Annotated' /\ Follows'
  BY <1>7, <1>9 DEF Annotated, Follows
<1>12. KeepingPayload
  <2>1. ccm[u].data.payload = cm.data.payload
    BY <1>8 DEF Differs
  <2>2. Exists(u)
    <3>1. ccm[u].current
      BY <1>7, <1>8 DEF InForce, CurrentIn
    <3> QED BY <1>2, <3>1 DEF CCMSide, CCMs, NoCCM, Exists
  <2> QED BY <2>1, <2>2 DEF KeepingPayload
<1> QED BY <1>10, <1>11, <1>12 DEF SecretSteady, OwnPhases

\* A resync of a Secret with annotations of its own finds what a change would.
LEMMA FittingResync ==
  ASSUME Fitting, Annotated, Follows, cm.version \in Versions, cm.version # NoVersion,
         UNCHANGED <<pc, locals>>, Resync
  PROVE  SecretSteady' /\ KeepingPayload
<1>1. queued' /\ pc' = "idle"
      /\ UNCHANGED <<cm, cmWatch, cmCache, ccm, ccmWatch, ccmCache, template, left>>
  BY DEF Resync, cmVars, ccmVars, caches, rollout, Fitting
<1>2. PICK d \in Data : InForce(cm.version, d)
  BY DEF Fitting
<1>3. PICK v \in Versions : v = cm.version
  OBVIOUS
<1>4. InForce(v, d)'
  BY <1>1, <1>2, <1>3 DEF InForce, CurrentIn, LatestIn
<1>5. Changed'
  BY <1>1, <1>3, <1>4 DEF Fitting, Changed, Caught, Synced, Nameless
<1>6. Annotated' /\ Follows'
  BY <1>1, FollowsStill DEF Annotated, Exists
<1> QED BY <1>1, <1>5, <1>6 DEF SecretSteady, Steady, Phases, KeepingPayload

\* A workload that is applied beside such a Secret carries its stamp.
LEMMA FittingApply ==
  ASSUME IInv, Informed, Counted, SecretSteady, Settled, Fitting, UNCHANGED <<pc, locals>>,
         NEW w \in Workloads, Apply(w)
  PROVE  SecretSteady' /\ KeepingPayload
<1>1. PICK copy : copy = IF w \in Deployments THEN DeploymentNamed(w) ELSE StatefulSetNamed(w)
  OBVIOUS
<1>2. /\ Spend("applies") /\ StoreCM(copy) /\ template' = [template EXCEPT ![w] = cm.version]
      /\ UNCHANGED <<ccmVars, caches, queued, pc>>
  BY <1>1 DEF Apply
<1>3. /\ Follows /\ Annotated /\ cm \in CMs /\ cm.version \in Versions /\ cm.version # NoVersion
      /\ left \in Budgets
      /\ template \in [Workloads -> Versions \cup {NoVersion, Bare, Absent}]
  BY SecretRests DEF IInv, WorkloadSide
<1>4. /\ copy \in CMs /\ copy.rv = cm.rv /\ copy.data = cm.data /\ copy.version = cm.version
      /\ copy.annotated
      /\ copy.deployments = IF w \in Deployments THEN cm.deployments \cup {w} ELSE cm.deployments
  <2>1. CASE w \in Deployments
    BY <1>1, <1>3, <2>1 DEF DeploymentNamed, CMs
  <2>2. CASE w \notin Deployments
    BY <1>1, <1>3, <2>2 DEF StatefulSetNamed, CMs, Workloads
  <2> QED BY <2>1, <2>2
<1>5. /\ Fitting' \/ Changed'
      /\ cm'.data = cm.data /\ cm'.version = cm.version /\ cm'.annotated /\ UNCHANGED ccm
      /\ cm'.deployments = copy.deployments
  <2>1. CASE copy = cm
    <3>1. UNCHANGED <<cm, cmWatch, ccm, ccmWatch, cmCache, ccmCache, queued, pc>>
      BY <1>2, <2>1 DEF StoreCM, cmVars, ccmVars, caches
    <3>2. PICK d \in Data : InForce(cm.version, d) /\ ~Differs(cm.data, d)
      BY DEF Fitting
    <3>3. InForce(cm.version, d)' /\ Caught' /\ Synced'
      BY <3>1, <3>2 DEF Fitting, InForce, CurrentIn, LatestIn, Caught, Synced
    <3>4. Fitting'
      BY <3>1, <3>2, <3>3 DEF Fitting
    <3> QED BY <1>4, <2>1, <3>1, <3>4
  <2>2. CASE copy # cm
    <3>1. /\ Behind' /\ Synced' /\ pc' = "idle" /\ ~queued' /\ UNCHANGED ccm
          /\ cm'.data = copy.data /\ cm'.version = copy.version /\ cm'.annotated = copy.annotated
          /\ cm'.deployments = copy.deployments
          /\ \E v \in Versions, d \in Data : v = cm.version /\ InForce(v, d)'
      BY <1>2, <1>4, <2>2, SecretStored
    <3>2. Changed'
      BY <1>3, <1>4, <3>1 DEF Changed, Nameless
    <3> QED BY <1>4, <3>1, <3>2
  <2> QED BY <2>1, <2>2
<1>6. Follows'
  <2> SUFFICES ASSUME NEW u \in Deployments, cm'.deployments = {u},
                      template'[u] \notin {Bare, Absent}, left'.pods = MaxPods
               PROVE  template'[u] = cm'.version
                      \/ \E v \in Versions : \A x \in Versions : Exists(x)' <=> x = v
    BY DEF Follows
  <2>1. CASE u = w
    BY <1>2, <1>3, <1>5, <2>1
  <2>2. CASE u # w
    <3>1. cm.deployments = {u} /\ template'[u] = template[u]
      BY <1>2, <1>3, <1>4, <1>5, <2>2 DEF Workloads
    <3>2. left.pods = MaxPods
      BY <1>2, <1>3 DEF Spend, Budgets
    <3> QED BY <1>3, <1>5, <3>1, <3>2 DEF Follows, Exists
  <2> QED BY <2>1, <2>2
<1>7. Annotated'
  BY <1>5 DEF Annotated
<1> QED BY <1>5, <1>6, <1>7 DEF SecretSteady, Steady, Phases, OwnPhases, KeepingPayload

\* What keeps a content keeps its payload.
LEMMA KeepsPayload == ASSUME IInv, Keeping PROVE KeepingPayload
<1> SUFFICES ASSUME cm'.data.payload # cm.data.payload, left'.edits = left.edits
             PROVE  \E v \in Versions : Exists(v) /\ ccm[v].data.payload = cm.data.payload
  BY DEF KeepingPayload
<1>1. PICK v \in Versions : ccm[v].data = cm.data
  BY DEF Keeping
<1>2. ccm[v] # NoCCM
  BY <1>1, ValuesAssumption DEF IInv, CMSide, CMs, NoCCM
<1>3. Exists(v)
  BY <1>2 DEF IInv, CCMSide, CCMs, Exists
<1> QED BY <1>1, <1>3

LEMMA SecretSurroundingsSteady ==
  ASSUME IInv, Informed, Counted, SecretSteady, Settled, SecretSurroundings,
         UNCHANGED <<pc, locals>>
  PROVE  SecretSteady' /\ KeepingPayload
<1>1. CASE SecretUser
  BY <1>1, SecretUserSteady
<1>2. CASE \E v \in Versions : SecretAdmitPod(v)
  BY <1>2, SecretAdmitPodSteady
<1>3. CASE Resync \/ \E w \in Workloads : Apply(w)
  <2>1. CASE Steady
    BY <1>3, <2>1, SurroundingsSteady, KeepsPayload DEF Surroundings, SecretSteady
  <2>2. CASE Fitting
    BY <1>3, <2>2, SecretRests, FittingResync, FittingApply
  <2> QED BY <2>1, <2>2, SecretRests
<1> QED BY <1>1, <1>2, <1>3 DEF SecretSurroundings

-----------------------------------------------------------------------------
(* The Secret's own handlers, in the phases a ConfigMap has too.           *)

\* The stamp is put back where the owner took it away.
LEMMA SecretAdoptVersionSteady ==
  ASSUME IInv, Informed, Calm, Steady, SecretAdoptVersion
  PROVE  SecretSteady' /\ KeepingPayload
<1>1. PICK v \in Versions, out \in Outcomes :
        /\ Starts(FALSE, {v})
        /\ UpdateCM([cmCache EXCEPT !.version = v, !.annotated = TRUE], out)
        /\ IF out = "ok" THEN Begin("idle") /\ Forget ELSE Retry
  BY DEF SecretAdoptVersion
<1>2. UNCHANGED <<ccm, ccmWatch, cmCache, ccmCache, template>>
  BY DEF SecretAdoptVersion, ccmVars, caches, rollout
<1>3. cmCache.version = NoVersion /\ CurrentIn(ccmCache) = {v} /\ pc = "idle" /\ left \in Budgets
  BY <1>1 DEF Starts, IInv
<1>4. Changed /\ Caught
  <2>1. ~Untouched
    BY <1>3 DEF Untouched, Synced, CurrentIn, NoCCM
  <2>2. ~Echoing
    BY <1>1, <1>3, ValuesAssumption DEF Echoing, Caught, InStep, InForce, Starts
  <2> QED BY <1>1, <2>1, <2>2, StartsAt DEF Steady
<1>5. ccmCache = ccm /\ cmCache = cm /\ cm \in CMs /\ Nameless
  BY <1>4, ChangeFound
<1> DEFINE copy == [cmCache EXCEPT !.version = v, !.annotated = TRUE]
<1>6. /\ copy \in CMs /\ copy.rv = cm.rv /\ copy.data = cm.data /\ copy.version = v
      /\ copy.annotated /\ copy.deployments = cm.deployments
  BY <1>5 DEF CMs
<1>7. UpdateCM(copy, out) /\ v # NoVersion
  BY <1>1, ValuesAssumption
<1> HIDE DEF copy
<1>8. out = "ok" /\ StoreCM(copy) /\ UNCHANGED left
  BY <1>3, <1>6, <1>7, CalmUpdateCM
<1>9. /\ Behind' /\ cm'.data = cm.data /\ cm'.version = v /\ cm'.annotated
      /\ cm'.deployments = {}
  <2>1. copy # cm
    BY <1>3, <1>5, <1>6, <1>7
  <2>2. cm.deployments = {}
    BY <1>3, <1>5 DEF Nameless
  <2> QED BY <1>2, <1>4, <1>5, <1>6, <1>8, <2>1, <2>2, StoredCM
<1>10. Changed'
  <2>1. PICK d \in Data : InForce(v, d)
    BY <1>3, <1>4, <1>5 DEF Changed, InForce
  <2>2. InForce(v, d)' /\ Synced'
    BY <1>2, <1>5, <1>4, <2>1 DEF InForce, CurrentIn, LatestIn, Synced, Changed
  <2>3. pc' = "idle" /\ queued' = FALSE
    BY <1>1, <1>8 DEF Begin
  <2> QED BY <1>7, <1>9, <2>2, <2>3 DEF Changed, Nameless
<1>11. Annotated' /\ Follows'
  BY <1>9 DEF Annotated, Follows
<1> QED BY <1>9, <1>10, <1>11 DEF SecretSteady, Steady, Phases, KeepingPayload

\* A handler that does nothing finds the Secret as its version is, but for annotations.
LEMMA SecretNothingToDoSteady ==
  ASSUME IInv, Informed, Steady, SecretNothingToDo PROVE SecretSteady' /\ KeepingPayload
<1>1. /\ Starts(cmCache.version # NoVersion, CurrentIn(ccmCache))
      /\ \/ /\ CurrentIn(ccmCache) = {cmCache.version}
            /\ ~Differs(cmCache.data, ccmCache[cmCache.version].data)
         \/ CurrentIn(ccmCache) = {} /\ cmCache.version # NoVersion
         \/ Cardinality(CurrentIn(ccmCache)) > 1
      /\ pc = "idle" /\ queued /\ pc' = "idle" /\ queued' = FALSE
      /\ UNCHANGED <<cmVars, ccmVars, caches, rollout, left>>
  BY DEF SecretNothingToDo, Begin, Starts
<1>2. CASE Changed /\ Caught
  <2>1. /\ ccmWatch = <<>> /\ ccmCache = ccm /\ cmWatch = <<>> /\ cmCache = cm /\ cm \in CMs
        /\ LatestIn(ccm) # {}
    BY <1>2, ChangeFound
  <2>2. PICK u \in Versions : CurrentIn(ccm) = {u} /\ ccm[u] \in CCMs
    BY <1>2, ChangeFound
  <2>3. Cardinality({u}) = 1
    BY FS_Singleton
  <2>4. u = cm.version /\ ~Differs(cm.data, ccm[u].data)
    BY <1>1, <2>1, <2>2, <2>3
  <2>5. ccm[u].data \in Data
    BY <2>2 DEF CCMs
  <2>6. InForce(cm.version, ccm[u].data)
    BY <2>1, <2>2, <2>4 DEF InForce
  <2>7. UNCHANGED <<cm, cmWatch, ccm, ccmWatch, cmCache, ccmCache>>
    BY <1>1 DEF cmVars, ccmVars, caches
  <2>8. InForce(cm.version, ccm[u].data)' /\ Caught' /\ Synced'
    BY <2>1, <2>6, <2>7 DEF InForce, CurrentIn, LatestIn, Caught, Synced
  <2>9. Fitting'
    BY <1>1, <2>4, <2>5, <2>7, <2>8 DEF Fitting
  <2>10. Annotated' /\ Follows'
    BY <1>1, FollowsStill DEF Steady, Annotated, cmVars, ccmVars, rollout, Exists
  <2> QED BY <2>7, <2>9, <2>10 DEF SecretSteady, OwnPhases, KeepingPayload
<1>3. ~Untouched
  <2> SUFFICES ASSUME Untouched PROVE FALSE
    OBVIOUS
  <2>1. CurrentIn(ccmCache) = {} /\ cmCache.version = NoVersion
    BY DEF Untouched, Synced, Caught, CurrentIn, NoCCM
  <2> QED BY <1>1, <2>1, FS_EmptySet
<1>4. CASE Echoing
  BY <1>1, <1>4, EchoStill, KeepsPayload DEF SecretSteady
<1> QED BY <1>1, <1>2, <1>3, <1>4, StartsAt DEF Steady

\* The process that ends in a rollback starts again and finds what the one before found.
LEMMA SecretRollBackPanicsSteady ==
  ASSUME IInv, Informed, Steady, SecretRollBackPanics PROVE SecretSteady' /\ KeepingPayload
<1>1. PICK v \in Versions \ {cmCache.version} : Starts(TRUE, {v})
  BY DEF SecretRollBackPanics, FindsNilMap
<1>2. CurrentIn(ccmCache) = {v} /\ pc = "idle"
  BY <1>1 DEF Starts
<1>3. /\ pc' = "idle" /\ cmCache' = cm /\ cmWatch' = <<>> /\ ccmCache' = ccm /\ ccmWatch' = <<>>
      /\ queued' /\ UNCHANGED <<cm, ccm, template, left>>
  BY DEF SecretRollBackPanics, Restart, Relist, rollout
<1>4. ASSUME Changed PROVE Phases'
  <2>1. PICK u \in Versions, d \in Data :
          /\ InForce(u, d)
          /\ \/ cm.version \in {u, NoVersion}
             \/ cm.version \in Versions /\ Exists(cm.version) /\ cm.data = ccm[cm.version].data
    BY <1>4 DEF Changed
  <2>2. InForce(u, d)' /\ (Exists(cm.version) <=> Exists(cm.version)')
    BY <1>3, <2>1 DEF InForce, CurrentIn, LatestIn, Exists
  <2>3. Caught' /\ Synced' /\ Nameless'
    BY <1>3, <1>4 DEF Caught, Synced, Nameless, Changed
  <2>4. Changed'
    BY <1>3, <2>1, <2>2, <2>3 DEF Changed
  <2> QED BY <2>4 DEF Phases
<1>5. ASSUME Echoing PROVE Phases'
  <2>1. Echoing'
    BY <1>3, <1>5 DEF Echoing, InStep, InForce, CurrentIn, LatestIn, HeardLast, Caught
  <2> QED BY <2>1 DEF Phases
<1>6. ~Untouched
  BY <1>2 DEF Untouched, Synced, CurrentIn, NoCCM
<1>7. Phases'
  BY <1>1, <1>4, <1>5, <1>6, StartsAt DEF Steady, Phases
<1>8. Annotated' /\ Follows'
  BY <1>2, <1>3, FollowsStill DEF Steady, Annotated, Exists
<1> QED BY <1>3, <1>7, <1>8 DEF SecretSteady, Steady, KeepingPayload

-----------------------------------------------------------------------------
(* The phases of a rollback.                                               *)

\* A handler that starts knows the Secret and its stamp.
LEMMA OwnStarts ==
  ASSUME IInv, OwnPhases, NEW versioned, NEW listed, Starts(versioned, listed)
  PROVE  /\ Admitted \/ Reheard
         /\ Caught /\ cmCache = cm /\ cm \in CMs /\ cm.version \in Versions /\ Exists(cm.version)
         /\ pc = "idle" /\ queued /\ cmCache.version # NoVersion /\ versioned = TRUE
         /\ CurrentIn(ccmCache) = listed
<1>1. /\ pc = "idle" /\ queued /\ (cmCache.version # NoVersion) = versioned
      /\ CurrentIn(ccmCache) = listed
  BY DEF Starts
<1>2. Admitted \/ Reheard
  BY <1>1 DEF OwnPhases, Fitting, SecretRaising, SecretDropping
<1>3. Caught /\ Rolled
  BY <1>1, <1>2 DEF Admitted, Reheard, Hearing
<1> QED BY <1>1, <1>2, <1>3, ValuesAssumption DEF Caught, Rolled, IInv, CMSide

\* What the handler finds at the beginning of a rollback.
LEMMA AdmittedFound ==
  ASSUME Admitted
  PROVE  /\ ccmCache = ccm /\ ccmWatch = <<>> /\ Exists(cm.version) /\ LatestIn(ccm) # {}
         /\ \E u \in Versions \ {cm.version} :
              CurrentIn(ccm) = {u} /\ InForce(u, ccm[u].data)
BY DEF Admitted, Synced, Rolled, InForce

\* A copy of the stamped version that has not the label current is an old one.
LEMMA ReheardFound ==
  ASSUME IInv, Informed, Reheard, NEW v \in Versions, CurrentIn(ccmCache) = {v}
  PROVE  \/ v = cm.version /\ ccmCache[v].data = cm.data
         \/ v # cm.version /\ ccmCache[cm.version].rv # ccm[cm.version].rv
<1>1. InForce(cm.version, cm.data) /\ cm.version \in Versions /\ CCMSide
  BY DEF Reheard, InStep, InForce, IInv
<1>2. CASE v = cm.version
  <2>1. ccmCache[v] # NoCCM
    BY <1>1 DEF CurrentIn, NoCCM
  <2> QED BY <1>1, <1>2, <2>1 DEF CCMSide, CopiesAgree, Agrees, InForce
<1>3. CASE v # cm.version
  <2>1. ~ccmCache[cm.version].current /\ ccm[cm.version].current
    BY <1>1, <1>3 DEF CurrentIn, InForce
  <2> QED BY <1>1, <1>3, <2>1 DEF Informed, Faithful
<1> QED BY <1>2, <1>3

\* A rollback that is begun again, or given up, leaves what it found.
LEMMA ReheardStill ==
  ASSUME Reheard, Annotated, Follows,
         UNCHANGED <<cm, ccm, template, left>>, Hearing',
         \/ pc' = "idle"
         \/ /\ pc' = "raiseCurrent" /\ Caught'
            /\ other'.of = cm.version /\ other'.obj.rv # ccm[cm.version].rv
  PROVE  SecretSteady' /\ KeepingPayload
<1>1. InStep' /\ Rolled' /\ Annotated'
  BY DEF Reheard, InStep, InForce, CurrentIn, LatestIn, Rolled, Exists, Annotated
<1>2. Follows'
  BY FollowsStill DEF Exists
<1>3. Reheard'
  BY <1>1 DEF Reheard
<1> QED BY <1>1, <1>2, <1>3 DEF SecretSteady, OwnPhases, KeepingPayload

\* No version is made in these phases, and no stamp is put back.
LEMMA NothingNew ==
  ASSUME IInv, Informed, OwnPhases
  PROVE  ~FirstVersion /\ ~SecretAdoptVersion /\ ~SecretNewVersion
<1>1. ~FirstVersion /\ ~SecretAdoptVersion
  BY OwnStarts DEF FirstVersion, SecretAdoptVersion
<1>2. ASSUME SecretNewVersion PROVE FALSE
  <2>1. PICK v \in Versions, out \in Outcomes :
          /\ Starts(cmCache.version # NoVersion, {v})
          /\ cmCache.version \in {NoVersion, v} /\ cmCache.data # ccmCache[v].data
    BY <1>2 DEF SecretNewVersion, NewVersion
  <2>2. /\ Admitted \/ Reheard
        /\ cmCache = cm /\ v = cm.version /\ CurrentIn(ccmCache) = {v}
    BY <2>1, OwnStarts
  <2>3. ~Admitted
    BY <2>2, AdmittedFound
  <2> QED BY <2>1, <2>2, <2>3, ReheardFound
<1> QED BY <1>1, <1>2

\* The handler that starts does nothing ...
LEMMA OwnNothingToDo ==
  ASSUME IInv, Informed, OwnPhases, Annotated, Follows, SecretNothingToDo
  PROVE  SecretSteady' /\ KeepingPayload
<1>1. /\ Starts(cmCache.version # NoVersion, CurrentIn(ccmCache))
      /\ \/ CurrentIn(ccmCache) = {cmCache.version}
         \/ CurrentIn(ccmCache) = {}
         \/ Cardinality(CurrentIn(ccmCache)) > 1
      /\ pc' = "idle"
      /\ UNCHANGED <<cmVars, ccmVars, caches, rollout, left>>
  BY DEF SecretNothingToDo, Begin
<1>2. (Admitted \/ Reheard) /\ Caught /\ cmCache = cm
  BY <1>1, OwnStarts
<1>3. ~Admitted
  <2> SUFFICES ASSUME Admitted PROVE FALSE
    OBVIOUS
  <2>1. PICK u \in Versions \ {cm.version} : CurrentIn(ccmCache) = {u}
    BY AdmittedFound
  <2>2. Cardinality({u}) = 1
    BY FS_Singleton
  <2> QED BY <1>1, <1>2, <2>1, <2>2
<1>4. UNCHANGED <<cm, cmWatch, cmCache, ccm, template, left>>
  BY <1>1 DEF cmVars, ccmVars, caches, rollout
<1>5. Hearing'
  BY <1>2, <1>4 DEF Hearing, Caught
<1> QED BY <1>1, <1>2, <1>3, <1>4, <1>5, ReheardStill

\* ... or misses a version the informer has not shown yet ...
LEMMA OwnRollBackMissing ==
  ASSUME IInv, Informed, OwnPhases, Annotated, Follows, RollBackMissing
  PROVE  SecretSteady' /\ KeepingPayload
<1>1. PICK v \in Versions \ {cmCache.version} : Starts(TRUE, {v})
  BY DEF RollBackMissing
<1>2. (Admitted \/ Reheard) /\ Caught /\ cmCache = cm
  BY <1>1, OwnStarts
<1>3. ccmCache[cm.version].rv = 0 /\ pc' = "idle"
      /\ UNCHANGED <<cm, cmWatch, cmCache, ccm, template, left>>
  BY <1>2 DEF RollBackMissing, Retry, cmVars, ccmVars, caches, rollout
<1>4. ~Admitted
  BY <1>3, AdmittedFound DEF Exists
<1>5. Hearing'
  BY <1>2, <1>3 DEF Hearing, Caught
<1> QED BY <1>2, <1>3, <1>4, <1>5, ReheardStill

\* ... or ends, and the one after it finds the same ...
LEMMA OwnRollBackPanics ==
  ASSUME IInv, Informed, OwnPhases, Annotated, Follows, SecretRollBackPanics
  PROVE  SecretSteady' /\ KeepingPayload
<1>1. PICK v \in Versions \ {cmCache.version} : Starts(TRUE, {v})
  BY DEF SecretRollBackPanics, FindsNilMap
<1>2. Admitted \/ Reheard
  BY <1>1, OwnStarts
<1>3. /\ pc' = "idle" /\ cmCache' = cm /\ cmWatch' = <<>> /\ ccmCache' = ccm /\ ccmWatch' = <<>>
      /\ queued' /\ UNCHANGED <<cm, ccm, template, left>>
  BY DEF SecretRollBackPanics, Restart, Relist, rollout
<1>4. Caught' /\ Synced' /\ Hearing'
  BY <1>3 DEF Caught, Synced, Hearing
<1>5. CASE Admitted
  <2>1. PICK u \in Versions \ {cm.version}, d \in Data : InForce(u, d)
    BY <1>5 DEF Admitted
  <2>2. InForce(u, d)' /\ u \in Versions \ {cm'.version}
    BY <1>3, <2>1 DEF InForce, CurrentIn, LatestIn
  <2>3. Rolled'
    BY <1>3, <1>5 DEF Admitted, Rolled, Exists
  <2>4. Admitted'
    BY <1>3, <1>4, <2>2, <2>3 DEF Admitted
  <2>5. Annotated' /\ Follows'
    BY <1>3, FollowsStill DEF Annotated, Exists
  <2> QED BY <1>3, <2>4, <2>5 DEF SecretSteady, OwnPhases, KeepingPayload
<1>6. CASE Reheard
  BY <1>3, <1>4, <1>6, ReheardStill
<1> QED BY <1>2, <1>5, <1>6

\* ... or writes the Secret, the first time as the version is, the next time as it stands.
LEMMA OwnRollBack ==
  ASSUME IInv, Informed, Calm, OwnPhases, Annotated, Follows, RollBack
  PROVE  SecretSteady' /\ KeepingPayload
<1>1. PICK v \in Versions, out \in Outcomes :
        LET copy == [cmCache EXCEPT !.data = ccmCache[cmCache.version].data] IN
        /\ Starts(TRUE, {v}) /\ cmCache.version # v /\ ccmCache[cmCache.version].rv > 0
        /\ UpdateCM(copy, out)
        /\ IF out = "ok"
           THEN /\ Begin("raiseCurrent")
                /\ cur' = Cached(v) /\ other' = Cached(cmCache.version)
                /\ UNCHANGED <<my, tries>>
           ELSE Retry
  BY DEF RollBack
<1>2. UNCHANGED <<ccm, ccmWatch, cmCache, ccmCache, template>>
  BY DEF RollBack, ccmVars, caches, rollout
<1>3. /\ Admitted \/ Reheard
      /\ Caught /\ cmCache = cm /\ cm \in CMs /\ cm.version \in Versions /\ Exists(cm.version)
      /\ CurrentIn(ccmCache) = {v} /\ v # cm.version /\ left \in Budgets /\ CCMSide
  BY <1>1, OwnStarts DEF IInv
<1>4. ccmCache[cm.version].data = ccm[cm.version].data /\ ccm[cm.version].data \in Data
  <2>1. ccmCache[cm.version] # NoCCM
    BY <1>1, <1>3 DEF NoCCM
  <2> QED BY <1>3, <2>1 DEF CCMSide, CopiesAgree, Agrees, Exists, CCMs, NoCCM
<1> DEFINE copy == [cm EXCEPT !.data = ccm[cm.version].data]
<1>5. /\ copy \in CMs /\ copy.rv = cm.rv /\ copy.version = cm.version
      /\ copy.data = ccm[cm.version].data /\ copy.annotated = cm.annotated
      /\ copy.deployments = cm.deployments
  BY <1>3, <1>4 DEF CMs
<1>6. UpdateCM(copy, out)
  BY <1>1, <1>3, <1>4
<1>7. copy.data = cm.data => copy = cm
  BY <1>3 DEF CMs
<1> HIDE DEF copy
<1>8. out = "ok" /\ StoreCM(copy) /\ UNCHANGED left
  BY <1>3, <1>5, <1>6, CalmUpdateCM
<1>9. /\ pc' = "raiseCurrent" /\ queued' = FALSE
      /\ cur' = [of |-> v, obj |-> ccmCache[v]]
      /\ other' = [of |-> cm.version, obj |-> ccmCache[cm.version]]
  BY <1>1, <1>3, <1>8 DEF Begin, Cached
<1>10. CASE Reheard
  <2>1. copy = cm
    BY <1>5, <1>7, <1>10 DEF Reheard, InStep, InForce
  <2>2. UNCHANGED <<cm, cmWatch>>
    BY <1>8, <2>1 DEF StoreCM, cmVars
  <2>3. Hearing' /\ Caught'
    BY <1>2, <1>3, <2>2 DEF Hearing, Caught
  <2>4. other'.of = cm.version /\ other'.obj.rv # ccm[cm.version].rv
    BY <1>3, <1>9, <1>10, ReheardFound
  <2> QED BY <1>2, <1>8, <1>9, <1>10, <2>2, <2>3, <2>4, ReheardStill
<1>11. CASE Admitted
  <2>1. ccmCache = ccm /\ InForce(v, ccm[v].data) /\ Synced
    <3>1. ccmCache = ccm /\ Synced
      BY <1>11 DEF Admitted, Synced
    <3>2. PICK u \in Versions : CurrentIn(ccm) = {u} /\ InForce(u, ccm[u].data)
      BY <1>11, AdmittedFound
    <3>3. u = v
      BY <1>3, <3>1, <3>2
    <3> QED BY <3>1, <3>2, <3>3
  <2>2. /\ Caught' \/ Behind'
        /\ cm'.data = copy.data /\ cm'.version = cm.version /\ cm'.annotated = cm.annotated
        /\ cm'.deployments = cm.deployments
    <3>1. CASE copy = cm
      BY <1>2, <1>3, <1>5, <1>8, <3>1 DEF StoreCM, cmVars, Caught
    <3>2. CASE copy # cm
      BY <1>2, <1>3, <1>5, <1>8, <3>2, StoredCM
    <3> QED BY <3>1, <3>2
  <2>3. Rolled'
    BY <1>2, <1>3, <1>5, <1>8, <1>11, <2>2 DEF Admitted, Rolled, Exists
  <2>4. InForce(v, ccm[v].data)' /\ Synced'
    BY <1>2, <2>1 DEF InForce, CurrentIn, LatestIn, Synced
  <2>5. SecretRaising'
    BY <1>2, <1>3, <1>5, <1>9, <2>1, <2>2, <2>3, <2>4 DEF SecretRaising, Hearing
  <2>6. Annotated' /\ Follows'
    BY <1>2, <1>8, <2>2, FollowsStill DEF Annotated, Exists
  <2>7. KeepingPayload
    BY <1>3, <1>11 DEF Admitted, Rolled, KeepingPayload
  <2> QED BY <2>5, <2>6, <2>7 DEF SecretSteady, OwnPhases
<1> QED BY <1>3, <1>10, <1>11

\* The label current of the version that is rolled back to; an old copy of that version
\* conflicts.
LEMMA OwnRaiseCurrent ==
  ASSUME IInv, Calm, OwnPhases, Annotated, Follows, RaiseCurrent
  PROVE  SecretSteady' /\ KeepingPayload
<1>1. PICK out \in Outcomes :
        /\ pc = "raiseCurrent" /\ UpdateCCM(Current(other, TRUE), out)
        /\ IF out = "ok" THEN Onward("dropOld") ELSE Retry
  BY DEF RaiseCurrent, CCMStep
<1>2. UNCHANGED <<cm, cmWatch, cmCache, ccmCache, template>>
  BY DEF RaiseCurrent, CCMStep, cmVars, caches, rollout
<1>3. SecretRaising \/ Reheard
  BY <1>1 DEF OwnPhases, Fitting, Admitted, SecretDropping
<1> DEFINE v == cm.version
           obj == [other.obj EXCEPT !.current = TRUE]
           copy == [of |-> v, obj |-> obj]
<1>4. /\ Rolled /\ Hearing /\ v \in Versions /\ Exists(v) /\ ccm[v] \in CCMs /\ CCMSide
      /\ left \in Budgets /\ other \in Copies /\ other.of = v
  BY <1>1, <1>3 DEF SecretRaising, Reheard, Rolled, IInv, CCMSide, Exists, NoCCM, HandlerSide,
     HandlerKnows
<1>5. Current(other, TRUE) = copy
  BY <1>4, CopyLabel
<1>6. /\ obj \in CCMs /\ obj.rv = other.obj.rv /\ obj.data = other.obj.data
      /\ obj.latest = other.obj.latest /\ obj.current
  BY <1>4 DEF Copies, CCMs
<1>7. copy.of = v /\ copy.obj = obj
  OBVIOUS
<1>8. UpdateCCM(copy, out)
  BY <1>1, <1>5
<1> HIDE DEF obj, copy
<1>9. CASE SecretRaising
  <2>1. other.obj = ccm[v] /\ InForce(cur.of, ccm[cur.of].data) /\ cur.of # v
        /\ cur.obj = ccm[cur.of]
    BY <1>9 DEF SecretRaising
  <2>2. out = "ok" /\ StoreCCM(copy) /\ UNCHANGED left
    BY <1>4, <1>6, <1>7, <1>8, <2>1, CalmUpdateCCM
  <2>3. /\ \A u \in Versions \ {v} : ccm'[u] = ccm[u]
        /\ ccm'[v].current /\ ccm'[v].latest = ccm[v].latest
        /\ \A u \in Versions : (Exists(u)' <=> Exists(u)) /\ ccm'[u].data = ccm[u].data
    BY <1>4, <1>6, <2>1, <2>2, StoredCCM DEF copy
  <2>4. pc' = "dropOld" /\ UNCHANGED <<queued, cur>>
    BY <1>1, <2>2 DEF Onward, Goto, locals
  <2>5. CurrentIn(ccm)' = {cur.of, v} /\ LatestIn(ccm)' # {} /\ cur.of \in Versions
    BY <1>4, <2>1, <2>3 DEF InForce, CurrentIn, LatestIn
  <2>6. cur.obj = ccm'[cur.of]
    BY <2>1, <2>3, <2>5
  <2>7. Rolled' /\ Hearing' /\ cm.data = ccm'[v].data
    BY <1>2, <1>4, <1>9, <2>2, <2>3, <2>4 DEF Rolled, Hearing, Caught, Behind, SecretRaising
  <2>8. SecretDropping'
    BY <1>2, <2>1, <2>4, <2>5, <2>6, <2>7 DEF SecretDropping
  <2>9. Annotated' /\ Follows'
    BY <1>2, <2>2, <2>3, FollowsStill DEF Annotated
  <2> QED BY <1>2, <2>8, <2>9 DEF SecretSteady, OwnPhases, KeepingPayload
<1>10. CASE Reheard
  <2>1. other.obj.rv # ccm[v].rv
    BY <1>1, <1>10 DEF Reheard
  <2>2. out = "conflict" /\ UNCHANGED ccmVars /\ UNCHANGED left
    BY <1>4, <1>6, <1>7, <1>8, <2>1, CalmUpdateCCM
  <2>3. pc' = "idle" /\ queued'
    BY <1>1, <2>2 DEF Retry
  <2>4. Hearing'
    BY <1>1, <1>2, <1>10 DEF Reheard, Hearing, Caught
  <2> QED BY <1>2, <1>10, <2>2, <2>3, <2>4, ReheardStill DEF ccmVars
<1> QED BY <1>3, <1>9, <1>10

\* The label current of the version that was rolled back from.
LEMMA OwnDropOld ==
  ASSUME IInv, Calm, OwnPhases, Annotated, Follows, DropOld
  PROVE  SecretSteady' /\ KeepingPayload
<1>1. PICK out \in Outcomes :
        /\ pc = "dropOld" /\ UpdateCCM(Current(cur, FALSE), out)
        /\ IF out = "ok" THEN Done ELSE Retry
  BY DEF DropOld, CCMStep
<1>2. UNCHANGED <<cm, cmWatch, cmCache, ccmCache, template>>
  BY DEF DropOld, CCMStep, cmVars, caches, rollout
<1>3. SecretDropping /\ cur \in Copies
  BY <1>1 DEF OwnPhases, Fitting, Admitted, SecretRaising, Reheard, IInv, HandlerSide, HandlerKnows
<1>4. PICK v \in Versions : v = cur.of
  BY <1>3 DEF SecretDropping
<1> DEFINE obj == [ccm[v] EXCEPT !.current = FALSE]
           copy == Current(cur, FALSE)
<1>5. Exists(v) /\ ccm[v] \in CCMs /\ CCMSide /\ left \in Budgets /\ cur.obj = ccm[v]
  BY <1>3, <1>4 DEF SecretDropping, CurrentIn, IInv, CCMSide, Exists, NoCCM, CCMs
<1>6. /\ obj \in CCMs /\ obj.rv = ccm[v].rv /\ obj.data = ccm[v].data
      /\ obj.latest = ccm[v].latest /\ obj.current = FALSE
  BY <1>5 DEF CCMs
<1>7. copy = [of |-> v, obj |-> obj]
  <2>1. Current(cur, FALSE) = [of |-> cur.of, obj |-> [cur.obj EXCEPT !.current = FALSE]]
    BY <1>3, CopyLabel
  <2> QED BY <2>1, <1>4, <1>5
<1>8. UpdateCCM(copy, out)
  BY <1>1
<1> HIDE DEF obj, copy
<1>9. out = "ok" /\ StoreCCM([of |-> v, obj |-> obj]) /\ UNCHANGED left
  BY <1>5, <1>6, <1>7, <1>8, CalmUpdateCCM
<1>10. /\ \A u \in Versions \ {v} : ccm'[u] = ccm[u]
       /\ ccm'[v].current = FALSE /\ ccm'[v].latest = ccm[v].latest
       /\ \A u \in Versions : (Exists(u)' <=> Exists(u)) /\ ccm'[u].data = ccm[u].data
  BY <1>5, <1>6, <1>9, StoredCCM
<1>11. pc' = "idle" /\ UNCHANGED queued
  BY <1>1, <1>9 DEF Done
<1>12. Rolled' /\ Hearing'
  BY <1>2, <1>3, <1>9, <1>10, <1>11 DEF SecretDropping, Rolled, Hearing, Caught, Behind
<1>13. InStep'
  <2>1. CurrentIn(ccm)' = {cm.version} /\ LatestIn(ccm)' # {}
    BY <1>3, <1>4, <1>10 DEF SecretDropping, CurrentIn, LatestIn
  <2> QED BY <1>2, <1>3, <1>10, <2>1 DEF SecretDropping, Rolled, InStep, InForce
<1>14. Reheard'
  BY <1>11, <1>12, <1>13 DEF Reheard
<1>15. Annotated' /\ Follows'
  BY <1>2, <1>9, <1>10, FollowsStill DEF Annotated
<1> QED BY <1>2, <1>14, <1>15 DEF SecretSteady, OwnPhases, KeepingPayload

\* The informer of the Secret is told what has been written last.
LEMMA OwnDeliverCM ==
  ASSUME IInv, OwnPhases, Annotated, Follows, Deliver(DeliverCM)
  PROVE  SecretSteady' /\ KeepingPayload
<1>1. /\ cmWatch # <<>> /\ cmCache' = Head(cmWatch) /\ cmWatch' = Tail(cmWatch) /\ queued'
      /\ UNCHANGED <<cm, ccm, ccmWatch, ccmCache, template, left, pc, cur, other>>
  BY DEF Deliver, DeliverCM, ccmVars, rollout, locals
<1>2. Behind /\ Caught'
  <2>1. ~Caught /\ ~Fitting
    BY <1>1 DEF Caught, Fitting
  <2>2. Behind
    BY <2>1 DEF OwnPhases, Admitted, SecretRaising, SecretDropping, Reheard, Hearing
  <2> QED BY <1>1, <2>1, <2>2 DEF Behind, Caught
<1>3. /\ Hearing' /\ ~Fitting /\ (Synced => Synced') /\ (Rolled => Rolled') /\ (InStep => InStep')
      /\ \A v \in Versions, d \in Data : InForce(v, d) => InForce(v, d)'
      /\ InForce(cur.of, ccm[cur.of].data) => InForce(cur.of, ccm[cur.of].data)'
  BY <1>1, <1>2 DEF Hearing, Fitting, Caught, Synced, Rolled, InStep, InForce, CurrentIn, LatestIn,
     Exists
<1>4. Admitted => Admitted'
  BY <1>1, <1>2, <1>3 DEF Admitted
<1>5. SecretRaising => SecretRaising'
  BY <1>1, <1>3 DEF SecretRaising
<1>6. SecretDropping => SecretDropping'
  BY <1>1, <1>3 DEF SecretDropping, CurrentIn, LatestIn
<1>7. Reheard => Reheard'
  BY <1>1, <1>2, <1>3 DEF Reheard
<1>8. Annotated' /\ Follows'
  BY <1>1, FollowsStill DEF Annotated, Exists
<1> QED BY <1>1, <1>3, <1>4, <1>5, <1>6, <1>7, <1>8 DEF SecretSteady, OwnPhases, KeepingPayload

\* The informer of the CustomSecrets is told of the labels.
LEMMA OwnDeliverCCM ==
  ASSUME OwnPhases, Annotated, Follows, Deliver(DeliverCCM)
  PROVE  SecretSteady' /\ KeepingPayload
<1>1. /\ ccmWatch # <<>>
      /\ UNCHANGED <<ccm, cm, cmWatch, cmCache, queued, template, left, pc, cur, other>>
  BY DEF Deliver, DeliverCCM, cmVars, rollout, locals
<1>2. SecretDropping \/ Reheard
  BY <1>1 DEF OwnPhases, Fitting, Admitted, SecretRaising, Synced
<1>3. /\ Hearing' /\ (Caught => Caught') /\ Rolled' /\ (InStep => InStep')
  BY <1>1, <1>2 DEF SecretDropping, Reheard, Hearing, Caught, Behind, Rolled, InStep, InForce,
     CurrentIn, LatestIn, Exists
<1>4. SecretDropping => SecretDropping'
  BY <1>1, <1>3 DEF SecretDropping, CurrentIn, LatestIn
<1>5. Reheard => Reheard'
  BY <1>1, <1>3 DEF Reheard
<1>6. Annotated' /\ Follows'
  BY <1>1, FollowsStill DEF Annotated, Exists
<1> QED BY <1>1, <1>2, <1>4, <1>5, <1>6 DEF SecretSteady, OwnPhases, KeepingPayload

-----------------------------------------------------------------------------
(* The invariant.                                                          *)

LEMMA SecretPatientInit == SecretInit => SecretPatientInv
BY PatientInit DEF SecretInit, PatientInv, SecretPatientInv, SecretSteady

\* A calm step of the Secret's world in the phases a ConfigMap has too.
LEMMA SharedCalm ==
  ASSUME IInv, Informed, Counted, Calm, Steady, [PatientSecretNext]_vars
  PROVE  SecretSteady' /\ KeepingPayload
<1>1. CASE [PatientNext]_vars
  BY <1>1, CalmStep, KeepsPayload DEF SecretSteady
<1>2. CASE Settled /\ SecretSurroundings /\ UNCHANGED <<pc, locals>>
  BY <1>2, SecretSurroundingsSteady DEF SecretSteady
<1>3. CASE SecretController
  <2>1. CASE Controller \/ SecretNewVersion \/ SecretRollBack
    BY <1>1, <2>1 DEF PatientNext, Controller, Calls, SecretNewVersion, SecretRollBack
  <2> QED BY <1>3, <2>1, SecretAdoptVersionSteady, SecretNothingToDoSteady,
             SecretRollBackPanicsSteady
          DEF SecretController, CopyCSToSecret, CreateNewCS, Controller, Calls, Panics
<1> QED BY <1>1, <1>2, <1>3 DEF PatientSecretNext, PatientNext

\* A calm step in the phases a ConfigMap does not have.
LEMMA OwnCalm ==
  ASSUME IInv, Informed, Counted, Calm, OwnPhases, Annotated, Follows, [PatientSecretNext]_vars
  PROVE  SecretSteady' /\ KeepingPayload
<1>1. pc \in {"idle", "raiseCurrent", "dropOld"}
  BY DEF OwnPhases, Fitting, Admitted, SecretRaising, SecretDropping, Reheard
<1>2. CASE SecretController
  <2>1. ~StampFirst /\ ~StampNew /\ ~UndoDrop /\ ~RevertCurrent /\ ~RevertLatest
    BY <1>1 DEF StampFirst, StampNew, UndoDrop, RevertCurrent, RevertLatest, CMStep, CCMStep
  <2>2. ~DropLatest /\ ~CreateNew /\ ~RollDeployments /\ ~RollStatefulSets
    BY <1>1 DEF DropLatest, CreateNew, RollDeployments, RollStatefulSets
  <2>3. ~DropLatestPanics /\ ~StampNewPanics /\ ~RollPanics
    BY <1>1 DEF DropLatestPanics, StampNewPanics, RollPanics
  <2> QED BY <1>2, <2>1, <2>2, <2>3, NothingNew, OwnNothingToDo, OwnRollBack, OwnRollBackPanics,
             OwnRollBackMissing, OwnRaiseCurrent, OwnDropOld
          DEF SecretController, CopyCSToSecret, CreateNewCS, SecretRollBack
<1>3. CASE Deliver(DeliverCM) \/ Deliver(DeliverCCM)
  BY <1>3, OwnDeliverCM, OwnDeliverCCM
<1>4. CASE Crash
  BY <1>4, CalmSpends DEF Crash, IInv
<1>5. CASE Settled /\ SecretSurroundings /\ UNCHANGED <<pc, locals>>
  BY <1>5, SecretSurroundingsSteady DEF SecretSteady
<1>6. CASE UNCHANGED vars
  BY <1>6 DEF vars, clusterVars, cmVars, ccmVars, caches, rollout, locals, SecretSteady, Annotated,
     OwnPhases, Fitting, Hearing, Rolled, Admitted, SecretRaising, SecretDropping, Reheard,
     InStep, InForce, Caught, Behind, Synced, CurrentIn, LatestIn, Exists, Follows, KeepingPayload
<1> QED BY <1>2, <1>3, <1>4, <1>5, <1>6 DEF PatientSecretNext

\* The Secret's own actions: every other step is one of the ConfigMap's.
OwnAction ==
  \/ SecretAdoptVersion \/ SecretNothingToDo \/ SecretRollBackPanics \/ SecretUser
  \/ \E v \in Versions : SecretAdmitPod(v)

LEMMA SharedOrOwn == ASSUME [PatientSecretNext]_vars PROVE [Next]_vars \/ OwnAction
<1>1. CASE SecretController
  <2>1. CASE SecretNewVersion \/ SecretRollBack
    BY <2>1 DEF SecretNewVersion, SecretRollBack, Next, Controller, Calls
  <2>2. CASE Controller
    BY <2>2 DEF Next
  <2> QED BY <1>1, <2>1, <2>2
          DEF SecretController, CopyCSToSecret, CreateNewCS, Controller, Calls, Panics, OwnAction
<1>2. CASE SecretSurroundings /\ UNCHANGED <<pc, locals>>
  BY <1>2 DEF SecretSurroundings, Next, Surroundings, OwnAction
<1> QED BY <1>1, <1>2 DEF PatientSecretNext, Next

\* They leave the CustomSecrets alone and spend one thing, or nothing.
LEMMA OwnAside ==
  ASSUME IInv, Informed, Counted, OwnAction
  PROVE  Informed' /\ Counted' /\ (Unharmed' => Unharmed /\ Calm)
<1>1. left \in Budgets /\ MaxPods \in Nat /\ MaxFaults \in Nat /\ MaxCrashes \in Nat
  BY BoundsAssumption DEF IInv
<1>2. UNCHANGED <<ccmVars, ccmCache>> \/ Relist
  BY DEF OwnAction, SecretAdoptVersion, SecretNothingToDo, SecretRollBackPanics, SecretUser,
     SecretAdmitPod, Restart, caches
<1>3. Informed'
  BY <1>2, InformedAside DEF IInv
<1>4. UNCHANGED left \/ \E what \in Kinds : Spend(what)
  BY DEF OwnAction, SecretAdoptVersion, SecretNothingToDo, SecretRollBackPanics, SecretUser,
     SecretAdmitPod, UpdateCM, Kinds
<1> QED BY <1>3, <1>4, CountedBy DEF IInv

LEMMA SecretPatientStep ==
  SecretPatientInv /\ [PatientSecretNext]_vars
    => SecretPatientInv' /\ (Unharmed' => KeepingPayload)
<1> SUFFICES ASSUME SecretPatientInv, [PatientSecretNext]_vars
             PROVE  SecretPatientInv' /\ (Unharmed' => KeepingPayload)
  OBVIOUS
<1>1. IInv /\ Informed /\ Counted
  BY DEF SecretPatientInv
<1>2. IInv'
  BY <1>1, SecretNextInv DEF PatientSecretNext, SecretNext
<1>3. Informed' /\ Counted' /\ (Unharmed' => Unharmed /\ Calm)
  BY <1>1, SharedOrOwn, InformedStep, CountedStep, OwnAside
<1>4. Unharmed' => SecretSteady' /\ KeepingPayload
  BY <1>1, <1>3, SharedCalm, OwnCalm DEF SecretPatientInv, SecretSteady
<1> QED BY <1>2, <1>3, <1>4 DEF SecretPatientInv

-----------------------------------------------------------------------------
(* Rollbacks that write to a nil map.                                      *)

\* At rest, and in a rollback, the stamp is where the label current is, or it names a
\* version that has annotations: the webhook installs no other.
Restorable ==
  pc \in {"idle", "raiseCurrent"}
    => cm.version \in CurrentIn(ccm) \cup {NoVersion} \/ HasOwn(ccm[cm.version].data)

\* Who leaves stamp and versions alone leaves it so.
LEMMA RestorableStill ==
  ASSUME Restorable, pc \in {"idle", "raiseCurrent"}, cm'.version = cm.version, UNCHANGED ccm
  PROVE  Restorable'
BY DEF Restorable, CurrentIn

\* What happens while the reconciler rests.
LEMMA SurroundingsRestorable ==
  ASSUME IInv, Restorable, pc = "idle", SecretSurroundings PROVE Restorable'
<1>1. cm \in CMs
  BY DEF IInv, CMSide
<1>2. UNCHANGED ccm
  BY DEF SecretSurroundings, Resync, SecretUser, Apply, SecretAdmitPod, ccmVars
<1>3. CASE Resync
  BY <1>2, <1>3, RestorableStill DEF Resync, cmVars
<1>4. CASE SecretUser
  <2>1. cm'.version \in {cm.version, NoVersion}
    <3>1. PICK held, annotated :
            \/ StoreCM([cm EXCEPT !.data = held, !.annotated = annotated])
            \/ StoreCM([NoCM EXCEPT !.data = held, !.annotated = annotated, !.rv = cm.rv])
      BY <1>4 DEF SecretUser
    <3> QED BY <1>1, <3>1 DEF StoreCM, cmVars, CMs, NoCM
  <2>2. CASE cm'.version = cm.version
    BY <1>2, <2>2, RestorableStill, pc = "idle"
  <2>3. CASE cm'.version = NoVersion
    BY <2>3 DEF Restorable
  <2> QED BY <2>1, <2>2, <2>3
<1>5. ASSUME NEW w \in Workloads, Apply(w) PROVE Restorable'
  <2>1. cm'.version = cm.version
    BY <1>1, <1>5 DEF Apply, StoreCM, DeploymentNamed, StatefulSetNamed, cmVars, CMs
  <2> QED BY <1>2, <2>1, RestorableStill
<1>6. ASSUME NEW v \in Versions, SecretAdmitPod(v) PROVE Restorable'
  <2>1. HasOwn(ccm[v].data) /\ v # cm.version
        /\ StoreCM([cm EXCEPT !.version = v, !.data = [ccm[v].data EXCEPT !.tag = v]])
    BY <1>6 DEF SecretAdmitPod
  <2>2. cm'.version = v
    BY <1>1, <2>1 DEF StoreCM, cmVars, CMs
  <2> QED BY <1>2, <2>1, <2>2 DEF Restorable
<1> QED BY <1>3, <1>4, <1>5, <1>6 DEF SecretSurroundings

\* The calls that end a handler in the phases of a ConfigMap: they leave the stamp where the
\* label current is, or there is none.
LEMMA EndsRestorable ==
  ASSUME IInv, Calm, SecretSteady, StampFirst \/ StampNew \/ DropOld PROVE Restorable'
<1>1. left \in Budgets
  BY DEF IInv
<1>2. CASE StampFirst
  <2>1. PICK out \in Outcomes : UpdateCM(my, out)
    BY <1>2 DEF StampFirst, CMStep
  <2>2. FirstMade /\ UNCHANGED ccm
    BY <1>2, PhaseAt DEF StampFirst, CMStep, SecretSteady, Steady, OwnPhases, Fitting, Admitted,
       SecretRaising, SecretDropping, Reheard, ccmVars
  <2>3. my \in CMs
    BY <2>2 DEF FirstMade, IInv, HandlerSide, HandlerKnows
  <2>4. cm'.version \in {my.version, NoVersion}
    BY <1>1, <2>1, <2>2, <2>3, CalmUpdateCM DEF FirstMade, StoreCM, cmVars, CMs
  <2>5. my.version \in CurrentIn(ccm)'
    BY <2>2 DEF FirstMade, InForce, CurrentIn
  <2> QED BY <2>4, <2>5 DEF Restorable
<1>3. CASE StampNew
  <2>1. PICK out \in Outcomes :
          UpdateCM(my, out) /\ (out = "ok" => pc' = "rollDeployments")
    BY <1>3 DEF StampNew, CMStep, Onward, Goto
  <2>2. Made /\ cm \in CMs
    BY <1>3, PhaseAt DEF StampNew, CMStep, SecretSteady, Steady, OwnPhases, Fitting, Admitted,
       SecretRaising, SecretDropping, Reheard, IInv, CMSide
  <2>3. my.rv = cm.rv
    BY <2>2 DEF Made, CMs
  <2>4. pc' = "rollDeployments"
    BY <1>1, <2>1, <2>3, CalmUpdateCM
  <2> QED BY <2>4 DEF Restorable
<1>4. CASE DropOld
  <2>1. pc = "dropOld" /\ \E out \in Outcomes : UpdateCCM(Current(cur, FALSE), out)
    BY <1>4 DEF DropOld, CCMStep
  <2>2. /\ CurrentIn(ccm) = {cur.of, cm.version} /\ cur.of # cm.version /\ cur.of \in Versions
        /\ cm.version \in Versions
    BY <2>1, PhaseAt DEF SecretSteady, Steady, Dropping, OwnPhases, Fitting, Admitted,
       SecretRaising, SecretDropping, Reheard, Rolled
  <2>3. cur \in Copies /\ ccm \in [Versions -> CCMs \cup {NoCCM}]
    BY <2>1 DEF IInv, HandlerSide, HandlerKnows, CCMSide
  <2>4. PICK copy : copy = Current(cur, FALSE) /\ copy.of = cur.of
    <3> DEFINE dropped == Current(cur, FALSE)
    <3>1. dropped = [of |-> cur.of, obj |-> [cur.obj EXCEPT !.current = FALSE]]
      BY <2>3, CopyLabel
    <3> HIDE DEF dropped
    <3>2. dropped.of = cur.of
      BY <3>1
    <3> QED BY <3>2 DEF dropped
  <2>5. ccm'[cm.version] = ccm[cm.version]
    <3>1. UNCHANGED ccmVars \/ StoreCCM(copy)
      BY <2>1, <2>4 DEF UpdateCCM
    <3> QED BY <2>2, <2>3, <2>4, <3>1 DEF StoreCCM, ccmVars
  <2>6. cm.version \in CurrentIn(ccm)' /\ UNCHANGED cm
    BY <1>4, <2>2, <2>5 DEF CurrentIn, DropOld, CCMStep, cmVars
  <2> QED BY <2>6 DEF Restorable
<1> QED BY <1>2, <1>3, <1>4

\* What begins a handler, or ends it at once.
LEMMA BeginsRestorable ==
  ASSUME IInv, Informed, Calm, SecretSteady, Restorable,
         \/ SecretAdoptVersion \/ SecretNothingToDo \/ SecretRollBackPanics \/ RollBackMissing
         \/ FirstVersion \/ SecretNewVersion \/ SecretRollBack
  PROVE  Restorable'
<1>1. left \in Budgets /\ cm \in CMs /\ cmCache \in CMs /\ CCMSide
  BY DEF IInv, CMSide
<1>2. pc = "idle"
  BY DEF SecretAdoptVersion, SecretNothingToDo, SecretRollBackPanics, FindsNilMap, RollBackMissing,
     FirstVersion, SecretNewVersion, NewVersion, SecretRollBack, RollBack, Starts
<1>3. CASE SecretNothingToDo \/ SecretRollBackPanics \/ RollBackMissing
  <2>1. UNCHANGED <<cm, ccm>>
    BY <1>3 DEF SecretNothingToDo, SecretRollBackPanics, RollBackMissing, Restart, Relist, cmVars,
       ccmVars
  <2> QED BY <1>2, <2>1, RestorableStill
<1>4. CASE FirstVersion
  <2>1. pc' = "stampFirst"
    BY <1>1, <1>4, CalmSpends DEF FirstVersion, CreateCCM, Begin
  <2> QED BY <2>1 DEF Restorable
<1>5. CASE SecretNewVersion
  <2>1. PICK v \in Versions, out \in Outcomes :
          /\ CurrentIn(ccmCache) = {v}
          /\ UpdateCCM(Current(Cached(v), FALSE), out)
          /\ out = "ok" => pc' = "dropLatest"
    BY <1>5 DEF SecretNewVersion, NewVersion, Starts, Begin
  <2>2. Exists(v)
    BY <1>1, <2>1, Listed DEF CurrentIn, CCMSide, CopiesAgree, Agrees
  <2>3. Current(Cached(v), FALSE).of = v
    BY DEF Current, Cached
  <2>4. pc' = "dropLatest" \/ UNCHANGED ccm
    BY <1>1, <2>1, <2>2, <2>3, CalmUpdateCCM DEF ccmVars
  <2>5. UNCHANGED cm
    BY <1>5 DEF SecretNewVersion, NewVersion, cmVars
  <2>6. CASE pc' = "dropLatest"
    BY <2>6 DEF Restorable
  <2>7. CASE UNCHANGED ccm
    BY <1>2, <2>5, <2>7, RestorableStill
  <2> QED BY <2>4, <2>6, <2>7
<1>6. CASE SecretRollBack
  <2> DEFINE w == cmCache.version
             copy == [cmCache EXCEPT !.data = ccmCache[w].data]
  <2>1. /\ w # NoVersion /\ ccmCache[w].rv > 0 /\ HasOwn(ccmCache[w].data)
        /\ \E out \in Outcomes : UpdateCM(copy, out)
        /\ UNCHANGED ccm
    BY <1>6 DEF SecretRollBack, RollBack, Starts, ccmVars
  <2>2. copy.version = w /\ [copy EXCEPT !.rv = @ + 1].version = w
    BY <1>1 DEF CMs
  <2> HIDE DEF copy
  <2>3. CASE UNCHANGED cm
    BY <1>2, <2>1, <2>3, RestorableStill
  <2>4. CASE StoreCM(copy) /\ cm' # cm
    <3>1. cm'.version = w
      BY <2>2, <2>4 DEF StoreCM, cmVars
    <3>2. w \in Versions /\ ccmCache[w].data = ccm[w].data
      BY <1>1, <2>1, Listed DEF CMs, CCMSide, CopiesAgree, Agrees
    <3> QED BY <2>1, <3>1, <3>2 DEF Restorable
  <2> QED BY <2>1, <2>3, <2>4 DEF UpdateCM, cmVars
<1>7. CASE SecretAdoptVersion
  <2>1. PICK v \in Versions, out \in Outcomes :
          /\ Starts(FALSE, {v})
          /\ UpdateCM([cmCache EXCEPT !.version = v, !.annotated = TRUE], out)
    BY <1>7 DEF SecretAdoptVersion
  <2>2. cm'.version \in {cm.version, v}
    BY <1>1, <2>1 DEF UpdateCM, StoreCM, cmVars, CMs
  <2>3. UNCHANGED ccm
    BY <1>7 DEF SecretAdoptVersion, ccmVars
  <2>4. Steady
    BY <1>7, NothingNew DEF SecretSteady
  <2>5. Changed /\ Caught
    <3>1. ~Untouched
      BY <2>1 DEF Untouched, Synced, CurrentIn, NoCCM, Starts
    <3>2. ~Echoing
      BY <2>1, ValuesAssumption DEF Echoing, Caught, InStep, InForce, Starts
    <3> QED BY <2>1, <2>4, <3>1, <3>2, StartsAt DEF Steady
  <2>6. v \in CurrentIn(ccm)
    BY <2>1, <2>5, ChangeFound DEF Starts
  <2>7. CASE cm'.version = cm.version
    BY <1>2, <2>3, <2>7, RestorableStill
  <2>8. CASE cm'.version = v
    BY <2>3, <2>6, <2>8 DEF Restorable, CurrentIn
  <2> QED BY <2>2, <2>7, <2>8
<1> QED BY <1>3, <1>4, <1>5, <1>6, <1>7

\* A calm step.
LEMMA CalmRestorable ==
  ASSUME IInv, Informed, Calm, SecretSteady, Restorable, [PatientSecretNext]_vars
  PROVE  Restorable'
<1>1. /\ pc \notin {"undoDrop", "revertCurrent", "revertLatest"}
      /\ pc \in {"rollDeployments", "rollStatefulSets"} => Rolling
      /\ pc = "stampNew" => Made
      /\ pc = "dropLatest" => Steady
  BY PhaseAt DEF SecretSteady, Steady, OwnPhases, Fitting, Admitted, SecretRaising,
     SecretDropping, Reheard
<1>2. left \in Budgets
  BY DEF IInv
<1>3. CASE RaiseCurrent
  <2>1. PICK out \in Outcomes :
          /\ pc = "raiseCurrent" /\ UpdateCCM(Current(other, TRUE), out)
          /\ out = "ok" => pc' = "dropOld"
    BY <1>3 DEF RaiseCurrent, CCMStep, Onward, Goto
  <2>2. pc' = "dropOld" \/ UNCHANGED ccm
    BY <1>2, <2>1, CalmSpends DEF UpdateCCM, ccmVars
  <2>3. UNCHANGED cm
    BY <1>3 DEF RaiseCurrent, CCMStep, cmVars
  <2>4. CASE pc' = "dropOld"
    BY <2>4 DEF Restorable
  <2>5. CASE UNCHANGED ccm
    BY <2>1, <2>3, <2>5, RestorableStill
  <2> QED BY <2>2, <2>4, <2>5
<1>4. CASE DropLatest \/ CreateNew
  <2>1. pc' \notin {"idle", "raiseCurrent"}
    BY <1>4 DEF DropLatest, CreateNew, Goto
  <2> QED BY <2>1 DEF Restorable
<1>5. CASE UndoDrop \/ RevertCurrent \/ RevertLatest
  BY <1>1, <1>5 DEF UndoDrop, RevertCurrent, RevertLatest, CCMStep
<1>6. CASE DropLatestPanics
  BY <1>1, <1>6, DropLatestPanicsNot DEF DropLatestPanics
<1>7. CASE StampNewPanics
  <2>1. Made /\ ~my.annotated /\ cm \in CMs /\ UNCHANGED cm
    BY <1>1, <1>7 DEF StampNewPanics, Restart, Relist, IInv, CMSide
  <2>2. my.annotated = cm.annotated
    BY <2>1 DEF Made, CMs
  <2>3. Annotated
    BY DEF SecretSteady, Steady
  <2> QED BY <2>1, <2>2, <2>3 DEF Annotated, Restorable
<1>8. CASE RollDeployments \/ RollStatefulSets \/ RollPanics
  <2>1. Rolling /\ UNCHANGED <<cm, ccm>>
    BY <1>1, <1>8 DEF RollDeployments, RollStatefulSets, RollPanics, Restart, Relist, cmVars,
       ccmVars
  <2> QED BY <2>1 DEF Rolling, InStep, InForce, CurrentIn, Restorable
<1>9. CASE Deliver(DeliverCM) \/ Deliver(DeliverCCM) \/ UNCHANGED vars
  BY <1>9 DEF Deliver, DeliverCM, DeliverCCM, vars, clusterVars, cmVars, ccmVars, locals,
     Restorable, CurrentIn
<1>10. CASE Crash
  BY <1>2, <1>10, CalmSpends DEF Crash
<1>11. CASE Settled /\ SecretSurroundings
  BY <1>11, SurroundingsRestorable DEF Settled
<1> QED BY <1>3, <1>4, <1>5, <1>6, <1>7, <1>8, <1>9, <1>10, <1>11, EndsRestorable,
           BeginsRestorable
        DEF PatientSecretNext, SecretController, CopyCSToSecret, CreateNewCS

\* A handler that is about to write to a nil map has a cache that lags.
LEMMA NilMapFound ==
  ASSUME IInv, Informed, SecretSteady, Restorable, FindsNilMap
  PROVE  CurrentIn(ccm) = {cm.version}
<1>1. PICK v \in Versions \ {cmCache.version} : Starts(TRUE, {v})
  BY DEF FindsNilMap
<1>2. /\ pc = "idle" /\ cmCache.version # NoVersion /\ CurrentIn(ccmCache) = {v}
      /\ ~HasOwn(ccmCache[cmCache.version].data)
  BY <1>1 DEF FindsNilMap, Starts
<1>3. ~(cmCache = cm /\ ccmCache = ccm)
  BY <1>1, <1>2 DEF Restorable
<1>4. CASE Steady
  <2>1. ~(Changed /\ Caught)
    BY <1>3, ChangeFound
  <2>2. ~Untouched
    BY <1>2 DEF Untouched, Synced, CurrentIn, NoCCM
  <2>3. Echoing
    BY <1>1, <1>4, <2>1, <2>2, StartsAt DEF Steady
  <2> QED BY <2>3 DEF Echoing, InStep, InForce
<1>5. CASE OwnPhases
  <2>1. (Admitted \/ Reheard) /\ cmCache = cm
    BY <1>1, <1>5, OwnStarts
  <2>2. ~Admitted
    BY <1>3, <2>1, AdmittedFound
  <2> QED BY <2>1, <2>2 DEF Reheard, InStep, InForce
<1> QED BY <1>4, <1>5 DEF SecretSteady

-----------------------------------------------------------------------------
(* The theorems.                                                           *)

\* The invariant holds in every reachable state of a patient system.
THEOREM SecretPatientInvariant == PatientSecretSpec => []SecretPatientInv
<1>1. SecretInit => SecretPatientInv
  BY SecretPatientInit
<1>2. SecretPatientInv /\ [PatientSecretNext]_vars => SecretPatientInv'
  BY SecretPatientStep
<1> QED BY <1>1, <1>2, PTL DEF PatientSecretSpec

\* As long as nothing has failed or crashed, edits, replacements, rollbacks through either
\* webhook, the second write a rollback takes and the panics on the way end with the one
\* current version being the stamped one, with what the Secret holds as far as the code
\* compares it, and with a latest version.
THEOREM SecretUnharmedInStep == PatientSecretSpec => [](Unharmed => SecretSettledInStep)
<1>1. SecretPatientInv => (Unharmed => SecretSettledInStep)
  BY SecretRests DEF SecretPatientInv, SecretSettledInStep, InForce
<1> QED BY <1>1, SecretPatientInvariant, PTL

\* As long as, besides, nobody has rolled back, the template of the one Deployment that
\* uses the Secret carries the stamped version from the second version on.
THEOREM SecretUnharmedFollows == PatientSecretSpec => [](Unharmed => TemplateFollows)
<1>1. SecretPatientInv => (Unharmed => TemplateFollows)
  BY SecretRests, FollowsSays DEF SecretPatientInv, TemplateFollows
<1> QED BY <1>1, SecretPatientInvariant, PTL

\* As long as nothing has failed or crashed, no step of Configurator takes a payload out of
\* the Secret that no version keeps.
THEOREM SecretUnharmedKeeps == PatientSecretSpec => [][Unharmed' => KeepingPayload]_vars
<1>1. SecretPatientInv /\ [PatientSecretNext]_vars => [Unharmed' => KeepingPayload]_vars
  BY SecretPatientStep
<1> QED BY <1>1, SecretPatientInvariant, PTL DEF PatientSecretSpec

\* As long as nothing has failed or crashed, a rollback panics only in a handler whose cache
\* lags behind what is in step.  The process that starts again lists all there is, finds the
\* label current where the stamp is, and goes on: no panic leads to another.
THEOREM SecretUnharmedRestarts == PatientSecretSpec => [](Unharmed => NilMapOnlyOnEchoes)
<1> DEFINE RInv == Unharmed => Restorable
<1>1. SecretInit => RInv
  BY DEF SecretInit, Init, ClusterInit, Restorable
<1>2. SecretPatientInv /\ SecretPatientInv' /\ RInv /\ [PatientSecretNext]_vars => RInv'
  <2> SUFFICES ASSUME SecretPatientInv, RInv, [PatientSecretNext]_vars, Unharmed'
               PROVE  Restorable'
    OBVIOUS
  <2>1. IInv /\ Informed /\ Counted
    BY DEF SecretPatientInv
  <2>2. Unharmed /\ Calm
    BY <2>1, SharedOrOwn, CountedStep, OwnAside
  <2> QED BY <2>1, <2>2, CalmRestorable DEF SecretPatientInv
<1>3. SecretPatientInv /\ RInv => (Unharmed => NilMapOnlyOnEchoes)
  BY NilMapFound DEF SecretPatientInv, NilMapOnlyOnEchoes
<1> QED BY <1>1, <1>2, <1>3, SecretPatientInvariant, PTL DEF PatientSecretSpec

\* Where there is nothing that could fail or crash, nothing has.
LEMMA SecretNeverHarmed ==
  ASSUME MaxFaults = 0, MaxCrashes = 0 PROVE SecretPatientInv => Unharmed
BY DEF SecretPatientInv, IInv, Budgets, Counted, Unharmed

\* The same, where nothing fails or crashes at all: a settled Secret is in step.
THEOREM SecretPatientInStep ==
  ASSUME MaxFaults = 0, MaxCrashes = 0 PROVE PatientSecretSpec => []SecretSettledInStep
<1>1. SecretPatientInv => Unharmed
  BY SecretNeverHarmed
<1> QED BY <1>1, SecretPatientInvariant, SecretUnharmedInStep, PTL

\* The same for the panics: where nothing fails or crashes, none leads to another.
THEOREM SecretPatientRestarts ==
  ASSUME MaxFaults = 0, MaxCrashes = 0 PROVE PatientSecretSpec => []NilMapOnlyOnEchoes
<1>1. SecretPatientInv => Unharmed
  BY SecretNeverHarmed
<1> QED BY <1>1, SecretPatientInvariant, SecretUnharmedRestarts, PTL

\* The same for the payloads: each is kept by a version before Configurator replaces it.
THEOREM SecretPatientKeeps ==
  ASSUME MaxFaults = 0, MaxCrashes = 0 PROVE PatientSecretSpec => PayloadsKept
<1>1. SecretPatientInv' => Unharmed'
  BY DEF SecretPatientInv, IInv, Budgets, Counted, Unharmed
<1>2. SecretPatientInv' /\ [Unharmed' => KeepingPayload]_vars
        => [cm'.data.payload # cm.data.payload /\ left'.edits = left.edits
              => \E v \in Versions : Exists(v) /\ ccm[v].data.payload = cm.data.payload]_vars
  BY <1>1 DEF KeepingPayload
<1> QED BY <1>2, SecretPatientInvariant, SecretUnharmedKeeps, PTL DEF PayloadsKept
=============================================================================
