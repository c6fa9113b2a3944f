---------------------------- MODULE PatientProofs ----------------------------
(***************************************************************************)
(* Proofs about the ConfigMap reconciler when its surroundings are         *)
(* patient: as long as no call fails for a reason of the API server's own  *)
(* and the process does not crash, each change finds everything in step    *)
(* and leaves it in step.                                                  *)
(***************************************************************************)
EXTENDS ConfigMapProofs, FiniteSetTheorems

\* No call has failed and the process has not crashed.
Unharmed == left.faults = MaxFaults /\ left.crashes = MaxCrashes

\* The bounds that the properties refer to only go down.
Counted == left.pods <= MaxPods /\ left.faults <= MaxFaults /\ left.crashes <= MaxCrashes

-----------------------------------------------------------------------------
(* What the informers know.                                                *)

\* A copy that has the newest resource version is what is stored.
Faithful(v, obj) == obj.rv <= ccm[v].rv /\ (obj.rv = ccm[v].rv => obj = ccm[v])

\* Caches and events are no newer than the store, and the last event of a version, or
\* the cache if no event of it is left, is what is stored.
Informed ==
  /\ \A v \in Versions : Faithful(v, ccmCache[v])
  /\ \A i \in 1..Len(ccmWatch) :
       ccmWatch[i].obj.rv > 0 /\ Faithful(ccmWatch[i].of, ccmWatch[i].obj)
  /\ \A v \in Versions :
       (\A i \in 1..Len(ccmWatch) : ccmWatch[i].of # v) => ccmCache[v] = ccm[v]
  /\ \A i \in 1..Len(ccmWatch) :
       (\A j \in (i + 1)..Len(ccmWatch) : ccmWatch[j].of # ccmWatch[i].of)
         => ccmWatch[i].obj = ccm[ccmWatch[i].of]

\* The informer has seen the ConfigMap as it is, or has one event to see.
Caught == cmWatch = <<>> /\ cmCache = cm
Behind == cmWatch = <<cm>> /\ cmCache.rv < cm.rv
Synced == ccmWatch = <<>> /\ ccmCache = ccm

\* The informer hears of v after everything else it has to hear of.
HeardLast(v) ==
  /\ ccmWatch = <<>> \/ ccmCache[v].rv = 0
  /\ \A i \in 1..Len(ccmWatch) : ccmWatch[i].of = v => i = Len(ccmWatch)

\* Labels latest are as the informer thinks.
LatestKnown ==
  /\ \A v \in Versions : ccmCache[v].latest = ccm[v].latest
  /\ \A i \in 1..Len(ccmWatch) : ccmWatch[i].obj.latest = ccm[ccmWatch[i].of].latest

-----------------------------------------------------------------------------
(* The phases of a change.                                                 *)

\* v is the one current version, d its content, and some version is the latest.
InForce(v, d) ==
  v \in Versions /\ CurrentIn(ccm) = {v} /\ ccm[v].data = d /\ LatestIn(ccm) # {}
InStep == InForce(cm.version, cm.data)

\* Who has no stamp names no workload: names are put beside a stamp, and go with it.
Nameless == cm.version = NoVersion => cm.deployments = {} /\ cm.statefulsets = {}
Annotated == cm.version # NoVersion => cm.annotated

\* Nothing is versioned yet; the first version is made.
Untouched ==
  /\ pc = "idle" /\ queued /\ Caught /\ Synced
  /\ ccm = [v \in Versions |-> NoCCM] /\ cm.version = NoVersion
FirstMade ==
  /\ pc = "stampFirst" /\ ~queued /\ Caught /\ cm.version = NoVersion
  /\ my = [cm EXCEPT !.version = my.version, !.annotated = TRUE]
  /\ InForce(my.version, my.data) /\ HeardLast(my.version)
  /\ \A v \in Versions : Exists(v) => v = my.version

\* Something was changed while all was settled: the content, the stamp, or both.
Changed ==
  /\ pc = "idle" /\ Synced /\ Nameless
  /\ \/ Caught /\ queued
     \/ Behind /\ ~queued
  /\ \E v \in Versions, d \in Data :
       /\ InForce(v, d)
       /\ \/ cm.version \in {v, NoVersion}
          \/ cm.version \in Versions /\ Exists(cm.version) /\ cm.data = ccm[cm.version].data

\* CreateNewCCM before and after it makes the new version.
Making ==
  /\ pc \in {"dropLatest", "createNew"} /\ ~queued /\ Caught /\ my = cm /\ Nameless
  /\ CurrentIn(ccm) = {}
  /\ pc = "dropLatest" => LatestKnown /\ LatestIn(ccm) # {}
Made ==
  /\ pc = "stampNew" /\ ~queued /\ Caught /\ Nameless
  /\ my = [cm EXCEPT !.version = my.version] /\ my.version # cm.version
  /\ InForce(my.version, my.data) /\ HeardLast(my.version)

\* The new version is stamped, and workloads are rolled out.
Rolling ==
  /\ pc \in {"rollDeployments", "rollStatefulSets"} /\ InStep /\ HeardLast(cm.version)
  /\ my.version = cm.version /\ my.deployments = cm.deployments
  /\ my.statefulsets = cm.statefulsets
  /\ \/ Caught
     \/ /\ Behind /\ ~queued /\ cmCache.version # cm.version
        /\ cmCache.version = NoVersion => cm.deployments = {} /\ cm.statefulsets = {}

\* The label current moves to the stamped version.
Raising ==
  /\ pc = "raiseCurrent" /\ ~queued /\ Caught /\ Synced
  /\ cm.version \in Versions /\ Exists(cm.version) /\ cm.data = ccm[cm.version].data
  /\ cur.of # cm.version /\ InForce(cur.of, ccm[cur.of].data)
  /\ cur.obj = ccm[cur.of] /\ other = [of |-> cm.version, obj |-> ccm[cm.version]]
Dropping ==
  /\ pc = "dropOld" /\ ~queued /\ Caught
  /\ cm.version \in Versions /\ cm.data = ccm[cm.version].data
  /\ cur.of \in Versions /\ cur.of # cm.version
  /\ CurrentIn(ccm) = {cur.of, cm.version} /\ LatestIn(ccm) # {}
  /\ cur.obj = ccm[cur.of]

\* All is in step, and what the reconciler has still to hear of leads to nothing.
Echoing ==
  /\ pc = "idle" /\ InStep /\ HeardLast(cm.version) /\ (Caught \/ Behind)
  /\ queued => Caught \/ cmCache.version \notin {NoVersion, cm.version}
Drained == pc = "idle" /\ InStep /\ Caught /\ ~queued

Phases ==
  \/ Untouched \/ FirstMade \/ Changed \/ Making \/ Made \/ Rolling
  \/ Raising \/ Dropping \/ Echoing \/ Drained

\* The template of the one Deployment carries the stamp, or there is just one version.
Follows ==
  \A w \in Deployments :
    cm.deployments = {w} /\ template[w] \notin {Bare, Absent} /\ left.pods = MaxPods
      => template[w] = cm.version \/ \E v \in Versions : \A u \in Versions : Exists(u) <=> u = v

\* What holds as long as nothing is harmed.  A rollout is under way where Follows is not asked.
Steady == Annotated /\ Phases /\ (pc \notin {"stampNew", "rollDeployments"} => Follows)

\* The inductive invariant.
PatientInv == IInv /\ Informed /\ Counted /\ (Unharmed => Steady)

\* What EditsKept says of a step.
Keeping ==
  cm'.data # cm.data /\ left'.edits = left.edits => \E v \in Versions : ccm[v].data = cm.data

-----------------------------------------------------------------------------
(* The informers.                                                          *)

\* A copy of a CCM that Create or Update is called with.
Requests == [of : Versions, obj : [data : Data, current : BOOLEAN, latest : BOOLEAN, rv : Nat]]

\* What a step is to the informer of the CCMs.
InformerStep ==
  \/ UNCHANGED <<ccmVars, ccmCache>>
  \/ /\ UNCHANGED ccmCache
     /\ \E copy \in Requests : copy.obj.rv = ccm[copy.of].rv /\ StoreCCM(copy)
  \/ DeliverCCM
  \/ Relist

\* An update that carries a copy of something, and one that stores it.
LEMMA UpdateInforms ==
  ASSUME UNCHANGED ccmCache, NEW copy \in Copies, NEW out, UpdateCCM(copy, out)
  PROVE  InformerStep
<1>1. copy \in Requests
  BY DEF Copies, CCMs, Requests
<1>2. CASE copy.obj.rv = ccm[copy.of].rv /\ StoreCCM(copy)
  BY <1>1, <1>2 DEF InformerStep
<1>3. CASE UNCHANGED ccmVars
  BY <1>3 DEF InformerStep
<1> QED BY <1>2, <1>3 DEF UpdateCCM

\* A Create stores a CCM that has no resource version yet where there is none.
LEMMA CreateInforms ==
  ASSUME CCMSide, UNCHANGED ccmCache, NEW v \in Versions, NEW d \in Data, NEW out,
         CreateCCM(v, d, out)
  PROVE  InformerStep
<1> DEFINE new == [of |-> v, obj |-> [data |-> d, current |-> TRUE, latest |-> TRUE, rv |-> 0]]
<1>1. new \in Requests /\ new.obj.rv = 0 /\ new.of = v
  BY DEF Requests
<1>2. ccm[v].rv = 0
  BY DEF CreateCCM, Exists, CCMSide, CCMs, NoCCM
<1>3. CASE StoreCCM(new)
  BY <1>1, <1>2, <1>3 DEF InformerStep
<1>4. CASE UNCHANGED ccmVars
  BY <1>4 DEF InformerStep
<1> QED BY <1>3, <1>4 DEF CreateCCM

\* The calls on CCMs, and all other steps.
LEMMA CallsInform == ASSUME IInv, Controller PROVE InformerStep
<1> USE DEF IInv
<1>1. CASE FirstVersion
  <2>1. \E v \in Versions, out \in Outcomes : CreateCCM(v, cmCache.data, out)
    BY <1>1 DEF FirstVersion
  <2>2. cmCache.data \in Data /\ UNCHANGED ccmCache
    BY <1>1 DEF FirstVersion, CMSide, CMs, caches
  <2> QED BY <2>1, <2>2, CreateInforms
<1>2. CASE CreateNew
  <2>1. \E v \in Versions, out \in Outcomes : CreateCCM(v, my.data, out)
    BY <1>2 DEF CreateNew
  <2>2. my.data \in Data /\ UNCHANGED ccmCache
    BY <1>2 DEF CreateNew, HandlerSide, HandlerKnows, CMs, caches
  <2> QED BY <2>1, <2>2, CreateInforms
<1>3. CASE NewVersion
  <2>1. PICK v \in Versions, out \in Outcomes :
          Starts(cmCache.version # NoVersion, {v}) /\ UpdateCCM(Current(Cached(v), FALSE), out)
    BY <1>3 DEF NewVersion
  <2>2. Current(Cached(v), FALSE) \in Copies
    BY <2>1, Listed, CachedCopy, Relabelled DEF Starts, CurrentIn
  <2> QED BY <1>3, <2>1, <2>2, UpdateInforms DEF NewVersion, caches
<1>4. CASE DropLatest
  <2>1. PICK v \in LatestIn(ccmCache), out \in Outcomes :
          UpdateCCM(Latest(Cached(v), FALSE), out)
    BY <1>4 DEF DropLatest
  <2>2. Latest(Cached(v), FALSE) \in Copies
    BY <2>1, Listed, CachedCopy, Relabelled DEF LatestIn
  <2> QED BY <1>4, <2>1, <2>2, UpdateInforms DEF DropLatest, caches
<1>5. CASE RaiseCurrent \/ RevertLatest \/ DropOld \/ UndoDrop \/ RevertCurrent
  <2>1. CASE RaiseCurrent \/ RevertLatest
    <3>1. Current(other, TRUE) \in Copies /\ Latest(other, TRUE) \in Copies
      BY <2>1, Relabelled DEF RaiseCurrent, RevertLatest, CCMStep, HandlerSide, HandlerKnows
    <3> QED BY <2>1, <3>1, UpdateInforms DEF RaiseCurrent, RevertLatest, CCMStep, caches
  <2>2. CASE DropOld \/ UndoDrop \/ RevertCurrent
    <3>1. \A is \in BOOLEAN : Current(cur, is) \in Copies
      BY <2>2, Relabelled DEF DropOld, UndoDrop, RevertCurrent, CCMStep, HandlerSide, HandlerKnows
    <3> QED BY <2>2, <3>1, UpdateInforms DEF DropOld, UndoDrop, RevertCurrent, CCMStep, caches
  <2> QED BY <1>5, <2>1, <2>2
<1>6. CASE AdoptVersion \/ RollBack \/ RollBackMissing \/ NothingToDo \/ StampFirst \/ StampNew
           \/ RollDeployments \/ RollStatefulSets
  BY <1>6 DEF AdoptVersion, RollBack, RollBackMissing, NothingToDo, StampFirst, StampNew, CMStep,
     RollDeployments, RollStatefulSets, InformerStep, caches
<1>7. CASE Panics
  BY <1>7 DEF Panics, DropLatestPanics, StampNewPanics, RollPanics, Restart, InformerStep
<1> QED BY <1>1, <1>2, <1>3, <1>4, <1>5, <1>6, <1>7 DEF Controller, Calls

LEMMA NextInforms == ASSUME IInv, [Next]_vars PROVE InformerStep
<1>1. CASE Controller
  BY <1>1, CallsInform
<1>2. CASE Deliver(DeliverCM) \/ Deliver(DeliverCCM) \/ Crash \/ UNCHANGED vars
  BY <1>2 DEF Deliver, DeliverCM, Crash, Restart, vars, clusterVars, caches, InformerStep
<1>3. CASE Surroundings
  BY <1>3 DEF Surroundings, Resync, User, Edit, Replace, Apply, AdmitPod, caches, InformerStep
<1> QED BY <1>1, <1>2, <1>3 DEF Next

\* What the informer knows stays right.
LEMMA StoreInforms ==
  ASSUME CCMSide, Informed, UNCHANGED ccmCache,
         NEW copy \in Requests, copy.obj.rv = ccm[copy.of].rv, StoreCCM(copy)
  PROVE  Informed'
<1> DEFINE v == copy.of
           stored == [copy.obj EXCEPT !.rv = copy.obj.rv + 1]
           event == [of |-> v, obj |-> stored]
<1>1. CASE copy.obj = ccm[copy.of]
  BY <1>1 DEF StoreCCM, ccmVars, Informed, Faithful
<1>2. CASE copy.obj # ccm[copy.of]
  <2>1. /\ ccm \in [Versions -> CCMs \cup {NoCCM}] /\ ccmWatch \in Seq(Events)
        /\ ccmCache \in [Versions -> CCMs \cup {NoCCM}]
        /\ v \in Versions /\ ccm[v].rv \in Nat
    BY DEF CCMSide, Requests, CCMs, NoCCM
  <2>2. stored \in CCMs /\ stored.rv = ccm[v].rv + 1 /\ event \in Events
    BY <2>1 DEF Requests, CCMs, Events
  <2>3. ccm' = [ccm EXCEPT ![v] = stored] /\ ccmWatch' = Append(ccmWatch, [of |-> v, obj |-> ccm'[v]])
    BY <1>2 DEF StoreCCM
  <2> HIDE DEF stored
  <2>4. ccm'[v] = stored /\ \A u \in Versions \ {v} : ccm'[u] = ccm[u]
    BY <2>1, <2>3
  <2>5. ccmWatch' = Append(ccmWatch, event)
    BY <2>3, <2>4
  <2>6. event.of = v /\ event.obj = stored
    OBVIOUS
  <2> HIDE DEF event, v
  <2>7. /\ Len(ccmWatch') = Len(ccmWatch) + 1 /\ Len(ccmWatch) \in Nat
        /\ \A i \in 1..Len(ccmWatch) : ccmWatch'[i] = ccmWatch[i]
        /\ ccmWatch'[Len(ccmWatch) + 1] = event
    BY <2>1, <2>2, <2>5, AppendElements
  <2>8. \A u \in Versions, obj \in CCMs \cup {NoCCM} : Faithful(u, obj) => Faithful(u, obj)'
    BY <2>1, <2>2, <2>4 DEF Faithful, CCMs, NoCCM
  <2>9. \A i \in 1..Len(ccmWatch) :
          ccmWatch[i].of \in Versions /\ ccmWatch[i].obj \in CCMs \cup {NoCCM}
    <3>1. \A i \in 1..Len(ccmWatch) : ccmWatch[i] \in Events
      BY <2>1
    <3> QED BY <3>1 DEF Events
  <2>10. \A u \in Versions : Faithful(u, ccmCache[u])'
    BY <2>1, <2>8 DEF Informed, Faithful
  <2>11. \A i \in 1..Len(ccmWatch') :
           ccmWatch'[i].obj.rv > 0 /\ Faithful(ccmWatch[i].of, ccmWatch[i].obj)'
    <3> SUFFICES ASSUME NEW i \in 1..Len(ccmWatch')
                 PROVE  ccmWatch'[i].obj.rv > 0 /\ Faithful(ccmWatch[i].of, ccmWatch[i].obj)'
      OBVIOUS
    <3>1. CASE i \in 1..Len(ccmWatch)
      <4>1. /\ ccmWatch[i].obj.rv > 0 /\ Faithful(ccmWatch[i].of, ccmWatch[i].obj)
            /\ ccmWatch'[i] = ccmWatch[i]
        BY <3>1, <2>7 DEF Informed
      <4> QED BY <3>1, <4>1, <2>8, <2>9 DEF Faithful
    <3>2. CASE i = Len(ccmWatch) + 1
      BY <3>2, <2>1, <2>2, <2>4, <2>6, <2>7 DEF Faithful, CCMs
    <3> QED BY <3>1, <3>2, <2>7
  <2>12. ASSUME NEW u \in Versions, \A i \in 1..Len(ccmWatch') : ccmWatch'[i].of # u
         PROVE  ccmCache'[u] = ccm'[u]
    <3>1. u # v
      BY <2>6, <2>7, <2>12
    <3>2. \A i \in 1..Len(ccmWatch) : ccmWatch[i].of # u
      BY <2>7, <2>12
    <3> QED BY <3>1, <3>2, <2>4 DEF Informed
  <2>13. ASSUME NEW i \in 1..Len(ccmWatch'),
                \A j \in (i + 1)..Len(ccmWatch') : ccmWatch'[j].of # ccmWatch'[i].of
         PROVE  ccmWatch'[i].obj = ccm'[ccmWatch'[i].of]
    <3>1. CASE i \in 1..Len(ccmWatch)
      <4>1. ccmWatch[i].of # v /\ ccmWatch'[i] = ccmWatch[i]
        BY <3>1, <2>6, <2>7, <2>13
      <4>2. \A j \in (i + 1)..Len(ccmWatch) : ccmWatch[j].of # ccmWatch[i].of
        BY <3>1, <2>7, <2>13
      <4> QED BY <3>1, <4>1, <4>2, <2>4, <2>9 DEF Informed
    <3>2. CASE i = Len(ccmWatch) + 1
      BY <3>2, <2>4, <2>6, <2>7
    <3> QED BY <3>1, <3>2, <2>7
  <2> QED BY <2>10, <2>11, <2>12, <2>13 DEF Informed
<1> QED BY <1>1, <1>2

\* An event that is delivered is the cache's from then on.
LEMMA DeliveryInforms ==
  ASSUME CCMSide, Informed, DeliverCCM PROVE Informed'
<1> DEFINE event == Head(ccmWatch)
<1>1. /\ ccmWatch # <<>> /\ ccmWatch \in Seq(Events)
      /\ ccmCache' = [ccmCache EXCEPT ![event.of] = event.obj]
      /\ ccmWatch' = Tail(ccmWatch) /\ UNCHANGED ccm
      /\ ccmCache \in [Versions -> CCMs \cup {NoCCM}]
  BY DEF DeliverCCM, CCMSide
<1>2. /\ event = ccmWatch[1] /\ event \in Events /\ 1 \in 1..Len(ccmWatch)
      /\ Len(ccmWatch') = Len(ccmWatch) - 1 /\ Len(ccmWatch) \in Nat
      /\ \A i \in 1..Len(ccmWatch') : i + 1 \in 1..Len(ccmWatch) /\ ccmWatch'[i] = ccmWatch[i + 1]
  BY <1>1, TailElements
<1>3. event.of \in Versions /\ event.obj \in CCMs \cup {NoCCM}
  BY <1>2 DEF Events
<1>4. /\ ccmCache'[event.of] = event.obj
      /\ \A u \in Versions \ {event.of} : ccmCache'[u] = ccmCache[u]
  BY <1>1, <1>3
<1> HIDE DEF event
<1>5. \A u \in Versions : Faithful(u, ccmCache[u])'
  BY <1>1, <1>2, <1>3, <1>4 DEF Informed, Faithful
<1>6. \A i \in 1..Len(ccmWatch') :
        ccmWatch'[i].obj.rv > 0 /\ Faithful(ccmWatch[i].of, ccmWatch[i].obj)'
  <2> SUFFICES ASSUME NEW i \in 1..Len(ccmWatch')
               PROVE  ccmWatch'[i].obj.rv > 0 /\ Faithful(ccmWatch[i].of, ccmWatch[i].obj)'
    OBVIOUS
  <2>1. /\ ccmWatch[i + 1].obj.rv > 0 /\ Faithful(ccmWatch[i + 1].of, ccmWatch[i + 1].obj)
        /\ ccmWatch'[i] = ccmWatch[i + 1]
    BY <1>2 DEF Informed
  <2> QED BY <2>1, <1>1 DEF Faithful
<1>7. ASSUME NEW u \in Versions, \A i \in 1..Len(ccmWatch') : ccmWatch'[i].of # u
      PROVE  ccmCache'[u] = ccm'[u]
  <2>1. \A j \in 2..Len(ccmWatch) : ccmWatch[j].of # u
    <3> SUFFICES ASSUME NEW j \in 2..Len(ccmWatch) PROVE ccmWatch[j].of # u
      OBVIOUS
    <3>1. j - 1 \in 1..Len(ccmWatch') /\ ccmWatch'[j - 1] = ccmWatch[j]
      BY <1>2
    <3> QED BY <3>1, <1>7
  <2>2. CASE u = event.of
    <3>1. \A j \in (1 + 1)..Len(ccmWatch) : ccmWatch[j].of # ccmWatch[1].of
      BY <2>1, <2>2, <1>2
    <3>2. ccmWatch[1].obj = ccm[ccmWatch[1].of]
      BY <3>1, <1>2 DEF Informed
    <3> QED BY <3>2, <2>2, <1>1, <1>2, <1>4
  <2>3. CASE u # event.of
    <3>1. \A j \in 1..Len(ccmWatch) : ccmWatch[j].of # u
      BY <2>1, <2>3, <1>2
    <3> QED BY <3>1, <2>3, <1>1, <1>4 DEF Informed
  <2> QED BY <2>2, <2>3
<1>8. ASSUME NEW i \in 1..Len(ccmWatch'),
             \A j \in (i + 1)..Len(ccmWatch') : ccmWatch'[j].of # ccmWatch'[i].of
      PROVE  ccmWatch'[i].obj = ccm'[ccmWatch'[i].of]
  <2>1. \A j \in ((i + 1) + 1)..Len(ccmWatch) : ccmWatch[j].of # ccmWatch[i + 1].of
    <3> SUFFICES ASSUME NEW j \in ((i + 1) + 1)..Len(ccmWatch)
                 PROVE  ccmWatch[j].of # ccmWatch[i + 1].of
      OBVIOUS
    <3>1. /\ j - 1 \in (i + 1)..Len(ccmWatch') /\ j - 1 \in 1..Len(ccmWatch')
          /\ ccmWatch'[j - 1] = ccmWatch[j]
      BY <1>2
    <3> QED BY <3>1, <1>2, <1>8
  <2>2. ccmWatch[i + 1].obj = ccm[ccmWatch[i + 1].of]
    BY <2>1, <1>2 DEF Informed
  <2> QED BY <2>2, <1>1, <1>2
<1> QED BY <1>5, <1>6, <1>7, <1>8 DEF Informed

\* What leaves the CCMs and their informer alone, or lists them again.
LEMMA InformedAside ==
  ASSUME CCMSide, Informed, UNCHANGED <<ccmVars, ccmCache>> \/ Relist PROVE Informed'
<1>1. CASE UNCHANGED <<ccmVars, ccmCache>>
  BY <1>1 DEF ccmVars, Informed, Faithful
<1>2. CASE Relist
  BY <1>2 DEF Relist, Informed, Faithful, CCMSide, CCMs, NoCCM
<1> QED BY <1>1, <1>2

\* Every step keeps the informer of the CCMs informed.
LEMMA InformedStep == ASSUME IInv, Informed, [Next]_vars PROVE Informed'
<1>1. CCMSide /\ InformerStep
  BY NextInforms DEF IInv
<1>2. CASE UNCHANGED <<ccmVars, ccmCache>> \/ Relist
  BY <1>1, <1>2, InformedAside
<1>3. CASE /\ UNCHANGED ccmCache
           /\ \E copy \in Requests : copy.obj.rv = ccm[copy.of].rv /\ StoreCCM(copy)
  BY <1>1, <1>3, StoreInforms
<1>4. CASE DeliverCCM
  BY <1>1, <1>4, DeliveryInforms
<1> QED BY <1>1, <1>2, <1>3, <1>4 DEF InformerStep

\* An informer that has nothing to hear of knows everything.
LEMMA NothingToHear == ASSUME CCMSide, Informed, ccmWatch = <<>> PROVE ccmCache = ccm
<1>1. \A v \in Versions : ccmCache[v] = ccm[v]
  BY DEF Informed
<1> QED BY <1>1 DEF CCMSide

-----------------------------------------------------------------------------
(* What is left.                                                           *)

Kinds == {"edits", "applies", "pods", "faults", "crashes"}
Calm == left'.faults = left.faults /\ left'.crashes = left.crashes

\* A step spends one thing, or nothing.
LEMMA Spends == ASSUME IInv, [Next]_vars PROVE UNCHANGED left \/ \E what \in Kinds : Spend(what)
<1>1. CASE FirstVersion \/ AdoptVersion \/ NewVersion \/ RollBack \/ RollBackMissing \/ NothingToDo
  BY <1>1 DEF FirstVersion, AdoptVersion, NewVersion, RollBack, RollBackMissing, NothingToDo,
     CreateCCM, UpdateCM, UpdateCCM, Kinds
<1>2. CASE StampFirst \/ RaiseCurrent \/ DropOld \/ UndoDrop \/ RevertCurrent \/ RevertLatest
           \/ StampNew
  BY <1>2 DEF StampFirst, RaiseCurrent, DropOld, UndoDrop, RevertCurrent, RevertLatest, StampNew,
     CMStep, CCMStep, UpdateCM, UpdateCCM, Kinds
<1>3. CASE DropLatest \/ CreateNew \/ RollDeployments \/ RollStatefulSets
  BY <1>3 DEF DropLatest, CreateNew, RollDeployments, RollStatefulSets, Roll, CreateCCM, UpdateCCM,
     Kinds
<1>4. CASE Panics \/ Crash \/ Deliver(DeliverCM) \/ Deliver(DeliverCCM) \/ UNCHANGED vars
  BY <1>4 DEF Panics, DropLatestPanics, StampNewPanics, RollPanics, Crash, Deliver, DeliverCM,
     DeliverCCM, vars, clusterVars, Kinds
<1>5. CASE Surroundings
  BY <1>5 DEF Surroundings, Resync, User, Edit, Replace, Apply, AdmitPod, Kinds
<1> QED BY <1>1, <1>2, <1>3, <1>4, <1>5 DEF Next, Controller, Calls

\* The bounds go down, and harm once done is not undone.
LEMMA CountedBy ==
  ASSUME left \in Budgets, Counted, UNCHANGED left \/ \E what \in Kinds : Spend(what)
  PROVE  Counted' /\ (Unharmed' => Unharmed /\ Calm)
<1>1. MaxPods \in Nat /\ MaxFaults \in Nat /\ MaxCrashes \in Nat
  BY BoundsAssumption
<1>2. CASE UNCHANGED left
  BY <1>2 DEF Counted, Unharmed, Calm
<1>3. ASSUME NEW what \in Kinds, Spend(what) PROVE Counted' /\ (Unharmed' => Unharmed /\ Calm)
  <2>1. left[what] > 0 /\ left' = [left EXCEPT ![what] = left[what] - 1]
    BY <1>3 DEF Spend
  <2> QED BY <1>1, <2>1 DEF Counted, Unharmed, Calm, Budgets, Kinds
<1> QED BY <1>2, <1>3

LEMMA CountedStep ==
  ASSUME IInv, Counted, [Next]_vars PROVE Counted' /\ (Unharmed' => Unharmed /\ Calm)
BY Spends, CountedBy DEF IInv

\* A bound that is spent in a calm step is none of the harmful ones.
LEMMA CalmSpends == ASSUME left \in Budgets, Calm PROVE ~Spend("faults") /\ ~Spend("crashes")
BY DEF Spend, Budgets, Calm

-----------------------------------------------------------------------------
(* The calls, when none fails without a reason.                            *)

\* A cached copy that gets a label, or loses it.
LEMMA CachedLabel ==
  ASSUME NEW v, NEW is
  PROVE  /\ Current(Cached(v), is) = [of |-> v, obj |-> [ccmCache[v] EXCEPT !.current = is]]
         /\ Latest(Cached(v), is) = [of |-> v, obj |-> [ccmCache[v] EXCEPT !.latest = is]]
BY DEF Current, Latest, Cached

\* A copy that is held gets the label, or loses it.
LEMMA CopyLabel ==
  ASSUME NEW copy \in Copies, NEW is
  PROVE  Current(copy, is) = [of |-> copy.of, obj |-> [copy.obj EXCEPT !.current = is]]
BY DEF Current, Copies

\* An update of the ConfigMap is carried out, or its copy is old.
LEMMA CalmUpdateCM ==
  ASSUME left \in Budgets, Calm, NEW copy, NEW out, UpdateCM(copy, out)
  PROVE  /\ UNCHANGED left
         /\ \/ out = "ok" /\ copy.rv = cm.rv /\ StoreCM(copy)
            \/ out = "conflict" /\ copy.rv # cm.rv /\ UNCHANGED cmVars
BY CalmSpends DEF UpdateCM

LEMMA CalmUpdateCCM ==
  ASSUME left \in Budgets, Calm, NEW copy, NEW out, Exists(copy.of), UpdateCCM(copy, out)
  PROVE  /\ UNCHANGED left
         /\ \/ out = "ok" /\ copy.obj.rv = ccm[copy.of].rv /\ StoreCCM(copy)
            \/ out = "conflict" /\ copy.obj.rv # ccm[copy.of].rv /\ UNCHANGED ccmVars
BY CalmSpends DEF UpdateCCM

\* A ConfigMap that is stored changed is an event its informer has to hear of.
LEMMA StoredCM ==
  ASSUME cm \in CMs, NEW copy \in CMs, copy.rv = cm.rv, copy # cm, StoreCM(copy), Caught,
         UNCHANGED cmCache
  PROVE  /\ Behind' /\ cm' \in CMs
         /\ cm'.data = copy.data /\ cm'.version = copy.version /\ cm'.annotated = copy.annotated
         /\ cm'.deployments = copy.deployments /\ cm'.statefulsets = copy.statefulsets
<1>1. cm' = [copy EXCEPT !.rv = @ + 1] /\ cmWatch' = Append(cmWatch, cm')
  BY DEF StoreCM
<1>2. /\ cm' \in CMs /\ cm'.rv = cm.rv + 1 /\ cm.rv \in Nat
      /\ cm'.data = copy.data /\ cm'.version = copy.version /\ cm'.annotated = copy.annotated
      /\ cm'.deployments = copy.deployments /\ cm'.statefulsets = copy.statefulsets
  <2> DEFINE stored == [copy EXCEPT !.rv = @ + 1]
  <2>1. cm.rv \in Nat /\ copy.rv \in Nat
    BY DEF CMs
  <2>2. /\ stored \in CMs /\ stored.rv = copy.rv + 1
        /\ stored.data = copy.data /\ stored.version = copy.version
        /\ stored.annotated = copy.annotated
        /\ stored.deployments = copy.deployments /\ stored.statefulsets = copy.statefulsets
    BY DEF CMs
  <2>3. cm' = stored
    BY <1>1
  <2> QED BY <2>1, <2>2, <2>3
<1>3. cmWatch' = <<cm'>>
  BY <1>1 DEF Caught
<1> QED BY <1>2, <1>3 DEF Caught, Behind

\* A CCM that is stored with other labels.
LEMMA StoredCCM ==
  ASSUME CCMSide, NEW v \in Versions, NEW obj \in CCMs, Exists(v), obj.data = ccm[v].data,
         StoreCCM([of |-> v, obj |-> obj])
  PROVE  /\ \A u \in Versions \ {v} : ccm'[u] = ccm[u]
         /\ ccm'[v].current = obj.current /\ ccm'[v].latest = obj.latest
         /\ ccm'[v].data = ccm[v].data
         /\ \A u \in Versions : (Exists(u)' <=> Exists(u)) /\ ccm'[u].data = ccm[u].data
         /\ \/ UNCHANGED ccmWatch
            \/ ccmWatch' = Append(ccmWatch, [of |-> v, obj |-> ccm'[v]])
<1>1. CASE obj = ccm[v]
  BY <1>1 DEF StoreCCM, ccmVars, Exists
<1>2. CASE obj # ccm[v]
  <2>1. /\ ccm' = [ccm EXCEPT ![v] = [obj EXCEPT !.rv = obj.rv + 1]]
        /\ ccmWatch' = Append(ccmWatch, [of |-> v, obj |-> ccm'[v]])
    BY <1>2 DEF StoreCCM
  <2>2. ccm \in [Versions -> CCMs \cup {NoCCM}]
    BY DEF CCMSide
  <2>3. ccm'[v] = [obj EXCEPT !.rv = obj.rv + 1] /\ \A u \in Versions \ {v} : ccm'[u] = ccm[u]
    BY <2>1, <2>2
  <2>4. /\ ccm'[v].rv > 0 /\ ccm'[v].data = obj.data
        /\ ccm'[v].current = obj.current /\ ccm'[v].latest = obj.latest
    BY <2>3 DEF CCMs
  <2> QED BY <2>1, <2>3, <2>4 DEF Exists
<1> QED BY <1>1, <1>2

\* A version that is made is current and latest, and the last thing to hear of.
LEMMA Created ==
  ASSUME IInv, Informed, Calm, UNCHANGED ccmCache,
         NEW v \in Versions, NEW d \in Data, NEW out, CreateCCM(v, d, out)
  PROVE  /\ out = "ok" /\ UNCHANGED left /\ ~Exists(v) /\ HeardLast(v)'
         /\ \A u \in Versions : Exists(u)' <=> Exists(u) \/ u = v
         /\ CurrentIn(ccm) = {} => InForce(v, d)'
<1> DEFINE new == [of |-> v, obj |-> [data |-> d, current |-> TRUE, latest |-> TRUE, rv |-> 0]]
           obj == [data |-> d, current |-> TRUE, latest |-> TRUE, rv |-> 1]
<1>1. /\ ccm \in [Versions -> CCMs \cup {NoCCM}] /\ ccmWatch \in Seq(Events)
      /\ ccmCache \in [Versions -> CCMs \cup {NoCCM}] /\ left \in Budgets
  BY DEF IInv, CCMSide
<1>2. ~Exists(v) /\ out = "ok" /\ StoreCCM(new) /\ UNCHANGED left
  BY <1>1, CalmSpends DEF CreateCCM
<1>3. ccm[v].rv = 0 /\ new.obj # ccm[v]
  BY <1>1, <1>2, ValuesAssumption DEF Exists, CCMs, NoCCM
<1>4. ccm' = [ccm EXCEPT ![v] = obj] /\ ccmWatch' = Append(ccmWatch, [of |-> v, obj |-> ccm'[v]])
  BY <1>2, <1>3 DEF StoreCCM
<1>5. ccm'[v] = obj /\ \A u \in Versions \ {v} : ccm'[u] = ccm[u]
  BY <1>1, <1>4
<1>6. obj \in CCMs /\ [of |-> v, obj |-> obj] \in Events
  BY DEF CCMs, Events
<1>7. /\ Len(ccmWatch') = Len(ccmWatch) + 1 /\ Len(ccmWatch) \in Nat
      /\ \A i \in 1..Len(ccmWatch) : ccmWatch'[i] = ccmWatch[i]
  BY <1>1, <1>4, <1>5, <1>6, AppendElements
<1>8. HeardLast(v)'
  <2>1. ccmCache[v].rv = 0
    BY <1>1, <1>3 DEF Informed, Faithful, CCMs, NoCCM
  <2>2. \A i \in 1..Len(ccmWatch) : ccmWatch[i].of # v
    <3> SUFFICES ASSUME NEW i \in 1..Len(ccmWatch), ccmWatch[i].of = v PROVE FALSE
      OBVIOUS
    <3>1. ccmWatch[i] \in Events
      BY <1>1
    <3>2. ccmWatch[i].obj.rv \in Nat
      BY <3>1 DEF Events, CCMs, NoCCM
    <3> QED BY <3>2, <1>3 DEF Informed, Faithful
  <2>3. \A i \in 1..Len(ccmWatch') : ccmWatch'[i].of = v => i = Len(ccmWatch')
    BY <1>7, <2>2
  <2> QED BY <2>1, <2>3 DEF HeardLast
<1>9. \A u \in Versions : Exists(u)' <=> Exists(u) \/ u = v
  BY <1>5 DEF Exists
<1>10. ASSUME CurrentIn(ccm) = {} PROVE InForce(v, d)'
  <2>1. CurrentIn(ccm)' = {v} /\ v \in LatestIn(ccm)' /\ ccm'[v].data = d
    BY <1>5, <1>10 DEF CurrentIn, LatestIn
  <2> QED BY <2>1 DEF InForce
<1> QED BY <1>2, <1>8, <1>9, <1>10

-----------------------------------------------------------------------------
(* The phases.                                                             *)

\* The location of the handler tells the phase.
LEMMA PhaseAt ==
  ASSUME Phases
  PROVE  /\ pc = "idle" => Untouched \/ Changed \/ Echoing \/ Drained
         /\ pc = "stampFirst" => FirstMade
         /\ pc \in {"dropLatest", "createNew"} => Making
         /\ pc = "stampNew" => Made
         /\ pc \in {"rollDeployments", "rollStatefulSets"} => Rolling
         /\ pc = "raiseCurrent" => Raising
         /\ pc = "dropOld" => Dropping
         /\ pc \notin {"undoDrop", "revertCurrent", "revertLatest"}
BY DEF Phases, Untouched, FirstMade, Changed, Making, Made, Rolling, Raising, Dropping, Echoing,
       Drained

\* A handler that starts finds nothing versioned, a change it has all to know of, or echoes.
LEMMA StartsAt ==
  ASSUME Phases, NEW versioned, NEW listed, Starts(versioned, listed)
  PROVE  Untouched \/ (Changed /\ Caught) \/ Echoing
<1>1. pc = "idle" /\ queued
  BY DEF Starts
<1>2. Untouched \/ Changed \/ Echoing \/ Drained
  BY <1>1, PhaseAt
<1>3. Changed => Caught
  BY <1>1 DEF Changed
<1>4. ~Drained
  BY <1>1 DEF Drained
<1> QED BY <1>2, <1>3, <1>4

\* Templates that follow do so still when stamp, names, templates and versions are the same.
LEMMA FollowsStill ==
  ASSUME Follows, cm'.version = cm.version, cm'.deployments = cm.deployments,
         UNCHANGED template, left'.pods = left.pods,
         \A v \in Versions : Exists(v)' <=> Exists(v)
  PROVE  Follows'
<1> SUFFICES ASSUME NEW w \in Deployments, cm'.deployments = {w}, template'[w] \notin {Bare, Absent},
                    left'.pods = MaxPods
             PROVE  template'[w] = cm'.version
                    \/ \E v \in Versions : \A u \in Versions : Exists(u)' <=> u = v
  BY DEF Follows
<1>1. template[w] = cm.version \/ \E v \in Versions : \A u \in Versions : Exists(u) <=> u = v
  BY DEF Follows
<1> QED BY <1>1

\* A handler that returns without having changed anything leaves things in step.
LEMMA EchoStill ==
  ASSUME Steady, pc = "idle", queued, Echoing, pc' = "idle",
         UNCHANGED <<cmVars, ccmVars, caches, rollout, left>>
  PROVE  Steady' /\ Keeping
<1>1. UNCHANGED <<cm, cmWatch, ccm, ccmWatch, cmCache, ccmCache, template, left>>
  BY DEF cmVars, ccmVars, caches, rollout
<1>2. Echoing' /\ Annotated'
  BY <1>1 DEF Steady, Echoing, Annotated, InStep, InForce, HeardLast, Caught, Behind
<1>3. Follows'
  BY <1>1, FollowsStill DEF Steady, Exists
<1> QED BY <1>1, <1>2, <1>3 DEF Steady, Phases, Keeping

\* The current version is in step and an informer that hears of it last does not take
\* another one for it.
LEMMA EchoOfCurrent ==
  ASSUME IInv, Informed, InStep, HeardLast(cm.version), NEW v \in Versions,
         CurrentIn(ccmCache) = {v}
  PROVE  \/ v = cm.version /\ ccmCache = ccm
         \/ /\ v # cm.version /\ ccmCache[v].rv # ccm[v].rv
            /\ ccmCache[cm.version].rv = 0 /\ Exists(v)
<1>1. ccmCache[v].current /\ CCMSide
  BY DEF CurrentIn, IInv
<1>2. CASE ccmWatch = <<>>
  BY <1>1, <1>2, NothingToHear DEF InStep, InForce
<1>3. CASE ccmWatch # <<>>
  <2>1. ccmCache[cm.version].rv = 0 /\ cm.version \in Versions
    BY <1>3 DEF HeardLast, InStep, InForce
  <2>2. v # cm.version
    BY <1>1, <2>1, Listed DEF CCMSide, CCMs
  <2>3. ~ccm[v].current
    BY <2>2 DEF InStep, InForce, CurrentIn
  <2>4. ccmCache[v].rv # ccm[v].rv
    BY <1>1, <2>3 DEF Informed, Faithful
  <2>5. Exists(v)
    BY <1>1, Listed DEF CCMSide, CopiesAgree, Agrees
  <2> QED BY <2>1, <2>2, <2>4, <2>5
<1> QED BY <1>2, <1>3

-----------------------------------------------------------------------------
(* A handler starts.                                                       *)

\* The first version is made where nothing is versioned yet, and nowhere else.
LEMMA FirstVersionSteady ==
  ASSUME IInv, Informed, Calm, Steady, FirstVersion PROVE Steady' /\ Keeping
<1>1. PICK v \in Versions, out \in Outcomes :
        /\ CreateCCM(v, cmCache.data, out)
        /\ IF out = "ok"
           THEN /\ Begin("stampFirst")
                /\ my' = [cmCache EXCEPT !.version = v, !.annotated = TRUE]
                /\ UNCHANGED <<cur, other, tries>>
           ELSE Retry
  BY DEF FirstVersion
<1>2. Starts(FALSE, {}) /\ UNCHANGED <<cm, cmWatch, cmCache, ccmCache, template>>
  BY DEF FirstVersion, cmVars, caches, rollout
<1>3. cmCache.version = NoVersion /\ CurrentIn(ccmCache) = {} /\ cm \in CMs /\ pc = "idle" /\ queued
      /\ cmCache.data \in Data
  BY <1>2 DEF Starts, IInv, CMSide, CMs
<1>4. Untouched
  <2>1. ~(Changed /\ Caught)
    BY <1>3 DEF Changed, InForce, Synced
  <2>2. ~Echoing
    BY <1>3, ValuesAssumption DEF Echoing, Caught, InStep, InForce
  <2> QED BY <1>2, <2>1, <2>2, StartsAt DEF Steady
<1>5. CurrentIn(ccm) = {} /\ cmCache = cm /\ cmWatch = <<>> /\ \A u \in Versions : ~Exists(u)
  BY <1>4 DEF Untouched, CurrentIn, Exists, NoCCM, Caught
<1>6. /\ out = "ok" /\ UNCHANGED left /\ HeardLast(v)'
      /\ \A u \in Versions : Exists(u)' <=> u = v
      /\ InForce(v, cmCache.data)'
  BY <1>1, <1>2, <1>3, <1>5, Created
<1>7. my' = [cm EXCEPT !.version = v, !.annotated = TRUE] /\ pc' = "stampFirst" /\ queued' = FALSE
  BY <1>1, <1>5, <1>6 DEF Begin
<1>8. my'.version = v /\ my'.data = cm.data
  BY <1>3, <1>7 DEF CMs
<1>9. FirstMade'
  BY <1>2, <1>3, <1>5, <1>6, <1>7, <1>8 DEF FirstMade, Caught, InForce
<1>10. Annotated' /\ Follows'
  BY <1>2, <1>3, <1>6 DEF Steady, Annotated, Follows
<1> QED BY <1>2, <1>9, <1>10 DEF Steady, Phases, Keeping

\* What a start in the phase Changed finds in its caches.
LEMMA ChangeFound ==
  ASSUME IInv, Changed, Caught
  PROVE  /\ ccmWatch = <<>> /\ ccmCache = ccm /\ cmWatch = <<>> /\ cmCache = cm /\ cm \in CMs
         /\ Nameless /\ LatestIn(ccm) # {}
         /\ \E v \in Versions :
              /\ CurrentIn(ccm) = {v} /\ Exists(v) /\ ccm[v] \in CCMs
              /\ \/ cm.version \in {v, NoVersion}
                 \/ cm.version \in Versions /\ Exists(cm.version)
                    /\ cm.data = ccm[cm.version].data
<1>1. PICK v \in Versions, d \in Data :
        /\ InForce(v, d)
        /\ \/ cm.version \in {v, NoVersion}
           \/ cm.version \in Versions /\ Exists(cm.version) /\ cm.data = ccm[cm.version].data
  BY DEF Changed
<1>2. ccm[v].current
  BY <1>1 DEF InForce, CurrentIn
<1>3. ccm[v] \in CCMs /\ ccm[v].rv > 0 /\ cm \in CMs
  BY <1>2 DEF IInv, CCMSide, CMSide, NoCCM, CCMs
<1> QED BY <1>1, <1>3 DEF Changed, Synced, Caught, InForce, Exists

\* The stamp is put back where the user took it away.
LEMMA AdoptVersionSteady ==
  ASSUME IInv, Informed, Calm, Steady, AdoptVersion PROVE Steady' /\ Keeping
<1>1. PICK v \in Versions, out \in Outcomes :
        /\ Starts(FALSE, {v}) /\ cmCache.data = ccmCache[v].data
        /\ UpdateCM([cmCache EXCEPT !.version = v, !.annotated = TRUE], out)
        /\ IF out = "ok" THEN Begin("idle") /\ Forget ELSE Retry
  BY DEF AdoptVersion
<1>2. UNCHANGED <<ccm, ccmWatch, cmCache, ccmCache, template>>
  BY DEF AdoptVersion, ccmVars, caches, rollout
<1>3. cmCache.version = NoVersion /\ CurrentIn(ccmCache) = {v} /\ pc = "idle" /\ queued
  BY <1>1 DEF Starts
<1>4. Changed /\ Caught
  <2>1. ~Untouched
    BY <1>3 DEF Untouched, Synced, CurrentIn, NoCCM
  <2>2. ~Echoing
    BY <1>3, ValuesAssumption DEF Echoing, Caught, InStep, InForce
  <2> QED BY <1>1, <2>1, <2>2, StartsAt DEF Steady
<1>5. /\ ccmWatch = <<>> /\ ccmCache = ccm /\ cmWatch = <<>> /\ cmCache = cm /\ cm \in CMs
      /\ Nameless /\ LatestIn(ccm) # {}
  BY <1>4, ChangeFound
<1> DEFINE copy == [cmCache EXCEPT !.version = v, !.annotated = TRUE]
<1>6. /\ copy \in CMs /\ copy.rv = cm.rv /\ copy.version = v /\ copy.data = cm.data
      /\ copy.annotated /\ copy.deployments = cm.deployments /\ copy # cm
  BY <1>3, <1>5, ValuesAssumption DEF CMs
<1>7. left \in Budgets /\ UpdateCM(copy, out)
  BY <1>1 DEF IInv
<1> HIDE DEF copy
<1>8. out = "ok" /\ StoreCM(copy) /\ UNCHANGED left
  BY <1>6, <1>7, CalmUpdateCM
<1>9. /\ Behind' /\ cm'.data = cm.data /\ cm'.version = v /\ cm'.annotated
      /\ cm'.deployments = cm.deployments
  BY <1>2, <1>4, <1>6, <1>8, <1>5, StoredCM
<1>10. pc' = "idle" /\ queued' = FALSE
  BY <1>1, <1>8 DEF Begin
<1>11. InStep'
  <2>1. CurrentIn(ccm)' = {v} /\ LatestIn(ccm)' # {} /\ ccm'[v].data = cm.data
    BY <1>1, <1>2, <1>3, <1>5 DEF CurrentIn, LatestIn
  <2> QED BY <1>9, <2>1 DEF InStep, InForce
<1>12. Echoing'
  BY <1>2, <1>5, <1>9, <1>10, <1>11 DEF Echoing, HeardLast
<1>13. Annotated' /\ Follows'
  <2>1. cm'.deployments = {}
    BY <1>3, <1>5, <1>9 DEF Nameless
  <2> QED BY <1>9, <2>1 DEF Annotated, Follows
<1> QED BY <1>9, <1>12, <1>13 DEF Steady, Phases, Keeping

\* A version is made for a content that differs from the one in force; on an echo the
\* label cannot be taken from a copy that is old.
LEMMA NewVersionSteady ==
  ASSUME IInv, Informed, Calm, Steady, NewVersion PROVE Steady' /\ Keeping
<1>1. PICK v \in Versions, out \in Outcomes :
        /\ Starts(cmCache.version # NoVersion, {v})
        /\ cmCache.version \in {NoVersion, v} /\ cmCache.data # ccmCache[v].data
        /\ UpdateCCM(Current(Cached(v), FALSE), out)
        /\ IF out = "ok"
           THEN /\ Begin("dropLatest")
                /\ my' = cmCache /\ cur' = Answered(Current(Cached(v), FALSE), out)
                /\ UNCHANGED <<other, tries>>
           ELSE Retry
  BY DEF NewVersion
<1>2. UNCHANGED <<cm, cmWatch, cmCache, ccmCache, template>>
  BY DEF NewVersion, cmVars, caches, rollout
<1>3. CurrentIn(ccmCache) = {v} /\ pc = "idle" /\ queued
  BY <1>1 DEF Starts
<1> DEFINE copy == Current(Cached(v), FALSE)
           obj == [ccmCache[v] EXCEPT !.current = FALSE]
<1>4. copy = [of |-> v, obj |-> obj]
  BY CachedLabel
<1>5. CCMSide /\ left \in Budgets /\ UpdateCCM(copy, out)
  BY <1>1 DEF IInv
<1>6. ccmCache[v] \in CCMs /\ Exists(v)
  BY <1>3, <1>5, Listed DEF CurrentIn, CCMSide, CopiesAgree, Agrees
<1>7. /\ obj \in CCMs /\ obj.rv = ccmCache[v].rv /\ obj.data = ccmCache[v].data
      /\ obj.latest = ccmCache[v].latest /\ obj.current = FALSE
  BY <1>6 DEF CCMs
<1> HIDE DEF copy, obj
<1>8. /\ UNCHANGED left
      /\ \/ out = "ok" /\ obj.rv = ccm[v].rv /\ StoreCCM(copy)
         \/ out = "conflict" /\ obj.rv # ccm[v].rv /\ UNCHANGED ccmVars
  BY <1>4, <1>5, <1>6, CalmUpdateCCM
<1>9. CASE Changed /\ Caught
  <2>1. /\ ccmWatch = <<>> /\ ccmCache = ccm /\ cmWatch = <<>> /\ cmCache = cm /\ cm \in CMs
        /\ Nameless /\ LatestIn(ccm) # {}
    BY <1>9, ChangeFound
  <2>2. out = "ok" /\ StoreCCM([of |-> v, obj |-> obj])
    BY <1>4, <1>7, <1>8, <2>1
  <2>3. pc' = "dropLatest" /\ queued' = FALSE /\ my' = cm
    BY <1>1, <2>1, <2>2 DEF Begin
  <2>4. /\ \A u \in Versions \ {v} : ccm'[u] = ccm[u]
        /\ ccm'[v].current = FALSE /\ ccm'[v].latest = ccm[v].latest
        /\ \A u \in Versions : Exists(u)' <=> Exists(u)
        /\ \/ UNCHANGED ccmWatch
           \/ ccmWatch' = Append(ccmWatch, [of |-> v, obj |-> ccm'[v]])
    BY <1>5, <1>6, <1>7, <2>1, <2>2, StoredCCM
  <2>5. CurrentIn(ccm)' = {} /\ LatestIn(ccm)' # {}
    BY <1>3, <2>1, <2>4 DEF CurrentIn, LatestIn
  <2>6. ccmWatch' = <<>> \/ ccmWatch' = <<[of |-> v, obj |-> ccm'[v]]>>
    BY <2>1, <2>4
  <2>7. LatestKnown'
    BY <1>2, <2>1, <2>4, <2>6 DEF LatestKnown
  <2>8. Making'
    BY <1>2, <2>1, <2>3, <2>5, <2>7 DEF Making, Caught, Nameless
  <2>9. Annotated' /\ Follows'
    BY <1>2, <1>3, <1>8, <2>4, FollowsStill DEF Steady, Annotated
  <2> QED BY <1>2, <2>8, <2>9 DEF Steady, Phases, Keeping
<1>10. CASE Echoing
  <2>1. InStep /\ HeardLast(cm.version) /\ (Caught \/ cmCache.version \notin {NoVersion, cm.version})
    BY <1>3, <1>10 DEF Echoing
  <2>2. obj.rv # ccm[v].rv
    <3>1. CASE v = cm.version /\ ccmCache = ccm
      <4>1. Caught
        BY <1>1, <2>1, <3>1
      <4> QED BY <1>1, <2>1, <3>1, <4>1 DEF Caught, InStep, InForce
    <3>2. CASE v # cm.version /\ ccmCache[v].rv # ccm[v].rv
      BY <1>7, <3>2
    <3> QED BY <1>3, <2>1, <3>1, <3>2, EchoOfCurrent
  <2>3. out # "ok" /\ UNCHANGED <<ccmVars, left>>
    BY <1>8, <2>2
  <2>4. pc' = "idle"
    BY <1>1, <2>3 DEF Retry
  <2> QED BY <1>3, <1>10, <2>3, <2>4, EchoStill DEF NewVersion
<1>11. ~Untouched
  BY <1>3 DEF Untouched, Synced, CurrentIn, NoCCM
<1> QED BY <1>1, <1>9, <1>10, <1>11, StartsAt DEF Steady

\* The pod webhook has stamped another version: the handler writes back what the webhook
\* has written, and goes on to the labels; on an echo its copy of the ConfigMap is old, or
\* the stamped version is the current one.
LEMMA RollBackSteady ==
  ASSUME IInv, Informed, Calm, Steady, RollBack PROVE Steady' /\ Keeping
<1> DEFINE target == cmCache.version
           copy == [cmCache EXCEPT !.data = ccmCache[target].data]
<1>1. PICK v \in Versions, out \in Outcomes :
        /\ Starts(TRUE, {v}) /\ target # v /\ ccmCache[target].rv > 0 /\ UpdateCM(copy, out)
        /\ IF out = "ok"
           THEN /\ Begin("raiseCurrent")
                /\ cur' = Cached(v) /\ other' = Cached(target)
                /\ UNCHANGED <<my, tries>>
           ELSE Retry
  BY DEF RollBack
<1>2. UNCHANGED <<ccm, ccmWatch, cmCache, ccmCache, template>>
  BY DEF RollBack, ccmVars, caches, rollout
<1>3. /\ CurrentIn(ccmCache) = {v} /\ pc = "idle" /\ queued /\ target # NoVersion
      /\ cmCache \in CMs /\ left \in Budgets
  BY <1>1 DEF Starts, IInv, CMSide
<1>4. copy.rv = cmCache.rv /\ copy.version = target
  BY <1>3 DEF CMs
<1>5. /\ UNCHANGED left
      /\ \/ out = "ok" /\ cmCache.rv = cm.rv /\ StoreCM(copy)
         \/ out = "conflict" /\ cmCache.rv # cm.rv /\ UNCHANGED cmVars
  <2>1. UpdateCM(copy, out)
    BY <1>1
  <2> HIDE DEF copy
  <2> QED BY <1>3, <1>4, <2>1, CalmUpdateCM
<1>6. CASE Changed /\ Caught
  <2>1. /\ ccmWatch = <<>> /\ ccmCache = ccm /\ cmWatch = <<>> /\ cmCache = cm /\ cm \in CMs
        /\ Nameless /\ LatestIn(ccm) # {}
    BY <1>6, ChangeFound
  <2>2. PICK u \in Versions :
          /\ CurrentIn(ccm) = {u} /\ Exists(u) /\ ccm[u] \in CCMs
          /\ \/ cm.version \in {u, NoVersion}
             \/ cm.version \in Versions /\ Exists(cm.version) /\ cm.data = ccm[cm.version].data
    BY <1>6, ChangeFound
  <2>3. /\ CurrentIn(ccm) = {v} /\ target = cm.version
        /\ cm.version \in Versions /\ Exists(cm.version) /\ cm.data = ccm[cm.version].data
    BY <1>1, <1>3, <2>1, <2>2
  <2>4. copy = cm
    BY <2>1, <2>3 DEF CMs
  <2>5. out = "ok" /\ UNCHANGED cmVars
    BY <1>5, <2>1, <2>4 DEF StoreCM
  <2>6. /\ pc' = "raiseCurrent" /\ queued' = FALSE
        /\ cur' = [of |-> v, obj |-> ccm[v]] /\ other' = [of |-> cm.version, obj |-> ccm[cm.version]]
    BY <1>1, <2>1, <2>3, <2>5 DEF Begin, Cached
  <2>7. Raising'
    <3>1. v # cm.version
      BY <1>1, <2>1
    <3> QED BY <1>2, <2>1, <2>3, <2>5, <2>6, <3>1
            DEF Raising, Caught, Synced, InForce, CurrentIn, LatestIn, Exists, cmVars
  <2>8. Annotated' /\ Follows'
    BY <1>2, <1>3, <1>5, <2>5, FollowsStill DEF Steady, Annotated, cmVars, Exists
  <2> QED BY <2>5, <2>6, <2>7, <2>8 DEF Steady, Phases, Keeping, cmVars
<1>7. CASE Echoing
  <2>1. InStep /\ HeardLast(cm.version) /\ (Caught \/ cmCache.version \notin {NoVersion, cm.version})
    BY <1>3, <1>7 DEF Echoing
  <2>2. (Caught \/ Behind) /\ cm \in CMs
    BY <1>7 DEF Echoing, IInv, CMSide
  <2>3. cmCache.rv # cm.rv
    <3>1. CASE Caught
      <4>1. cmCache = cm
        BY <3>1 DEF Caught
      <4> QED BY <1>1, <1>3, <2>1, <4>1, EchoOfCurrent
    <3>2. CASE Behind
      BY <1>3, <2>2, <3>2 DEF Behind, CMs
    <3> QED BY <2>2, <3>1, <3>2
  <2>4. out # "ok" /\ UNCHANGED <<cmVars, left>>
    BY <1>5, <2>3
  <2>5. pc' = "idle"
    BY <1>1, <2>4 DEF Retry
  <2> QED BY <1>3, <1>7, <2>4, <2>5, EchoStill DEF RollBack
<1>8. ~Untouched
  BY <1>3 DEF Untouched, Synced, CurrentIn, NoCCM
<1> QED BY <1>1, <1>6, <1>7, <1>8, StartsAt DEF Steady

\* CopyCCMToCM misses the stamped version only on an echo.
LEMMA RollBackMissingSteady ==
  ASSUME IInv, Informed, Steady, RollBackMissing PROVE Steady' /\ Keeping
<1>1. PICK v \in Versions \ {cmCache.version} : Starts(TRUE, {v})
  BY DEF RollBackMissing
<1>2. /\ CurrentIn(ccmCache) = {v} /\ pc = "idle" /\ queued /\ cmCache.version # NoVersion
      /\ ccmCache[cmCache.version].rv = 0 /\ pc' = "idle"
      /\ UNCHANGED <<cmVars, ccmVars, caches, rollout, left>>
  BY <1>1 DEF Starts, RollBackMissing, Retry
<1>3. ~(Changed /\ Caught)
  <2> SUFFICES ASSUME Changed /\ Caught PROVE FALSE
    OBVIOUS
  <2>1. /\ ccmCache = ccm /\ cmCache = cm
        /\ \E u \in Versions :
             /\ CurrentIn(ccm) = {u}
             /\ \/ cm.version \in {u, NoVersion}
                \/ cm.version \in Versions /\ Exists(cm.version)
    BY ChangeFound
  <2> QED BY <1>1, <1>2, <2>1 DEF Exists
<1>4. ~Untouched
  BY <1>2 DEF Untouched, Synced, CurrentIn, NoCCM
<1> QED BY <1>1, <1>2, <1>3, <1>4, StartsAt, EchoStill DEF Steady

\* A handler that does nothing finds all in step, or hears an echo.
LEMMA NothingToDoSteady ==
  ASSUME IInv, Informed, Steady, NothingToDo PROVE Steady' /\ Keeping
<1>1. /\ Starts(cmCache.version # NoVersion, CurrentIn(ccmCache))
      /\ \/ CurrentIn(ccmCache) = {cmCache.version} /\ cmCache.data = ccmCache[cmCache.version].data
         \/ CurrentIn(ccmCache) = {} /\ cmCache.version # NoVersion
         \/ Cardinality(CurrentIn(ccmCache)) > 1
      /\ pc = "idle" /\ queued /\ pc' = "idle" /\ queued' = FALSE
      /\ UNCHANGED <<cmVars, ccmVars, caches, rollout, left>>
  BY DEF NothingToDo, Begin, Starts
<1>2. CASE Changed /\ Caught
  <2>1. /\ ccmWatch = <<>> /\ ccmCache = ccm /\ cmWatch = <<>> /\ cmCache = cm /\ cm \in CMs
        /\ LatestIn(ccm) # {}
    BY <1>2, ChangeFound
  <2>2. PICK u \in Versions : CurrentIn(ccm) = {u}
    BY <1>2, ChangeFound
  <2>3. Cardinality({u}) = 1
    BY FS_Singleton
  <2>4. CurrentIn(ccm) = {cm.version} /\ cm.data = ccm[cm.version].data
    BY <1>1, <2>1, <2>2, <2>3
  <2>5. InStep
    BY <2>1, <2>2, <2>4 DEF InStep, InForce
  <2>6. Drained'
    BY <1>1, <1>2, <2>5
       DEF Drained, InStep, InForce, Caught, cmVars, ccmVars, caches, CurrentIn, LatestIn
  <2>7. Annotated' /\ Follows'
    BY <1>1, FollowsStill DEF Steady, Annotated, cmVars, ccmVars, rollout, Exists
  <2> QED BY <1>1, <2>6, <2>7 DEF Steady, Phases, Keeping, cmVars
<1>3. ~Untouched
  <2> SUFFICES ASSUME Untouched PROVE FALSE
    OBVIOUS
  <2>1. CurrentIn(ccmCache) = {} /\ cmCache.version = NoVersion
    BY DEF Untouched, Synced, Caught, CurrentIn, NoCCM
  <2> QED BY <1>1, <2>1, FS_EmptySet
<1> QED BY <1>1, <1>2, <1>3, StartsAt, EchoStill DEF Steady

-----------------------------------------------------------------------------
(* A handler goes on.                                                      *)

\* The stamp of the first version.
LEMMA StampFirstSteady ==
  ASSUME IInv, Calm, Steady, StampFirst PROVE Steady' /\ Keeping
<1>1. PICK out \in Outcomes :
        pc = "stampFirst" /\ UpdateCM(my, out) /\ (IF out = "ok" THEN Done ELSE Retry)
  BY DEF StampFirst, CMStep
<1>2. UNCHANGED <<ccm, ccmWatch, cmCache, ccmCache, template>>
  BY DEF StampFirst, CMStep, ccmVars, caches, rollout
<1>3. FirstMade
  BY <1>1, PhaseAt DEF Steady
<1>4. /\ my \in CMs /\ cm \in CMs /\ left \in Budgets /\ my.version \in Versions
      /\ Exists(my.version)
  BY <1>1 DEF IInv, CMSide, HandlerSide, HandlerKnows
<1>5. /\ my.rv = cm.rv /\ my.data = cm.data /\ my.deployments = cm.deployments
      /\ my.annotated /\ my # cm
  BY <1>3, <1>4, ValuesAssumption DEF FirstMade, CMs
<1>6. out = "ok" /\ StoreCM(my) /\ UNCHANGED left
  BY <1>1, <1>4, <1>5, CalmUpdateCM
<1>7. /\ Behind' /\ cm'.data = cm.data /\ cm'.version = my.version /\ cm'.annotated
      /\ cm'.deployments = cm.deployments
  BY <1>2, <1>3, <1>4, <1>5, <1>6, StoredCM DEF FirstMade
<1>8. pc' = "idle" /\ queued' = FALSE
  BY <1>1, <1>3, <1>6 DEF Done, FirstMade, IInv
<1>9. Echoing'
  <2>1. InStep'
    BY <1>2, <1>3, <1>5, <1>7 DEF FirstMade, InStep, InForce, CurrentIn, LatestIn
  <2> QED BY <1>2, <1>3, <1>7, <1>8, <2>1 DEF FirstMade, Echoing, HeardLast
<1>10. Annotated' /\ Follows'
  <2>1. \A u \in Versions : Exists(u)' <=> u = my.version
    BY <1>2, <1>3, <1>4 DEF FirstMade, Exists
  <2> QED BY <1>4, <1>7, <2>1 DEF Annotated, Follows
<1> QED BY <1>7, <1>9, <1>10 DEF Steady, Phases, Keeping

\* The label current of the version that is rolled back to.
LEMMA RaiseCurrentSteady ==
  ASSUME IInv, Calm, Steady, RaiseCurrent PROVE Steady' /\ Keeping
<1>1. PICK out \in Outcomes :
        /\ pc = "raiseCurrent" /\ UpdateCCM(Current(other, TRUE), out)
        /\ IF out = "ok" THEN Onward("dropOld") ELSE Retry
  BY DEF RaiseCurrent, CCMStep
<1>2. UNCHANGED <<cm, cmWatch, cmCache, ccmCache, template>>
  BY DEF RaiseCurrent, CCMStep, cmVars, caches, rollout
<1>3. Raising
  BY <1>1, PhaseAt DEF Steady
<1> DEFINE v == cm.version
           obj == [ccm[v] EXCEPT !.current = TRUE]
           copy == [of |-> v, obj |-> obj]
<1>4. /\ v \in Versions /\ Exists(v) /\ ccm[v] \in CCMs /\ CCMSide /\ left \in Budgets
      /\ ccmCache = ccm
  BY <1>3 DEF Raising, Synced, IInv, CCMSide, Exists, NoCCM
<1>5. Current(other, TRUE) = copy
  <2>1. other = Cached(v)
    BY <1>3 DEF Raising, Synced, Cached
  <2> QED BY <2>1, <1>4, CachedLabel
<1>6. /\ obj \in CCMs /\ obj.rv = ccm[v].rv /\ obj.data = ccm[v].data
      /\ obj.latest = ccm[v].latest /\ obj.current
  BY <1>4 DEF CCMs
<1>7. copy.of = v /\ copy.obj = obj
  OBVIOUS
<1>8. UpdateCCM(copy, out)
  BY <1>1, <1>5
<1> HIDE DEF obj, copy
<1>9. out = "ok" /\ StoreCCM(copy) /\ UNCHANGED left
  BY <1>4, <1>6, <1>7, <1>8, CalmUpdateCCM
<1>10. /\ \A u \in Versions \ {v} : ccm'[u] = ccm[u]
       /\ ccm'[v].current /\ ccm'[v].latest = ccm[v].latest
       /\ \A u \in Versions : (Exists(u)' <=> Exists(u)) /\ ccm'[u].data = ccm[u].data
  BY <1>4, <1>6, <1>9, StoredCCM DEF copy
<1>11. pc' = "dropOld" /\ UNCHANGED <<queued, cur>>
  BY <1>1, <1>9 DEF Onward, Goto, locals
<1>12. Dropping'
  <2>1. CurrentIn(ccm)' = {cur.of, v} /\ LatestIn(ccm)' # {} /\ cur.of \in Versions
    BY <1>3, <1>4, <1>10 DEF Raising, InForce, CurrentIn, LatestIn
  <2>2. cur.obj = ccm'[cur.of]
    BY <1>3, <1>10, <2>1 DEF Raising
  <2> QED BY <1>2, <1>3, <1>4, <1>10, <1>11, <2>1, <2>2 DEF Raising, Dropping, Caught
<1>13. Annotated' /\ Follows'
  BY <1>1, <1>2, <1>9, <1>10, FollowsStill DEF Steady, Annotated
<1> QED BY <1>2, <1>12, <1>13 DEF Steady, Phases, Keeping

\* The label current of the version that was rolled back from.
LEMMA DropOldSteady ==
  ASSUME IInv, Calm, Steady, DropOld PROVE Steady' /\ Keeping
<1>1. PICK out \in Outcomes :
        /\ pc = "dropOld" /\ UpdateCCM(Current(cur, FALSE), out)
        /\ IF out = "ok" THEN Done ELSE Retry
  BY DEF DropOld, CCMStep
<1>2. UNCHANGED <<cm, cmWatch, cmCache, ccmCache, template>>
  BY DEF DropOld, CCMStep, cmVars, caches, rollout
<1>3. Dropping /\ cur \in Copies
  BY <1>1, PhaseAt DEF Steady, IInv, HandlerSide, HandlerKnows
<1>4. PICK v \in Versions : v = cur.of
  BY <1>3 DEF Dropping
<1> DEFINE obj == [ccm[v] EXCEPT !.current = FALSE]
           copy == Current(cur, FALSE)
<1>5. Exists(v) /\ ccm[v] \in CCMs /\ CCMSide /\ left \in Budgets /\ cur.obj = ccm[v]
  BY <1>3, <1>4 DEF Dropping, CurrentIn, IInv, CCMSide, Exists, NoCCM, CCMs
<1>6. /\ obj \in CCMs /\ obj.rv = ccm[v].rv /\ obj.data = ccm[v].data
      /\ obj.latest = ccm[v].latest /\ obj.current = FALSE
  BY <1>5 DEF CCMs
<1>7. copy = [of |-> v, obj |-> obj]
  <2>1. Current(cur, FALSE) = [of |-> cur.of, obj |-> [cur.obj EXCEPT !.current = FALSE]]
    BY <1>3, CopyLabel
  <2> QED BY <2>1, <1>4, <1>5
<1>8. UpdateCCM(copy, out)
  BY <1>1
<1> HIDE DEF obj, copy
<1>9. out = "ok" /\ StoreCCM([of |-> v, obj |-> obj]) /\ UNCHANGED left
  BY <1>5, <1>6, <1>7, <1>8, CalmUpdateCCM
<1>10. /\ \A u \in Versions \ {v} : ccm'[u] = ccm[u]
       /\ ccm'[v].current = FALSE /\ ccm'[v].latest = ccm[v].latest
       /\ \A u \in Versions : (Exists(u)' <=> Exists(u)) /\ ccm'[u].data = ccm[u].data
  BY <1>5, <1>6, <1>9, StoredCCM
<1>11. pc' = "idle" /\ UNCHANGED queued
  BY <1>1, <1>9 DEF Done
<1>12. Drained'
  <2>1. CurrentIn(ccm)' = {cm.version} /\ LatestIn(ccm)' # {}
    BY <1>3, <1>4, <1>10 DEF Dropping, CurrentIn, LatestIn
  <2> QED BY <1>2, <1>3, <1>10, <1>11, <2>1 DEF Dropping, Drained, InStep, InForce, Caught
<1>13. Annotated' /\ Follows'
  BY <1>1, <1>2, <1>9, <1>10, FollowsStill DEF Steady, Annotated
<1> QED BY <1>2, <1>12, <1>13 DEF Steady, Phases, Keeping

\* The loop goes on, or the handler goes on without it; whichever label falls, the
\* version is made that will have it.
LEMMA DropLatestSteady ==
  ASSUME IInv, Informed, Calm, Steady, DropLatest PROVE Steady' /\ Keeping
<1>1. PICK v \in LatestIn(ccmCache), out \in Outcomes :
        /\ pc = "dropLatest" /\ UpdateCCM(Latest(Cached(v), FALSE), out)
        /\ IF out = "conflict" /\ tries < LastTurn
           THEN Goto("dropLatest") /\ tries' = tries + 1
           ELSE Goto(IF out = "error" THEN "undoDrop" ELSE "createNew") /\ UNCHANGED tries
  BY DEF DropLatest
<1>2. UNCHANGED <<cm, cmWatch, cmCache, ccmCache, template, my>>
  BY DEF DropLatest, cmVars, caches, rollout
<1>3. Making
  BY <1>1, PhaseAt DEF Steady
<1> DEFINE obj == [ccmCache[v] EXCEPT !.latest = FALSE]
           copy == [of |-> v, obj |-> obj]
<1>4. /\ v \in Versions /\ ccmCache[v] \in CCMs /\ Exists(v) /\ CCMSide /\ left \in Budgets
      /\ ccm \in [Versions -> CCMs \cup {NoCCM}]
  BY <1>1, Listed DEF LatestIn, IInv, CCMSide, CopiesAgree, Agrees
<1>5. /\ obj \in CCMs /\ obj.rv = ccmCache[v].rv /\ obj.data = ccm[v].data
      /\ obj.current = ccmCache[v].current
  <2>1. ccmCache[v].data = ccm[v].data
    BY <1>1, <1>4, Listed DEF LatestIn, CCMSide, CopiesAgree, Agrees
  <2> QED BY <1>4, <2>1 DEF CCMs
<1>6. UpdateCCM(copy, out) /\ copy.of = v /\ copy.obj = obj
  <2>1. UpdateCCM(copy, out)
    BY <1>1, CachedLabel
  <2> QED BY <2>1
<1> HIDE DEF obj
<1>7. /\ UNCHANGED left
      /\ \/ out = "ok" /\ obj.rv = ccm[v].rv /\ StoreCCM(copy)
         \/ out = "conflict" /\ UNCHANGED ccmVars
  BY <1>4, <1>6, CalmUpdateCCM
<1>8. /\ pc' = "createNew" \/ (pc' = "dropLatest" /\ UNCHANGED ccmVars)
      /\ UNCHANGED queued
  BY <1>1, <1>7 DEF Goto
<1>9. Making' /\ \A u \in Versions : Exists(u)' <=> Exists(u)
  <2>1. CASE out = "ok" /\ obj.rv = ccm[v].rv /\ StoreCCM(copy)
    <3>1. /\ \A u \in Versions \ {v} : ccm'[u] = ccm[u]
          /\ ccm'[v].current = obj.current
          /\ \A u \in Versions : Exists(u)' <=> Exists(u)
      BY <1>4, <1>5, <2>1, StoredCCM
    <3>2. pc' = "createNew"
      BY <1>1, <2>1 DEF Goto
    <3>3. obj.current = ccm[v].current
      BY <1>4, <1>5, <2>1 DEF Informed, Faithful
    <3>4. CurrentIn(ccm)' = {}
      BY <1>3, <3>1, <3>3 DEF Making, CurrentIn
    <3> QED BY <1>2, <1>3, <1>8, <3>1, <3>2, <3>4 DEF Making, Caught, Nameless
  <2>2. CASE UNCHANGED ccmVars
    <3>1. UNCHANGED <<ccm, ccmWatch, ccmCache>>
      BY <1>2, <2>2 DEF ccmVars
    <3>2. CurrentIn(ccm)' = CurrentIn(ccm) /\ LatestIn(ccm)' = LatestIn(ccm)
      BY <3>1 DEF CurrentIn, LatestIn
    <3>3. LatestKnown' <=> LatestKnown
      BY <3>1 DEF LatestKnown
    <3>4. Caught' /\ Nameless' /\ my' = cm' /\ ~queued'
      BY <1>2, <1>3, <1>8 DEF Making, Caught, Nameless
    <3>5. LatestKnown /\ LatestIn(ccm) # {} /\ CurrentIn(ccm) = {}
      BY <1>1, <1>3 DEF Making
    <3>6. Making'
      BY <1>8, <3>2, <3>3, <3>4, <3>5 DEF Making
    <3> QED BY <3>1, <3>6 DEF Exists
  <2> QED BY <1>7, <2>1, <2>2
<1>10. Annotated' /\ Follows'
  BY <1>1, <1>2, <1>7, <1>9, FollowsStill DEF Steady, Annotated
<1> QED BY <1>2, <1>9, <1>10 DEF Steady, Phases, Keeping

\* The version is made from the copy of the ConfigMap the handler has.
LEMMA CreateNewSteady ==
  ASSUME IInv, Informed, Calm, Steady, CreateNew PROVE Steady' /\ Keeping
<1>1. PICK v \in Versions, out \in Outcomes :
        /\ pc = "createNew" /\ CreateCCM(v, my.data, out)
        /\ IF out = "ok"
           THEN Goto("stampNew") /\ my' = [my EXCEPT !.version = v]
           ELSE Goto("revertCurrent") /\ UNCHANGED my
  BY DEF CreateNew
<1>2. UNCHANGED <<cm, cmWatch, cmCache, ccmCache>>
  BY DEF CreateNew, cmVars, caches
<1>3. Making
  BY <1>1, PhaseAt DEF Steady
<1>4. my = cm /\ cm \in CMs /\ my.data \in Data /\ CurrentIn(ccm) = {} /\ Known(cm)
  BY <1>3 DEF Making, IInv, CMSide, CMs, StampsKnown
<1>5. PICK d \in Data :
        /\ d = my.data /\ out = "ok" /\ UNCHANGED left /\ ~Exists(v) /\ HeardLast(v)'
        /\ InForce(v, d)'
  <2>1. PICK d \in Data : d = my.data
    BY <1>4
  <2>2. CreateCCM(v, d, out)
    BY <1>1, <2>1
  <2> QED BY <1>2, <1>4, <2>1, <2>2, Created
<1>6. v # cm.version
  BY <1>4, <1>5, ValuesAssumption DEF Known
<1>7. my' = [cm EXCEPT !.version = v] /\ pc' = "stampNew" /\ UNCHANGED queued
  BY <1>1, <1>4, <1>5 DEF Goto
<1>8. my'.version = v /\ my'.data = d
  BY <1>4, <1>5, <1>7 DEF CMs
<1>9. Made'
  <2>1. InForce(my.version, my.data)' /\ HeardLast(my.version)'
    BY <1>5, <1>8 DEF InForce, HeardLast
  <2>2. Caught' /\ Nameless' /\ ~queued'
    BY <1>2, <1>3, <1>7 DEF Making, Caught, Nameless
  <2> QED BY <1>2, <1>6, <1>7, <1>8, <2>1, <2>2 DEF Made
<1>10. Annotated'
  BY <1>2 DEF Steady, Annotated
<1> QED BY <1>2, <1>7, <1>9, <1>10 DEF Steady, Phases, Keeping

\* The stamp of a new version.
LEMMA StampNewSteady ==
  ASSUME IInv, Calm, Steady, StampNew PROVE Steady' /\ Keeping
<1>1. PICK out \in Outcomes :
        /\ pc = "stampNew" /\ my.annotated /\ UpdateCM(my, out)
        /\ IF out = "ok" THEN Onward("rollDeployments") ELSE Retry
  BY DEF StampNew, CMStep
<1>2. UNCHANGED <<ccm, ccmWatch, cmCache, ccmCache>>
  BY DEF StampNew, CMStep, ccmVars, caches
<1>3. Made
  BY <1>1, PhaseAt DEF Steady
<1>4. my \in CMs /\ cm \in CMs /\ left \in Budgets
  BY <1>1 DEF IInv, CMSide, HandlerSide, HandlerKnows
<1>5. /\ my.rv = cm.rv /\ my.data = cm.data /\ my.deployments = cm.deployments
      /\ my.statefulsets = cm.statefulsets /\ my # cm
  BY <1>3, <1>4 DEF Made, CMs
<1>6. out = "ok" /\ StoreCM(my) /\ UNCHANGED left
  BY <1>1, <1>4, <1>5, CalmUpdateCM
<1>7. /\ Behind' /\ cm'.data = my.data /\ cm'.version = my.version /\ cm'.annotated
      /\ cm'.deployments = my.deployments /\ cm'.statefulsets = my.statefulsets
  BY <1>1, <1>2, <1>3, <1>4, <1>5, <1>6, StoredCM DEF Made
<1>8. pc' = "rollDeployments" /\ UNCHANGED <<queued, my>>
  BY <1>1, <1>6 DEF Onward, Goto, locals
<1>9. Rolling'
  <2>1. InStep' /\ HeardLast(cm.version)'
    BY <1>2, <1>3, <1>7 DEF Made, InStep, InForce, CurrentIn, LatestIn, HeardLast
  <2>2. ~queued' /\ cmCache'.version # cm'.version
    BY <1>2, <1>3, <1>7, <1>8 DEF Made, Caught
  <2>3. cmCache'.version = NoVersion => cm'.deployments = {} /\ cm'.statefulsets = {}
    BY <1>2, <1>3, <1>5, <1>7 DEF Made, Caught, Nameless
  <2> QED BY <1>7, <1>8, <2>1, <2>2, <2>3 DEF Rolling
<1>10. Annotated'
  BY <1>7 DEF Annotated
<1> QED BY <1>5, <1>7, <1>8, <1>9, <1>10 DEF Steady, Phases, Keeping

\* A rollout that ends, for whatever reason, leaves an echo.
LEMMA RolledOut ==
  ASSUME Rolling, UNCHANGED <<cm, cmWatch, ccm, ccmWatch, cmCache, ccmCache>>, pc' = "idle",
         UNCHANGED queued \/ my.deployments # {} \/ my.statefulsets # {}
  PROVE  Echoing'
<1>1. InStep' /\ HeardLast(cm.version)' /\ (Caught' <=> Caught) /\ (Behind' <=> Behind)
  BY DEF Rolling, InStep, InForce, CurrentIn, LatestIn, HeardLast, Caught, Behind
<1>2. Caught \/ Behind
  BY DEF Rolling
<1>3. queued' => Caught \/ cmCache.version \notin {NoVersion, cm.version}
  BY DEF Rolling
<1> QED BY <1>1, <1>2, <1>3 DEF Echoing

LEMMA RollDeploymentsSteady ==
  ASSUME IInv, Calm, Steady, RollDeployments PROVE Steady' /\ Keeping
<1>1. pc = "rollDeployments" /\ Roll(my.deployments, Onward("rollStatefulSets"))
  BY DEF RollDeployments
<1>2. UNCHANGED <<cm, cmWatch, ccm, ccmWatch, cmCache, ccmCache>>
  BY DEF RollDeployments, cmVars, ccmVars, caches
<1>3. Rolling /\ left \in Budgets
  BY <1>1, PhaseAt DEF Steady, IInv
<1>4. my.deployments = cm.deployments /\ my.version = cm.version
  BY <1>3 DEF Rolling
<1>5. Annotated' /\ Keeping
  BY <1>2 DEF Steady, Annotated, Keeping
<1>6. ASSUME Onward("rollStatefulSets") PROVE Rolling' /\ pc' = "rollStatefulSets"
  <2>1. pc' = "rollStatefulSets" /\ UNCHANGED <<queued, my>>
    BY <1>6 DEF Onward, Goto, locals
  <2>2. InStep' /\ HeardLast(cm.version)' /\ (Caught' <=> Caught) /\ (Behind' <=> Behind)
    BY <1>2, <1>3 DEF Rolling, InStep, InForce, CurrentIn, LatestIn, HeardLast, Caught, Behind
  <2> QED BY <1>2, <1>3, <2>1, <2>2 DEF Rolling
<1>7. CASE my.deployments = {} /\ Onward("rollStatefulSets") /\ UNCHANGED <<rollout, left>>
  <2>1. Follows'
    BY <1>2, <1>4, <1>7 DEF Follows
  <2> QED BY <1>5, <1>6, <1>7, <2>1 DEF Steady, Phases
<1>8. CASE Cardinality(my.deployments) > 1 /\ Retry
  <2>1. my.deployments # {} /\ \A w \in Deployments : my.deployments # {w}
    <3>1. Cardinality({}) = 0 /\ \A w \in Deployments : Cardinality({w}) = 1
      BY FS_EmptySet, FS_Singleton
    <3> QED BY <1>8, <3>1
  <2>2. Follows' /\ Echoing'
    BY <1>2, <1>3, <1>4, <1>8, <2>1, RolledOut DEF Follows, Retry
  <2> QED BY <1>5, <2>2 DEF Steady, Phases
<1>9. ASSUME NEW w \in Workloads, my.deployments = {w}, template[w] = Absent, Retry,
             UNCHANGED <<rollout, left>>
      PROVE  Steady'
  <2>1. Follows' /\ Echoing'
    BY <1>2, <1>3, <1>4, <1>9, RolledOut DEF Follows, Retry, rollout
  <2> QED BY <1>5, <2>1 DEF Steady, Phases
<1>10. ASSUME NEW w \in Workloads, my.deployments = {w}, Carry(w), Onward("rollStatefulSets")
       PROVE  Steady'
  <2>1. template'[w] = cm.version
    BY <1>4, <1>10 DEF Carry, IInv, WorkloadSide
  <2>2. Follows'
    BY <1>2, <1>4, <1>10, <2>1 DEF Follows
  <2> QED BY <1>5, <1>6, <1>10, <2>2 DEF Steady, Phases
<1> QED BY <1>1, <1>3, <1>5, <1>7, <1>8, <1>9, <1>10, CalmSpends DEF Roll

LEMMA RollStatefulSetsSteady ==
  ASSUME IInv, Calm, Steady, RollStatefulSets PROVE Steady' /\ Keeping
<1>1. pc = "rollStatefulSets" /\ Roll(my.statefulsets, Done)
  BY DEF RollStatefulSets
<1>2. UNCHANGED <<cm, cmWatch, ccm, ccmWatch, cmCache, ccmCache>>
  BY DEF RollStatefulSets, cmVars, ccmVars, caches
<1>3. Rolling /\ left \in Budgets /\ Follows
  BY <1>1, PhaseAt DEF Steady, IInv
<1>4. my.statefulsets \subseteq StatefulSets
  BY <1>1 DEF IInv, HandlerSide, HandlerKnows, CMs
<1>5. Annotated' /\ Keeping
  BY <1>2 DEF Steady, Annotated, Keeping
<1>6. Echoing' /\ UNCHANGED left
  <2>1. UNCHANGED left
    BY <1>1, <1>3, CalmSpends DEF Roll
  <2>2. pc' = "idle" /\ (UNCHANGED queued \/ my.statefulsets # {})
    BY <1>1, FS_EmptySet DEF Roll, Done, Retry
  <2> QED BY <1>2, <1>3, <2>1, <2>2, RolledOut
<1>7. CASE UNCHANGED rollout
  <2>1. Follows'
    BY <1>2, <1>3, <1>6, <1>7, FollowsStill DEF rollout, Exists
  <2> QED BY <1>5, <1>6, <2>1 DEF Steady, Phases
<1>8. ASSUME NEW w \in Workloads, my.statefulsets = {w}, Carry(w) PROVE Steady'
  <2>1. w \notin Deployments
    BY <1>4, <1>8, ValuesAssumption
  <2>2. \A u \in Deployments : template'[u] = template[u]
    BY <1>8, <2>1 DEF Carry, IInv, WorkloadSide, Workloads
  <2>3. Follows'
    BY <1>2, <1>3, <1>6, <2>2 DEF Follows, Exists
  <2> QED BY <1>5, <1>6, <2>3 DEF Steady, Phases
<1> QED BY <1>1, <1>3, <1>5, <1>7, <1>8, CalmSpends DEF Roll

-----------------------------------------------------------------------------
(* A handler panics.                                                       *)

\* The loop of CreateNewCCM has a version to take the label latest from.
LEMMA DropLatestPanicsNot == ASSUME Steady, DropLatestPanics PROVE FALSE
<1>1. pc = "dropLatest" /\ LatestIn(ccmCache) = {}
  BY DEF DropLatestPanics
<1>2. LatestKnown /\ LatestIn(ccm) # {}
  BY <1>1, PhaseAt DEF Steady, Making
<1> QED BY <1>1, <1>2 DEF LatestKnown, LatestIn

\* A ConfigMap without annotations has no stamp and names nobody, before and after.
LEMMA StampNewPanicsSteady ==
  ASSUME IInv, Steady, StampNewPanics PROVE Steady' /\ Keeping
<1>1. /\ pc = "stampNew" /\ ~my.annotated /\ pc' = "idle" /\ Relist /\ UNCHANGED <<rollout, left>>
  BY DEF StampNewPanics, Restart
<1>2. /\ cmCache' = cm /\ cmWatch' = <<>> /\ ccmCache' = ccm /\ ccmWatch' = <<>> /\ queued'
      /\ UNCHANGED <<cm, ccm>>
  BY <1>1 DEF Relist
<1>3. Made /\ cm \in CMs /\ my \in CMs
  BY <1>1, PhaseAt DEF Steady, IInv, CMSide, HandlerSide, HandlerKnows
<1>4. my.annotated = cm.annotated /\ my.data \in Data
  BY <1>3 DEF Made, CMs
<1>5. cm.version = NoVersion /\ cm.deployments = {}
  BY <1>1, <1>3, <1>4 DEF Steady, Annotated, Made, Nameless
<1>6. Changed'
  <2>1. InForce(my.version, my.data) /\ my.version \in Versions
    BY <1>3 DEF Made, InForce
  <2>2. PICK v \in Versions, d \in Data : InForce(v, d)
    BY <1>4, <2>1
  <2>3. InForce(v, d)'
    BY <1>2, <2>2 DEF InForce, CurrentIn, LatestIn
  <2>4. Caught' /\ Synced' /\ Nameless'
    BY <1>2, <1>3 DEF Caught, Synced, Made, Nameless
  <2> QED BY <1>1, <1>2, <1>5, <2>3, <2>4 DEF Changed
<1>7. Annotated' /\ Follows'
  BY <1>2, <1>5 DEF Annotated, Follows
<1> QED BY <1>2, <1>6, <1>7 DEF Steady, Phases, Keeping

\* The rollout is given up, and a new process finds all in step.
LEMMA RollPanicsSteady ==
  ASSUME IInv, Steady, RollPanics PROVE Steady' /\ Keeping
<1>1. PICK w \in Workloads :
        /\ template[w] = Bare
        /\ \/ pc = "rollDeployments" /\ my.deployments = {w}
           \/ pc = "rollStatefulSets" /\ my.statefulsets = {w}
  BY DEF RollPanics
<1>2. /\ pc' = "idle" /\ cmCache' = cm /\ cmWatch' = <<>> /\ ccmCache' = ccm /\ ccmWatch' = <<>>
      /\ UNCHANGED <<cm, ccm, template, left>>
  BY DEF RollPanics, Restart, Relist, rollout
<1>3. Rolling
  BY <1>1, PhaseAt DEF Steady
<1>4. Echoing'
  BY <1>2, <1>3 DEF Rolling, Echoing, InStep, InForce, CurrentIn, LatestIn, HeardLast, Caught
<1>5. Follows'
  <2>1. CASE pc = "rollStatefulSets"
    BY <1>2, <2>1, FollowsStill DEF Steady, Exists
  <2>2. CASE my.deployments = {w}
    BY <1>1, <1>2, <1>3, <2>2 DEF Rolling, Follows
  <2> QED BY <1>1, <2>1, <2>2
<1>6. Annotated'
  BY <1>2 DEF Steady, Annotated
<1> QED BY <1>2, <1>4, <1>5, <1>6 DEF Steady, Phases, Keeping

-----------------------------------------------------------------------------
(* The informers are told.                                                 *)

\* The one event of the ConfigMap's informer.
LEMMA DeliverCMSteady ==
  ASSUME IInv, Steady, Deliver(DeliverCM) PROVE Steady' /\ Keeping
<1>1. /\ cmWatch # <<>> /\ cmCache' = Head(cmWatch) /\ cmWatch' = Tail(cmWatch) /\ queued'
      /\ UNCHANGED <<cm, ccm, ccmWatch, ccmCache, template, left, pc, my>>
  BY DEF Deliver, DeliverCM, ccmVars, rollout, locals
<1>2. ~Caught
  BY <1>1 DEF Caught
<1>3. Behind /\ (Changed \/ Rolling \/ Echoing)
  BY <1>2 DEF Steady, Phases, Untouched, FirstMade, Changed, Making, Made, Rolling, Raising,
     Dropping, Echoing, Drained
<1>4. Caught'
  BY <1>1, <1>3 DEF Behind, Caught
<1>5. /\ \A v \in Versions, d \in Data : InForce(v, d) => InForce(v, d)'
      /\ InStep => InStep'
      /\ \A v : HeardLast(v) => HeardLast(v)'
  BY <1>1 DEF InForce, InStep, CurrentIn, LatestIn, HeardLast
<1>6. Changed => Changed'
  <2> SUFFICES ASSUME Changed PROVE Changed'
    OBVIOUS
  <2>1. PICK v \in Versions, d \in Data :
          /\ InForce(v, d)
          /\ \/ cm.version \in {v, NoVersion}
             \/ cm.version \in Versions /\ Exists(cm.version) /\ cm.data = ccm[cm.version].data
    BY DEF Changed
  <2>2. InForce(v, d)' /\ (Exists(cm.version) <=> Exists(cm.version)')
    BY <1>1, <1>5, <2>1 DEF Exists
  <2>3. pc' = "idle" /\ Synced' /\ Nameless'
    BY <1>1 DEF Changed, Synced, Nameless
  <2> QED BY <1>1, <1>4, <2>1, <2>2, <2>3 DEF Changed
<1>7. InStep /\ HeardLast(cm.version) => InStep' /\ HeardLast(cm.version)'
  BY <1>1 DEF InForce, InStep, CurrentIn, LatestIn, HeardLast
<1>8. Rolling => Rolling'
  BY <1>1, <1>4, <1>7 DEF Rolling
<1>9. Echoing => Echoing'
  BY <1>1, <1>4, <1>7 DEF Echoing
<1>10. Annotated' /\ (pc' \notin {"stampNew", "rollDeployments"} => Follows')
  BY <1>1, FollowsStill DEF Steady, Annotated, Exists
<1> QED BY <1>1, <1>3, <1>6, <1>8, <1>9, <1>10 DEF Steady, Phases, Keeping

\* An event of the CCMs' informer.
LEMMA DeliverCCMSteady ==
  ASSUME IInv, Steady, Deliver(DeliverCCM) PROVE Steady' /\ Keeping
<1> DEFINE event == Head(ccmWatch)
<1>1. /\ ccmWatch # <<>> /\ ccmWatch \in Seq(Events) /\ ccmWatch' = Tail(ccmWatch)
      /\ ccmCache' = [ccmCache EXCEPT ![event.of] = event.obj]
      /\ ccmCache \in [Versions -> CCMs \cup {NoCCM}]
      /\ UNCHANGED <<ccm, cm, cmWatch, cmCache, queued, template, left, pc, my, cur>>
  BY DEF Deliver, DeliverCCM, cmVars, rollout, locals, IInv, CCMSide
<1>2. /\ event = ccmWatch[1] /\ event \in Events /\ 1 \in 1..Len(ccmWatch)
      /\ Len(ccmWatch') = Len(ccmWatch) - 1 /\ Len(ccmWatch) \in Nat
      /\ \A i \in 1..Len(ccmWatch') : i + 1 \in 1..Len(ccmWatch) /\ ccmWatch'[i] = ccmWatch[i + 1]
  BY <1>1, TailElements
<1>3. /\ event.of \in Versions
      /\ ccmCache'[event.of] = event.obj
      /\ \A v \in Versions \ {event.of} : ccmCache'[v] = ccmCache[v]
  BY <1>1, <1>2 DEF Events
<1> HIDE DEF event
<1>4. \A v \in Versions : HeardLast(v) => HeardLast(v)'
  <2> SUFFICES ASSUME NEW v \in Versions, HeardLast(v) PROVE HeardLast(v)'
    OBVIOUS
  <2>1. ccmCache[v].rv = 0
    BY <1>1 DEF HeardLast
  <2>2. ccmWatch' = <<>> \/ ccmCache'[v].rv = 0
    <3>1. CASE event.of = v
      <4>1. Len(ccmWatch) = 1
        BY <1>2, <3>1 DEF HeardLast
      <4> QED BY <1>1, <1>2, <4>1
    <3>2. CASE event.of # v
      BY <1>3, <2>1, <3>2
    <3> QED BY <3>1, <3>2
  <2>3. ASSUME NEW i \in 1..Len(ccmWatch'), ccmWatch'[i].of = v PROVE i = Len(ccmWatch')
    <3>1. i + 1 = Len(ccmWatch)
      BY <1>2, <2>3 DEF HeardLast
    <3> QED BY <1>2, <3>1
  <2> QED BY <2>2, <2>3 DEF HeardLast
<1>5. LatestKnown => LatestKnown'
  <2> SUFFICES ASSUME LatestKnown PROVE LatestKnown'
    OBVIOUS
  <2>1. event.obj.latest = ccm[event.of].latest
    BY <1>2 DEF LatestKnown
  <2>2. \A v \in Versions : ccmCache'[v].latest = ccm[v].latest
    BY <1>3, <2>1 DEF LatestKnown
  <2>3. \A i \in 1..Len(ccmWatch') : ccmWatch'[i].obj.latest = ccm[ccmWatch'[i].of].latest
    BY <1>2 DEF LatestKnown
  <2> QED BY <1>1, <2>2, <2>3 DEF LatestKnown
<1>6. /\ Caught' <=> Caught
      /\ Behind' <=> Behind
      /\ Nameless' <=> Nameless
      /\ CurrentIn(ccm)' = CurrentIn(ccm) /\ LatestIn(ccm)' = LatestIn(ccm)
      /\ \A v \in Versions : Exists(v)' <=> Exists(v)
  BY <1>1 DEF Caught, Behind, Nameless, CurrentIn, LatestIn, Exists
<1>7. /\ InStep => InStep' /\ cm.version \in Versions
      /\ InForce(my.version, my.data) => InForce(my.version, my.data)' /\ my.version \in Versions
  BY <1>1, <1>6 DEF InStep, InForce
<1>8. ~Untouched /\ ~Changed /\ ~Raising
  BY <1>1 DEF Untouched, Changed, Raising, Synced
<1>9. ASSUME FirstMade PROVE Phases'
  <2>1. InForce(my.version, my.data)' /\ HeardLast(my.version)'
    BY <1>1, <1>4, <1>7, <1>9 DEF FirstMade, HeardLast
  <2>2. FirstMade'
    BY <1>1, <1>6, <1>9, <2>1 DEF FirstMade
  <2> QED BY <2>2 DEF Phases
<1>10. ASSUME Making PROVE Phases'
  BY <1>1, <1>5, <1>6, <1>10 DEF Making, Phases
<1>11. ASSUME Made PROVE Phases'
  <2>1. InForce(my.version, my.data)' /\ HeardLast(my.version)'
    BY <1>1, <1>4, <1>7, <1>11 DEF Made, HeardLast
  <2>2. Made'
    BY <1>1, <1>6, <1>11, <2>1 DEF Made
  <2> QED BY <2>2 DEF Phases
<1>12. ASSUME Rolling \/ Echoing PROVE Phases'
  <2>1. InStep' /\ HeardLast(cm.version)'
    BY <1>1, <1>4, <1>7, <1>12 DEF Rolling, Echoing, HeardLast
  <2>2. CASE Rolling
    <3>1. Rolling'
      BY <1>1, <1>6, <2>1, <2>2 DEF Rolling
    <3> QED BY <3>1 DEF Phases
  <2>3. CASE Echoing
    <3>1. Echoing'
      BY <1>1, <1>6, <2>1, <2>3 DEF Echoing
    <3> QED BY <3>1 DEF Phases
  <2> QED BY <1>12, <2>2, <2>3
<1>13. ASSUME Dropping PROVE Phases'
  <2>1. Dropping'
    BY <1>1, <1>6, <1>13 DEF Dropping
  <2> QED BY <2>1 DEF Phases
<1>14. ASSUME Drained PROVE Phases'
  <2>1. Drained'
    BY <1>1, <1>6, <1>7, <1>14 DEF Drained
  <2> QED BY <2>1 DEF Phases
<1>15. Phases'
  BY <1>8, <1>9, <1>10, <1>11, <1>12, <1>13, <1>14 DEF Steady, Phases
<1>16. Annotated' /\ (pc' \notin {"stampNew", "rollDeployments"} => Follows')
  BY <1>1, <1>6, FollowsStill DEF Steady, Annotated
<1> QED BY <1>1, <1>15, <1>16 DEF Steady, Keeping

-----------------------------------------------------------------------------
(* The surroundings act.                                                   *)

\* What a settled system is like: in step, and everybody knows.
LEMMA SettledPhase ==
  ASSUME IInv, Informed, Steady, Settled
  PROVE  /\ InStep /\ Caught /\ Synced /\ Follows /\ pc = "idle" /\ ~queued
         /\ cm \in CMs /\ cm.version \in Versions /\ cm.version # NoVersion
<1>1. pc = "idle" /\ ~queued /\ cmWatch = <<>> /\ ccmWatch = <<>>
  BY DEF Settled
<1>2. ~Untouched /\ ~Changed /\ ~Behind
  BY <1>1 DEF Untouched, Changed, Caught, Behind
<1>3. InStep /\ Caught
  BY <1>1, <1>2, PhaseAt DEF Steady, Echoing, Drained
<1>4. Synced
  BY <1>1, NothingToHear DEF Synced, IInv
<1> QED BY <1>1, <1>3, <1>4, ValuesAssumption DEF Steady, IInv, CMSide, InStep, InForce

\* A change that finds all in step is one that the reconciler has to hear of.
LEMMA ChangeSteps ==
  ASSUME IInv, Informed, Steady, Settled, UNCHANGED <<ccmVars, caches, queued, pc>>,
         NEW copy \in CMs, copy.rv = cm.rv, copy # cm, StoreCM(copy),
         copy.version # NoVersion => copy.annotated,
         copy.version = NoVersion => copy.deployments = {} /\ copy.statefulsets = {},
         \/ copy.version \in {cm.version, NoVersion}
         \/ copy.version \in Versions /\ Exists(copy.version)
            /\ copy.data = ccm[copy.version].data
  PROVE  /\ Annotated' /\ Changed'
         /\ cm'.data = copy.data /\ cm'.version = copy.version /\ cm'.deployments = copy.deployments
<1>1. /\ InStep /\ Caught /\ Synced /\ pc = "idle" /\ ~queued /\ cm \in CMs
      /\ UNCHANGED <<ccm, ccmWatch, cmCache, ccmCache>>
  BY SettledPhase DEF ccmVars, caches
<1>2. /\ Behind' /\ cm'.data = copy.data /\ cm'.version = copy.version
      /\ cm'.annotated = copy.annotated
      /\ cm'.deployments = copy.deployments /\ cm'.statefulsets = copy.statefulsets
  BY <1>1, StoredCM
<1>3. PICK v \in Versions, d \in Data : v = cm.version /\ InForce(v, d)
  BY <1>1 DEF InStep, InForce, CMs
<1>4. InForce(v, d)'
  BY <1>1, <1>3 DEF InForce, CurrentIn, LatestIn
<1>5. Synced' /\ Nameless' /\ Annotated' /\ pc' = "idle" /\ ~queued'
  BY <1>1, <1>2 DEF Synced, Nameless, Annotated
<1>6. \/ cm'.version \in {v, NoVersion}
      \/ cm'.version \in Versions /\ Exists(cm.version)' /\ cm'.data = ccm'[cm'.version].data
  BY <1>1, <1>2, <1>3 DEF Exists
<1> QED BY <1>2, <1>4, <1>5, <1>6 DEF Changed

LEMMA EditSteady ==
  ASSUME IInv, Informed, Steady, Settled, UNCHANGED <<pc, locals>>, NEW d \in Data, Edit(d)
  PROVE  Steady' /\ Keeping
<1> DEFINE copy == [cm EXCEPT !.data = d]
<1>1. /\ d # cm.data /\ Spend("edits") /\ StoreCM(copy)
      /\ UNCHANGED <<ccmVars, caches, queued, rollout>>
  BY DEF Edit
<1>2. /\ InStep /\ Follows /\ cm \in CMs /\ cm.version # NoVersion /\ pc = "idle"
      /\ left \in Budgets
  BY SettledPhase DEF IInv
<1>3. /\ copy \in CMs /\ copy.rv = cm.rv /\ copy.data = d /\ copy.version = cm.version
      /\ copy.annotated = cm.annotated /\ copy.deployments = cm.deployments
  BY <1>2 DEF CMs
<1>4. copy # cm
  BY <1>1, <1>3
<1> HIDE DEF copy
<1>5. /\ Annotated' /\ Changed'
      /\ cm'.version = cm.version /\ cm'.deployments = cm.deployments
  BY <1>1, <1>2, <1>3, <1>4, ChangeSteps DEF Steady, Annotated
<1>6. left'.pods = left.pods /\ left'.edits # left.edits
  BY <1>1, <1>2 DEF Spend, Budgets
<1>7. Follows'
  BY <1>1, <1>2, <1>5, <1>6, FollowsStill DEF rollout, ccmVars, Exists
<1> QED BY <1>2, <1>5, <1>6, <1>7 DEF Steady, Phases, Keeping

LEMMA ReplaceSteady ==
  ASSUME IInv, Informed, Steady, Settled, UNCHANGED <<pc, locals>>,
         NEW d \in Data, NEW annotated \in BOOLEAN, Replace(d, annotated)
  PROVE  Steady' /\ Keeping
<1> DEFINE copy == [NoCM EXCEPT !.data = d, !.annotated = annotated, !.rv = cm.rv]
<1>1. Spend("edits") /\ StoreCM(copy) /\ UNCHANGED <<ccmVars, caches, queued, rollout>>
  BY DEF Replace
<1>2. cm \in CMs /\ cm.version # NoVersion /\ left \in Budgets
  BY SettledPhase DEF IInv
<1>3. /\ copy \in CMs /\ copy.rv = cm.rv /\ copy.version = NoVersion
      /\ copy.deployments = {} /\ copy.statefulsets = {}
  BY <1>2 DEF CMs, NoCM
<1>4. copy # cm
  BY <1>2, <1>3
<1> HIDE DEF copy
<1>5. Annotated' /\ Changed' /\ cm'.deployments = {}
  BY <1>1, <1>3, <1>4, ChangeSteps
<1>6. left'.edits # left.edits
  BY <1>1, <1>2 DEF Spend, Budgets
<1>7. Follows'
  BY <1>5 DEF Follows
<1> QED BY <1>5, <1>6, <1>7 DEF Steady, Phases, Keeping

\* A workload that is created or applied carries the stamp, which stays what it is.
LEMMA ApplySteady ==
  ASSUME IInv, Informed, Steady, Settled, UNCHANGED <<pc, locals>>, NEW w \in Workloads, Apply(w)
  PROVE  Steady' /\ Keeping
<1>1. PICK copy : copy = IF w \in Deployments THEN DeploymentNamed(w) ELSE StatefulSetNamed(w)
  OBVIOUS
<1>2. /\ Spend("applies") /\ StoreCM(copy) /\ template' = [template EXCEPT ![w] = cm.version]
      /\ UNCHANGED <<ccm, ccmWatch, cmCache, ccmCache, queued, pc>>
  BY <1>1 DEF Apply, ccmVars, caches
<1>3. /\ InStep /\ Caught /\ Synced /\ Follows /\ cm \in CMs /\ cm.version # NoVersion
      /\ pc = "idle" /\ ~queued /\ left \in Budgets
      /\ template \in [Workloads -> Versions \cup {NoVersion, Bare, Absent}]
  BY SettledPhase DEF IInv, WorkloadSide
<1>4. /\ copy \in CMs /\ copy.rv = cm.rv /\ copy.data = cm.data /\ copy.version = cm.version
      /\ copy.annotated
      /\ copy.deployments = IF w \in Deployments THEN cm.deployments \cup {w} ELSE cm.deployments
  <2>1. CASE w \in Deployments
    BY <1>1, <1>3, <2>1 DEF DeploymentNamed, CMs
  <2>2. CASE w \notin Deployments
    BY <1>1, <1>3, <2>2 DEF StatefulSetNamed, CMs, Workloads
  <2> QED BY <2>1, <2>2
<1>5. /\ Caught' \/ Behind'
      /\ cm'.data = cm.data /\ cm'.version = cm.version /\ cm'.annotated
      /\ cm'.deployments = copy.deployments
  <2>1. CASE copy = cm
    BY <1>2, <1>3, <1>4, <2>1 DEF StoreCM, cmVars, Caught
  <2>2. CASE copy # cm
    BY <1>2, <1>3, <1>4, <2>2, StoredCM
  <2> QED BY <2>1, <2>2
<1>6. Echoing'
  BY <1>2, <1>3, <1>5 DEF Echoing, InStep, InForce, CurrentIn, LatestIn, HeardLast, Synced
<1>7. Follows'
  <2> SUFFICES ASSUME NEW u \in Deployments, cm'.deployments = {u},
                      template'[u] \notin {Bare, Absent}, left'.pods = MaxPods
               PROVE  template'[u] = cm'.version
                      \/ \E v \in Versions : \A x \in Versions : Exists(x)' <=> x = v
    BY DEF Follows
  <2>1. CASE u = w
    BY <1>2, <1>3, <1>5, <2>1
  <2>2. CASE u # w
    <3>1. cm.deployments = {u} /\ template'[u] = template[u]
      BY <1>2, <1>3, <1>4, <1>5, <2>2 DEF Workloads
    <3>2. left.pods = MaxPods
      BY <1>2, <1>3 DEF Spend, Budgets
    <3> QED BY <1>2, <1>3, <1>5, <3>1, <3>2 DEF Follows, Exists
  <2> QED BY <2>1, <2>2
<1>8. Annotated'
  BY <1>5 DEF Annotated
<1> QED BY <1>5, <1>6, <1>7, <1>8 DEF Steady, Phases, Keeping

\* A pod of an earlier revision takes the content away when a version keeps it.
LEMMA AdmitPodSteady ==
  ASSUME IInv, Informed, Counted, Steady, Settled, UNCHANGED <<pc, locals>>,
         NEW v \in Versions, AdmitPod(v)
  PROVE  Steady' /\ Keeping
<1> DEFINE copy == [cm EXCEPT !.version = v, !.data = ccm[v].data]
<1>1. /\ v # cm.version /\ cm.annotated /\ Exists(v) /\ Spend("pods") /\ StoreCM(copy)
      /\ UNCHANGED <<ccmVars, caches, queued, rollout>>
  BY DEF AdmitPod, RolledBack
<1>2. InStep /\ cm \in CMs /\ left \in Budgets /\ CCMSide /\ MaxPods \in Nat
  BY SettledPhase, BoundsAssumption DEF IInv
<1>3. ccm[v].data \in Data /\ v # NoVersion
  BY <1>1, <1>2, ValuesAssumption DEF CCMSide, Exists, CCMs, NoCCM
<1>4. /\ copy \in CMs /\ copy.rv = cm.rv /\ copy.data = ccm[v].data /\ copy.version = v
      /\ copy.annotated = cm.annotated
  BY <1>2, <1>3 DEF CMs
<1>5. copy # cm
  BY <1>1, <1>4
<1> HIDE DEF copy
<1>6. Annotated' /\ Changed'
  BY <1>1, <1>3, <1>4, <1>5, ChangeSteps
<1>7. left'.pods # MaxPods
  BY <1>1, <1>2 DEF Spend, Budgets, Counted
<1>8. Follows'
  BY <1>7 DEF Follows
<1>9. Keeping
  BY <1>2 DEF InStep, InForce, Keeping
<1> QED BY <1>6, <1>8, <1>9 DEF Steady, Phases

LEMMA SurroundingsSteady ==
  ASSUME IInv, Informed, Counted, Steady, Settled, Surroundings, UNCHANGED <<pc, locals>>
  PROVE  Steady' /\ Keeping
<1>1. CASE Resync
  <2>1. /\ InStep /\ Caught /\ Synced /\ Follows /\ pc = "idle"
        /\ UNCHANGED <<cm, cmWatch, cmCache, ccm, ccmWatch, ccmCache, template, left, pc>>
    BY <1>1, SettledPhase DEF Resync, cmVars, ccmVars, caches, rollout
  <2>2. Echoing'
    BY <2>1 DEF Echoing, InStep, InForce, CurrentIn, LatestIn, HeardLast, Synced, Caught
  <2>3. Annotated' /\ Follows'
    BY <2>1, FollowsStill DEF Steady, Annotated, Exists
  <2> QED BY <2>1, <2>2, <2>3 DEF Steady, Phases, Keeping
<1>2. CASE User
  BY <1>2, EditSteady, ReplaceSteady DEF User
<1> QED BY <1>1, <1>2, ApplySteady, AdmitPodSteady DEF Surroundings

-----------------------------------------------------------------------------
(* The invariant.                                                          *)

LEMMA PatientInit == Init => PatientInv
<1> SUFFICES ASSUME Init PROVE PatientInv
  OBVIOUS
<1>1. IInv /\ ClusterInit /\ pc = "idle"
  BY InitInv DEF Init
<1>2. Counted
  BY <1>1, BoundsAssumption DEF ClusterInit, Counted
<1>3. Informed
  BY <1>1 DEF ClusterInit, Informed, Faithful, NoCCM
<1>4. cm.version = NoVersion /\ cm \in CMs
  BY <1>1 DEF ClusterInit, IInv, CMSide
<1>5. Untouched /\ Annotated
  BY <1>1, <1>4 DEF ClusterInit, Untouched, Annotated, Caught, Synced
<1>6. Follows
  BY <1>1, <1>4 DEF ClusterInit, Follows, Workloads
<1> QED BY <1>1, <1>2, <1>3, <1>5, <1>6 DEF PatientInv, Steady, Phases

\* A calm step of a patient system keeps it steady and keeps the edits.
LEMMA CalmStep ==
  ASSUME IInv, Informed, Counted, Calm, Steady, [PatientNext]_vars PROVE Steady' /\ Keeping
<1>1. CASE Calls
  <2>1. ~UndoDrop /\ ~RevertCurrent /\ ~RevertLatest
    BY PhaseAt DEF Steady, UndoDrop, RevertCurrent, RevertLatest, CCMStep
  <2> QED BY <1>1, <2>1, FirstVersionSteady, AdoptVersionSteady, NewVersionSteady, RollBackSteady,
             RollBackMissingSteady, NothingToDoSteady, StampFirstSteady, RaiseCurrentSteady,
             DropOldSteady, DropLatestSteady, CreateNewSteady, StampNewSteady,
             RollDeploymentsSteady, RollStatefulSetsSteady DEF Calls
<1>2. CASE Panics
  BY <1>2, DropLatestPanicsNot, StampNewPanicsSteady, RollPanicsSteady DEF Panics
<1>3. CASE Deliver(DeliverCM) \/ Deliver(DeliverCCM)
  BY <1>3, DeliverCMSteady, DeliverCCMSteady
<1>4. CASE Crash
  BY <1>4, CalmSpends DEF Crash, IInv
<1>5. CASE Settled /\ Surroundings /\ UNCHANGED <<pc, locals>>
  BY <1>5, SurroundingsSteady
<1>6. CASE UNCHANGED vars
  BY <1>6 DEF vars, clusterVars, cmVars, ccmVars, caches, rollout, locals, Steady, Annotated,
     Phases, Untouched, FirstMade, Changed, Making, Made, Rolling, Raising, Dropping, Echoing,
     Drained, InStep, InForce, HeardLast, LatestKnown, Caught, Behind, Synced, Nameless,
     CurrentIn, LatestIn, Exists, Follows, Keeping
<1> QED BY <1>1, <1>2, <1>3, <1>4, <1>5, <1>6 DEF PatientNext, Controller

LEMMA PatientStep ==
  PatientInv /\ [PatientNext]_vars => PatientInv' /\ (Unharmed' => Keeping)
<1> SUFFICES ASSUME PatientInv, [PatientNext]_vars
             PROVE  PatientInv' /\ (Unharmed' => Keeping)
  OBVIOUS
<1>1. [Next]_vars
  BY DEF PatientNext, Next
<1>2. IInv' /\ Informed' /\ Counted' /\ (Unharmed' => Unharmed /\ Calm)
  BY <1>1, NextInv, InformedStep, CountedStep DEF PatientInv
<1>3. Unharmed' => Steady' /\ Keeping
  BY <1>2, CalmStep DEF PatientInv
<1> QED BY <1>2, <1>3 DEF PatientInv

\* What the invariant says of a settled system.
LEMMA PatientSettled == PatientInv => (Unharmed => SettledInStep)
BY SettledPhase DEF PatientInv, SettledInStep, InStep, InForce

\* What Follows says of the template, as TemplateFollows puts it.
LEMMA FollowsSays ==
  ASSUME Follows, NEW w \in Deployments, cm.deployments = {w},
         template[w] \notin {Bare, Absent}, left.pods = MaxPods
  PROVE  template[w] = cm.version \/ Cardinality({v \in Versions : Exists(v)}) = 1
<1>1. ASSUME NEW v \in Versions, \A u \in Versions : Exists(u) <=> u = v
      PROVE  Cardinality({u \in Versions : Exists(u)}) = 1
  <2>1. {u \in Versions : Exists(u)} = {v}
    BY <1>1
  <2> QED BY <2>1, FS_Singleton
<1> QED BY <1>1 DEF Follows

-----------------------------------------------------------------------------
(* The theorems.                                                           *)

\* The invariant holds in every reachable state of a patient system.
THEOREM PatientInvariant == PatientSpec => []PatientInv
<1>1. Init => PatientInv
  BY PatientInit
<1>2. PatientInv /\ [PatientNext]_vars => PatientInv'
  BY PatientStep
<1> QED BY <1>1, <1>2, PTL DEF PatientSpec

\* As long as nothing has failed or crashed, edits, replacements, rollbacks, the retries and
\* conflicts they lead to and the panics on the way end with the one current version being
\* the stamped one, with the content of the ConfigMap, and with a latest version.
THEOREM UnharmedInStep == PatientSpec => [](Unharmed => SettledInStep)
BY PatientSettled, PatientInvariant, PTL

\* As long as, besides, nobody has rolled back, the template of the one Deployment that
\* uses the ConfigMap carries the stamped version from the second version on.
THEOREM UnharmedFollows == PatientSpec => [](Unharmed => TemplateFollows)
<1>1. PatientInv => (Unharmed => TemplateFollows)
  BY SettledPhase, FollowsSays DEF PatientInv, TemplateFollows
<1> QED BY <1>1, PatientInvariant, PTL

\* As long as nothing has failed or crashed, no step of Configurator takes a content out of
\* the ConfigMap that no version keeps.
THEOREM UnharmedKeeps == PatientSpec => [][Unharmed' => Keeping]_vars
<1>1. PatientInv /\ [PatientNext]_vars => [Unharmed' => Keeping]_vars
  BY PatientStep
<1> QED BY <1>1, PatientInvariant, PTL DEF PatientSpec

\* Where there is nothing that could fail or crash, nothing has.
LEMMA NeverHarmed == ASSUME MaxFaults = 0, MaxCrashes = 0 PROVE PatientInv => Unharmed
BY DEF PatientInv, IInv, Budgets, Counted, Unharmed

\* The same, where nothing fails or crashes at all: a settled ConfigMap is in step.
THEOREM PatientInStep ==
  ASSUME MaxFaults = 0, MaxCrashes = 0 PROVE PatientSpec => []SettledInStep
<1>1. PatientInv => Unharmed
  BY NeverHarmed
<1> QED BY <1>1, PatientInvariant, UnharmedInStep, PTL

\* The same for the templates.
THEOREM PatientFollows ==
  ASSUME MaxFaults = 0, MaxCrashes = 0 PROVE PatientSpec => []TemplateFollows
<1>1. PatientInv => Unharmed
  BY NeverHarmed
<1> QED BY <1>1, PatientInvariant, UnharmedFollows, PTL

\* The same for the edits: each is kept by a version before Configurator replaces it, which
\* it does not promise to a user who edits while a handler runs.
THEOREM PatientKeeps ==
  ASSUME MaxFaults = 0, MaxCrashes = 0 PROVE PatientSpec => EditsKept
<1>1. PatientInv' => Unharmed'
  BY DEF PatientInv, IInv, Budgets, Counted, Unharmed
<1>2. PatientInv' /\ [Unharmed' => Keeping]_vars
        => [cm'.data # cm.data /\ left'.edits = left.edits
              => \E v \in Versions : ccm[v].data = cm.data]_vars
  BY <1>1 DEF Keeping
<1> QED BY <1>2, PatientInvariant, UnharmedKeeps, PTL DEF EditsKept
=============================================================================
