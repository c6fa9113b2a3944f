------------------------- MODULE ConfigMapController -------------------------
(***************************************************************************)
(* The ConfigMap reconciler of Configurator.  A handler is a chain of      *)
(* client calls: each action makes one of them, together with the reads of *)
(* caches and of local copies that come before it (a read of a cache that  *)
(* lags commutes with everything the other actors do).  Between two calls  *)
(* the rest of the cluster moves, or the process crashes.                  *)
(***************************************************************************)
EXTENDS Cluster

CONSTANT Spare    \* bound: the names FirstVersion leaves alone while the watch lags

ASSUME SpareAssumption == Spare \in Nat

VARIABLES
  pc,      \* the call the handler makes next, "idle" when no handler runs
  my,      \* the handler's copy of the ConfigMap
  cur,     \* its copy of the current CCM: currentccm, ccmList.Items[0]
  other,   \* its copy of another CCM: latestccm.Items[0], or ccm of CopyCCMToCM
  tries    \* i, in the loop of CreateNewCCM

locals == <<my, cur, other, tries>>
vars == <<clusterVars, pc, locals>>

Locations == {"idle", "stampFirst", "dropLatest", "undoDrop", "createNew",
              "revertCurrent", "revertLatest", "stampNew", "rollDeployments",
              "rollStatefulSets", "raiseCurrent", "dropOld"}

TypeOK ==
  /\ ClusterTypeOK
  /\ pc \in Locations
  /\ my \in CMs \cup {NoCM}
  /\ cur \in Copies \cup {NoCopy} /\ other \in Copies \cup {NoCopy}
  /\ tries \in 0..5

Init ==
  /\ ClusterInit
  /\ pc = "idle" /\ my = NoCM /\ cur = NoCopy /\ other = NoCopy /\ tries = 0

-----------------------------------------------------------------------------
(* Copies of CCMs, and how a handler goes on.                              *)

Cached(v) == [of |-> v, obj |-> ccmCache[v]]
Current(copy, is) == [copy EXCEPT !.obj.current = is]
Latest(copy, is) == [copy EXCEPT !.obj.latest = is]

\* A successful Update refreshes the caller's copy; a failed one leaves it.
Answered(copy, out) ==
  IF out = "ok" THEN [copy EXCEPT !.obj = ccm'[copy.of]] ELSE copy

\* Mutant: a name that is taken is used again.
BadCreateCCM(v, d, out) ==
  /\ StoreCCM([of |-> v, obj |-> [data |-> d, current |-> TRUE, latest |-> TRUE, rv |-> 0]])
  /\ out = "ok" /\ UNCHANGED left

\* newCustomConfigMap and r.Create: a new version v, current and latest.
CreateCCM(v, d, out) ==
  LET store == StoreCCM([of |-> v, obj |-> [data |-> d, current |-> TRUE,
                                            latest |-> TRUE, rv |-> 0]]) IN
  /\ ~Exists(v)
  /\ \/ out = "ok" /\ store /\ UNCHANGED left
     \/ out = "error" /\ Spend("faults") /\ (store \/ UNCHANGED ccmVars)

Forget == my' = NoCM /\ cur' = NoCopy /\ other' = NoCopy /\ tries' = 0

Goto(location) == pc' = location /\ UNCHANGED queued
Onward(location) == Goto(location) /\ UNCHANGED locals
Done == pc' = "idle" /\ Forget /\ UNCHANGED queued     \* return nil
Retry == pc' = "idle" /\ Forget /\ queued' = TRUE      \* return an error

\* A panic or a crash ends the process; its container starts again.
Restart == pc' = "idle" /\ Forget /\ Relist

-----------------------------------------------------------------------------
(* Reconcile: the handler takes the key and makes its first call.          *)

\* The guard of a handler that starts, with its copy of the ConfigMap and the
\* versions r.List finds with the label current.
Starts(versioned, listed) ==
  /\ pc = "idle" /\ queued
  /\ (cmCache.version # NoVersion) = versioned
  /\ CurrentIn(ccmCache) = listed

\* The first call's successor: the key is no longer queued.
Begin(location) == pc' = location /\ queued' = FALSE

\* No current version is known: a first one is created.  As long as the cache does
\* not show it, every retry would create one more, so the bound Spare applies.
FirstVersion ==
  /\ Starts(FALSE, {})
  /\ ccmWatch = <<>> \/ Cardinality({v \in Versions : ~Exists(v)}) > Spare
  /\ \E v \in Versions, out \in Outcomes :
       /\ CreateCCM(v, cmCache.data, out)
       /\ IF out = "ok"
          THEN /\ Begin("stampFirst")
               /\ my' = [cmCache EXCEPT !.version = v, !.annotated = TRUE]
               /\ UNCHANGED <<cur, other, tries>>
          ELSE Retry
  /\ UNCHANGED <<cmVars, caches, rollout>>

\* The content is that of the one current version: its stamp is put back.
AdoptVersion ==
  /\ \E v \in Versions, out \in Outcomes :
       /\ Starts(FALSE, {v})
       /\ cmCache.data = ccmCache[v].data
       /\ UpdateCM([cmCache EXCEPT !.version = v, !.annotated = TRUE], out)
       /\ IF out = "ok" THEN Begin("idle") /\ Forget ELSE Retry
  /\ UNCHANGED <<ccmVars, caches, rollout>>

\* The content differs from the current version: CreateNewCCM is called, from
\* Reconcile or from UpdateConfigMap, and removes the label current.
NewVersion ==
  /\ \E v \in Versions, out \in Outcomes :
       /\ Starts(cmCache.version # NoVersion, {v})
       /\ cmCache.version \in {NoVersion, v}
       /\ cmCache.data # ccmCache[v].data
       /\ LET copy == Current(Cached(v), FALSE) IN
          /\ UpdateCCM(copy, out)
          /\ IF out = "ok"
             THEN /\ Begin("dropLatest")
                  /\ my' = cmCache /\ cur' = Answered(copy, out)
                  /\ UNCHANGED <<other, tries>>
             ELSE Retry
  /\ UNCHANGED <<cmVars, caches, rollout>>

\* Mutant: an edit of what is stamped with the current version is taken for a rollback.
BadRollBack ==
  /\ \E v \in Versions, out \in Outcomes :
       /\ Starts(TRUE, {v})
       /\ LET target == cmCache.version
              copy == [cmCache EXCEPT !.data = ccmCache[target].data] IN
          /\ target # v \/ copy # cmCache
          /\ ccmCache[target].rv > 0
          /\ UpdateCM(copy, out)
          /\ IF out = "ok"
             THEN /\ Begin("raiseCurrent")
                  /\ cur' = Cached(v) /\ other' = Cached(target)
                  /\ UNCHANGED <<my, tries>>
             ELSE Retry
  /\ UNCHANGED <<ccmVars, caches, rollout>>

\* The stamp is not the current version: CopyCCMToCM gets the stamped version
\* and writes its content back into the ConfigMap.
RollBack ==
  /\ \E v \in Versions, out \in Outcomes :
       /\ Starts(TRUE, {v})
       /\ LET target == cmCache.version
              copy == [cmCache EXCEPT !.data = ccmCache[target].data] IN
          /\ target # v
          /\ ccmCache[target].rv > 0
          /\ UpdateCM(copy, out)
          /\ IF out = "ok"
             THEN /\ Begin("raiseCurrent")
                  /\ cur' = Cached(v) /\ other' = Cached(target)
                  /\ UNCHANGED <<my, tries>>
             ELSE Retry
  /\ UNCHANGED <<ccmVars, caches, rollout>>

\* CopyCCMToCM does not find the stamped version in the cache.
RollBackMissing ==
  /\ \E v \in Versions \ {cmCache.version} : Starts(TRUE, {v})
  /\ ccmCache[cmCache.version].rv = 0
  /\ Retry
  /\ UNCHANGED <<cmVars, ccmVars, caches, rollout, left>>

\* Mutant: what the reconciler cannot make sense of is returned as an error.
BadNothingToDo ==
  /\ Starts(cmCache.version # NoVersion, CurrentIn(ccmCache))
  /\ \/ CurrentIn(ccmCache) = {cmCache.version} /\ cmCache.data = ccmCache[cmCache.version].data
     \/ CurrentIn(ccmCache) = {} /\ cmCache.version # NoVersion
     \/ Cardinality(CurrentIn(ccmCache)) > 1
  /\ IF Cardinality(CurrentIn(ccmCache)) > 1 THEN Retry ELSE Begin("idle") /\ UNCHANGED locals
  /\ UNCHANGED <<cmVars, ccmVars, caches, rollout, left>>

\* Mutant: the stamp is compared, and the content is not.
LazyNothingToDo ==
  /\ Starts(cmCache.version # NoVersion, CurrentIn(ccmCache))
  /\ \/ CurrentIn(ccmCache) = {cmCache.version}
     \/ CurrentIn(ccmCache) = {} /\ cmCache.version # NoVersion
     \/ Cardinality(CurrentIn(ccmCache)) > 1
  /\ Begin("idle")
  /\ UNCHANGED <<cmVars, ccmVars, caches, locals, rollout, left>>

\* Nothing differs, or the label current is on no version or on several.
NothingToDo ==
  /\ Starts(cmCache.version # NoVersion, CurrentIn(ccmCache))
  /\ \/ CurrentIn(ccmCache) = {cmCache.version} /\ cmCache.data = ccmCache[cmCache.version].data
     \/ CurrentIn(ccmCache) = {} /\ cmCache.version # NoVersion
     \/ Cardinality(CurrentIn(ccmCache)) > 1
  /\ Begin("idle")
  /\ UNCHANGED <<cmVars, ccmVars, caches, locals, rollout, left>>

\* A step that updates the ConfigMap, or a CCM, and returns any error it gets.
CMStep(location, copy, proceed) ==
  /\ pc = location
  /\ \E out \in Outcomes : UpdateCM(copy, out) /\ IF out = "ok" THEN proceed ELSE Retry
  /\ UNCHANGED <<ccmVars, caches, rollout>>

CCMStep(location, copy, proceed) ==
  /\ pc = location
  /\ \E out \in Outcomes : UpdateCCM(copy, out) /\ IF out = "ok" THEN proceed ELSE Retry
  /\ UNCHANGED <<cmVars, caches, rollout>>

StampFirst == CMStep("stampFirst", my, Done)

\* The rest of CopyCCMToCM and of UpdateConfigMap.
RaiseCurrent == CCMStep("raiseCurrent", Current(other, TRUE), Onward("dropOld"))

\* Mutant: the label current stays on the version that was current.
BadDropOld ==
  /\ pc = "dropOld" /\ Done
  /\ UNCHANGED <<cmVars, ccmVars, caches, rollout, left>>

DropOld == CCMStep("dropOld", Current(cur, FALSE), Done)

-----------------------------------------------------------------------------
(* The rest of CreateNewCCM.                                               *)

\* Mutant: one turn more.
BadLastTurn == 6

LastTurn == 5

\* One turn of the loop: a conflict starts another turn, up to six of them, and
\* after the sixth the handler goes on as if the label were gone.
DropLatest ==
  /\ pc = "dropLatest"
  /\ \E v \in LatestIn(ccmCache), out \in Outcomes :
       LET copy == Latest(Cached(v), FALSE) IN
       /\ UpdateCCM(copy, out)
       /\ other' = Answered(copy, out)
       /\ IF out = "conflict" /\ tries < LastTurn
          THEN Goto("dropLatest") /\ tries' = tries + 1
          ELSE Goto(IF out = "error" THEN "undoDrop" ELSE "createNew") /\ UNCHANGED tries
  /\ UNCHANGED <<cmVars, caches, my, cur, rollout>>

\* latestccm.Items[0] of an empty list.
DropLatestPanics ==
  /\ pc = "dropLatest"
  /\ LatestIn(ccmCache) = {}
  /\ Restart
  /\ UNCHANGED <<rollout, left>>

\* The inner errs hides the outer one: a revert that succeeds returns nil.
UndoDrop == CCMStep("undoDrop", Current(cur, TRUE), Done)

\* Mutant: the error of r.Create is not looked at.
BadCreateNew ==
  /\ pc = "createNew"
  /\ \E v \in Versions, out \in Outcomes :
       /\ CreateCCM(v, my.data, out)
       /\ Goto("stampNew") /\ my' = [my EXCEPT !.version = v]
  /\ UNCHANGED <<cmVars, caches, cur, other, tries, rollout>>

CreateNew ==
  /\ pc = "createNew"
  /\ \E v \in Versions, out \in Outcomes :
       /\ CreateCCM(v, my.data, out)
       /\ IF out = "ok"
          THEN Goto("stampNew") /\ my' = [my EXCEPT !.version = v]
          ELSE Goto("revertCurrent") /\ UNCHANGED my
  /\ UNCHANGED <<cmVars, caches, cur, other, tries, rollout>>

RevertCurrent == CCMStep("revertCurrent", Current(cur, TRUE), Onward("revertLatest"))
RevertLatest == CCMStep("revertLatest", Latest(other, TRUE), Retry)

StampNew ==
  /\ my.annotated
  /\ CMStep("stampNew", my, Onward("rollDeployments"))

\* A write to the nil Annotations of a ConfigMap without annotations.
StampNewPanics ==
  /\ pc = "stampNew" /\ ~my.annotated
  /\ Restart
  /\ UNCHANGED <<rollout, left>>

\* The template of the one workload an annotation names gets the new version.
Carry(w) ==
  /\ template' = [template EXCEPT ![w] = my.version]
  /\ revisions' = revisions \cup {my.version}

\* Mutant: len(split) >= 1 for len(split) > 1.
BadRoll(named, next) ==
  \/ named = {} /\ next /\ UNCHANGED <<rollout, left>>
  \/ Cardinality(named) >= 1 /\ Retry /\ UNCHANGED <<rollout, left>>

Roll(named, next) ==
  \/ named = {} /\ next /\ UNCHANGED <<rollout, left>>
  \/ Cardinality(named) > 1 /\ Retry /\ UNCHANGED <<rollout, left>>
  \/ \E w \in Workloads :
       /\ named = {w}
       /\ \/ template[w] = Absent /\ Retry /\ UNCHANGED <<rollout, left>>
          \/ template[w] \notin {Absent, Bare} /\ Carry(w) /\ next /\ UNCHANGED left
          \/ /\ template[w] \notin {Absent, Bare} /\ Spend("faults") /\ Retry
             /\ Carry(w) \/ UNCHANGED rollout

RollDeployments ==
  /\ pc = "rollDeployments"
  /\ Roll(my.deployments, Onward("rollStatefulSets"))
  /\ UNCHANGED <<cmVars, ccmVars, caches>>

RollStatefulSets ==
  /\ pc = "rollStatefulSets"
  /\ Roll(my.statefulsets, Done)
  /\ UNCHANGED <<cmVars, ccmVars, caches>>

\* A write to the nil Annotations of a pod template.
RollPanics ==
  /\ \E w \in Workloads :
       /\ template[w] = Bare
       /\ \/ pc = "rollDeployments" /\ my.deployments = {w}
          \/ pc = "rollStatefulSets" /\ my.statefulsets = {w}
  /\ Restart
  /\ UNCHANGED <<rollout, left>>

-----------------------------------------------------------------------------
Crash ==
  /\ Spend("crashes")
  /\ Restart
  /\ UNCHANGED rollout

Calls ==
  \/ FirstVersion \/ AdoptVersion \/ NewVersion \/ RollBack \/ RollBackMissing
  \/ NothingToDo \/ StampFirst \/ RaiseCurrent \/ DropOld
  \/ DropLatest \/ UndoDrop \/ CreateNew \/ RevertCurrent \/ RevertLatest
  \/ StampNew \/ RollDeployments \/ RollStatefulSets
Panics == DropLatestPanics \/ StampNewPanics \/ RollPanics

Controller == Calls \/ Panics

\* What the rest of the cluster does while the handler stands where it is.
Deliver(event) == event /\ UNCHANGED <<pc, locals>>
Surroundings ==
  \/ Resync \/ User
  \/ \E w \in Workloads : Apply(w)
  \/ \E v \in Versions : AdmitPod(v)

Next ==
  \/ Controller
  \/ Deliver(DeliverCM) \/ Deliver(DeliverCCM)
  \/ Surroundings /\ UNCHANGED <<pc, locals>>
  \/ Crash

Spec == Init /\ [][Next]_vars

\* The manager runs a worker as long as a key is queued, and watches deliver.
Fairness ==
  WF_vars(Controller) /\ WF_vars(Deliver(DeliverCM)) /\ WF_vars(Deliver(DeliverCCM))
FairSpec == Spec /\ Fairness
=============================================================================
