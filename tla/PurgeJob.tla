------------------------------ MODULE PurgeJob ------------------------------
(***************************************************************************)
(* The purge job, which runs every fifteen minutes in the process of the   *)
(* reconcilers.  It lists the versions; for each of them it lists the      *)
(* Deployments, the ReplicaSets of one after the other, the StatefulSets   *)
(* and the ControllerRevisions of one after the other, and reads the       *)
(* ConfigMap; a version it met on no revision is deleted.  Each of these   *)
(* calls is a step of its own; the reconciler and the rest of the cluster  *)
(* move in between.  It reads the API server and no cache.                 *)
(***************************************************************************)
EXTENDS ConfigMapProperties

VARIABLES
  job,       \* where the job stands, the versions it has to see, the one it looks for
  history,   \* whose ReplicaSets or ControllerRevisions carry the revisions
  deleted,   \* history: the content of each version that was deleted
  began      \* history: what each workload's revisions carried ever since the job began

purgeVars == <<job, history, deleted, began>>
allVars == <<vars, purgeVars>>

NoJob == [at |-> "idle", todo |-> {}, ccm |-> NoVersion, lists |-> {}, checkConfig |-> FALSE]

OnRevisions(carried) == {v \in Versions : \E w \in Workloads : v \in carried[w]}

PurgeTypeOK ==
  /\ TypeOK
  /\ job \in [at : {"idle", "next", "replicaSets", "controllerRevisions", "delete"},
              todo : SUBSET Versions, ccm : Versions \cup {NoVersion},
              lists : SUBSET Workloads, checkConfig : BOOLEAN]
  /\ history \in [Workloads -> SUBSET Versions]
  /\ revisions = OnRevisions(history)
  /\ deleted \in [Versions -> Data \cup {NoData}]
  /\ began \in [Workloads -> SUBSET Versions]

PurgeInit ==
  /\ Init
  /\ job = NoJob /\ deleted = [v \in Versions |-> NoData]
  /\ history = [w \in Workloads |-> {}] /\ began = history

\* The names a version can still get: a random name is not drawn twice.
Fresh(v) == ~Exists(v) /\ deleted[v] = NoData

\* What the rest of the cluster leaves alone while the job makes a call, and what the
\* job's reads leave alone.
NotTheJobs == <<cmVars, caches, queued, rollout, pc, locals, history, began>>
JobReads == UNCHANGED <<NotTheJobs, ccmVars, deleted>>

-----------------------------------------------------------------------------
(* The job's calls.  A list that fails counts as an empty one.             *)

\* The versions are listed.
PurgeList ==
  /\ job.at = "idle"
  /\ \E v \in Versions : Exists(v)
  /\ job' = [NoJob EXCEPT !.at = "next", !.todo = {v \in Versions : Exists(v)}]
  /\ began' = history
  /\ UNCHANGED <<vars, history, deleted>>

PurgeDone ==
  /\ job.at = "next" /\ job.todo = {}
  /\ job' = NoJob
  /\ UNCHANGED <<vars, history, deleted, began>>

\* The workloads of a kind are listed, to look into the revisions of each.
ListWorkloads(kind, next) ==
  \/ job' = [next EXCEPT !.lists = {w \in kind : template[w] # Absent}] /\ UNCHANGED left
  \/ job' = [next EXCEPT !.lists = {}] /\ Spend("faults")

\* The next version; the Deployments are listed for it.
PurgeDeployments ==
  /\ job.at = "next"
  /\ \E v \in job.todo :
       ListWorkloads(Deployments, [NoJob EXCEPT !.at = "replicaSets", !.todo = job.todo \ {v},
                                                !.ccm = v])
  /\ JobReads

\* Mutant: what the last list shows overwrites what earlier ones have shown.
BadPurgeRevisions ==
  /\ job.at \in {"replicaSets", "controllerRevisions"}
  /\ \E w \in job.lists :
       \/ /\ job' = [job EXCEPT !.lists = @ \ {w}, !.checkConfig = job.ccm \in history[w]]
          /\ UNCHANGED left
       \/ job' = [job EXCEPT !.lists = @ \ {w}] /\ Spend("faults")
  /\ JobReads

\* The ReplicaSets of a Deployment, or the ControllerRevisions of a StatefulSet, are
\* listed and searched for the version.
PurgeRevisions ==
  /\ job.at \in {"replicaSets", "controllerRevisions"}
  /\ \E w \in job.lists :
       \/ /\ job' = [job EXCEPT !.lists = @ \ {w}, !.checkConfig = @ \/ job.ccm \in history[w]]
          /\ UNCHANGED left
       \/ job' = [job EXCEPT !.lists = @ \ {w}] /\ Spend("faults")
  /\ JobReads

\* After the Deployments the StatefulSets are listed.
PurgeStatefulSets ==
  /\ job.at = "replicaSets" /\ job.lists = {}
  /\ ListWorkloads(StatefulSets, [job EXCEPT !.at = "controllerRevisions"])
  /\ JobReads

\* Mutant: a version that was seen is purged.
BadPurgeGet ==
  /\ job.at = "controllerRevisions" /\ job.lists = {}
  /\ LET unused == cm.deployments \cup cm.statefulsets # {} /\ job.checkConfig IN
     \/ job' = [job EXCEPT !.at = IF unused THEN "delete" ELSE "next"] /\ UNCHANGED left
     \/ unused /\ job' = [job EXCEPT !.at = "next"] /\ Spend("faults")
  /\ JobReads

\* The ConfigMap is read; a version it has no workloads for is left alone, and so are
\* all when it cannot be read.
PurgeGet ==
  /\ job.at = "controllerRevisions" /\ job.lists = {}
  /\ LET unused == cm.deployments \cup cm.statefulsets # {} /\ ~job.checkConfig IN
     \/ job' = [job EXCEPT !.at = IF unused THEN "delete" ELSE "next"] /\ UNCHANGED left
     \/ unused /\ job' = [job EXCEPT !.at = "next"] /\ Spend("faults")
  /\ JobReads

\* The version goes from the API server, and every informer hears of it.
DeleteCCM(v) ==
  /\ ccm' = [ccm EXCEPT ![v] = NoCCM]
  /\ ccmWatch' = Append(ccmWatch, [of |-> v, obj |-> NoCCM])
  /\ deleted' = [deleted EXCEPT ![v] = ccm[v].data]

PurgeDelete ==
  /\ job.at = "delete"
  /\ \/ DeleteCCM(job.ccm) /\ UNCHANGED left
     \/ UNCHANGED <<ccmVars, deleted>> /\ Spend("faults")
  /\ job' = [job EXCEPT !.at = "next"]
  /\ UNCHANGED NotTheJobs

PurgeCCMAndCS ==
  \/ PurgeList \/ PurgeDeployments \/ PurgeRevisions \/ PurgeStatefulSets
  \/ PurgeGet \/ PurgeDelete \/ PurgeDone

-----------------------------------------------------------------------------
\* The revision history of a workload is limited: an old ReplicaSet goes.
Trim(w, v) ==
  /\ v \in history[w] /\ template[w] # v
  /\ history' = [history EXCEPT ![w] = @ \ {v}]
  /\ revisions' = OnRevisions(history')
  /\ UNCHANGED <<cmVars, ccmVars, caches, queued, template, left, pc, locals>>

\* A template that gets a version makes a revision of its workload.
Carried == history' = [w \in Workloads |-> history[w] \cup ({template'[w]} \cap Versions)]

\* What the others do: a new version gets a fresh name, and a process that dies takes
\* the job with it.
Others ==
  /\ \/ (Panics \/ Crash) /\ job' = NoJob /\ Carried
     \/ /\ \/ /\ \/ Calls \/ Deliver(DeliverCM) \/ Deliver(DeliverCCM)
                 \/ Surroundings /\ UNCHANGED <<pc, locals>>
              /\ Carried
           \/ \E w \in Workloads, v \in Versions : Trim(w, v)
        /\ UNCHANGED job
  /\ \A v \in Versions : Exists(v)' => Exists(v) \/ Fresh(v)
  /\ UNCHANGED deleted
  /\ began' = [w \in Workloads |-> began[w] \cap history'[w]]

PurgeNext == PurgeCCMAndCS \/ Others
PurgeSpec == PurgeInit /\ [][PurgeNext]_allVars

\* The timer fires again and again, and the job does not stop between two calls.
FairPurgeSpec == PurgeSpec /\ WF_allVars(PurgeCCMAndCS)

-----------------------------------------------------------------------------
\* A version that the revisions of some one workload have carried ever since the job began
\* is deleted only after a failed call: in whichever order the lists are made, and whatever
\* is rolled out, trimmed or restarted between them, the job comes across it.
PurgeSparesRevisions ==
  [][left.faults = MaxFaults
       => \A w \in Workloads : \A v \in began[w] : Exists(v) => Exists(v)']_allVars

\* The version store holds on to what is purged: neither a copy in a cache nor a
\* handler under way brings another content back under a version's name.
Remembered == [v \in Versions |-> IF Exists(v) THEN ccm[v].data ELSE deleted[v]]
PurgedStore == INSTANCE VersionStore
                 WITH content <- cm.data, stamp <- cm.version, saved <- Remembered
PurgeImplementsVersionStore == PurgedStore!Spec

\* A version that is out of use for good, on no revision any more and not the one the
\* ConfigMap is stamped with, is deleted some day, if the ConfigMap names a workload:
\* failed calls, restarts and what the reconciler does meanwhile only put it off.
UnusedGo ==
  \A v \in Versions :
    ~<>[](/\ Exists(v) /\ v \notin revisions \cup {cm.version}
          /\ cm.deployments \cup cm.statefulsets # {})

\* "it remove unused customConfigMap and customSecret": a version that is in use, in a
\* revision or as the stamp of the ConfigMap, is not deleted.
PurgeSparesUsed ==
  [][left.faults = MaxFaults
       => \A v \in Versions : Exists(v) /\ ~Exists(v)' => v \notin revisions \cup {cm.version}]_allVars
=============================================================================
