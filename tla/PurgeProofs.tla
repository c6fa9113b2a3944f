----------------------------- MODULE PurgeProofs -----------------------------
(***************************************************************************)
(* Proofs about the purge job beside the ConfigMap reconciler, for any     *)
(* number of versions, contents, workloads, faults and crashes.  Versions  *)
(* vanish here, and with them most of what IInv says of them; what stays   *)
(* is that every copy agrees with what is remembered of its version.       *)
(***************************************************************************)
EXTENDS PurgeJob, ConfigMapProofs

\* What is remembered of a version: its content, also when it was purged.
Content(v) == IF Exists(v) THEN ccm[v].data ELSE deleted[v]

\* A copy of a version has the content that is remembered.
Remembers(v, obj) == obj # NoCCM => obj.data = Content(v)

CMsTyped == cm \in CMs /\ cmCache \in CMs /\ cmWatch \in Seq(CMs)

CCMsRemembered ==
  /\ ccm \in [Versions -> CCMs \cup {NoCCM}]
  /\ ccmCache \in [Versions -> CCMs \cup {NoCCM}] /\ ccmWatch \in Seq(Events)
  /\ deleted \in [Versions -> Data \cup {NoData}]
  /\ \A v \in Versions : Exists(v) => deleted[v] = NoData
  /\ \A v \in Versions : Remembers(v, ccmCache[v])
  /\ \A i \in 1..Len(ccmWatch) : Remembers(ccmWatch[i].of, ccmWatch[i].obj)

WorkloadsTyped ==
  /\ template \in [Workloads -> Versions \cup {NoVersion, Bare, Absent}]
  /\ revisions \subseteq Versions

\* What a handler holds, and needs for the call it is about to make.
HandlerRemembers ==
  /\ pc \in Locations
  /\ my \in CMs \cup {NoCM}
  /\ cur \in Copies \cup {NoCopy} /\ other \in Copies \cup {NoCopy}
  /\ tries \in 0..5
  /\ pc \in {"dropLatest", "undoDrop", "createNew", "revertCurrent", "revertLatest",
             "raiseCurrent", "dropOld"}
       => cur \in Copies /\ Remembers(cur.of, cur.obj)
  /\ pc \in {"createNew", "revertCurrent", "revertLatest", "raiseCurrent"}
       => other \in Copies /\ Remembers(other.of, other.obj)
  /\ pc \in {"dropLatest", "createNew"} => my \in CMs
  /\ pc \in {"stampFirst", "stampNew", "rollDeployments", "rollStatefulSets"}
       => my \in CMs /\ my.version \in Versions /\ my.data = Content(my.version)

\* Whose revisions there are: those of workloads that exist, and of each the one its
\* template carries.
HistoryTold ==
  /\ history \in [Workloads -> SUBSET Versions]
  /\ revisions = OnRevisions(history)
  /\ \A w \in Workloads : template[w] \in Versions => template[w] \in history[w]
  /\ \A w \in Workloads : history[w] # {} => template[w] # Absent

\* The workloads whose revisions have been searched, or have none.
Searched ==
  CASE job.at = "replicaSets" -> Deployments \ job.lists
    [] job.at = "controllerRevisions" -> Workloads \ job.lists
    [] job.at = "delete" -> Workloads
    [] OTHER -> {}

JobTyped ==
  /\ job \in [at : {"idle", "next", "replicaSets", "controllerRevisions", "delete"},
              todo : SUBSET Versions, ccm : Versions \cup {NoVersion},
              lists : SUBSET Workloads, checkConfig : BOOLEAN]
  /\ job.at = "controllerRevisions" => job.lists \subseteq StatefulSets
  /\ job.at = "delete" => ~job.checkConfig

\* What the job has to see, and the version it looks for, exist: nobody else deletes.
JobSees ==
  /\ \A v \in job.todo : Exists(v)
  /\ job.at \notin {"idle", "next"}
       => job.ccm \in Versions /\ Exists(job.ccm) /\ job.ccm \notin job.todo

BeganTold ==
  /\ began \in [Workloads -> SUBSET Versions]
  /\ \A w \in Workloads : began[w] \subseteq history[w]

\* As long as no call failed, a version the job has not come across is on no revision that
\* a workload it searched has had since the job began.
NotMissed ==
  /\ left.faults <= MaxFaults
  /\ left.faults = MaxFaults
       => job.checkConfig \/ \A w \in Searched : job.ccm \notin began[w]

JobKnows == JobTyped /\ JobSees /\ BeganTold /\ NotMissed

\* All but the job.
Core ==
  /\ CMsTyped /\ CCMsRemembered /\ WorkloadsTyped /\ HandlerRemembers
  /\ queued \in BOOLEAN /\ left \in Budgets

\* The inductive invariant.
PurgeInv == Core /\ HistoryTold /\ JobKnows

\* What it was built for.
LEMMA PurgeInvSuffices == PurgeInv => PurgeTypeOK
BY DEF PurgeInv, Core, HistoryTold, JobKnows, JobTyped, JobSees, BeganTold, NotMissed, CMsTyped, CCMsRemembered, WorkloadsTyped, HandlerRemembers,
       PurgeTypeOK, TypeOK, ClusterTypeOK, Budgets

-----------------------------------------------------------------------------
(* What a step does.                                                       *)

\* The memory stays; or it gets one more version.
Stays == \A v \in Versions : Content(v)' = Content(v)
Adds ==
  \E v \in Versions, d \in Data :
    Content(v) = NoData /\ \A u \in Versions : Content(u)' = IF u = v THEN d ELSE Content(u)

\* The ConfigMap gets what is remembered of the version it is stamped with.
InstallsRemembered ==
  cm'.version \in Versions /\ cm'.data = Content(cm'.version)

RememberedKeeps == cm'.data = cm.data /\ cm'.version = cm.version
RememberedEdits ==
  cm'.data \in Data /\ cm'.version \in {cm.version, NoVersion}

\* What a step does to the version store that remembers.
RememberedStep ==
  \/ RememberedKeeps /\ (Stays \/ Adds)
  \/ Stays /\ (InstallsRemembered \/ RememberedEdits)

\* No version goes, as in every step but the job's.
NoneGoes == \A v \in Versions : Exists(v) => Exists(v)'

\* The bounds are spent.
Falls == left' \in Budgets /\ left'.faults <= left.faults

\* A name is used once.
NamesFresh == \A v \in Versions : Exists(v)' => Exists(v) \/ Fresh(v)

\* What the steps of the others do, seen from the job.
Harmless == Core' /\ RememberedStep /\ NoneGoes /\ Falls

\* A bound that is spent stays a natural number, and no other grows.
LEMMA SpendFalls ==
  ASSUME left \in Budgets, NEW what \in {"edits", "applies", "pods", "faults", "crashes"},
         Spend(what)
  PROVE  Falls
BY DEF Spend, Budgets, Falls

\* A bound that is not spent.
LEMMA SameFalls == ASSUME left \in Budgets, UNCHANGED left PROVE Falls
BY DEF Budgets, Falls

-----------------------------------------------------------------------------
(* The calls.                                                              *)

\* A memory that stays, or gets one more version, keeps every copy in agreement.
LEMMA RemembersStays ==
  ASSUME NEW v \in Versions, NEW obj \in CCMs \cup {NoCCM}, Remembers(v, obj), Stays \/ Adds
  PROVE  obj # NoCCM => obj.data = Content(v)'
<1> SUFFICES ASSUME obj # NoCCM PROVE obj.data = Content(v)'
  OBVIOUS
<1>1. obj.data \in Data /\ obj.data = Content(v) /\ Content(v) # NoData
  BY ValuesAssumption DEF Remembers, CCMs
<1>2. CASE Stays
  BY <1>1, <1>2 DEF Stays
<1>3. CASE Adds
  BY <1>1, <1>3 DEF Adds
<1> QED BY <1>2, <1>3

\* What was remembered with a content still is.
LEMMA ContentStays ==
  ASSUME NEW v \in Versions, Content(v) \in Data, Stays \/ Adds
  PROVE  Content(v)' = Content(v)
BY ValuesAssumption DEF Stays, Adds

\* The ConfigMap is stored.
LEMMA StoreCMTyped ==
  ASSUME CMsTyped, NEW copy \in CMs, StoreCM(copy), UNCHANGED cmCache
  PROVE  /\ CMsTyped'
         /\ cm' = cm \/ (cm'.data = copy.data /\ cm'.version = copy.version)
<1>1. CASE copy = cm
  BY <1>1 DEF StoreCM, cmVars, CMsTyped
<1>2. CASE copy # cm
  <2>1. cm' = [copy EXCEPT !.rv = @ + 1] /\ cmWatch' = Append(cmWatch, cm')
    BY <1>2 DEF StoreCM
  <2>2. cm' \in CMs /\ cm'.data = copy.data /\ cm'.version = copy.version
    BY <2>1 DEF CMs
  <2> QED BY <2>1, <2>2 DEF CMsTyped
<1> QED BY <1>1, <1>2

\* A CCM is stored from a copy that has its content, or under a name that is fresh.
LEMMA StoreCCMRemembers ==
  ASSUME CCMsRemembered, UNCHANGED <<ccmCache, deleted>>,
         NEW v \in Versions,
         NEW obj \in [data : Data, current : BOOLEAN, latest : BOOLEAN, rv : Nat],
         Exists(v) => obj.data = ccm[v].data,
         ~Exists(v) => deleted[v] = NoData,
         StoreCCM([of |-> v, obj |-> obj])
  PROVE  /\ CCMsRemembered' /\ NoneGoes
         /\ ccm'[v] \in CCMs /\ ccm'[v].data = obj.data /\ Content(v)' = obj.data
         /\ Exists(v) => Stays
         /\ ~Exists(v) => Adds
<1>0. /\ ccm \in [Versions -> CCMs \cup {NoCCM}] /\ ccmWatch \in Seq(Events)
      /\ deleted \in [Versions -> Data \cup {NoData}]
  BY DEF CCMsRemembered
<1>1. CASE obj = ccm[v]
  <2>1. UNCHANGED <<ccm, ccmWatch>>
    BY <1>1 DEF StoreCCM, ccmVars
  <2>2. obj # NoCCM
    BY ValuesAssumption DEF NoCCM
  <2>3. Exists(v) /\ ccm[v] \in CCMs
    BY <1>0, <1>1, <2>2 DEF CCMs, Exists
  <2>4. Stays /\ NoneGoes
    BY <2>1 DEF Stays, NoneGoes, Content, Exists
  <2>5. CCMsRemembered'
    BY <2>1 DEF CCMsRemembered, Remembers, Content, Exists
  <2> QED BY <1>1, <2>1, <2>3, <2>4, <2>5 DEF Content, Exists
<1>2. CASE obj # ccm[v]
  <2> DEFINE stored == [obj EXCEPT !.rv = @ + 1]
             event == [of |-> v, obj |-> stored]
  <2>1. ccm' = [ccm EXCEPT ![v] = stored] /\ ccmWatch' = Append(ccmWatch, [of |-> v, obj |-> ccm'[v]])
    BY <1>2 DEF StoreCCM
  <2>2. stored \in CCMs /\ stored.data = obj.data /\ stored.rv > 0
    BY DEF CCMs
  <2> HIDE DEF stored
  <2>3. /\ ccm' \in [Versions -> CCMs \cup {NoCCM}]
        /\ ccm'[v] = stored
        /\ \A u \in Versions \ {v} : ccm'[u] = ccm[u]
    BY <2>1, <2>2, <1>0
  <2>4. Exists(v)' /\ Content(v)' = obj.data
    BY <2>2, <2>3 DEF Exists, Content
  <2>5. \A u \in Versions \ {v} : Exists(u)' = Exists(u) /\ Content(u)' = Content(u)
    BY <2>3 DEF Exists, Content
  <2>6. NoneGoes
    BY <2>4, <2>5 DEF NoneGoes
  <2>7. Exists(v) => Stays
    BY <2>4, <2>5 DEF Stays, Content
  <2>8. ~Exists(v) => Adds
    BY <2>4, <2>5 DEF Adds, Content
  <2>9. event \in Events /\ ccmWatch' = Append(ccmWatch, event)
    BY <2>1, <2>2, <2>3 DEF Events
  <2>10. event.of = v /\ event.obj.data = obj.data
    BY <2>2
  <2> HIDE DEF event
  <2>11. /\ ccmWatch' \in Seq(Events)
         /\ Len(ccmWatch') = Len(ccmWatch) + 1
         /\ \A i \in 1..Len(ccmWatch) : ccmWatch'[i] = ccmWatch[i]
         /\ ccmWatch'[Len(ccmWatch) + 1] = event
    BY <1>0, <2>9, AppendElements
  <2>12. ASSUME NEW u \in Versions PROVE Remembers(u, ccmCache[u])'
    <3>1. Remembers(u, ccmCache[u]) /\ ccmCache[u] \in CCMs \cup {NoCCM}
      BY DEF CCMsRemembered
    <3> QED BY <3>1, <2>7, <2>8, RemembersStays DEF Remembers
  <2>13. ASSUME NEW i \in 1..Len(ccmWatch')
         PROVE  Remembers(ccmWatch[i].of, ccmWatch[i].obj)'
    <3>1. CASE i \in 1..Len(ccmWatch)
      <4>1. ccmWatch[i] \in Events /\ Remembers(ccmWatch[i].of, ccmWatch[i].obj)
        BY <3>1, <1>0 DEF CCMsRemembered
      <4>2. ccmWatch[i].of \in Versions /\ ccmWatch[i].obj \in CCMs \cup {NoCCM}
        BY <4>1 DEF Events
      <4> QED BY <3>1, <4>1, <4>2, <2>11, <2>7, <2>8, RemembersStays DEF Remembers
    <3>2. CASE i = Len(ccmWatch) + 1
      BY <3>2, <2>11, <2>4, <2>10 DEF Remembers
    <3> QED BY <3>1, <3>2, <1>0, <2>11
  <2>14. \A u \in Versions : Exists(u)' => deleted'[u] = NoData
    BY <2>5 DEF CCMsRemembered
  <2> QED BY <2>2, <2>3, <2>4, <2>6, <2>7, <2>8, <2>11, <2>12, <2>13, <2>14 DEF CCMsRemembered
<1> QED BY <1>1, <1>2

\* The CCMs and every copy of them stay as they are.
LEMMA SameRemembered ==
  ASSUME CCMsRemembered, UNCHANGED <<ccmVars, ccmCache, deleted>>
  PROVE  CCMsRemembered' /\ Stays /\ NoneGoes
BY DEF CCMsRemembered, Remembers, Content, Exists, ccmVars, Stays, NoneGoes

\* An Update of a CCM is refused when its version was purged, and otherwise leaves the
\* content as it was.
LEMMA UpdateCCMRemembers ==
  ASSUME CCMsRemembered, UNCHANGED <<ccmCache, deleted>>, left \in Budgets,
         NEW copy \in Copies, Remembers(copy.of, copy.obj), NEW out, UpdateCCM(copy, out)
  PROVE  /\ CCMsRemembered' /\ Stays /\ NoneGoes /\ Falls
         /\ out = "ok" => ccm'[copy.of] \in CCMs /\ ccm'[copy.of].data = copy.obj.data
<1>1. /\ copy.of \in Versions /\ copy = [of |-> copy.of, obj |-> copy.obj]
      /\ copy.obj \in [data : Data, current : BOOLEAN, latest : BOOLEAN, rv : Nat]
      /\ copy.obj # NoCCM /\ copy.obj.rv > 0
  BY ValuesAssumption DEF Copies, CCMs, NoCCM
<1>2. Falls
  BY SpendFalls, SameFalls DEF UpdateCCM
<1>3. CASE StoreCCM(copy) /\ copy.obj.rv = ccm[copy.of].rv
  <2>1. Exists(copy.of)
    BY <1>1, <1>3 DEF Exists
  <2>2. copy.obj.data = ccm[copy.of].data
    BY <1>1, <2>1 DEF Remembers, Content
  <2> QED BY <1>1, <1>2, <1>3, <2>1, <2>2, StoreCCMRemembers
<1>4. CASE UNCHANGED ccmVars /\ out # "ok"
  BY <1>2, <1>4, SameRemembered
<1> QED BY <1>3, <1>4 DEF UpdateCCM

\* A Create adds a version under a fresh name, or nothing.
LEMMA CreateCCMRemembers ==
  ASSUME CCMsRemembered, UNCHANGED <<ccmCache, deleted>>, left \in Budgets, NamesFresh,
         NEW v \in Versions, NEW d \in Data, NEW out, CreateCCM(v, d, out)
  PROVE  /\ CCMsRemembered' /\ NoneGoes /\ Falls /\ (Stays \/ Adds)
         /\ out = "ok" => Content(v)' = d
<1> DEFINE new == [data |-> d, current |-> TRUE, latest |-> TRUE, rv |-> 0]
<1>1. Falls
  BY SpendFalls, SameFalls DEF CreateCCM
<1>2. CASE StoreCCM([of |-> v, obj |-> new])
  <2>1. new \in [data : Data, current : BOOLEAN, latest : BOOLEAN, rv : Nat] /\ new.data = d
    OBVIOUS
  <2>2. ~Exists(v)
    BY DEF CreateCCM
  <2>3. Exists(v)'
    <3>1. ccm[v] # new
      BY <2>2, ValuesAssumption DEF CCMsRemembered, CCMs, NoCCM, Exists
    <3>2. ccm' = [ccm EXCEPT ![v] = [new EXCEPT !.rv = new.rv + 1]]
      BY <1>2, <3>1 DEF StoreCCM
    <3> QED BY <3>2 DEF Exists, CCMsRemembered
  <2>4. deleted[v] = NoData
    BY <2>2, <2>3 DEF NamesFresh, Fresh
  <2> HIDE DEF new
  <2> QED BY <1>1, <1>2, <2>1, <2>2, <2>4, StoreCCMRemembers
<1>3. CASE UNCHANGED ccmVars /\ out # "ok"
  BY <1>1, <1>3, SameRemembered
<1> QED BY <1>2, <1>3 DEF CreateCCM

-----------------------------------------------------------------------------
(* What stays true when the memory only grows.                             *)

\* The handler stands still.
LEMMA HandlerStays ==
  ASSUME HandlerRemembers, Stays \/ Adds, UNCHANGED <<pc, locals>>
  PROVE  HandlerRemembers'
<1>1. UNCHANGED <<my, cur, other, tries>>
  BY DEF locals
<1>2. ASSUME NEW copy \in Copies, Remembers(copy.of, copy.obj)
      PROVE  copy.obj # NoCCM => copy.obj.data = Content(copy.of)'
  BY <1>2, RemembersStays DEF Copies
<1>3. ASSUME my \in CMs, my.version \in Versions, my.data = Content(my.version)
      PROVE  my.data = Content(my.version)'
  <2>1. Content(my.version) \in Data
    BY <1>3 DEF CMs
  <2>2. ASSUME NEW v \in Versions, Content(v) \in Data PROVE Content(v)' = Content(v)
    BY <2>2, ContentStays
  <2> QED BY <1>1, <1>3, <2>1, <2>2 DEF Content, Exists
<1> QED BY <1>1, <1>2, <1>3 DEF HandlerRemembers, Remembers, Content, Exists

\* An idle reconciler holds no copy to be wrong about.
LEMMA IdleRemembers == ASSUME pc' = "idle", Forget PROVE HandlerRemembers'
BY DEF Forget, HandlerRemembers, Locations

\* A new process lists what the API server has.
LEMMA RelistedRemembers ==
  ASSUME CMsTyped, CCMsRemembered, Relist, UNCHANGED deleted
  PROVE  CMsTyped' /\ CCMsRemembered' /\ Stays /\ NoneGoes /\ queued' \in BOOLEAN
<1>1. CMsTyped'
  BY DEF Relist, CMsTyped
<1>2. UNCHANGED <<ccm, deleted>> /\ ccmCache' = ccm /\ ccmWatch' = <<>>
  BY DEF Relist
<1>3. Stays /\ NoneGoes
  BY <1>2 DEF Stays, NoneGoes, Content, Exists
<1>4. CCMsRemembered'
  <2>1. ASSUME NEW v \in Versions PROVE Remembers(v, ccmCache[v])'
    BY <1>2 DEF CCMsRemembered, Remembers, Content, Exists, CCMs, NoCCM
  <2> QED BY <1>2, <2>1 DEF CCMsRemembered, Exists
<1> QED BY <1>1, <1>3, <1>4 DEF Relist

\* A version the cache knows has a copy that agrees.
LEMMA CachedRemembers ==
  ASSUME CCMsRemembered, NEW v \in Versions,
         ccmCache[v].current \/ ccmCache[v].latest \/ ccmCache[v].rv > 0
  PROVE  /\ Cached(v) \in Copies /\ Remembers(Cached(v).of, Cached(v).obj)
         /\ ccmCache[v] \in CCMs /\ ccmCache[v].data = Content(v)
<1>1. ccmCache[v] # NoCCM
  BY DEF NoCCM
<1> QED BY <1>1 DEF CCMsRemembered, Cached, Copies, Remembers

\* A copy that gets or loses a label still agrees.
LEMMA RelabelledRemembers ==
  ASSUME NEW copy \in Copies, Remembers(copy.of, copy.obj), NEW is \in BOOLEAN
  PROVE  /\ Current(copy, is) \in Copies /\ Remembers(Current(copy, is).of, Current(copy, is).obj)
         /\ Latest(copy, is) \in Copies /\ Remembers(Latest(copy, is).of, Latest(copy, is).obj)
<1>1. copy.obj # NoCCM
  BY DEF Copies, CCMs, NoCCM
<1> QED BY <1>1 DEF Current, Latest, Copies, CCMs, Remembers

\* The copy a call on a CCM leaves with its caller.
LEMMA AnsweredRemembers ==
  ASSUME CCMsRemembered, UNCHANGED <<ccmCache, deleted>>, left \in Budgets,
         NEW copy \in Copies, Remembers(copy.of, copy.obj), NEW out, UpdateCCM(copy, out),
         NEW held, held = Answered(copy, out)
  PROVE  held \in Copies /\ held.obj.data = Content(held.of)'
<1>1. /\ Stays
      /\ out = "ok" => ccm'[copy.of] \in CCMs /\ ccm'[copy.of].data = copy.obj.data
  BY UpdateCCMRemembers
<1>2. copy.of \in Versions /\ copy.obj.data = Content(copy.of)'
  BY <1>1 DEF Copies, CCMs, NoCCM, Remembers, Stays
<1>3. CASE out = "ok"
  <2>1. held = [copy EXCEPT !.obj = ccm'[copy.of]]
    BY <1>3 DEF Answered
  <2>2. held \in Copies /\ held.of = copy.of /\ held.obj.data = copy.obj.data
    BY <2>1, <1>1, <1>3 DEF Copies
  <2> QED BY <2>2, <1>2
<1>4. CASE out # "ok"
  BY <1>2, <1>4 DEF Answered
<1> QED BY <1>3, <1>4

\* A call on the ConfigMap that writes what is remembered of the version it stamps.
LEMMA CMCallHarmless ==
  ASSUME CMsTyped, CCMsRemembered, WorkloadsTyped, left \in Budgets,
         NEW copy \in CMs, copy.version \in Versions, copy.data = Content(copy.version),
         NEW out, UpdateCM(copy, out), UNCHANGED <<ccmVars, caches, rollout, deleted>>,
         HandlerRemembers', queued' \in BOOLEAN
  PROVE  Harmless
<1>1. UNCHANGED <<cmCache, ccmCache, template, revisions>>
  BY DEF caches, rollout
<1>2. CCMsRemembered' /\ Stays /\ NoneGoes
  BY <1>1, SameRemembered
<1>3. Falls
  BY SpendFalls, SameFalls DEF UpdateCM
<1>4. /\ CMsTyped'
      /\ cm' = cm \/ (cm'.data = copy.data /\ cm'.version = copy.version)
  <2>1. CASE StoreCM(copy)
    BY <1>1, <2>1, StoreCMTyped
  <2>2. CASE UNCHANGED cmVars
    BY <1>1, <2>2 DEF cmVars, CMsTyped
  <2> QED BY <2>1, <2>2 DEF UpdateCM
<1>5. RememberedStep
  BY <1>2, <1>4 DEF RememberedStep, RememberedKeeps, InstallsRemembered
<1>6. WorkloadsTyped'
  BY <1>1 DEF WorkloadsTyped
<1> QED BY <1>2, <1>3, <1>4, <1>5, <1>6 DEF Harmless, Core, Falls

\* A step that leaves the ConfigMap alone.
LEMMA CCMCallHarmless ==
  ASSUME CMsTyped, WorkloadsTyped, UNCHANGED <<cmVars, cmCache, rollout>>,
         CCMsRemembered', Stays \/ Adds, NoneGoes, Falls, HandlerRemembers', queued' \in BOOLEAN
  PROVE  Harmless
<1>1. CMsTyped' /\ WorkloadsTyped'
  BY DEF CMsTyped, WorkloadsTyped, cmVars, rollout
<1>2. RememberedStep
  BY DEF RememberedStep, RememberedKeeps, cmVars
<1> QED BY <1>1, <1>2 DEF Harmless, Core, Falls

\* A handler that ends or starts over without a call.
LEMMA NoCallHarmless ==
  ASSUME Core, UNCHANGED <<cmVars, ccmVars, caches, rollout, left, deleted>>,
         queued' \in BOOLEAN, HandlerRemembers'
  PROVE  Harmless
<1>1. CCMsRemembered' /\ Stays /\ NoneGoes
  BY SameRemembered DEF Core, caches
<1> QED BY <1>1, CCMCallHarmless, SameFalls DEF Core, caches

-----------------------------------------------------------------------------
(* The steps of a handler.                                                 *)

\* The first version is saved before the handler holds its stamp.
LEMMA FirstVersionHarmless ==
  ASSUME Core, UNCHANGED deleted, NamesFresh, FirstVersion PROVE Harmless
<1> USE DEF Core
<1>1. PICK v \in Versions, out \in Outcomes :
        /\ CreateCCM(v, cmCache.data, out)
        /\ IF out = "ok"
           THEN /\ Begin("stampFirst")
                /\ my' = [cmCache EXCEPT !.version = v, !.annotated = TRUE]
                /\ UNCHANGED <<cur, other, tries>>
           ELSE Retry
  BY DEF FirstVersion
<1>2. UNCHANGED <<cmVars, cmCache, ccmCache, rollout>>
  BY DEF FirstVersion, caches
<1>3. cmCache \in CMs /\ cmCache.data \in Data
  BY DEF CMsTyped, CMs
<1>4. /\ CCMsRemembered' /\ NoneGoes /\ Falls /\ (Stays \/ Adds)
      /\ out = "ok" => Content(v)' = cmCache.data
  BY <1>1, <1>2, <1>3, CreateCCMRemembers
<1>5. HandlerRemembers' /\ queued' \in BOOLEAN
  <2>1. CASE out = "ok"
    <3>1. /\ pc' = "stampFirst" /\ queued' = FALSE
          /\ my' = [cmCache EXCEPT !.version = v, !.annotated = TRUE]
          /\ UNCHANGED <<cur, other, tries>>
      BY <1>1, <2>1 DEF Begin
    <3>2. my' \in CMs /\ my'.version = v /\ my'.data = cmCache.data
      BY <1>3, <3>1 DEF CMs
    <3>3. my'.data = Content(my.version)'
      BY <1>4, <2>1, <3>2 DEF Content, Exists
    <3> QED BY <3>1, <3>2, <3>3 DEF HandlerRemembers, Locations
  <2>2. CASE out # "ok"
    BY <1>1, <2>2, IdleRemembers DEF Retry
  <2> QED BY <2>1, <2>2
<1> QED BY <1>2, <1>4, <1>5, CCMCallHarmless

\* The stamp that is put back is that of a version the cache has shown.
LEMMA AdoptVersionHarmless == ASSUME Core, UNCHANGED deleted, AdoptVersion PROVE Harmless
<1> USE DEF Core
<1>1. PICK v \in Versions, out \in Outcomes :
        /\ Starts(FALSE, {v}) /\ cmCache.data = ccmCache[v].data
        /\ UpdateCM([cmCache EXCEPT !.version = v, !.annotated = TRUE], out)
        /\ IF out = "ok" THEN Begin("idle") /\ Forget ELSE Retry
  BY DEF AdoptVersion
<1> DEFINE copy == [cmCache EXCEPT !.version = v, !.annotated = TRUE]
<1>2. copy \in CMs /\ copy.version = v /\ copy.data = ccmCache[v].data
  BY <1>1 DEF CMsTyped, CMs
<1>3. ccmCache[v].data = Content(v)
  BY <1>1, CachedRemembers DEF Starts, CurrentIn
<1>4. UpdateCM(copy, out) /\ UNCHANGED <<ccmVars, caches, rollout>>
  BY <1>1 DEF AdoptVersion
<1>5. HandlerRemembers' /\ queued' \in BOOLEAN
  BY <1>1, IdleRemembers DEF Begin, Retry
<1> HIDE DEF copy
<1> QED BY <1>2, <1>3, <1>4, <1>5, CMCallHarmless

\* CopyCCMToCM writes back a version the cache has shown.
LEMMA RollBackHarmless == ASSUME Core, UNCHANGED deleted, RollBack PROVE Harmless
<1> USE DEF Core
<1> DEFINE target == cmCache.version
           copy == [cmCache EXCEPT !.data = ccmCache[target].data]
<1>1. PICK v \in Versions, out \in Outcomes :
        /\ Starts(TRUE, {v})
        /\ ccmCache[target].rv > 0
        /\ UpdateCM(copy, out)
        /\ IF out = "ok"
           THEN /\ Begin("raiseCurrent")
                /\ cur' = Cached(v) /\ other' = Cached(target)
                /\ UNCHANGED <<my, tries>>
           ELSE Retry
  BY DEF RollBack
<1>2. target \in Versions /\ cmCache \in CMs
  BY <1>1 DEF CMsTyped, CMs, Starts
<1>3. /\ Cached(v) \in Copies /\ Remembers(Cached(v).of, Cached(v).obj)
      /\ Cached(target) \in Copies /\ Remembers(Cached(target).of, Cached(target).obj)
      /\ ccmCache[target] \in CCMs /\ ccmCache[target].data = Content(target)
  BY <1>1, <1>2, CachedRemembers DEF Starts, CurrentIn
<1>4. copy \in CMs /\ copy.version = target /\ copy.data = Content(target)
  BY <1>2, <1>3 DEF CMs, CCMs
<1>5. UNCHANGED <<ccmVars, caches, rollout>>
  BY DEF RollBack
<1>6. Stays
  BY <1>5, SameRemembered DEF caches
<1>7. HandlerRemembers' /\ queued' \in BOOLEAN
  <2>1. CASE out = "ok"
    <3>1. pc' = "raiseCurrent" /\ queued' = FALSE /\ UNCHANGED <<my, tries>>
      BY <1>1, <2>1 DEF Begin
    <3>2. cur' = Cached(v) /\ other' = Cached(target)
      BY <1>1, <2>1
    <3>3. /\ cur' \in Copies /\ Remembers(cur.of, cur.obj)'
          /\ other' \in Copies /\ Remembers(other.of, other.obj)'
      BY <3>2, <1>2, <1>3, <1>6 DEF Cached, Remembers, Stays, Content, Exists
    <3> QED BY <3>1, <3>3 DEF HandlerRemembers, Locations
  <2>2. CASE out # "ok"
    BY <1>1, <2>2, IdleRemembers DEF Retry
  <2> QED BY <2>1, <2>2
<1>8. UpdateCM(copy, out)
  BY <1>1
<1> HIDE DEF copy, target
<1> QED BY <1>2, <1>4, <1>5, <1>7, <1>8, CMCallHarmless

\* The two steps that write a stamp the handler holds.
LEMMA StampHarmless ==
  ASSUME Core, UNCHANGED deleted, StampFirst \/ StampNew PROVE Harmless
<1> USE DEF Core
<1>1. PICK out \in Outcomes :
        /\ pc \in {"stampFirst", "stampNew"} /\ UpdateCM(my, out)
        /\ UNCHANGED <<ccmVars, caches, rollout>>
        /\ Done \/ Onward("rollDeployments") \/ Retry
  BY DEF StampFirst, StampNew, CMStep
<1>2. my \in CMs /\ my.version \in Versions /\ my.data = Content(my.version)
  BY <1>1 DEF HandlerRemembers
<1>3. HandlerRemembers' /\ queued' \in BOOLEAN
  <2>1. CASE Onward("rollDeployments")
    <3>1. pc' = "rollDeployments" /\ UNCHANGED <<queued, locals>>
      BY <2>1 DEF Onward, Goto
    <3>2. my'.data = Content(my.version)' /\ my' = my
      BY <1>1, <1>2, <3>1 DEF Content, Exists, ccmVars, locals
    <3> QED BY <3>1, <3>2, <1>2 DEF HandlerRemembers, Locations, locals
  <2>2. CASE Done \/ Retry
    BY <2>2, IdleRemembers DEF Done, Retry
  <2> QED BY <1>1, <2>1, <2>2
<1> QED BY <1>1, <1>2, <1>3, CMCallHarmless

\* CreateNewCCM starts with a copy of a version the cache has shown.
LEMMA NewVersionHarmless == ASSUME Core, UNCHANGED deleted, NewVersion PROVE Harmless
<1> USE DEF Core
<1>1. PICK v \in Versions, out \in Outcomes :
        /\ Starts(cmCache.version # NoVersion, {v})
        /\ UpdateCCM(Current(Cached(v), FALSE), out)
        /\ IF out = "ok"
           THEN /\ Begin("dropLatest")
                /\ my' = cmCache /\ cur' = Answered(Current(Cached(v), FALSE), out)
                /\ UNCHANGED <<other, tries>>
           ELSE Retry
  BY DEF NewVersion
<1> DEFINE copy == Current(Cached(v), FALSE)
<1>2. copy \in Copies /\ Remembers(copy.of, copy.obj)
  <2>1. Cached(v) \in Copies /\ Remembers(Cached(v).of, Cached(v).obj)
    BY <1>1, CachedRemembers DEF Starts, CurrentIn
  <2> QED BY <2>1, RelabelledRemembers
<1>3. UpdateCCM(copy, out) /\ UNCHANGED <<cmVars, cmCache, ccmCache, rollout>>
  BY <1>1 DEF NewVersion, caches
<1>4. out = "ok" => cur' = Answered(copy, out)
  BY <1>1
<1> HIDE DEF copy
<1>5. CCMsRemembered' /\ Stays /\ NoneGoes /\ Falls
  BY <1>2, <1>3, UpdateCCMRemembers
<1>6. HandlerRemembers' /\ queued' \in BOOLEAN
  <2>1. CASE out = "ok"
    <3>1. pc' = "dropLatest" /\ queued' = FALSE /\ my' = cmCache /\ UNCHANGED <<other, tries>>
      BY <1>1, <2>1 DEF Begin
    <3>2. cur' \in Copies /\ Remembers(cur.of, cur.obj)'
      BY <1>2, <1>3, <1>4, <2>1, AnsweredRemembers DEF Remembers, Content, Exists
    <3> QED BY <3>1, <3>2 DEF HandlerRemembers, Locations, CMsTyped
  <2>2. CASE out # "ok"
    BY <1>1, <2>2, IdleRemembers DEF Retry
  <2> QED BY <2>1, <2>2
<1> QED BY <1>3, <1>5, <1>6, CCMCallHarmless

\* Every turn of the loop leaves the handler a copy that agrees.
LEMMA DropLatestHarmless == ASSUME Core, UNCHANGED deleted, DropLatest PROVE Harmless
<1> USE DEF Core
<1>1. PICK v \in LatestIn(ccmCache), out \in Outcomes :
        /\ UpdateCCM(Latest(Cached(v), FALSE), out)
        /\ other' = Answered(Latest(Cached(v), FALSE), out)
        /\ IF out = "conflict" /\ tries < LastTurn
           THEN Goto("dropLatest") /\ tries' = tries + 1
           ELSE Goto(IF out = "error" THEN "undoDrop" ELSE "createNew") /\ UNCHANGED tries
  BY DEF DropLatest
<1>2. pc = "dropLatest" /\ UNCHANGED <<cmVars, cmCache, ccmCache, my, cur, rollout>>
  BY DEF DropLatest, caches
<1> DEFINE copy == Latest(Cached(v), FALSE)
<1>3. copy \in Copies /\ Remembers(copy.of, copy.obj)
  <2>1. Cached(v) \in Copies /\ Remembers(Cached(v).of, Cached(v).obj)
    BY CachedRemembers DEF LatestIn
  <2> QED BY <2>1, RelabelledRemembers
<1>4. UpdateCCM(copy, out) /\ other' = Answered(copy, out)
  BY <1>1
<1> HIDE DEF copy
<1>5. CCMsRemembered' /\ Stays /\ NoneGoes /\ Falls
  BY <1>2, <1>3, <1>4, UpdateCCMRemembers
<1>6. other' \in Copies /\ Remembers(other.of, other.obj)'
  BY <1>2, <1>3, <1>4, AnsweredRemembers DEF Remembers, Content, Exists
<1>7. cur' \in Copies /\ Remembers(cur.of, cur.obj)' /\ my' \in CMs
  <2>1. cur \in Copies /\ Remembers(cur.of, cur.obj) /\ my \in CMs
    BY <1>2 DEF HandlerRemembers
  <2>2. cur.of \in Versions /\ Content(cur.of) = (Content(cur.of))'
    BY <2>1, <1>2, <1>5 DEF Stays, Copies, Content, Exists
  <2> QED BY <2>1, <2>2, <1>2 DEF Remembers
<1>8. /\ pc' \in {"dropLatest", "undoDrop", "createNew"} /\ tries' \in 0..5
      /\ UNCHANGED queued
  BY <1>1 DEF Goto, LastTurn, HandlerRemembers
<1>9. HandlerRemembers' /\ queued' \in BOOLEAN
  BY <1>6, <1>7, <1>8 DEF HandlerRemembers, Locations
<1> QED BY <1>2, <1>5, <1>9, CCMCallHarmless

\* A new version is saved before the handler holds its stamp.
LEMMA CreateNewHarmless ==
  ASSUME Core, UNCHANGED deleted, NamesFresh, CreateNew PROVE Harmless
<1> USE DEF Core
<1>1. PICK v \in Versions, out \in Outcomes :
        /\ CreateCCM(v, my.data, out)
        /\ IF out = "ok"
           THEN Goto("stampNew") /\ my' = [my EXCEPT !.version = v]
           ELSE Goto("revertCurrent") /\ UNCHANGED my
  BY DEF CreateNew
<1>2. pc = "createNew" /\ UNCHANGED <<cmVars, cmCache, ccmCache, cur, other, tries, rollout>>
  BY DEF CreateNew, caches
<1>3. /\ my \in CMs /\ my.data \in Data
      /\ cur \in Copies /\ Remembers(cur.of, cur.obj)
      /\ other \in Copies /\ Remembers(other.of, other.obj)
  BY <1>2 DEF HandlerRemembers, CMs
<1>4. /\ CCMsRemembered' /\ NoneGoes /\ Falls /\ (Stays \/ Adds)
      /\ out = "ok" => Content(v)' = my.data
  BY <1>1, <1>2, <1>3, CreateCCMRemembers
<1>5. Remembers(cur.of, cur.obj)' /\ Remembers(other.of, other.obj)'
  <2>1. ASSUME NEW copy \in Copies, Remembers(copy.of, copy.obj)
        PROVE  copy.obj # NoCCM => copy.obj.data = Content(copy.of)'
    BY <1>4, <2>1, RemembersStays DEF Copies
  <2> QED BY <1>2, <1>3, <2>1 DEF Remembers, Content, Exists
<1>6. HandlerRemembers' /\ UNCHANGED queued
  <2>1. CASE out = "ok"
    <3>1. pc' = "stampNew" /\ UNCHANGED queued /\ my' = [my EXCEPT !.version = v]
      BY <1>1, <2>1 DEF Goto
    <3>2. my' \in CMs /\ my'.version = v /\ my'.data = my.data
      BY <1>3, <3>1 DEF CMs
    <3>3. my'.data = Content(my.version)'
      BY <1>4, <2>1, <3>2 DEF Content, Exists
    <3> QED BY <3>1, <3>2, <3>3, <1>2 DEF HandlerRemembers, Locations
  <2>2. CASE out # "ok"
    BY <1>1, <1>2, <1>3, <1>5, <2>2 DEF Goto, HandlerRemembers, Locations
  <2> QED BY <2>1, <2>2
<1> QED BY <1>2, <1>4, <1>6, CCMCallHarmless

\* The other calls on a CCM: a label of a copy the handler holds is set.
LEMMA RelabelHarmless ==
  ASSUME Core, UNCHANGED deleted,
         RaiseCurrent \/ DropOld \/ UndoDrop \/ RevertCurrent \/ RevertLatest
  PROVE  Harmless
<1> USE DEF Core
<1>1. PICK copy \in {Current(other, TRUE), Latest(other, TRUE), Current(cur, TRUE), Current(cur, FALSE)},
           out \in Outcomes :
        /\ UpdateCCM(copy, out) /\ UNCHANGED <<cmVars, caches, rollout>>
        /\ copy \in Copies /\ Remembers(copy.of, copy.obj)
  <2>1. CASE RaiseCurrent \/ RevertLatest
    <3>1. other \in Copies /\ Remembers(other.of, other.obj)
      BY <2>1 DEF RaiseCurrent, RevertLatest, CCMStep, HandlerRemembers
    <3> QED BY <2>1, <3>1, RelabelledRemembers DEF RaiseCurrent, RevertLatest, CCMStep
  <2>2. CASE DropOld \/ UndoDrop \/ RevertCurrent
    <3>1. cur \in Copies /\ Remembers(cur.of, cur.obj)
      BY <2>2 DEF DropOld, UndoDrop, RevertCurrent, CCMStep, HandlerRemembers
    <3> QED BY <2>2, <3>1, RelabelledRemembers DEF DropOld, UndoDrop, RevertCurrent, CCMStep
  <2> QED BY <2>1, <2>2
<1>2. UNCHANGED <<cmVars, cmCache, ccmCache, rollout>>
  BY <1>1 DEF caches
<1>3. CCMsRemembered' /\ Stays /\ NoneGoes /\ Falls
  BY <1>1, <1>2, UpdateCCMRemembers
<1>4. HandlerRemembers' /\ queued' \in BOOLEAN
  <2>1. \/ Done \/ Retry
        \/ RaiseCurrent /\ Onward("dropOld")
        \/ RevertCurrent /\ Onward("revertLatest")
    BY DEF RaiseCurrent, DropOld, UndoDrop, RevertCurrent, RevertLatest, CCMStep
  <2>2. CASE Done \/ Retry
    BY <2>2, IdleRemembers DEF Done, Retry
  <2>3. CASE \/ RaiseCurrent /\ Onward("dropOld")
             \/ RevertCurrent /\ Onward("revertLatest")
    <3>1. UNCHANGED <<queued, locals>> /\ pc' \in {"dropOld", "revertLatest"}
          /\ pc \in {"raiseCurrent", "revertCurrent"}
      BY <2>3 DEF Onward, Goto, RaiseCurrent, RevertCurrent, CCMStep
    <3>2. cur \in Copies /\ Remembers(cur.of, cur.obj) /\ other \in Copies /\ Remembers(other.of, other.obj)
      BY <3>1 DEF HandlerRemembers
    <3>3. ASSUME NEW held \in Copies PROVE Content(held.of)' = Content(held.of)
      BY <1>3 DEF Stays, Copies
    <3>4. Remembers(cur.of, cur.obj)' /\ Remembers(other.of, other.obj)'
      BY <3>1, <3>2, <3>3 DEF Remembers, locals, Content, Exists
    <3> QED BY <3>1, <3>2, <3>4 DEF HandlerRemembers, Locations, locals
  <2> QED BY <2>1, <2>2, <2>3
<1> QED BY <1>2, <1>3, <1>4, CCMCallHarmless

\* Both rollouts: the template gets the version the handler stamped, or stays.
LEMMA RollHarmless ==
  ASSUME Core, UNCHANGED deleted, RollDeployments \/ RollStatefulSets PROVE Harmless
<1> USE DEF Core
<1>1. PICK named \in {my.deployments, my.statefulsets} :
        \/ RollDeployments /\ Roll(named, Onward("rollStatefulSets"))
        \/ RollStatefulSets /\ Roll(named, Done)
  BY DEF RollDeployments, RollStatefulSets
<1>2. /\ pc \in {"rollDeployments", "rollStatefulSets"}
      /\ UNCHANGED <<cmVars, ccmVars, caches>>
  BY DEF RollDeployments, RollStatefulSets
<1>3. my \in CMs /\ my.version \in Versions /\ my.data = Content(my.version)
  BY <1>2 DEF HandlerRemembers
<1>4. CCMsRemembered' /\ Stays /\ NoneGoes
  BY <1>2, SameRemembered DEF caches
<1>5. CMsTyped' /\ RememberedStep
  BY <1>2, <1>4 DEF CMsTyped, cmVars, caches, RememberedStep, RememberedKeeps
<1>6. WorkloadsTyped'
  <2>1. UNCHANGED rollout \/ \E w \in Workloads : Carry(w)
    BY <1>1 DEF Roll
  <2> QED BY <2>1, <1>3 DEF Carry, WorkloadsTyped, rollout
<1>7. Falls
  BY <1>1, SpendFalls, SameFalls DEF Roll
<1>8. HandlerRemembers' /\ queued' \in BOOLEAN
  <2>1. Retry \/ Done \/ Onward("rollStatefulSets")
    BY <1>1 DEF Roll
  <2>2. CASE Retry \/ Done
    BY <2>2, IdleRemembers DEF Retry, Done
  <2>3. CASE Onward("rollStatefulSets")
    <3>1. pc' = "rollStatefulSets" /\ UNCHANGED <<queued, locals>>
      BY <2>3 DEF Onward, Goto
    <3>2. my'.data = Content(my.version)' /\ my' = my
      BY <3>1, <1>2, <1>3 DEF Content, Exists, ccmVars, locals
    <3> QED BY <3>1, <3>2, <1>3 DEF HandlerRemembers, Locations, locals
  <2> QED BY <2>1, <2>2, <2>3
<1> QED BY <1>4, <1>5, <1>6, <1>7, <1>8 DEF Harmless, Falls

\* Panics and crashes.
LEMMA RestartHarmless ==
  ASSUME Core, UNCHANGED deleted, Panics \/ Crash PROVE Harmless
<1> USE DEF Core
<1>1. Restart /\ UNCHANGED rollout
  BY DEF Panics, DropLatestPanics, StampNewPanics, RollPanics, Crash
<1>2. Falls
  BY SpendFalls, SameFalls DEF Panics, DropLatestPanics, StampNewPanics, RollPanics, Crash
<1>3. CMsTyped' /\ CCMsRemembered' /\ Stays /\ NoneGoes /\ queued' \in BOOLEAN
  BY <1>1, RelistedRemembers DEF Restart
<1>4. UNCHANGED cm /\ HandlerRemembers' /\ WorkloadsTyped'
  BY <1>1, IdleRemembers DEF Restart, Relist, WorkloadsTyped, rollout
<1> QED BY <1>2, <1>3, <1>4 DEF Harmless, Falls, RememberedStep, RememberedKeeps

-----------------------------------------------------------------------------
(* The steps of the surroundings.                                          *)

\* An event of the ConfigMap.
LEMMA DeliverCMHarmless ==
  ASSUME Core, UNCHANGED deleted, Deliver(DeliverCM) PROVE Harmless
<1> USE DEF Core
<1>1. /\ cmWatch # <<>> /\ cmWatch \in Seq(CMs)
      /\ cmCache' = Head(cmWatch) /\ cmWatch' = Tail(cmWatch) /\ queued' = TRUE
      /\ UNCHANGED <<cm, ccmVars, ccmCache, rollout, left, pc, locals>>
  BY DEF Deliver, DeliverCM, CMsTyped
<1>2. CCMsRemembered' /\ Stays /\ NoneGoes
  BY <1>1, SameRemembered
<1>3. CMsTyped'
  <2>1. cmWatch[1] \in CMs /\ Head(cmWatch) = cmWatch[1] /\ Tail(cmWatch) \in Seq(CMs)
    BY <1>1, TailElements
  <2> QED BY <1>1, <2>1 DEF CMsTyped
<1>4. HandlerRemembers' /\ WorkloadsTyped' /\ Falls
  BY <1>1, <1>2, HandlerStays, SameFalls DEF WorkloadsTyped, rollout
<1> QED BY <1>1, <1>2, <1>3, <1>4 DEF Harmless, Falls, RememberedStep, RememberedKeeps

\* An event of a CCM, which may be that it was purged.
LEMMA DeliverCCMHarmless ==
  ASSUME Core, UNCHANGED deleted, Deliver(DeliverCCM) PROVE Harmless
<1> USE DEF Core
<1> DEFINE event == Head(ccmWatch)
<1>1. /\ ccmWatch # <<>> /\ ccmWatch \in Seq(Events)
      /\ ccmCache' = [ccmCache EXCEPT ![event.of] = event.obj]
      /\ ccmWatch' = Tail(ccmWatch)
      /\ UNCHANGED <<ccm, cmVars, cmCache, queued, rollout, left, pc, locals>>
  BY DEF Deliver, DeliverCCM, CCMsRemembered
<1>2. Stays /\ NoneGoes
  BY <1>1 DEF Stays, NoneGoes, Content, Exists
<1>3. /\ event = ccmWatch[1] /\ event \in Events /\ 1 \in 1..Len(ccmWatch)
      /\ Tail(ccmWatch) \in Seq(Events)
      /\ \A i \in 1..Len(Tail(ccmWatch)) :
           i + 1 \in 1..Len(ccmWatch) /\ Tail(ccmWatch)[i] = ccmWatch[i + 1]
  BY <1>1, TailElements
<1>4. /\ Remembers(event.of, event.obj) /\ event.of \in Versions
      /\ event.obj \in CCMs \cup {NoCCM}
  BY <1>3 DEF CCMsRemembered, Events
<1> HIDE DEF event
<1>5. CCMsRemembered'
  <2>1. ccmCache' \in [Versions -> CCMs \cup {NoCCM}] /\ ccmWatch' \in Seq(Events)
    BY <1>1, <1>3, <1>4 DEF CCMsRemembered
  <2>2. ASSUME NEW v \in Versions PROVE Remembers(v, ccmCache[v])'
    <3>1. ccmCache'[v] = IF v = event.of THEN event.obj ELSE ccmCache[v]
      BY <1>1 DEF CCMsRemembered
    <3>2. Remembers(v, ccmCache[v])
      BY DEF CCMsRemembered
    <3> QED BY <3>1, <3>2, <1>1, <1>4 DEF Remembers, Content, Exists
  <2>3. ASSUME NEW i \in 1..Len(ccmWatch') PROVE Remembers(ccmWatch[i].of, ccmWatch[i].obj)'
    <3>1. i + 1 \in 1..Len(ccmWatch) /\ ccmWatch'[i] = ccmWatch[i + 1]
      BY <1>1, <1>3
    <3>2. Remembers(ccmWatch[i + 1].of, ccmWatch[i + 1].obj)
      BY <3>1 DEF CCMsRemembered
    <3> QED BY <3>1, <3>2, <1>1 DEF Remembers, Content, Exists
  <2> QED BY <2>1, <2>2, <2>3, <1>1 DEF CCMsRemembered, Exists
<1>6. HandlerRemembers' /\ Falls
  BY <1>1, <1>2, HandlerStays, SameFalls
<1> QED BY <1>1, <1>2, <1>5, <1>6, CCMCallHarmless

\* The ConfigMap is stored by someone else than the reconciler.
LEMMA StoreHarmless ==
  ASSUME Core, UNCHANGED deleted, NEW copy \in CMs, StoreCM(copy),
         UNCHANGED <<ccmVars, caches, queued, pc, locals>>, WorkloadsTyped',
         NEW what \in {"edits", "applies", "pods"}, Spend(what),
         \/ copy.data = cm.data /\ copy.version = cm.version
         \/ copy.version \in Versions /\ copy.data = Content(copy.version)
         \/ copy.version \in {cm.version, NoVersion}
  PROVE  Harmless
<1> USE DEF Core
<1>1. CCMsRemembered' /\ Stays /\ NoneGoes
  BY SameRemembered DEF caches
<1>2. /\ CMsTyped'
      /\ cm' = cm \/ (cm'.data = copy.data /\ cm'.version = copy.version)
  BY StoreCMTyped DEF caches
<1>3. HandlerRemembers' /\ Falls
  BY <1>1, HandlerStays, SpendFalls
<1>4. RememberedStep
  BY <1>1, <1>2 DEF RememberedStep, RememberedKeeps, InstallsRemembered, RememberedEdits, CMs
<1> QED BY <1>1, <1>2, <1>3, <1>4 DEF Harmless, Falls

\* The user, the webhooks and the resync.
LEMMA SurroundingsHarmless ==
  ASSUME Core, UNCHANGED deleted, Surroundings, UNCHANGED <<pc, locals>> PROVE Harmless
<1> USE DEF Core
<1>1. cm \in CMs /\ WorkloadsTyped
  BY DEF CMsTyped
<1>2. CASE Resync
  <2>1. HandlerRemembers'
    <3>1. Stays
      BY <1>2 DEF Resync, Stays, Content, Exists, ccmVars
    <3> QED BY <3>1, HandlerStays
  <2> QED BY <1>2, <2>1, NoCallHarmless DEF Resync
<1>3. ASSUME NEW d \in Data, Edit(d) PROVE Harmless
  <2> DEFINE copy == [cm EXCEPT !.data = d]
  <2>1. copy \in CMs /\ copy.version = cm.version
    BY <1>1 DEF CMs
  <2>2. /\ StoreCM(copy) /\ Spend("edits") /\ WorkloadsTyped'
        /\ UNCHANGED <<ccmVars, caches, queued>>
    BY <1>1, <1>3 DEF Edit, WorkloadsTyped, rollout
  <2> HIDE DEF copy
  <2> QED BY <2>1, <2>2, StoreHarmless
<1>4. ASSUME NEW d \in Data, NEW annotated \in BOOLEAN, Replace(d, annotated) PROVE Harmless
  <2> DEFINE copy == [NoCM EXCEPT !.data = d, !.annotated = annotated, !.rv = cm.rv]
  <2>1. copy \in CMs /\ copy.version = NoVersion
    BY <1>1 DEF CMs, NoCM
  <2>2. /\ StoreCM(copy) /\ Spend("edits") /\ WorkloadsTyped'
        /\ UNCHANGED <<ccmVars, caches, queued>>
    BY <1>1, <1>4 DEF Replace, WorkloadsTyped, rollout
  <2> HIDE DEF copy
  <2> QED BY <2>1, <2>2, StoreHarmless
<1>5. ASSUME NEW w \in Workloads, Apply(w) PROVE Harmless
  <2> DEFINE copy == IF w \in Deployments THEN DeploymentNamed(w) ELSE StatefulSetNamed(w)
  <2>1. copy \in CMs /\ copy.data = cm.data /\ copy.version = cm.version
    BY <1>1 DEF CMs, Workloads, DeploymentNamed, StatefulSetNamed
  <2>2. /\ StoreCM(copy) /\ Spend("applies") /\ UNCHANGED <<ccmVars, caches, queued>>
        /\ template' = [template EXCEPT ![w] = cm.version]
        /\ revisions' = revisions \cup ({cm.version} \ {NoVersion})
    BY <1>5 DEF Apply
  <2>3. WorkloadsTyped'
    BY <1>1, <2>2 DEF WorkloadsTyped, CMs
  <2> HIDE DEF copy
  <2> QED BY <2>1, <2>2, <2>3, StoreHarmless
<1>6. ASSUME NEW v \in Versions, AdmitPod(v) PROVE Harmless
  <2> DEFINE copy == [cm EXCEPT !.version = v, !.data = ccm[v].data]
  <2>1. ccm[v] \in CCMs /\ ccm[v].data = Content(v)
    BY <1>6 DEF CCMsRemembered, AdmitPod, RolledBack, Exists, NoCCM, Content
  <2>2. copy \in CMs /\ copy.version = v /\ copy.data = Content(v)
    BY <1>1, <2>1 DEF CMs, CCMs
  <2>3. /\ StoreCM(copy) /\ Spend("pods") /\ WorkloadsTyped'
        /\ UNCHANGED <<ccmVars, caches, queued>>
    BY <1>1, <1>6 DEF AdmitPod, RolledBack, WorkloadsTyped, rollout
  <2> HIDE DEF copy
  <2> QED BY <2>2, <2>3, StoreHarmless
<1> QED BY <1>2, <1>3, <1>4, <1>5, <1>6 DEF Surroundings, User

\* A ReplicaSet that goes leaves its version alone.
LEMMA TrimHarmless ==
  ASSUME Core, HistoryTold, UNCHANGED deleted,
         NEW w \in Workloads, NEW v \in Versions, Trim(w, v)
  PROVE  Harmless
<1> USE DEF Core
<1>1. CCMsRemembered' /\ Stays /\ NoneGoes
  BY SameRemembered DEF Trim, caches
<1>2. HandlerRemembers' /\ Falls
  BY <1>1, HandlerStays, SameFalls DEF Trim
<1>3. history' \in [Workloads -> SUBSET Versions]
  BY DEF Trim, HistoryTold
<1>4. revisions' \subseteq Versions
  BY <1>3 DEF Trim, OnRevisions
<1>5. UNCHANGED cm /\ CMsTyped' /\ WorkloadsTyped' /\ UNCHANGED queued
  BY <1>4 DEF Trim, CMsTyped, WorkloadsTyped, cmVars, caches
<1> QED BY <1>1, <1>2, <1>5 DEF Harmless, Falls, RememberedStep, RememberedKeeps

\* Whatever the others do.
LEMMA OthersHarmless == ASSUME Core, HistoryTold, Others PROVE Harmless
<1>1. UNCHANGED deleted /\ NamesFresh
  BY DEF Others, NamesFresh
<1>2. CASE Calls
  <2>1. Harmless \/ RollBackMissing \/ NothingToDo
    BY <1>1, <1>2, FirstVersionHarmless, AdoptVersionHarmless, NewVersionHarmless,
       RollBackHarmless, StampHarmless, RelabelHarmless, DropLatestHarmless, CreateNewHarmless,
       RollHarmless DEF Calls
  <2>2. CASE RollBackMissing
    BY <1>1, <2>2, IdleRemembers, NoCallHarmless DEF RollBackMissing, Retry
  <2>3. CASE NothingToDo
    <3>1. HandlerRemembers'
      BY <2>3 DEF Core, NothingToDo, Starts, Begin, HandlerRemembers, Locations, locals
    <3> QED BY <1>1, <2>3, <3>1, NoCallHarmless DEF NothingToDo, Begin
  <2> QED BY <2>1, <2>2, <2>3
<1>3. CASE Panics \/ Crash
  BY <1>1, <1>3, RestartHarmless
<1>4. CASE Deliver(DeliverCM) \/ Deliver(DeliverCCM)
  BY <1>1, <1>4, DeliverCMHarmless, DeliverCCMHarmless
<1>5. CASE Surroundings /\ UNCHANGED <<pc, locals>>
  BY <1>1, <1>5, SurroundingsHarmless
<1>6. CASE \E w \in Workloads, v \in Versions : Trim(w, v)
  BY <1>1, <1>6, TrimHarmless
<1> QED BY <1>2, <1>3, <1>4, <1>5, <1>6 DEF Others

\* At most one template moves, and it moves to a version or to none.
Rolls ==
  \/ UNCHANGED rollout
  \/ \E w \in Workloads, x \in Versions \cup {NoVersion} :
       /\ template' = [template EXCEPT ![w] = x]
       /\ revisions' = revisions \cup ({x} \ {NoVersion})

LEMMA RollRolls ==
  ASSUME HandlerRemembers, RollDeployments \/ RollStatefulSets PROVE Rolls
<1>1. my.version \in Versions /\ my.version # NoVersion
  BY ValuesAssumption DEF HandlerRemembers, RollDeployments, RollStatefulSets
<1>2. UNCHANGED rollout \/ \E w \in Workloads : Carry(w)
  BY DEF RollDeployments, RollStatefulSets, Roll
<1> QED BY <1>1, <1>2 DEF Rolls, Carry

LEMMA OthersRoll ==
  ASSUME Core, Others PROVE Rolls \/ \E w \in Workloads, v \in Versions : Trim(w, v)
<1> USE DEF Rolls
<1>1. CASE Calls
  <2>1. CASE RollDeployments \/ RollStatefulSets
    BY <2>1, RollRolls DEF Core
  <2>2. CASE FirstVersion \/ AdoptVersion \/ NewVersion \/ RollBack \/ RollBackMissing
             \/ NothingToDo \/ DropLatest \/ CreateNew
    BY <2>2 DEF FirstVersion, AdoptVersion, NewVersion, RollBack, RollBackMissing, NothingToDo,
                DropLatest, CreateNew
  <2>3. CASE StampFirst \/ RaiseCurrent \/ DropOld \/ UndoDrop \/ RevertCurrent
             \/ RevertLatest \/ StampNew
    BY <2>3 DEF StampFirst, RaiseCurrent, DropOld, UndoDrop, RevertCurrent, RevertLatest,
                StampNew, CMStep, CCMStep
  <2> QED BY <1>1, <2>1, <2>2, <2>3 DEF Calls
<1>2. CASE Panics \/ Crash
  BY <1>2 DEF Panics, DropLatestPanics, StampNewPanics, RollPanics, Crash, rollout
<1>3. CASE Deliver(DeliverCM) \/ Deliver(DeliverCCM)
  BY <1>3 DEF Deliver, DeliverCM, DeliverCCM
<1>4. CASE Surroundings
  <2>1. CASE \E w \in Workloads : Apply(w)
    <3>1. PICK w \in Workloads : Apply(w)
      BY <2>1
    <3>2. cm.version \in Versions \cup {NoVersion}
      BY DEF Core, CMsTyped, CMs
    <3> QED BY <3>1, <3>2 DEF Apply
  <2>2. CASE Resync \/ User \/ \E v \in Versions : AdmitPod(v)
    BY <2>2 DEF Resync, User, Edit, Replace, AdmitPod
  <2> QED BY <1>4, <2>1, <2>2 DEF Surroundings
<1> QED BY <1>1, <1>2, <1>3, <1>4 DEF Others

\* A rollout is told as the workload's.
LEMMA CarriedTold ==
  ASSUME WorkloadsTyped, HistoryTold, Rolls, Carried
  PROVE  HistoryTold' /\ \A w \in Workloads : history[w] \subseteq history'[w]
<1>1. /\ history \in [Workloads -> SUBSET Versions]
      /\ history' = [w \in Workloads |-> history[w] \cup ({template'[w]} \cap Versions)]
  BY DEF HistoryTold, Carried
<1>2. /\ history' \in [Workloads -> SUBSET Versions]
      /\ \A w \in Workloads : history'[w] = history[w] \cup ({template'[w]} \cap Versions)
  BY <1>1
<1>3. CASE UNCHANGED rollout
  <2>1. \A w \in Workloads : history'[w] = history[w]
    BY <1>1, <1>2, <1>3 DEF HistoryTold, rollout
  <2> QED BY <1>2, <1>3, <2>1 DEF HistoryTold, rollout
<1>4. CASE \E w \in Workloads, x \in Versions \cup {NoVersion} :
             /\ template' = [template EXCEPT ![w] = x]
             /\ revisions' = revisions \cup ({x} \ {NoVersion})
  <2>1. PICK w \in Workloads, x \in Versions \cup {NoVersion} :
          /\ template' = [template EXCEPT ![w] = x]
          /\ revisions' = revisions \cup ({x} \ {NoVersion})
    BY <1>4
  <2>2. /\ x # Absent /\ {x} \cap Versions = {x} \ {NoVersion}
    BY <2>1, ValuesAssumption
  <2>8. /\ template'[w] = x
        /\ \A y \in Workloads \ {w} : template'[y] = template[y]
    BY <2>1 DEF WorkloadsTyped
  <2>3. /\ history'[w] = history[w] \cup ({x} \ {NoVersion})
        /\ \A y \in Workloads \ {w} : history'[y] = history[y]
    <3>1. history'[w] = history[w] \cup ({x} \ {NoVersion})
      BY <1>2, <2>2, <2>8
    <3>2. ASSUME NEW y \in Workloads \ {w} PROVE history'[y] = history[y]
      <4>1. template[y] \in Versions => template[y] \in history[y]
        BY DEF HistoryTold
      <4>2. {template'[y]} \cap Versions \subseteq history[y]
        BY <2>8, <4>1
      <4>3. history'[y] = history[y] \cup ({template'[y]} \cap Versions)
        BY <1>2
      <4> QED BY <4>2, <4>3
    <3> QED BY <3>1, <3>2
  <2>4. \A v : (\E y \in Workloads : v \in history'[y])
                 <=> (\E y \in Workloads : v \in history[y]) \/ v \in {x} \ {NoVersion}
    BY <2>1, <2>3
  <2>5. revisions' = OnRevisions(history')
    <3>1. revisions = OnRevisions(history)
      BY DEF HistoryTold
    <3> QED BY <2>1, <2>4, <3>1 DEF OnRevisions
  <2>6. \A y \in Workloads : template'[y] \in Versions => template'[y] \in history'[y]
    BY <1>2
  <2>7. \A y \in Workloads : history'[y] # {} => template'[y] # Absent
    BY <2>2, <2>3, <2>8 DEF HistoryTold
  <2> QED BY <1>2, <2>5, <2>6, <2>7 DEF HistoryTold
<1> QED BY <1>3, <1>4 DEF Rolls

\* The others tell whose revisions there are.
LEMMA OthersTold == ASSUME Core, HistoryTold, Others PROVE HistoryTold'
<1>1. CASE Carried /\ Rolls
  BY <1>1, CarriedTold DEF Core
<1>2. CASE \E w \in Workloads, v \in Versions : Trim(w, v)
  <2>1. PICK w \in Workloads, v \in Versions : Trim(w, v)
    BY <1>2
  <2>2. /\ template' = template /\ template[w] # v
        /\ history' = [history EXCEPT ![w] = @ \ {v}]
        /\ revisions' = OnRevisions(history')
    BY <2>1 DEF Trim
  <2>3. /\ history' \in [Workloads -> SUBSET Versions]
        /\ \A x \in Workloads : history'[x] \subseteq history[x]
        /\ \A x \in Workloads : template[x] \in history[x] => template[x] \in history'[x]
    BY <2>2 DEF HistoryTold
  <2> QED BY <2>2, <2>3 DEF HistoryTold
<1>3. (Carried /\ Rolls) \/ \E w \in Workloads, v \in Versions : Trim(w, v)
  BY OthersRoll DEF Others
<1> QED BY <1>1, <1>2, <1>3

-----------------------------------------------------------------------------
(* The job.                                                                *)

\* The others leave what the job knows.
LEMMA OthersJob == ASSUME PurgeInv, Others PROVE JobKnows'
<1> USE DEF PurgeInv
<1>1. NoneGoes /\ Falls /\ HistoryTold'
  BY OthersHarmless, OthersTold DEF Harmless
<1>2. left'.faults <= MaxFaults /\ (left'.faults = MaxFaults => left.faults = MaxFaults)
  BY <1>1, BoundsAssumption DEF Falls, JobKnows, JobTyped, JobSees, BeganTold, NotMissed, Core, Budgets
<1>3. /\ began' = [w \in Workloads |-> began[w] \cap history'[w]]
      /\ job' = job \/ job' = NoJob
  BY DEF Others
<1>4. /\ began' \in [Workloads -> SUBSET Versions]
      /\ \A w \in Workloads : began'[w] \subseteq history'[w] /\ began'[w] \subseteq began[w]
  BY <1>3 DEF JobKnows, JobTyped, JobSees, BeganTold, NotMissed
<1>5. CASE job' = NoJob
  BY <1>2, <1>4, <1>5 DEF JobKnows, JobTyped, JobSees, BeganTold, NotMissed, NoJob, Searched
<1>6. CASE job' = job
  <2>1. \A v \in job'.todo : v \in Versions /\ Exists(v)'
    BY <1>1, <1>6 DEF JobKnows, JobTyped, JobSees, BeganTold, NotMissed, NoneGoes
  <2>2. job'.at \notin {"idle", "next"}
          => job'.ccm \in Versions /\ (Exists(job.ccm))' /\ job'.ccm \notin job'.todo
    BY <1>1, <1>6 DEF JobKnows, JobTyped, JobSees, BeganTold, NotMissed, NoneGoes, Exists
  <2>3. Searched' = Searched /\ Searched \subseteq Workloads
    BY <1>6 DEF Searched, Workloads
  <2> QED BY <1>2, <1>4, <1>6, <2>1, <2>2, <2>3 DEF JobKnows, JobTyped, JobSees, BeganTold, NotMissed
<1> QED BY <1>3, <1>5, <1>6

\* A call of the job that deletes nothing.
LEMMA JobCallCore ==
  ASSUME Core, UNCHANGED <<cmVars, ccmVars, caches, queued, rollout, pc, locals, deleted>>,
         UNCHANGED left \/ Spend("faults")
  PROVE  Harmless
<1> USE DEF Core
<1>1. CCMsRemembered' /\ Stays /\ NoneGoes
  BY SameRemembered DEF caches
<1>2. HandlerRemembers' /\ Falls
  BY <1>1, HandlerStays, SameFalls, SpendFalls
<1>3. UNCHANGED <<cmVars, cmCache, rollout>> /\ queued' \in BOOLEAN
  BY DEF caches
<1> QED BY <1>1, <1>2, <1>3, CCMCallHarmless

\* A call that fails is counted.
LEMMA Counted ==
  ASSUME left \in Budgets, left.faults <= MaxFaults, Spend("faults")
  PROVE  left'.faults <= MaxFaults /\ left'.faults # MaxFaults
BY BoundsAssumption DEF Spend, Budgets

\* What comes of a list of the workloads of a kind: those that have revisions are on it,
\* unless the call failed.
LEMMA ListedWorkloads ==
  ASSUME HistoryTold, JobKnows, NEW kind \in SUBSET Workloads, NEW next,
         next \in [at : {"replicaSets", "controllerRevisions"}, todo : SUBSET Versions,
                   ccm : Versions, lists : SUBSET Workloads, checkConfig : BOOLEAN],
         ListWorkloads(kind, next)
  PROVE  /\ job'.lists \subseteq kind
         /\ job'.at = next.at /\ job'.todo = next.todo /\ job'.ccm = next.ccm
         /\ job'.checkConfig = next.checkConfig
         /\ job' \in [at : {"replicaSets", "controllerRevisions"}, todo : SUBSET Versions,
                      ccm : Versions, lists : SUBSET Workloads, checkConfig : BOOLEAN]
         /\ \/ Spend("faults")
            \/ UNCHANGED left /\ \A w \in kind \ job'.lists : began[w] = {}
<1>1. \A w \in kind : template[w] = Absent => began[w] = {}
  BY DEF HistoryTold, JobKnows, JobTyped, JobSees, BeganTold, NotMissed
<1>2. PICK listed \in SUBSET kind :
        /\ job' = [next EXCEPT !.lists = listed]
        /\ \/ Spend("faults")
           \/ UNCHANGED left /\ listed = {w \in kind : template[w] # Absent}
  BY DEF ListWorkloads
<1>3. /\ job' \in [at : {"replicaSets", "controllerRevisions"}, todo : SUBSET Versions,
                   ccm : Versions, lists : SUBSET Workloads, checkConfig : BOOLEAN]
      /\ job'.at = next.at /\ job'.todo = next.todo /\ job'.ccm = next.ccm
      /\ job'.checkConfig = next.checkConfig /\ job'.lists = listed
  BY <1>2
<1> QED BY <1>1, <1>2, <1>3

\* The lists and the reads of the job.
LEMMA ReadsKeep ==
  ASSUME PurgeInv,
         \/ PurgeList \/ PurgeDone \/ PurgeDeployments \/ PurgeRevisions \/ PurgeStatefulSets
         \/ PurgeGet
  PROVE  JobKnows' /\ HistoryTold' /\ Harmless
<1> USE DEF PurgeInv
<1>1. /\ UNCHANGED <<cmVars, ccmVars, caches, queued, rollout, pc, locals, deleted, history>>
      /\ UNCHANGED left \/ Spend("faults")
  BY DEF PurgeList, PurgeDone, PurgeDeployments, PurgeRevisions, PurgeStatefulSets, PurgeGet,
         ListWorkloads, JobReads, NotTheJobs, vars, clusterVars
<1>2. Harmless
  BY <1>1, JobCallCore
<1>3. UNCHANGED <<ccm, revisions, template, history>> /\ left \in Budgets
  BY <1>1 DEF ccmVars, rollout, Core
<1>4. HistoryTold'
  BY <1>3 DEF HistoryTold
<1>5. UNCHANGED left => left'.faults <= MaxFaults
  BY DEF JobKnows, JobTyped, JobSees, BeganTold, NotMissed
<1>6. Spend("faults") => left'.faults <= MaxFaults /\ left'.faults # MaxFaults
  BY <1>3, Counted DEF JobKnows, JobTyped, JobSees, BeganTold, NotMissed
<1>7. /\ \A v \in job.todo : Exists(v) /\ v \in Versions
      /\ history' = history /\ ccm' = ccm
      /\ began \in [Workloads -> SUBSET Versions] /\ history \in [Workloads -> SUBSET Versions]
      /\ \A w \in Workloads : began[w] \subseteq history[w]
  BY <1>3 DEF JobKnows, JobTyped, JobSees, BeganTold, NotMissed, HistoryTold
<1>8. CASE PurgeList
  <2>1. /\ job' = [NoJob EXCEPT !.at = "next", !.todo = {v \in Versions : Exists(v)}]
        /\ began' = history /\ UNCHANGED left
    BY <1>8 DEF PurgeList, vars, clusterVars
  <2>2. /\ job' = [at |-> "next", todo |-> {v \in Versions : Exists(v)}, ccm |-> NoVersion,
                   lists |-> {}, checkConfig |-> FALSE]
    BY <2>1 DEF NoJob
  <2>3. Searched' = {} /\ job'.at = "next"
    BY <2>2 DEF Searched
  <2>21. JobTyped'
    BY <2>2 DEF JobTyped
  <2>22. JobSees'
    BY <1>7, <2>2 DEF JobSees, Exists
  <2>23. BeganTold'
    BY <1>7, <2>1 DEF BeganTold
  <2>24. NotMissed'
    BY <1>5, <2>1, <2>3 DEF NotMissed
  <2> QED BY <1>2, <1>4, <2>21, <2>22, <2>23, <2>24 DEF JobKnows
<1>9. CASE PurgeDone
  <2>1. /\ job' = [at |-> "idle", todo |-> {}, ccm |-> NoVersion, lists |-> {},
                   checkConfig |-> FALSE]
        /\ UNCHANGED <<left, began>>
    BY <1>9 DEF PurgeDone, NoJob, vars, clusterVars
  <2>2. Searched' = {} /\ job'.at = "idle"
    BY <2>1 DEF Searched
  <2>21. JobTyped'
    BY <2>1 DEF JobTyped
  <2>22. JobSees'
    BY <2>1 DEF JobSees, Exists
  <2>23. BeganTold'
    BY <1>7, <2>1 DEF BeganTold
  <2>24. NotMissed'
    BY <1>5, <2>1, <2>2 DEF NotMissed
  <2> QED BY <1>2, <1>4, <2>21, <2>22, <2>23, <2>24 DEF JobKnows
<1>10. CASE PurgeDeployments
  <2>1. PICK v \in job.todo :
          ListWorkloads(Deployments, [NoJob EXCEPT !.at = "replicaSets",
                                                   !.todo = job.todo \ {v}, !.ccm = v])
    BY <1>10 DEF PurgeDeployments
  <2> DEFINE next == [NoJob EXCEPT !.at = "replicaSets", !.todo = job.todo \ {v}, !.ccm = v]
  <2>2. v \in Versions /\ Exists(v) /\ UNCHANGED began /\ job.todo \in SUBSET Versions
    BY <1>10, <1>7 DEF PurgeDeployments, JobReads, NotTheJobs
  <2>3. /\ next \in [at : {"replicaSets", "controllerRevisions"}, todo : SUBSET Versions,
                     ccm : Versions, lists : SUBSET Workloads, checkConfig : BOOLEAN]
        /\ next.at = "replicaSets" /\ next.todo = job.todo \ {v} /\ next.ccm = v
    BY <2>2 DEF NoJob
  <2>4. Deployments \in SUBSET Workloads
    BY DEF Workloads
  <2>5. ListWorkloads(Deployments, next)
    BY <2>1
  <2> HIDE DEF next
  <2>6. /\ job'.lists \subseteq Deployments
        /\ job'.at = "replicaSets" /\ job'.todo = job.todo \ {v} /\ job'.ccm = v
        /\ job' \in [at : {"replicaSets", "controllerRevisions"}, todo : SUBSET Versions,
                     ccm : Versions, lists : SUBSET Workloads, checkConfig : BOOLEAN]
        /\ \/ Spend("faults")
           \/ UNCHANGED left /\ \A w \in Deployments \ job'.lists : began[w] = {}
    BY <2>3, <2>4, <2>5, ListedWorkloads, SMTT(30)
  <2>7. Searched' = Deployments \ job'.lists
    BY <2>6 DEF Searched
  <2>8. left'.faults = MaxFaults => \A w \in Searched' : job'.ccm \notin began'[w]
    BY <1>6, <2>2, <2>6, <2>7
  <2>9. left'.faults <= MaxFaults
    BY <1>5, <1>6, <2>6
  <2>21. JobTyped'
    BY <2>6 DEF JobTyped
  <2>22. JobSees'
    BY <1>7, <2>2, <2>6 DEF JobSees, Exists
  <2>23. BeganTold'
    BY <1>7, <2>2 DEF BeganTold
  <2>24. NotMissed'
    BY <2>8, <2>9 DEF NotMissed
  <2> QED BY <1>2, <1>4, <2>21, <2>22, <2>23, <2>24 DEF JobKnows
<1>11. CASE PurgeStatefulSets
  <2> DEFINE next == [job EXCEPT !.at = "controllerRevisions"]
  <2>1. /\ job.at = "replicaSets" /\ job.lists = {} /\ UNCHANGED began
        /\ ListWorkloads(StatefulSets, next)
    BY <1>11 DEF PurgeStatefulSets, JobReads, NotTheJobs
  <2>2. job.ccm \in Versions /\ Exists(job.ccm) /\ job.ccm \notin job.todo
    BY <2>1 DEF JobKnows, JobTyped, JobSees, BeganTold, NotMissed
  <2>3. /\ next \in [at : {"replicaSets", "controllerRevisions"}, todo : SUBSET Versions,
                     ccm : Versions, lists : SUBSET Workloads, checkConfig : BOOLEAN]
        /\ next.at = "controllerRevisions" /\ next.todo = job.todo /\ next.ccm = job.ccm
        /\ next.checkConfig = job.checkConfig
    BY <2>1, <2>2 DEF JobKnows, JobTyped, JobSees, BeganTold, NotMissed
  <2>4. StatefulSets \in SUBSET Workloads
    BY DEF Workloads
  <2> HIDE DEF next
  <2>5. /\ job'.lists \subseteq StatefulSets
        /\ job'.at = "controllerRevisions" /\ job'.todo = job.todo /\ job'.ccm = job.ccm
        /\ job'.checkConfig = job.checkConfig
        /\ job' \in [at : {"replicaSets", "controllerRevisions"}, todo : SUBSET Versions,
                     ccm : Versions, lists : SUBSET Workloads, checkConfig : BOOLEAN]
        /\ \/ Spend("faults")
           \/ UNCHANGED left /\ \A w \in StatefulSets \ job'.lists : began[w] = {}
    BY <2>1, <2>3, <2>4, ListedWorkloads
  <2>6. Searched = Deployments /\ Searched' = Workloads \ job'.lists
    BY <2>1, <2>5 DEF Searched
  <2>7. left.faults = MaxFaults => job.checkConfig \/ \A w \in Deployments : job.ccm \notin began[w]
    BY <2>6 DEF JobKnows, JobTyped, JobSees, BeganTold, NotMissed
  <2>8. left'.faults = MaxFaults
          => job'.checkConfig \/ \A w \in Searched' : job'.ccm \notin began'[w]
    <3>1. CASE Spend("faults")
      BY <1>6, <3>1
    <3>2. CASE UNCHANGED left /\ \A w \in StatefulSets \ job'.lists : began[w] = {}
      <4>1. \A w \in Searched' : w \in Deployments \/ began[w] = {}
        BY <2>6, <3>2 DEF Workloads
      <4> QED BY <2>1, <2>5, <2>7, <3>2, <4>1
    <3> QED BY <2>5, <3>1, <3>2
  <2>9. left'.faults <= MaxFaults
    BY <1>5, <1>6, <2>5
  <2>21. JobTyped'
    BY <2>5 DEF JobTyped
  <2>22. JobSees'
    BY <1>7, <2>2, <2>5 DEF JobSees, Exists
  <2>23. BeganTold'
    BY <1>7, <2>1 DEF BeganTold
  <2>24. NotMissed'
    BY <2>8, <2>9 DEF NotMissed
  <2> QED BY <1>2, <1>4, <2>21, <2>22, <2>23, <2>24 DEF JobKnows
<1>12. CASE PurgeRevisions
  <2>1. PICK w \in job.lists :
          \/ /\ job' = [job EXCEPT !.lists = @ \ {w},
                                   !.checkConfig = @ \/ job.ccm \in history[w]]
             /\ UNCHANGED left
          \/ job' = [job EXCEPT !.lists = @ \ {w}] /\ Spend("faults")
    BY <1>12 DEF PurgeRevisions
  <2>2. /\ job.at \in {"replicaSets", "controllerRevisions"} /\ UNCHANGED began
        /\ w \in Workloads
    BY <1>12 DEF PurgeRevisions, JobReads, NotTheJobs, JobKnows, JobTyped, JobSees, BeganTold, NotMissed
  <2>3. job.ccm \in Versions /\ Exists(job.ccm) /\ job.ccm \notin job.todo
    BY <2>2 DEF JobKnows, JobTyped, JobSees, BeganTold, NotMissed
  <2>4. /\ job' \in [at : {"replicaSets", "controllerRevisions"}, todo : SUBSET Versions,
                     ccm : Versions, lists : SUBSET Workloads, checkConfig : BOOLEAN]
        /\ job'.at = job.at /\ job'.lists = job.lists \ {w} /\ job'.todo = job.todo
        /\ job'.ccm = job.ccm
        /\ \/ UNCHANGED left /\ job'.checkConfig = (job.checkConfig \/ job.ccm \in history[w])
           \/ Spend("faults")
    BY <2>1, <2>2, <2>3 DEF JobKnows, JobTyped, JobSees, BeganTold, NotMissed
  <2>5. Searched' \subseteq Searched \cup {w}
    BY <2>2, <2>4 DEF Searched
  <2>6. left.faults = MaxFaults => job.checkConfig \/ \A x \in Searched : job.ccm \notin began[x]
    BY DEF JobKnows, JobTyped, JobSees, BeganTold, NotMissed
  <2>7. left'.faults = MaxFaults
          => job'.checkConfig \/ \A x \in Searched' : job'.ccm \notin began'[x]
    <3>1. CASE Spend("faults")
      BY <1>6, <3>1
    <3>2. CASE UNCHANGED left /\ job'.checkConfig = (job.checkConfig \/ job.ccm \in history[w])
      <4>1. job.checkConfig \/ job.ccm \in history[w] \/ job.ccm \notin began[w]
        BY <1>7, <2>2
      <4> QED BY <2>2, <2>4, <2>5, <2>6, <3>2, <4>1
    <3> QED BY <2>4, <3>1, <3>2
  <2>8. job'.at = "controllerRevisions" => job'.lists \subseteq StatefulSets
    BY <2>4 DEF JobKnows, JobTyped, JobSees, BeganTold, NotMissed
  <2>9. left'.faults <= MaxFaults
    BY <1>5, <1>6, <2>4
  <2>21. JobTyped'
    BY <2>4, <2>8, <2>2 DEF JobTyped
  <2>22. JobSees'
    BY <1>7, <2>3, <2>4 DEF JobSees, Exists
  <2>23. BeganTold'
    BY <1>7, <2>2 DEF BeganTold
  <2>24. NotMissed'
    BY <2>7, <2>9 DEF NotMissed
  <2> QED BY <1>2, <1>4, <2>21, <2>22, <2>23, <2>24 DEF JobKnows
<1>13. CASE PurgeGet
  <2>1. /\ job.at = "controllerRevisions" /\ job.lists = {} /\ UNCHANGED began
        /\ \/ UNCHANGED left /\ ~job.checkConfig /\ job' = [job EXCEPT !.at = "delete"]
           \/ (UNCHANGED left \/ Spend("faults")) /\ job' = [job EXCEPT !.at = "next"]
    BY <1>13 DEF PurgeGet, JobReads, NotTheJobs
  <2>2. /\ job.ccm \in Versions /\ Exists(job.ccm) /\ job.ccm \notin job.todo
        /\ Searched = Workloads
        /\ left.faults = MaxFaults => job.checkConfig \/ \A x \in Searched : job.ccm \notin began[x]
    BY <2>1 DEF JobKnows, JobTyped, JobSees, BeganTold, NotMissed, Searched
  <2>3. /\ job' \in [at : {"idle", "next", "replicaSets", "controllerRevisions", "delete"},
                     todo : SUBSET Versions, ccm : Versions \cup {NoVersion},
                     lists : SUBSET Workloads, checkConfig : BOOLEAN]
        /\ job'.todo = job.todo /\ job'.ccm = job.ccm
        /\ job'.checkConfig = job.checkConfig /\ job'.at \in {"delete", "next"}
    BY <2>1 DEF JobKnows, JobTyped, JobSees, BeganTold, NotMissed
  <2>4. left'.faults <= MaxFaults
    BY <1>5, <1>6, <2>1
  <2>5. CASE job'.at = "delete"
    <3>1. Searched' = Workloads /\ UNCHANGED left /\ ~job.checkConfig
      BY <2>1, <2>5 DEF Searched, JobKnows, JobTyped, JobSees, BeganTold, NotMissed
    <3>21. JobTyped'
      BY <2>1, <2>3, <2>5, <3>1 DEF JobTyped
    <3>22. JobSees'
      BY <1>7, <2>2, <2>3 DEF JobSees, Exists
    <3>23. BeganTold'
      BY <1>7, <2>1 DEF BeganTold
    <3>24. NotMissed'
      BY <2>1, <2>2, <2>3, <2>4, <3>1 DEF NotMissed
    <3> QED BY <1>2, <1>4, <3>21, <3>22, <3>23, <3>24 DEF JobKnows
  <2>6. CASE job'.at = "next"
    <3>1. Searched' = {}
      BY <2>6 DEF Searched
    <3>21. JobTyped'
      BY <2>3, <2>6 DEF JobTyped
    <3>22. JobSees'
      BY <1>7, <2>3, <2>6 DEF JobSees, Exists
    <3>23. BeganTold'
      BY <1>7, <2>1 DEF BeganTold
    <3>24. NotMissed'
      BY <2>4, <3>1 DEF NotMissed
    <3> QED BY <1>2, <1>4, <3>21, <3>22, <3>23, <3>24 DEF JobKnows
  <2> QED BY <2>3, <2>5, <2>6
<1> QED BY <1>2, <1>4, <1>8, <1>9, <1>10, <1>11, <1>12, <1>13

\* The deletion: the version goes, its content is remembered, and no other version and no
\* copy is touched.
Spared == \A w \in Workloads : \A v \in began[w] : Exists(v) => Exists(v)'

LEMMA DeleteStep ==
  ASSUME PurgeInv, PurgeDelete
  PROVE  /\ PurgeInv' /\ RememberedKeeps /\ Stays
         /\ left'.faults = MaxFaults => left.faults = MaxFaults
         /\ left.faults = MaxFaults => Spared
<1> USE DEF PurgeInv
<1>1. /\ job.at = "delete" /\ job' = [job EXCEPT !.at = "next"]
      /\ UNCHANGED <<cmVars, caches, queued, rollout, pc, locals, history, began>>
      /\ \/ DeleteCCM(job.ccm) /\ UNCHANGED left
         \/ UNCHANGED <<ccmVars, deleted>> /\ Spend("faults")
  BY DEF PurgeDelete, NotTheJobs
<1>2. /\ job.ccm \in Versions /\ Exists(job.ccm) /\ job.ccm \notin job.todo
      /\ left.faults = MaxFaults => \A w \in Workloads : job.ccm \notin began[w]
  BY <1>1 DEF JobKnows, JobTyped, JobSees, BeganTold, NotMissed, Searched
<1>0. HistoryTold' /\ job'.at = "next" /\ Searched' = {}
  BY <1>1 DEF HistoryTold, JobKnows, JobTyped, JobSees, BeganTold, NotMissed, Searched, rollout
<1>3. CASE UNCHANGED <<ccmVars, deleted>> /\ Spend("faults")
  <2>1. Harmless
    BY <1>1, <1>3, JobCallCore
  <2>2. left'.faults <= MaxFaults /\ left'.faults # MaxFaults
    BY <1>3, Counted DEF JobKnows, JobTyped, JobSees, BeganTold, NotMissed, Core
  <2>3. JobKnows'
    BY <1>0, <1>1, <1>3, <2>2 DEF JobKnows, JobTyped, JobSees, BeganTold, NotMissed, Exists, ccmVars
  <2>4. RememberedKeeps /\ Stays
    BY <1>1, <1>3 DEF RememberedKeeps, Stays, Content, Exists, cmVars, ccmVars
  <2>5. Spared
    BY <2>1 DEF Harmless, NoneGoes, JobKnows, JobTyped, JobSees, BeganTold, NotMissed, Spared
  <2> QED BY <1>0, <2>1, <2>2, <2>3, <2>4, <2>5 DEF Harmless
<1>4. CASE DeleteCCM(job.ccm) /\ UNCHANGED left
  <2>0. PICK gone \in Versions : gone = job.ccm
    BY <1>2
  <2> DEFINE event == [of |-> gone, obj |-> NoCCM]
  <2>1. /\ ccm \in [Versions -> CCMs \cup {NoCCM}] /\ ccmWatch \in Seq(Events)
        /\ deleted \in [Versions -> Data \cup {NoData}]
    BY DEF Core, CCMsRemembered
  <2>2. /\ ccm' = [ccm EXCEPT ![gone] = NoCCM]
        /\ deleted' = [deleted EXCEPT ![gone] = ccm[gone].data]
        /\ ccmWatch' = Append(ccmWatch, event)
    BY <1>4, <2>0 DEF DeleteCCM
  <2>3. ccm[gone] \in CCMs
    BY <1>2, <2>0, <2>1 DEF Exists, NoCCM
  <2>4. /\ ccm'[gone].rv = 0 /\ ccm[gone].rv > 0 /\ ~Exists(gone)'
        /\ \A v \in Versions \ {gone} : ccm'[v] = ccm[v] /\ deleted'[v] = deleted[v]
        /\ deleted'[gone] = ccm[gone].data
    BY <1>2, <2>0, <2>1, <2>2 DEF Exists, NoCCM
  <2>5. /\ ccm' \in [Versions -> CCMs \cup {NoCCM}]
        /\ deleted' \in [Versions -> Data \cup {NoData}]
    BY <2>0, <2>1, <2>2, <2>3 DEF CCMs
  <2>6. Stays
    BY <2>4 DEF Stays, Content, Exists
  <2>7. event \in Events /\ event.obj = NoCCM
    BY <2>0 DEF Events
  <2> HIDE DEF event
  <2>8. /\ ccmWatch' \in Seq(Events)
        /\ Len(ccmWatch') = Len(ccmWatch) + 1
        /\ \A i \in 1..Len(ccmWatch) : ccmWatch'[i] = ccmWatch[i]
        /\ ccmWatch'[Len(ccmWatch) + 1] = event
    BY <2>1, <2>2, <2>7, AppendElements
  <2>9. ASSUME NEW v \in Versions PROVE Remembers(v, ccmCache[v])'
    <3>1. Remembers(v, ccmCache[v]) /\ UNCHANGED ccmCache
      BY <1>1 DEF Core, CCMsRemembered, caches
    <3> QED BY <3>1, <2>6 DEF Remembers, Stays
  <2>10. ASSUME NEW i \in 1..Len(ccmWatch')
         PROVE  Remembers(ccmWatch[i].of, ccmWatch[i].obj)'
    <3>1. CASE i \in 1..Len(ccmWatch)
      <4>1. ccmWatch[i] \in Events /\ Remembers(ccmWatch[i].of, ccmWatch[i].obj)
        BY <3>1, <2>1 DEF Core, CCMsRemembered
      <4>2. ccmWatch[i].of \in Versions /\ ccmWatch[i].obj \in CCMs \cup {NoCCM}
        BY <4>1 DEF Events
      <4> QED BY <3>1, <4>1, <4>2, <2>8, <2>6, RemembersStays DEF Remembers
    <3>2. CASE i = Len(ccmWatch) + 1
      BY <3>2, <2>7, <2>8 DEF Remembers
    <3> QED BY <3>1, <3>2, <2>1, <2>8
  <2>11. CCMsRemembered'
    <3>1. \A v \in Versions : Exists(v)' => deleted'[v] = NoData
      <4>1. \A v \in Versions : ccm[v].rv > 0 => deleted[v] = NoData
        BY DEF Core, CCMsRemembered, Exists
      <4> QED BY <2>4, <4>1 DEF Exists
    <3>2. ccmCache' \in [Versions -> CCMs \cup {NoCCM}]
      BY <1>1 DEF Core, CCMsRemembered, caches
    <3> QED BY <2>5, <2>8, <2>9, <2>10, <3>1, <3>2 DEF CCMsRemembered
  <2>12. HandlerRemembers'
    BY <1>1, <2>6, HandlerStays DEF Core
  <2>13. CMsTyped' /\ WorkloadsTyped' /\ RememberedKeeps
    BY <1>1 DEF Core, CMsTyped, WorkloadsTyped, RememberedKeeps, cmVars, caches, rollout
  <2>14. JobKnows'
    <3>1. \A v \in job.todo : v \in Versions /\ v # gone /\ Exists(v)
      BY <1>2, <2>0 DEF JobKnows, JobTyped, JobSees, BeganTold, NotMissed
    <3> QED BY <1>0, <1>1, <1>4, <2>4, <3>1 DEF JobKnows, JobTyped, JobSees, BeganTold, NotMissed, Exists
  <2>15. left.faults = MaxFaults => Spared
    <3>1. \A w \in Workloads : began[w] \subseteq Versions
      BY DEF JobKnows, JobTyped, JobSees, BeganTold, NotMissed
    <3> QED BY <3>1, <1>2, <2>0, <2>4 DEF Exists, Spared
  <2> QED BY <1>0, <1>1, <1>4, <2>6, <2>11, <2>12, <2>13, <2>14, <2>15 DEF Core
<1> QED BY <1>1, <1>3, <1>4

-----------------------------------------------------------------------------
(* The theorems.                                                           *)

\* Nothing is versioned at first, and nothing purged.
LEMMA PurgeInitInv == PurgeInit => PurgeInv
<1> SUFFICES ASSUME PurgeInit PROVE PurgeInv
  OBVIOUS
<1>1. CMsTyped /\ WorkloadsTyped
  BY DEF PurgeInit, Init, ClusterInit, CMsTyped, CMs, WorkloadsTyped
<1>2. CCMsRemembered
  BY DEF PurgeInit, Init, ClusterInit, CCMsRemembered, Remembers
<1>3. HandlerRemembers
  BY DEF PurgeInit, Init, HandlerRemembers, Locations
<1>4. queued \in BOOLEAN /\ left \in Budgets /\ left.faults = MaxFaults
  BY BoundsAssumption DEF PurgeInit, Init, ClusterInit, Budgets
<1>5. JobKnows
  BY <1>4, BoundsAssumption DEF PurgeInit, JobKnows, JobTyped, JobSees, BeganTold, NotMissed, NoJob, Searched
<1>6. HistoryTold
  BY ValuesAssumption DEF PurgeInit, Init, ClusterInit, HistoryTold, OnRevisions
<1> QED BY <1>1, <1>2, <1>3, <1>4, <1>5, <1>6 DEF PurgeInv, Core

\* What PurgeSparesRevisions says of a step.
Spares == left.faults = MaxFaults => Spared

\* Every step keeps the invariant, does to the version store what it may do, and spares
\* what the revisions carry.
LEMMA PurgeNextInv == PurgeInv /\ [PurgeNext]_allVars => PurgeInv' /\ RememberedStep /\ Spares
<1> SUFFICES ASSUME PurgeInv, [PurgeNext]_allVars PROVE PurgeInv' /\ RememberedStep /\ Spares
  OBVIOUS
<1>1. NoneGoes => Spares
  BY DEF PurgeInv, JobKnows, JobTyped, JobSees, BeganTold, NotMissed, NoneGoes, Spares, Spared
<1>2. CASE Others
  BY <1>1, <1>2, OthersHarmless, OthersTold, OthersJob DEF Harmless, PurgeInv
<1>3. CASE \/ PurgeList \/ PurgeDone \/ PurgeDeployments \/ PurgeRevisions
           \/ PurgeStatefulSets \/ PurgeGet
  BY <1>1, <1>3, ReadsKeep DEF Harmless, PurgeInv
<1>4. CASE PurgeDelete
  BY <1>4, DeleteStep DEF RememberedStep, Spares
<1>5. CASE UNCHANGED allVars
  <2>1. UNCHANGED <<cmVars, ccmVars, caches, queued, rollout, pc, locals, deleted, left, job,
                    history, began>>
    BY <1>5 DEF allVars, purgeVars, vars, clusterVars
  <2>2. Harmless
    BY <2>1, JobCallCore DEF PurgeInv
  <2>3. JobKnows' /\ HistoryTold'
    BY <2>1 DEF PurgeInv, JobKnows, JobTyped, JobSees, BeganTold, NotMissed, HistoryTold, Searched, Exists, ccmVars, rollout
  <2> QED BY <1>1, <2>2, <2>3 DEF Harmless, PurgeInv
<1> QED BY <1>2, <1>3, <1>4, <1>5 DEF PurgeNext, PurgeCCMAndCS

\* The invariant holds in every reachable state.
THEOREM PurgeInvariant == PurgeSpec => []PurgeInv
<1>1. PurgeInv /\ [PurgeNext]_allVars => PurgeInv'
  BY PurgeNextInv
<1> QED BY PurgeInitInv, <1>1, PTL DEF PurgeSpec

\* The variables of job and reconciler keep their types.
THEOREM PurgeTypeCorrect == PurgeSpec => []PurgeTypeOK
BY PurgeInvariant, PurgeInvSuffices, PTL

\* As long as no call fails, PurgeCCMAndCS deletes no version that the revisions of some
\* workload have carried ever since it began.
THEOREM RevisionsAreSpared == PurgeSpec => PurgeSparesRevisions
<1>1. PurgeInv /\ [PurgeNext]_allVars => [Spares]_allVars
  BY PurgeNextInv
<1> QED BY PurgeInvariant, <1>1, PTL DEF PurgeSpec, PurgeSparesRevisions, Spares, Spared

\* The initial states are initial states of the store that remembers.
LEMMA PurgedStoreInit == PurgeInit => PurgedStore!Init
BY DEF PurgeInit, Init, ClusterInit, Remembered, PurgedStore!Init, NoCCM, Exists

\* What a step does to the store that remembers is a step of it, or nothing.
LEMMA RememberedStepRefines ==
  ASSUME PurgeInv, PurgeInv', RememberedStep
  PROVE  [PurgedStore!Next]_PurgedStore!vars
<1>1. /\ Remembered = [v \in Versions |-> Content(v)]
      /\ Remembered' = [v \in Versions |-> Content(v)']
  BY DEF Remembered, Content, Exists
<1>2. CASE Stays
  <2>1. Remembered' = Remembered
    BY <1>1, <1>2 DEF Stays
  <2>2. CASE RememberedKeeps
    BY <2>1, <2>2 DEF RememberedKeeps, PurgedStore!vars
  <2>3. CASE InstallsRemembered /\ cm' \in CMs
    <3>1. Content(cm'.version) \in Data /\ cm'.version \in Versions
      BY <2>3 DEF InstallsRemembered, CMs
    <3>2. PurgedStore!Install(cm'.version)
      BY <1>1, <2>1, <2>3, <3>1, ValuesAssumption
         DEF InstallsRemembered, PurgedStore!Install, PurgedStore!Saved
    <3> QED BY <3>1, <3>2 DEF PurgedStore!Next
  <2>4. CASE RememberedEdits
    <3>1. PurgedStore!Edit(cm'.data)
      BY <2>1, <2>4 DEF RememberedEdits, PurgedStore!Edit
    <3> QED BY <3>1, <2>4 DEF RememberedEdits, PurgedStore!Next
  <2>5. cm' \in CMs
    BY DEF PurgeInv, Core, CMsTyped
  <2> QED BY <1>2, <2>2, <2>3, <2>4, <2>5 DEF RememberedStep
<1>3. CASE Adds /\ RememberedKeeps
  <2>1. PICK v \in Versions, d \in Data :
          Content(v) = NoData /\ \A u \in Versions : Content(u)' = IF u = v THEN d ELSE Content(u)
    BY <1>3 DEF Adds
  <2>2. Remembered' = [Remembered EXCEPT ![v] = d] /\ Remembered[v] = NoData
    BY <1>1, <2>1
  <2>3. PurgedStore!Save(v, d)
    BY <2>2, <1>3 DEF RememberedKeeps, PurgedStore!Save, PurgedStore!Saved
  <2> QED BY <2>3 DEF PurgedStore!Next
<1> QED BY <1>2, <1>3 DEF RememberedStep

\* With a purge beside it the reconciler still implements the version store, which
\* remembers what was purged: no content comes back under another version's name.
THEOREM PurgeRefinement == PurgeSpec => PurgeImplementsVersionStore
<1>1. PurgeInv /\ [PurgeNext]_allVars => [PurgedStore!Next]_PurgedStore!vars
  BY PurgeNextInv, RememberedStepRefines
<1> QED BY PurgeInvariant, PurgedStoreInit, <1>1, PTL
    DEF PurgeSpec, PurgeImplementsVersionStore, PurgedStore!Spec
=============================================================================
