--------------------------- MODULE ConfigMapProofs ---------------------------
(***************************************************************************)
(* Proofs about the ConfigMap reconciler, for any number of versions,      *)
(* contents and workloads, and any number of edits, faults and crashes.    *)
(***************************************************************************)
EXTENDS ConfigMapProperties, TLAPS

\* What a copy of a CCM says of its version is what the API server says.
Agrees(v, obj) == obj # NoCCM => Exists(v) /\ obj.data = ccm[v].data

\* What a copy of the ConfigMap is stamped with exists.
Known(copy) == copy.version # NoVersion => Exists(copy.version)

StampsKnown ==
  /\ Known(cm) /\ Known(cmCache)
  /\ \A i \in 1..Len(cmWatch) : Known(cmWatch[i])

CopiesAgree ==
  /\ \A v \in Versions : Agrees(v, ccmCache[v])
  /\ \A i \in 1..Len(ccmWatch) : Agrees(ccmWatch[i].of, ccmWatch[i].obj)

\* The copies a handler is going to write back are copies of what exists, and the
\* stamp it is going to set, or has set, has the content it is set with.
HandlerKnows ==
  /\ pc \in {"dropLatest", "undoDrop", "createNew", "revertCurrent", "revertLatest",
             "raiseCurrent", "dropOld"}
       => cur \in Copies /\ Agrees(cur.of, cur.obj)
  /\ pc \in {"createNew", "revertCurrent", "revertLatest", "raiseCurrent"}
       => other \in Copies /\ Agrees(other.of, other.obj)
  /\ pc \in {"dropLatest", "createNew"} => my \in CMs
  /\ pc \in {"stampFirst", "stampNew", "rollDeployments", "rollStatefulSets"}
       => /\ my \in CMs /\ my.version \in Versions
          /\ Exists(my.version) /\ my.data = ccm[my.version].data

-----------------------------------------------------------------------------
(* The same facts, by the variables they are about.                        *)

CMSide ==
  /\ cm \in CMs /\ cmCache \in CMs /\ cmWatch \in Seq(CMs)
  /\ StampsKnown

CCMSide ==
  /\ ccm \in [Versions -> CCMs \cup {NoCCM}]
  /\ ccmCache \in [Versions -> CCMs \cup {NoCCM}] /\ ccmWatch \in Seq(Events)
  /\ CopiesAgree

Budgets == [edits : Nat, applies : Nat, pods : Nat, faults : Nat, crashes : Nat]

WorkloadSide ==
  /\ template \in [Workloads -> Versions \cup {NoVersion, Bare, Absent}]
  /\ revisions \subseteq Versions
  /\ RevisionsSaved

HandlerSide ==
  /\ pc \in Locations
  /\ my \in CMs \cup {NoCM}
  /\ cur \in Copies \cup {NoCopy} /\ other \in Copies \cup {NoCopy}
  /\ tries \in 0..5
  /\ HandlerKnows

\* The inductive invariant.
IInv ==
  CMSide /\ CCMSide /\ WorkloadSide /\ HandlerSide /\ queued \in BOOLEAN /\ left \in Budgets

\* What it was built for.
LEMMA IInvSuffices == IInv => TypeOK /\ StampedVersionSaved /\ RevisionsSaved
BY DEF IInv, CMSide, CCMSide, WorkloadSide, HandlerSide, TypeOK, ClusterTypeOK, Budgets,
       StampsKnown, Known, StampedVersionSaved

\* No step takes a version away or changes its content.
Grows ==
  \A v \in Versions : Exists(v) => Exists(v)' /\ ccm'[v].data = ccm[v].data

-----------------------------------------------------------------------------
(* The calls.                                                              *)

\* A sequence that gets one more element.
LEMMA AppendElements ==
  ASSUME NEW S, NEW s \in Seq(S), NEW e \in S
  PROVE  /\ Append(s, e) \in Seq(S)
         /\ Len(Append(s, e)) = Len(s) + 1
         /\ \A i \in 1..Len(s) : Append(s, e)[i] = s[i]
         /\ Append(s, e)[Len(s) + 1] = e
OBVIOUS

\* A sequence that loses its first element.
LEMMA TailElements ==
  ASSUME NEW S, NEW s \in Seq(S), s # <<>>
  PROVE  /\ Head(s) = s[1] /\ s[1] \in S /\ 1 \in 1..Len(s)
         /\ Tail(s) \in Seq(S)
         /\ \A i \in 1..Len(Tail(s)) : i + 1 \in 1..Len(s) /\ Tail(s)[i] = s[i + 1]
OBVIOUS

\* A bound that is spent stays a natural number.
LEMMA SpendBudget ==
  ASSUME left \in Budgets, NEW what \in {"edits", "applies", "pods", "faults", "crashes"},
         Spend(what)
  PROVE  left' \in Budgets
BY DEF Spend, Budgets

\* The ConfigMap is stored with a stamp that is known.
LEMMA StoreCMSafe ==
  ASSUME CMSide, NEW copy \in CMs, Known(copy), StoreCM(copy), UNCHANGED <<cmCache, ccm>>
  PROVE  CMSide'
<1>1. CASE copy = cm
  BY <1>1 DEF StoreCM, cmVars, CMSide, StampsKnown, Known, Exists
<1>2. CASE copy # cm
  <2>1. cm' = [copy EXCEPT !.rv = @ + 1] /\ cmWatch' = Append(cmWatch, cm')
    BY <1>2 DEF StoreCM
  <2>2. cm' \in CMs /\ cm'.version = copy.version
    BY <2>1 DEF CMs
  <2>3. Known(cm)' /\ Known(cmCache)'
    BY <2>2 DEF Known, Exists, CMSide, StampsKnown
  <2>4. /\ cmWatch' \in Seq(CMs)
        /\ Len(cmWatch') = Len(cmWatch) + 1
        /\ \A i \in 1..Len(cmWatch) : cmWatch'[i] = cmWatch[i]
        /\ cmWatch'[Len(cmWatch) + 1] = cm'
    <3>1. cmWatch \in Seq(CMs)
      BY DEF CMSide
    <3> QED BY <3>1, <2>1, <2>2, AppendElements
  <2>5. ASSUME NEW i \in 1..Len(cmWatch') PROVE Known(cmWatch[i])'
    <3>1. CASE i \in 1..Len(cmWatch)
      BY <3>1, <2>4 DEF Known, Exists, CMSide, StampsKnown
    <3>2. CASE i = Len(cmWatch) + 1
      BY <3>2, <2>4, <2>3 DEF Known
    <3> QED BY <2>4, <3>1, <3>2 DEF CMSide
  <2> QED BY <2>2, <2>3, <2>4, <2>5 DEF CMSide, StampsKnown
<1> QED BY <1>1, <1>2

\* An Update of the ConfigMap, however it ends, keeps every stamp known.
LEMMA UpdateCMSafe ==
  ASSUME CMSide, left \in Budgets, NEW copy \in CMs, Known(copy), NEW out,
         UpdateCM(copy, out), UNCHANGED <<cmCache, ccm>>
  PROVE  CMSide' /\ left' \in Budgets
<1>1. CASE StoreCM(copy)
  BY <1>1, StoreCMSafe, SpendBudget DEF UpdateCM
<1>2. CASE UNCHANGED cmVars
  BY <1>2, SpendBudget DEF UpdateCM, cmVars, CMSide, StampsKnown, Known, Exists
<1> QED BY <1>1, <1>2 DEF UpdateCM

\* A CCM is stored from a copy that has its content, or under a name that is new.
LEMMA StoreCCMSafe ==
  ASSUME CCMSide, UNCHANGED ccmCache,
         NEW v \in Versions,
         NEW obj \in [data : Data, current : BOOLEAN, latest : BOOLEAN, rv : Nat],
         Exists(v) => obj.data = ccm[v].data,
         StoreCCM([of |-> v, obj |-> obj])
  PROVE  CCMSide' /\ Grows /\ Exists(v)' /\ ccm'[v].data = obj.data
<1>1. CASE obj = ccm[v]
  <2>1. UNCHANGED <<ccm, ccmWatch>>
    BY <1>1 DEF StoreCCM, ccmVars
  <2>2. obj # NoCCM
    BY ValuesAssumption DEF NoCCM
  <2>3. Exists(v)
    BY <1>1, <2>2 DEF CCMSide, CCMs, Exists
  <2> QED BY <1>1, <2>1, <2>3 DEF CCMSide, CopiesAgree, Agrees, Grows, Exists
<1>2. CASE obj # ccm[v]
  <2> DEFINE stored == [obj EXCEPT !.rv = @ + 1]
             event == [of |-> v, obj |-> stored]
  <2>1. ccm' = [ccm EXCEPT ![v] = stored] /\ ccmWatch' = Append(ccmWatch, [of |-> v, obj |-> ccm'[v]])
    BY <1>2 DEF StoreCCM
  <2>2. stored \in CCMs /\ stored.data = obj.data /\ stored.rv > 0
    BY DEF CCMs
  <2>3. ccm \in [Versions -> CCMs \cup {NoCCM}] /\ ccmWatch \in Seq(Events)
    BY DEF CCMSide
  <2> HIDE DEF stored
  <2>4. /\ ccm' \in [Versions -> CCMs \cup {NoCCM}]
        /\ ccm'[v] = stored
        /\ \A u \in Versions \ {v} : ccm'[u] = ccm[u]
    BY <2>1, <2>2, <2>3
  <2>5. Exists(v)' /\ ccm'[v].data = obj.data
    BY <2>2, <2>4 DEF Exists
  <2>6. Grows
    BY <2>4, <2>5 DEF Grows, Exists
  <2>7. event \in Events
    BY <2>2 DEF Events
  <2>8. ccmWatch' = Append(ccmWatch, event)
    BY <2>1, <2>4
  <2> HIDE DEF event
  <2>9. /\ ccmWatch' \in Seq(Events)
        /\ Len(ccmWatch') = Len(ccmWatch) + 1
        /\ \A i \in 1..Len(ccmWatch) : ccmWatch'[i] = ccmWatch[i]
        /\ ccmWatch'[Len(ccmWatch) + 1] = event
    BY <2>3, <2>7, <2>8, AppendElements
  <2>10. \A u \in Versions : Agrees(u, ccmCache[u])'
    <3> SUFFICES ASSUME NEW u \in Versions PROVE Agrees(u, ccmCache[u])'
      OBVIOUS
    <3>1. Agrees(u, ccmCache[u])
      BY DEF CCMSide, CopiesAgree
    <3> QED BY <3>1, <2>6 DEF Agrees, Grows
  <2>11. ASSUME NEW i \in 1..Len(ccmWatch')
         PROVE  Agrees(ccmWatch[i].of, ccmWatch[i].obj)'
    <3>1. CASE i \in 1..Len(ccmWatch)
      <4>1. ccmWatch[i] \in Events /\ Agrees(ccmWatch[i].of, ccmWatch[i].obj)
        BY <3>1, <2>3 DEF CCMSide, CopiesAgree
      <4>2. ccmWatch[i].of \in Versions
        BY <4>1 DEF Events
      <4> QED BY <3>1, <4>1, <4>2, <2>9, <2>6 DEF Agrees, Grows
    <3>2. CASE i = Len(ccmWatch) + 1
      BY <3>2, <2>9, <2>5, <2>2 DEF Agrees, event
    <3> QED BY <3>1, <3>2, <2>3, <2>9
  <2> QED BY <2>3, <2>4, <2>5, <2>6, <2>9, <2>10, <2>11 DEF CCMSide, CopiesAgree
<1> QED BY <1>1, <1>2

\* An Update of a CCM from a copy that agrees keeps every copy in agreement.
LEMMA UpdateCCMSafe ==
  ASSUME CCMSide, UNCHANGED ccmCache, left \in Budgets,
         NEW copy \in Copies, Agrees(copy.of, copy.obj), NEW out, UpdateCCM(copy, out)
  PROVE  /\ CCMSide' /\ Grows /\ left' \in Budgets
         /\ out = "ok" => ccm'[copy.of] \in CCMs /\ ccm'[copy.of].data = copy.obj.data
<1>1. /\ copy.of \in Versions /\ copy = [of |-> copy.of, obj |-> copy.obj]
      /\ copy.obj \in [data : Data, current : BOOLEAN, latest : BOOLEAN, rv : Nat]
      /\ copy.obj # NoCCM
  BY ValuesAssumption DEF Copies, CCMs, NoCCM
<1>2. left' \in Budgets
  BY SpendBudget DEF UpdateCCM
<1>3. CASE StoreCCM(copy)
  <2>1. copy.obj.data = ccm[copy.of].data
    BY <1>1 DEF Agrees
  <2>2. CCMSide' /\ Grows /\ Exists(copy.of)' /\ ccm'[copy.of].data = copy.obj.data
    BY <1>1, <1>3, <2>1, StoreCCMSafe
  <2>3. ccm'[copy.of] \in CCMs
    BY <1>1, <2>2 DEF CCMSide, Exists, NoCCM
  <2> QED BY <1>2, <2>2, <2>3
<1>4. CASE ~StoreCCM(copy)
  <2>1. UNCHANGED ccmVars /\ out # "ok"
    BY <1>4 DEF UpdateCCM
  <2> QED BY <1>2, <2>1 DEF ccmVars, CCMSide, CopiesAgree, Agrees, Grows, Exists
<1> QED BY <1>3, <1>4

\* A Create adds a version with the content it was asked for, or nothing.
LEMMA CreateCCMSafe ==
  ASSUME CCMSide, UNCHANGED ccmCache, left \in Budgets,
         NEW v \in Versions, NEW d \in Data, NEW out, CreateCCM(v, d, out)
  PROVE  /\ CCMSide' /\ Grows /\ left' \in Budgets
         /\ out = "ok" => Exists(v)' /\ ccm'[v].data = d
<1> DEFINE new == [data |-> d, current |-> TRUE, latest |-> TRUE, rv |-> 0]
<1>1. left' \in Budgets
  BY SpendBudget DEF CreateCCM
<1>2. CASE StoreCCM([of |-> v, obj |-> new])
  <2>1. new \in [data : Data, current : BOOLEAN, latest : BOOLEAN, rv : Nat] /\ new.data = d
    OBVIOUS
  <2>2. ~Exists(v)
    BY DEF CreateCCM
  <2> HIDE DEF new
  <2>3. CCMSide' /\ Grows /\ Exists(v)' /\ ccm'[v].data = new.data
    BY <1>2, <2>1, <2>2, StoreCCMSafe
  <2> QED BY <1>1, <2>1, <2>3
<1>3. CASE ~StoreCCM([of |-> v, obj |-> new])
  <2>1. UNCHANGED ccmVars /\ out # "ok"
    BY <1>3 DEF CreateCCM
  <2> QED BY <1>1, <2>1 DEF ccmVars, CCMSide, CopiesAgree, Agrees, Grows, Exists
<1> QED BY <1>2, <1>3
-----------------------------------------------------------------------------
(* What stays true when versions are only added.                           *)

\* The API server's CCMs stay as they are.
LEMMA SameGrows ==
  ASSUME UNCHANGED ccm PROVE Grows
BY DEF Grows, Exists

\* The CCMs and every copy of them stay as they are.
LEMMA SameCCMs ==
  ASSUME CCMSide, UNCHANGED <<ccmVars, ccmCache>> PROVE CCMSide' /\ Grows
BY DEF CCMSide, CopiesAgree, Agrees, Exists, ccmVars, Grows

\* The ConfigMap and its copies stay as they are while versions are added.
LEMMA SameCMs ==
  ASSUME CMSide, Grows, UNCHANGED <<cmVars, cmCache>> PROVE CMSide'
<1>1. ASSUME NEW copy \in CMs, Known(copy) PROVE copy.version # NoVersion => Exists(copy.version)'
  BY <1>1 DEF Known, Grows, CMs
<1>2. \A i \in 1..Len(cmWatch) : cmWatch[i] \in CMs
  BY DEF CMSide
<1> QED BY <1>1, <1>2 DEF CMSide, StampsKnown, Known, cmVars

\* The workloads stay as they are while versions are added.
LEMMA SameWorkloads ==
  ASSUME WorkloadSide, Grows, UNCHANGED rollout PROVE WorkloadSide'
BY DEF WorkloadSide, RevisionsSaved, Grows, rollout

\* The handler stands still while versions are added.
LEMMA SameHandler ==
  ASSUME HandlerSide, Grows, UNCHANGED <<pc, locals>> PROVE HandlerSide'
BY DEF HandlerSide, HandlerKnows, Agrees, Grows, locals, Copies

\* An idle reconciler holds no copy to be wrong about.
LEMMA NoHandler ==
  ASSUME pc' = "idle", Forget PROVE HandlerSide'
BY DEF Forget, HandlerSide, HandlerKnows, Locations

\* A new process lists what the API server has.
LEMMA Relisted ==
  ASSUME CMSide, CCMSide, Relist
  PROVE  CMSide' /\ CCMSide' /\ Grows /\ queued' \in BOOLEAN
<1>1. Grows
  BY SameGrows DEF Relist
<1>2. CMSide'
  BY DEF Relist, CMSide, StampsKnown, Known, Exists
<1>3. CCMSide'
  BY DEF Relist, CCMSide, CopiesAgree, Agrees, Exists, NoCCM, CCMs
<1> QED BY <1>1, <1>2, <1>3 DEF Relist

\* A version the cache knows has a copy that agrees, and so has it with other labels.
LEMMA CachedCopy ==
  ASSUME CCMSide, NEW v \in Versions, ccmCache[v] # NoCCM
  PROVE  Cached(v) \in Copies /\ Agrees(Cached(v).of, Cached(v).obj)
BY DEF CCMSide, CopiesAgree, Cached, Copies

\* What a list or a get finds in the cache is there.
LEMMA Listed ==
  ASSUME CCMSide, NEW v \in Versions, ccmCache[v].current \/ ccmCache[v].latest \/ ccmCache[v].rv > 0
  PROVE  ccmCache[v] # NoCCM
BY DEF NoCCM

\* A copy that gets or loses a label still agrees.
LEMMA Relabelled ==
  ASSUME NEW copy \in Copies, Agrees(copy.of, copy.obj), NEW is \in BOOLEAN
  PROVE  /\ Current(copy, is) \in Copies /\ Agrees(Current(copy, is).of, Current(copy, is).obj)
         /\ Latest(copy, is) \in Copies /\ Agrees(Latest(copy, is).of, Latest(copy, is).obj)
<1>1. copy # NoCopy /\ copy.obj # NoCCM
  BY DEF Copies, CCMs, NoCCM, NoCopy
<1> QED BY <1>1 DEF Current, Latest, Copies, CCMs, Agrees

\* A client call on the ConfigMap, seen from every side but the handler's.
LEMMA CMCall ==
  ASSUME CMSide, CCMSide, WorkloadSide, left \in Budgets,
         NEW copy \in CMs, Known(copy), NEW out, UpdateCM(copy, out),
         UNCHANGED <<ccmVars, caches, rollout>>
  PROVE  CMSide' /\ CCMSide' /\ WorkloadSide' /\ left' \in Budgets /\ Grows
<1>1. UNCHANGED <<ccm, ccmVars, cmCache, ccmCache, rollout>>
  BY DEF ccmVars, caches
<1>2. CCMSide' /\ Grows
  BY <1>1, SameCCMs
<1>3. CMSide' /\ left' \in Budgets
  BY <1>1, UpdateCMSafe
<1>4. WorkloadSide'
  BY <1>1, <1>2, SameWorkloads
<1> QED BY <1>2, <1>3, <1>4

\* A client call on a CCM, seen likewise.
LEMMA CCMCall ==
  ASSUME CMSide, CCMSide, WorkloadSide, left \in Budgets,
         NEW copy \in Copies, Agrees(copy.of, copy.obj), NEW out, UpdateCCM(copy, out),
         UNCHANGED <<cmVars, caches, rollout>>
  PROVE  CMSide' /\ CCMSide' /\ WorkloadSide' /\ left' \in Budgets /\ Grows
<1>1. UNCHANGED <<cmVars, cmCache, ccmCache, rollout>>
  BY DEF caches
<1>2. CCMSide' /\ Grows /\ left' \in Budgets
  BY <1>1, UpdateCCMSafe
<1>3. CMSide' /\ WorkloadSide'
  BY <1>1, <1>2, SameCMs, SameWorkloads
<1> QED BY <1>2, <1>3

\* The copy a call on a CCM leaves with its caller.
LEMMA AnsweredCopy ==
  ASSUME CCMSide, UNCHANGED ccmCache, left \in Budgets,
         NEW copy \in Copies, Agrees(copy.of, copy.obj), NEW out, UpdateCCM(copy, out),
         NEW held, held = Answered(copy, out)
  PROVE  held \in Copies /\ Exists(held.of)' /\ held.obj.data = ccm'[held.of].data
<1>1. /\ Grows
      /\ out = "ok" => ccm'[copy.of] \in CCMs /\ ccm'[copy.of].data = copy.obj.data
  BY UpdateCCMSafe
<1>2. CASE out = "ok"
  <2>1. held = [copy EXCEPT !.obj = ccm'[copy.of]]
    BY <1>2 DEF Answered
  <2> QED BY <2>1, <1>1, <1>2 DEF Copies, CCMs, Exists
<1>3. CASE out # "ok"
  <2>1. held = copy /\ copy.of \in Versions /\ copy.obj # NoCCM
    BY <1>3 DEF Answered, Copies, CCMs, NoCCM
  <2> QED BY <2>1, <1>1 DEF Agrees, Grows
<1> QED BY <1>2, <1>3

-----------------------------------------------------------------------------
(* The steps of a handler.                                                 *)

\* The first version is saved before the handler holds its stamp.
LEMMA FirstVersionInv == ASSUME IInv, FirstVersion PROVE IInv' /\ Grows
<1> USE DEF IInv
<1>1. cmCache \in CMs /\ cmCache.data \in Data
  BY DEF CMSide, CMs
<1>2. PICK v \in Versions, out \in Outcomes :
        /\ CreateCCM(v, cmCache.data, out)
        /\ IF out = "ok"
           THEN /\ Begin("stampFirst")
                /\ my' = [cmCache EXCEPT !.version = v, !.annotated = TRUE]
                /\ UNCHANGED <<cur, other, tries>>
           ELSE Retry
  BY DEF FirstVersion
<1>3. /\ CCMSide' /\ Grows /\ left' \in Budgets
      /\ out = "ok" => Exists(v)' /\ ccm'[v].data = cmCache.data
  BY <1>1, <1>2, CreateCCMSafe DEF FirstVersion, caches
<1>4. CMSide' /\ WorkloadSide'
  BY <1>3, SameCMs, SameWorkloads DEF FirstVersion, caches
<1>5. HandlerSide' /\ queued' \in BOOLEAN
  <2>1. CASE out = "ok"
    <3>1. /\ pc' = "stampFirst" /\ queued' = FALSE
          /\ my' = [cmCache EXCEPT !.version = v, !.annotated = TRUE]
          /\ UNCHANGED <<cur, other, tries>>
      BY <1>2, <2>1 DEF Begin
    <3>2. my' \in CMs /\ my'.version = v /\ my'.data = cmCache.data
      BY <3>1, <1>1 DEF CMs
    <3> QED BY <3>1, <3>2, <1>3, <2>1 DEF HandlerSide, HandlerKnows, Locations
  <2>2. CASE out # "ok"
    BY <1>2, <2>2, NoHandler DEF Retry
  <2> QED BY <2>1, <2>2
<1> QED BY <1>3, <1>4, <1>5

\* The stamp that is put back is that of a version the cache has shown.
LEMMA AdoptVersionInv == ASSUME IInv, AdoptVersion PROVE IInv' /\ Grows
<1> USE DEF IInv
<1>1. PICK v \in Versions, out \in Outcomes :
        /\ Starts(FALSE, {v})
        /\ UpdateCM([cmCache EXCEPT !.version = v, !.annotated = TRUE], out)
        /\ IF out = "ok" THEN Begin("idle") /\ Forget ELSE Retry
  BY DEF AdoptVersion
<1> DEFINE copy == [cmCache EXCEPT !.version = v, !.annotated = TRUE]
<1>2. copy \in CMs /\ copy.version = v
  BY DEF CMSide, CMs
<1>3. Exists(v)
  BY <1>1, Listed, CachedCopy DEF Starts, CurrentIn, Agrees, Cached
<1>4. Known(copy)
  BY <1>2, <1>3 DEF Known
<1>5. CCMSide' /\ Grows
  BY SameCCMs DEF AdoptVersion, caches
<1>6. CMSide' /\ left' \in Budgets
  BY <1>1, <1>2, <1>4, UpdateCMSafe DEF AdoptVersion, caches, ccmVars
<1>7. WorkloadSide'
  BY <1>5, SameWorkloads DEF AdoptVersion
<1>8. HandlerSide' /\ queued' \in BOOLEAN
  BY <1>1, NoHandler DEF Begin, Retry
<1> QED BY <1>5, <1>6, <1>7, <1>8

\* CreateNewCCM starts with a copy of a version that exists.
LEMMA NewVersionInv == ASSUME IInv, NewVersion PROVE IInv' /\ Grows
<1> USE DEF IInv
<1>1. PICK v \in Versions, out \in Outcomes :
        /\ Starts(cmCache.version # NoVersion, {v})
        /\ UpdateCCM(Current(Cached(v), FALSE), out)
        /\ IF out = "ok"
           THEN /\ Begin("dropLatest")
                /\ my' = cmCache /\ cur' = Answered(Current(Cached(v), FALSE), out)
                /\ UNCHANGED <<other, tries>>
           ELSE Retry
  BY DEF NewVersion
<1> DEFINE copy == Current(Cached(v), FALSE)
<1>2. copy \in Copies /\ Agrees(copy.of, copy.obj)
  <2>1. Cached(v) \in Copies /\ Agrees(Cached(v).of, Cached(v).obj)
    BY <1>1, Listed, CachedCopy DEF Starts, CurrentIn
  <2> QED BY <2>1, Relabelled
<1>3. UpdateCCM(copy, out) /\ UNCHANGED <<cmVars, caches, rollout>>
  BY <1>1 DEF NewVersion
<1>4. out = "ok" => cur' = Answered(copy, out)
  BY <1>1
<1> HIDE DEF copy
<1>5. CMSide' /\ CCMSide' /\ WorkloadSide' /\ left' \in Budgets /\ Grows
  BY <1>2, <1>3, CCMCall
<1>6. HandlerSide' /\ queued' \in BOOLEAN
  <2>1. CASE out = "ok"
    <3>1. pc' = "dropLatest" /\ queued' = FALSE /\ my' = cmCache /\ UNCHANGED <<other, tries>>
      BY <1>1, <2>1 DEF Begin
    <3>2. cur' \in Copies /\ Agrees(cur.of, cur.obj)'
      BY <1>2, <1>3, <1>4, <2>1, AnsweredCopy DEF caches, Agrees
    <3>3. my' \in CMs
      BY <3>1 DEF CMSide
    <3> QED BY <3>1, <3>2, <3>3 DEF HandlerSide, HandlerKnows, Locations
  <2>2. CASE out # "ok"
    BY <1>1, <2>2, NoHandler DEF Retry
  <2> QED BY <2>1, <2>2
<1> QED BY <1>5, <1>6

\* CopyCCMToCM writes back a version the cache has shown.
LEMMA RollBackInv == ASSUME IInv, RollBack PROVE IInv' /\ Grows
<1> USE DEF IInv
<1> DEFINE target == cmCache.version
           copy == [cmCache EXCEPT !.data = ccmCache[target].data]
<1>1. PICK v \in Versions, out \in Outcomes :
        /\ Starts(TRUE, {v})
        /\ ccmCache[target].rv > 0
        /\ UpdateCM(copy, out)
        /\ IF out = "ok"
           THEN /\ Begin("raiseCurrent")
                /\ cur' = Cached(v) /\ other' = Cached(target)
                /\ UNCHANGED <<my, tries>>
           ELSE Retry
  BY DEF RollBack
<1>2. target \in Versions /\ cmCache \in CMs
  BY <1>1 DEF CMSide, CMs, Starts
<1>3. /\ Cached(v) \in Copies /\ Agrees(Cached(v).of, Cached(v).obj)
      /\ Cached(target) \in Copies /\ Agrees(Cached(target).of, Cached(target).obj)
  BY <1>1, <1>2, Listed, CachedCopy DEF Starts, CurrentIn
<1>4. copy \in CMs /\ copy.version = target /\ Exists(target)
  BY <1>2, <1>3 DEF CMs, Copies, CCMs, Cached, Agrees, NoCCM
<1>5. Known(copy)
  BY <1>4 DEF Known
<1>6. UpdateCM(copy, out) /\ UNCHANGED <<ccmVars, caches, rollout>>
  BY <1>1 DEF RollBack
<1> HIDE DEF copy, target
<1>7. CMSide' /\ CCMSide' /\ WorkloadSide' /\ left' \in Budgets /\ Grows
  BY <1>4, <1>5, <1>6, CMCall
<1>8. HandlerSide' /\ queued' \in BOOLEAN
  <2>1. CASE out = "ok"
    <3>1. pc' = "raiseCurrent" /\ queued' = FALSE /\ UNCHANGED <<my, tries>>
      BY <1>1, <2>1 DEF Begin
    <3>2. cur' = Cached(v) /\ other' = Cached(target)
      BY <1>1, <2>1
    <3>3. /\ cur' \in Copies /\ Agrees(cur.of, cur.obj)'
          /\ other' \in Copies /\ Agrees(other.of, other.obj)'
      BY <3>2, <1>2, <1>3, <1>7 DEF Cached, Agrees, Grows
    <3> QED BY <3>1, <3>3 DEF HandlerSide, HandlerKnows, Locations
  <2>2. CASE out # "ok"
    BY <1>1, <2>2, NoHandler DEF Retry
  <2> QED BY <2>1, <2>2
<1> QED BY <1>7, <1>8

\* A handler that ends or starts over without a call.
LEMMA NoCallInv ==
  ASSUME IInv, UNCHANGED <<cmVars, ccmVars, caches, rollout, left>>, queued' \in BOOLEAN,
         HandlerSide'
  PROVE  IInv' /\ Grows
<1> USE DEF IInv
<1>1. UNCHANGED <<cmCache, ccmCache>>
  BY DEF caches
<1>2. CCMSide' /\ Grows
  BY <1>1, SameCCMs
<1> QED BY <1>1, <1>2, SameCMs, SameWorkloads

\* A rollback to a version the cache does not show changes nothing.
LEMMA RollBackMissingInv == ASSUME IInv, RollBackMissing PROVE IInv' /\ Grows
BY NoHandler, NoCallInv DEF RollBackMissing, Retry

\* A handler that finds nothing to do changes nothing.
LEMMA NothingToDoInv == ASSUME IInv, NothingToDo PROVE IInv' /\ Grows
<1>1. HandlerSide'
  BY DEF IInv, NothingToDo, Starts, Begin, HandlerSide, HandlerKnows, Locations, locals
<1> QED BY <1>1, NoCallInv DEF NothingToDo, Begin

\* A handler that ends or goes on after a call, with the copies it had.
LEMMA StampFirstInv == ASSUME IInv, StampFirst PROVE IInv' /\ Grows
<1> USE DEF IInv
<1>1. PICK out \in Outcomes :
        /\ pc = "stampFirst" /\ UpdateCM(my, out) /\ UNCHANGED <<ccmVars, caches, rollout>>
        /\ IF out = "ok" THEN Done ELSE Retry
  BY DEF StampFirst, CMStep
<1>2. my \in CMs /\ Known(my)
  BY <1>1 DEF HandlerSide, HandlerKnows, Known
<1>3. CMSide' /\ CCMSide' /\ WorkloadSide' /\ left' \in Budgets /\ Grows
  BY <1>1, <1>2, CMCall
<1>4. HandlerSide' /\ queued' \in BOOLEAN
  BY <1>1, NoHandler DEF Done, Retry
<1> QED BY <1>3, <1>4

\* Past the stamp, the handler's copies of CCMs are not used again.
LEMMA StampNewInv == ASSUME IInv, StampNew PROVE IInv' /\ Grows
<1> USE DEF IInv
<1>1. PICK out \in Outcomes :
        /\ pc = "stampNew" /\ UpdateCM(my, out) /\ UNCHANGED <<ccmVars, caches, rollout>>
        /\ IF out = "ok" THEN Onward("rollDeployments") ELSE Retry
  BY DEF StampNew, CMStep
<1>2. my \in CMs /\ Known(my)
  BY <1>1 DEF HandlerSide, HandlerKnows, Known
<1>3. CMSide' /\ CCMSide' /\ WorkloadSide' /\ left' \in Budgets /\ Grows
  BY <1>1, <1>2, CMCall
<1>4. HandlerSide' /\ queued' \in BOOLEAN
  <2>1. CASE out = "ok"
    <3>1. pc' = "rollDeployments" /\ UNCHANGED <<queued, locals>>
      BY <1>1, <2>1 DEF Onward, Goto
    <3>2. my.version \in Versions /\ Exists(my.version) /\ my.data = ccm[my.version].data
      BY <1>1 DEF HandlerSide, HandlerKnows
    <3>3. Exists(my.version)' /\ my'.data = ccm'[my'.version].data /\ my'.version \in Versions
      BY <3>1, <3>2, <1>3 DEF Grows, locals, Exists
    <3> QED BY <3>1, <3>3, <1>2 DEF HandlerSide, HandlerKnows, Locations, locals
  <2>2. CASE out # "ok"
    BY <1>1, <2>2, NoHandler DEF Retry
  <2> QED BY <2>1, <2>2
<1> QED BY <1>3, <1>4

\* The label current is put on the version that was rolled back to.
LEMMA RaiseCurrentInv == ASSUME IInv, RaiseCurrent PROVE IInv' /\ Grows
<1> USE DEF IInv
<1>1. PICK out \in Outcomes :
        /\ pc = "raiseCurrent" /\ UpdateCCM(Current(other, TRUE), out)
        /\ UNCHANGED <<cmVars, caches, rollout>>
        /\ IF out = "ok" THEN Onward("dropOld") ELSE Retry
  BY DEF RaiseCurrent, CCMStep
<1>2. Current(other, TRUE) \in Copies /\ Agrees(Current(other, TRUE).of, Current(other, TRUE).obj)
  BY <1>1, Relabelled DEF HandlerSide, HandlerKnows
<1>3. CMSide' /\ CCMSide' /\ WorkloadSide' /\ left' \in Budgets /\ Grows
  BY <1>1, <1>2, CCMCall
<1>4. HandlerSide' /\ queued' \in BOOLEAN
  <2>1. CASE out = "ok"
    <3>1. pc' = "dropOld" /\ UNCHANGED <<queued, locals>>
      BY <1>1, <2>1 DEF Onward, Goto
    <3>2. cur \in Copies /\ Agrees(cur.of, cur.obj)
      BY <1>1 DEF HandlerSide, HandlerKnows
    <3>3. Agrees(cur.of, cur.obj)'
      BY <3>1, <3>2, <1>3 DEF Grows, locals, Agrees, Copies
    <3> QED BY <3>1, <3>2, <3>3 DEF HandlerSide, HandlerKnows, Locations, locals
  <2>2. CASE out # "ok"
    BY <1>1, <2>2, NoHandler DEF Retry
  <2> QED BY <2>1, <2>2
<1> QED BY <1>3, <1>4

\* The calls that put a label of cur back, or take it off, and end the handler.
LEMMA LastCallInv ==
  ASSUME IInv, DropOld \/ UndoDrop
  PROVE  IInv' /\ Grows
<1> USE DEF IInv
<1>1. PICK out \in Outcomes, is \in BOOLEAN :
        /\ pc \in {"dropOld", "undoDrop"} /\ UpdateCCM(Current(cur, is), out)
        /\ UNCHANGED <<cmVars, caches, rollout>>
        /\ IF out = "ok" THEN Done ELSE Retry
  BY DEF DropOld, UndoDrop, CCMStep
<1>2. Current(cur, is) \in Copies /\ Agrees(Current(cur, is).of, Current(cur, is).obj)
  BY <1>1, Relabelled DEF HandlerSide, HandlerKnows
<1>3. CMSide' /\ CCMSide' /\ WorkloadSide' /\ left' \in Budgets /\ Grows
  BY <1>1, <1>2, CCMCall
<1>4. HandlerSide' /\ queued' \in BOOLEAN
  BY <1>1, NoHandler DEF Done, Retry
<1> QED BY <1>3, <1>4

\* The label latest is put back on a version that exists.
LEMMA RevertLatestInv == ASSUME IInv, RevertLatest PROVE IInv' /\ Grows
<1> USE DEF IInv
<1>1. PICK out \in Outcomes :
        /\ pc = "revertLatest" /\ UpdateCCM(Latest(other, TRUE), out)
        /\ UNCHANGED <<cmVars, caches, rollout>> /\ Retry
  BY DEF RevertLatest, CCMStep
<1>2. Latest(other, TRUE) \in Copies /\ Agrees(Latest(other, TRUE).of, Latest(other, TRUE).obj)
  BY <1>1, Relabelled DEF HandlerSide, HandlerKnows
<1>3. CMSide' /\ CCMSide' /\ WorkloadSide' /\ left' \in Budgets /\ Grows
  BY <1>1, <1>2, CCMCall
<1> QED BY <1>1, <1>3, NoHandler DEF Retry

\* The label current is put back on a version that exists.
LEMMA RevertCurrentInv == ASSUME IInv, RevertCurrent PROVE IInv' /\ Grows
<1> USE DEF IInv
<1>1. PICK out \in Outcomes :
        /\ pc = "revertCurrent" /\ UpdateCCM(Current(cur, TRUE), out)
        /\ UNCHANGED <<cmVars, caches, rollout>>
        /\ IF out = "ok" THEN Onward("revertLatest") ELSE Retry
  BY DEF RevertCurrent, CCMStep
<1>2. Current(cur, TRUE) \in Copies /\ Agrees(Current(cur, TRUE).of, Current(cur, TRUE).obj)
  BY <1>1, Relabelled DEF HandlerSide, HandlerKnows
<1>3. CMSide' /\ CCMSide' /\ WorkloadSide' /\ left' \in Budgets /\ Grows
  BY <1>1, <1>2, CCMCall
<1>4. HandlerSide' /\ queued' \in BOOLEAN
  <2>1. CASE out = "ok"
    <3>1. pc' = "revertLatest" /\ UNCHANGED <<queued, locals>>
      BY <1>1, <2>1 DEF Onward, Goto
    <3>2. /\ cur \in Copies /\ Agrees(cur.of, cur.obj)
          /\ other \in Copies /\ Agrees(other.of, other.obj)
      BY <1>1 DEF HandlerSide, HandlerKnows
    <3>3. Agrees(cur.of, cur.obj)' /\ Agrees(other.of, other.obj)'
      BY <3>1, <3>2, <1>3 DEF Grows, locals, Agrees, Copies
    <3> QED BY <3>1, <3>2, <3>3 DEF HandlerSide, HandlerKnows, Locations, locals
  <2>2. CASE out # "ok"
    BY <1>1, <2>2, NoHandler DEF Retry
  <2> QED BY <2>1, <2>2
<1> QED BY <1>3, <1>4

\* Every turn of the loop leaves the handler a copy that agrees.
LEMMA DropLatestInv == ASSUME IInv, DropLatest PROVE IInv' /\ Grows
<1> USE DEF IInv
<1>1. PICK v \in LatestIn(ccmCache), out \in Outcomes :
        /\ UpdateCCM(Latest(Cached(v), FALSE), out)
        /\ other' = Answered(Latest(Cached(v), FALSE), out)
        /\ IF out = "conflict" /\ tries < LastTurn
           THEN Goto("dropLatest") /\ tries' = tries + 1
           ELSE Goto(IF out = "error" THEN "undoDrop" ELSE "createNew") /\ UNCHANGED tries
  BY DEF DropLatest
<1>2. pc = "dropLatest" /\ UNCHANGED <<cmVars, caches, my, cur, rollout>>
  BY DEF DropLatest
<1> DEFINE copy == Latest(Cached(v), FALSE)
<1>3. copy \in Copies /\ Agrees(copy.of, copy.obj)
  <2>1. v \in Versions /\ ccmCache[v].latest
    BY DEF LatestIn
  <2>2. Cached(v) \in Copies /\ Agrees(Cached(v).of, Cached(v).obj)
    BY <2>1, Listed, CachedCopy
  <2> QED BY <2>2, Relabelled
<1>4. UpdateCCM(copy, out) /\ other' = Answered(copy, out)
  BY <1>1
<1> HIDE DEF copy
<1>5. CMSide' /\ CCMSide' /\ WorkloadSide' /\ left' \in Budgets /\ Grows
  BY <1>2, <1>3, <1>4, CCMCall
<1>6. other' \in Copies /\ Agrees(other.of, other.obj)'
  BY <1>2, <1>3, <1>4, AnsweredCopy DEF caches, Agrees
<1>7. cur' \in Copies /\ Agrees(cur.of, cur.obj)' /\ my' \in CMs
  <2>1. cur \in Copies /\ Agrees(cur.of, cur.obj) /\ my \in CMs
    BY <1>2 DEF HandlerSide, HandlerKnows
  <2> QED BY <2>1, <1>2, <1>5 DEF Grows, Agrees, Copies
<1>8. /\ pc' \in {"dropLatest", "undoDrop", "createNew"} /\ tries' \in 0..5
      /\ UNCHANGED queued
  BY <1>1 DEF Goto, LastTurn, HandlerSide
<1> QED BY <1>5, <1>6, <1>7, <1>8 DEF HandlerSide, HandlerKnows, Locations

\* A new version is saved before the handler holds its stamp.
LEMMA CreateNewInv == ASSUME IInv, CreateNew PROVE IInv' /\ Grows
<1> USE DEF IInv
<1>1. PICK v \in Versions, out \in Outcomes :
        /\ CreateCCM(v, my.data, out)
        /\ IF out = "ok"
           THEN Goto("stampNew") /\ my' = [my EXCEPT !.version = v]
           ELSE Goto("revertCurrent") /\ UNCHANGED my
  BY DEF CreateNew
<1>2. pc = "createNew" /\ UNCHANGED <<cmVars, caches, cur, other, tries, rollout>>
  BY DEF CreateNew
<1>3. /\ my \in CMs /\ my.data \in Data
      /\ cur \in Copies /\ Agrees(cur.of, cur.obj)
      /\ other \in Copies /\ Agrees(other.of, other.obj)
  BY <1>2 DEF HandlerSide, HandlerKnows, CMs
<1>4. /\ CCMSide' /\ Grows /\ left' \in Budgets
      /\ out = "ok" => Exists(v)' /\ ccm'[v].data = my.data
  BY <1>1, <1>2, <1>3, CreateCCMSafe DEF caches
<1>5. CMSide' /\ WorkloadSide'
  BY <1>2, <1>4, SameCMs, SameWorkloads DEF caches
<1>6. HandlerSide' /\ UNCHANGED queued
  <2>1. Agrees(cur.of, cur.obj)' /\ Agrees(other.of, other.obj)'
    BY <1>2, <1>3, <1>4 DEF Grows, Agrees, Copies
  <2>2. CASE out = "ok"
    <3>1. pc' = "stampNew" /\ UNCHANGED queued /\ my' = [my EXCEPT !.version = v]
      BY <1>1, <2>2 DEF Goto
    <3>2. my' \in CMs /\ my'.version = v /\ my'.data = my.data
      BY <1>3, <3>1 DEF CMs
    <3> QED BY <3>1, <3>2, <2>2, <1>2, <1>4 DEF HandlerSide, HandlerKnows, Locations
  <2>3. CASE out # "ok"
    BY <1>1, <2>3, <2>1, <1>2, <1>3 DEF Goto, HandlerSide, HandlerKnows, Locations
  <2> QED BY <2>2, <2>3
<1> QED BY <1>4, <1>5, <1>6

\* Both rollouts: the template gets a version that exists, or stays.
LEMMA RollInv ==
  ASSUME IInv, RollDeployments \/ RollStatefulSets
  PROVE  IInv' /\ Grows
<1> USE DEF IInv
<1>1. PICK named \in {my.deployments, my.statefulsets} :
        \/ RollDeployments /\ Roll(named, Onward("rollStatefulSets"))
        \/ RollStatefulSets /\ Roll(named, Done)
  BY DEF RollDeployments, RollStatefulSets
<1>2. /\ pc \in {"rollDeployments", "rollStatefulSets"}
      /\ UNCHANGED <<cmVars, ccmVars, caches>>
  BY DEF RollDeployments, RollStatefulSets
<1>3. my \in CMs /\ my.version \in Versions /\ Exists(my.version) /\ my.data = ccm[my.version].data
  BY <1>2 DEF HandlerSide, HandlerKnows
<1>4. CCMSide' /\ Grows
  BY <1>2, SameCCMs DEF caches
<1>5. CMSide'
  BY <1>2, <1>4, SameCMs DEF caches
<1>6. UNCHANGED rollout \/ \E w \in Workloads : Carry(w)
  BY <1>1 DEF Roll
<1>7. WorkloadSide'
  <2>1. CASE UNCHANGED rollout
    BY <2>1, <1>4, SameWorkloads
  <2>2. CASE \E w \in Workloads : Carry(w)
    BY <2>2, <1>3, <1>4 DEF Carry, WorkloadSide, RevisionsSaved, Grows
  <2> QED BY <1>6, <2>1, <2>2
<1>8. left' \in Budgets
  BY <1>1, SpendBudget DEF Roll
<1>9. HandlerSide' /\ queued' \in BOOLEAN
  <2>1. Retry \/ Done \/ Onward("rollStatefulSets")
    BY <1>1 DEF Roll
  <2>2. CASE Retry \/ Done
    BY <2>2, NoHandler DEF Retry, Done
  <2>3. CASE Onward("rollStatefulSets")
    <3>1. pc' = "rollStatefulSets" /\ UNCHANGED <<queued, locals>>
      BY <2>3 DEF Onward, Goto
    <3>2. Exists(my.version)' /\ my'.data = ccm'[my'.version].data
      BY <3>1, <1>3, <1>4 DEF Grows, locals, Exists
    <3> QED BY <3>1, <3>2, <1>3 DEF HandlerSide, HandlerKnows, Locations, locals
  <2> QED BY <2>1, <2>2, <2>3
<1> QED BY <1>4, <1>5, <1>7, <1>8, <1>9

\* Panics and crashes.
LEMMA RestartInv ==
  ASSUME IInv, DropLatestPanics \/ StampNewPanics \/ RollPanics \/ Crash
  PROVE  IInv' /\ Grows
<1> USE DEF IInv
<1>1. Restart /\ UNCHANGED rollout
  BY DEF DropLatestPanics, StampNewPanics, RollPanics, Crash
<1>2. left' \in Budgets
  BY SpendBudget DEF DropLatestPanics, StampNewPanics, RollPanics, Crash
<1>3. CMSide' /\ CCMSide' /\ Grows /\ queued' \in BOOLEAN
  BY <1>1, Relisted DEF Restart
<1> QED BY <1>1, <1>2, <1>3, SameWorkloads, NoHandler DEF Restart

-----------------------------------------------------------------------------
(* The steps of the surroundings.                                          *)

\* An event of the ConfigMap brings the cache a stamp that is known.
LEMMA DeliverCMInv == ASSUME IInv, Deliver(DeliverCM) PROVE IInv' /\ Grows
<1> USE DEF IInv
<1>1. /\ cmWatch # <<>> /\ cmWatch \in Seq(CMs)
      /\ cmCache' = Head(cmWatch) /\ cmWatch' = Tail(cmWatch) /\ queued' = TRUE
      /\ UNCHANGED <<cm, ccmVars, ccmCache, rollout, left, pc, locals>>
  BY DEF Deliver, DeliverCM, CMSide
<1>2. CCMSide' /\ Grows /\ UNCHANGED ccm
  BY <1>1, SameCCMs DEF ccmVars
<1>3. /\ Head(cmWatch) = cmWatch[1] /\ cmWatch[1] \in CMs /\ 1 \in 1..Len(cmWatch)
      /\ Tail(cmWatch) \in Seq(CMs)
      /\ \A i \in 1..Len(Tail(cmWatch)) :
           i + 1 \in 1..Len(cmWatch) /\ Tail(cmWatch)[i] = cmWatch[i + 1]
  BY <1>1, TailElements
<1>4. CMSide'
  <2>1. cmCache' \in CMs /\ cmWatch' \in Seq(CMs) /\ cm' \in CMs
    BY <1>1, <1>3 DEF CMSide
  <2>2. Known(cm)' /\ Known(cmCache)'
    BY <1>1, <1>2, <1>3 DEF CMSide, StampsKnown, Known, Exists
  <2>3. ASSUME NEW i \in 1..Len(cmWatch') PROVE Known(cmWatch[i])'
    <3>1. i + 1 \in 1..Len(cmWatch) /\ cmWatch'[i] = cmWatch[i + 1]
      BY <1>1, <1>3
    <3>2. Known(cmWatch[i + 1])
      BY <3>1 DEF CMSide, StampsKnown
    <3> QED BY <3>1, <3>2, <1>2 DEF Known, Exists
  <2> QED BY <2>1, <2>2, <2>3 DEF CMSide, StampsKnown
<1> QED BY <1>1, <1>2, <1>4, SameWorkloads, SameHandler

\* An event of a CCM brings the cache a copy that agrees.
LEMMA DeliverCCMInv == ASSUME IInv, Deliver(DeliverCCM) PROVE IInv' /\ Grows
<1> USE DEF IInv
<1> DEFINE event == Head(ccmWatch)
<1>1. /\ ccmWatch # <<>> /\ ccmWatch \in Seq(Events)
      /\ ccmCache' = [ccmCache EXCEPT ![event.of] = event.obj]
      /\ ccmWatch' = Tail(ccmWatch)
      /\ UNCHANGED <<ccm, cmVars, cmCache, queued, rollout, left, pc, locals>>
  BY DEF Deliver, DeliverCCM, CCMSide
<1>2. Grows
  BY <1>1, SameGrows
<1>3. /\ event = ccmWatch[1] /\ event \in Events /\ 1 \in 1..Len(ccmWatch)
      /\ Tail(ccmWatch) \in Seq(Events)
      /\ \A i \in 1..Len(Tail(ccmWatch)) :
           i + 1 \in 1..Len(ccmWatch) /\ Tail(ccmWatch)[i] = ccmWatch[i + 1]
  BY <1>1, TailElements
<1>4. Agrees(event.of, event.obj) /\ event.of \in Versions /\ event.obj \in CCMs \cup {NoCCM}
  BY <1>3 DEF CCMSide, CopiesAgree, Events
<1> HIDE DEF event
<1>5. CCMSide'
  <2>1. ccmCache' \in [Versions -> CCMs \cup {NoCCM}] /\ ccmWatch' \in Seq(Events)
    BY <1>1, <1>3, <1>4 DEF CCMSide
  <2>2. ASSUME NEW v \in Versions PROVE Agrees(v, ccmCache[v])'
    <3>1. ccmCache'[v] = IF v = event.of THEN event.obj ELSE ccmCache[v]
      BY <1>1 DEF CCMSide
    <3>2. Agrees(v, ccmCache[v])
      BY DEF CCMSide, CopiesAgree
    <3> QED BY <3>1, <3>2, <1>1, <1>4 DEF Agrees, Exists
  <2>3. ASSUME NEW i \in 1..Len(ccmWatch') PROVE Agrees(ccmWatch[i].of, ccmWatch[i].obj)'
    <3>1. i + 1 \in 1..Len(ccmWatch) /\ ccmWatch'[i] = ccmWatch[i + 1]
      BY <1>1, <1>3
    <3>2. Agrees(ccmWatch[i + 1].of, ccmWatch[i + 1].obj)
      BY <3>1 DEF CCMSide, CopiesAgree
    <3> QED BY <3>1, <3>2, <1>1 DEF Agrees, Exists
  <2> QED BY <2>1, <2>2, <2>3, <1>1 DEF CCMSide, CopiesAgree
<1> QED BY <1>1, <1>2, <1>5, SameCMs, SameWorkloads, SameHandler

\* The ConfigMap is stored by someone else than the reconciler.
LEMMA SurroundingsStore ==
  ASSUME IInv, NEW copy \in CMs, Known(copy), StoreCM(copy),
         UNCHANGED <<ccmVars, caches, queued, pc, locals>>,
         NEW what \in {"edits", "applies", "pods"}, Spend(what)
  PROVE  /\ CMSide' /\ CCMSide' /\ Grows /\ HandlerSide'
         /\ queued' \in BOOLEAN /\ left' \in Budgets
<1> USE DEF IInv
<1>1. UNCHANGED <<cmCache, ccmCache, ccm>>
  BY DEF caches, ccmVars
<1>2. CCMSide' /\ Grows
  BY <1>1, SameCCMs
<1> QED BY <1>1, <1>2, StoreCMSafe, SameHandler, SpendBudget

\* The user leaves the stamp on the ConfigMap or drops it.
LEMMA UserInv == ASSUME IInv, User, UNCHANGED <<pc, locals>> PROVE IInv' /\ Grows
<1> USE DEF IInv
<1>1. cm \in CMs /\ Known(cm)
  BY DEF CMSide, StampsKnown
<1>2. ASSUME NEW d \in Data, Edit(d) PROVE IInv' /\ Grows
  <2> DEFINE copy == [cm EXCEPT !.data = d]
  <2>1. copy \in CMs /\ Known(copy)
    BY <1>1 DEF CMs, Known
  <2>2. /\ StoreCM(copy) /\ Spend("edits")
        /\ UNCHANGED <<ccmVars, caches, queued, rollout>>
    BY <1>2 DEF Edit
  <2> HIDE DEF copy
  <2> QED BY <2>1, <2>2, SurroundingsStore, SameWorkloads
<1>3. ASSUME NEW d \in Data, NEW annotated \in BOOLEAN, Replace(d, annotated) PROVE IInv' /\ Grows
  <2> DEFINE copy == [NoCM EXCEPT !.data = d, !.annotated = annotated, !.rv = cm.rv]
  <2>1. copy \in CMs /\ Known(copy)
    BY <1>1 DEF CMs, Known, NoCM
  <2>2. /\ StoreCM(copy) /\ Spend("edits")
        /\ UNCHANGED <<ccmVars, caches, queued, rollout>>
    BY <1>3 DEF Replace
  <2> HIDE DEF copy
  <2> QED BY <2>1, <2>2, SurroundingsStore, SameWorkloads
<1> QED BY <1>2, <1>3 DEF User

\* A workload gets the stamp of the ConfigMap, which is known.
LEMMA ApplyInv ==
  ASSUME IInv, NEW w \in Workloads, Apply(w), UNCHANGED <<pc, locals>> PROVE IInv' /\ Grows
<1> USE DEF IInv
<1> DEFINE copy == IF w \in Deployments THEN DeploymentNamed(w) ELSE StatefulSetNamed(w)
<1>1. cm \in CMs /\ Known(cm)
  BY DEF CMSide, StampsKnown
<1>2. copy \in CMs /\ copy.version = cm.version
  BY <1>1 DEF CMs, Workloads, DeploymentNamed, StatefulSetNamed
<1>3. Known(copy)
  BY <1>1, <1>2 DEF Known
<1>4. /\ StoreCM(copy) /\ Spend("applies") /\ UNCHANGED <<ccmVars, caches, queued>>
      /\ template' = [template EXCEPT ![w] = cm.version]
      /\ revisions' = revisions \cup ({cm.version} \ {NoVersion})
  BY DEF Apply
<1> HIDE DEF copy
<1>5. /\ CMSide' /\ CCMSide' /\ Grows /\ HandlerSide'
      /\ queued' \in BOOLEAN /\ left' \in Budgets
  BY <1>2, <1>3, <1>4, SurroundingsStore
<1>6. cm.version \in Versions \cup {NoVersion} /\ (cm.version # NoVersion => Exists(cm.version))
  BY <1>1 DEF CMs, Known
<1>7. WorkloadSide'
  BY <1>4, <1>5, <1>6 DEF WorkloadSide, RevisionsSaved, Grows
<1> QED BY <1>5, <1>7

\* The pod webhook sets the stamp of a version it has read.
LEMMA AdmitPodInv ==
  ASSUME IInv, NEW v \in Versions, AdmitPod(v), UNCHANGED <<pc, locals>> PROVE IInv' /\ Grows
<1> USE DEF IInv
<1> DEFINE copy == [cm EXCEPT !.version = v, !.data = ccm[v].data]
<1>1. cm \in CMs /\ Exists(v) /\ ccm[v] \in CCMs
  BY DEF CMSide, CCMSide, AdmitPod, RolledBack, Exists, NoCCM
<1>2. copy \in CMs /\ copy.version = v
  BY <1>1 DEF CMs, CCMs
<1>3. Known(copy)
  BY <1>1, <1>2 DEF Known
<1>4. StoreCM(copy) /\ Spend("pods") /\ UNCHANGED <<ccmVars, caches, queued, rollout>>
  BY DEF AdmitPod, RolledBack
<1> HIDE DEF copy
<1> QED BY <1>2, <1>3, <1>4, SurroundingsStore, SameWorkloads

\* A resync only queues the key.
LEMMA ResyncInv == ASSUME IInv, Resync, UNCHANGED <<pc, locals>> PROVE IInv' /\ Grows
<1>1. HandlerSide'
  BY SameHandler, SameGrows DEF IInv, Resync, ccmVars
<1> QED BY <1>1, NoCallInv DEF Resync

-----------------------------------------------------------------------------
(* The theorems.                                                           *)

\* Nothing is versioned at first.
LEMMA InitInv == Init => IInv
<1> SUFFICES ASSUME Init PROVE IInv
  OBVIOUS
<1>1. CMSide
  BY DEF Init, ClusterInit, CMSide, CMs, StampsKnown, Known
<1>2. CCMSide
  BY DEF Init, ClusterInit, CCMSide, CopiesAgree, Agrees
<1>3. WorkloadSide
  BY DEF Init, ClusterInit, WorkloadSide, RevisionsSaved
<1>4. HandlerSide
  BY DEF Init, HandlerSide, HandlerKnows, Locations
<1>5. queued \in BOOLEAN /\ left \in Budgets
  BY BoundsAssumption DEF Init, ClusterInit, Budgets
<1> QED BY <1>1, <1>2, <1>3, <1>4, <1>5 DEF IInv

\* Every step keeps the invariant and every version there is.
LEMMA NextInv == IInv /\ [Next]_vars => IInv' /\ Grows
<1> SUFFICES ASSUME IInv, [Next]_vars PROVE IInv' /\ Grows
  OBVIOUS
<1>1. CASE Controller
  BY <1>1, FirstVersionInv, AdoptVersionInv, NewVersionInv, RollBackInv, RollBackMissingInv,
     NothingToDoInv, StampFirstInv, RaiseCurrentInv, LastCallInv, DropLatestInv, RestartInv,
     CreateNewInv, RevertCurrentInv, RevertLatestInv, StampNewInv, RollInv DEF Controller, Calls, Panics
<1>2. CASE Deliver(DeliverCM) \/ Deliver(DeliverCCM)
  BY <1>2, DeliverCMInv, DeliverCCMInv
<1>3. CASE Surroundings /\ UNCHANGED <<pc, locals>>
  BY <1>3, ResyncInv, UserInv, ApplyInv, AdmitPodInv DEF Surroundings
<1>4. CASE Crash
  BY <1>4, RestartInv
<1>5. CASE UNCHANGED vars
  <2>1. UNCHANGED <<cmVars, ccmVars, caches, rollout, left, queued, pc, locals>>
    BY <1>5 DEF vars, clusterVars
  <2>2. HandlerSide' /\ queued' \in BOOLEAN
    BY <2>1, SameHandler, SameGrows DEF IInv, ccmVars
  <2> QED BY <2>1, <2>2, NoCallInv
<1> QED BY <1>1, <1>2, <1>3, <1>4, <1>5 DEF Next

\* The invariant holds in every reachable state.
THEOREM Invariant == Spec => []IInv
<1>1. IInv /\ [Next]_vars => IInv'
  BY NextInv
<1> QED BY InitInv, <1>1, PTL DEF Spec

\* The variables keep their types.
THEOREM TypeCorrect == Spec => []TypeOK
BY Invariant, IInvSuffices, PTL

\* The annotation currentCustomConfigMapVersion never dangles.
THEOREM StampsAreSaved == Spec => []StampedVersionSaved
BY Invariant, IInvSuffices, PTL

\* Every revision of a workload refers to a version that exists.
THEOREM RevisionsAreSaved == Spec => []RevisionsSaved
BY Invariant, IInvSuffices, PTL
=============================================================================
