----------------------------- MODULE InitProofs -----------------------------
(***************************************************************************)
(* Proofs about the webhooks of workloads and the init controller, for any *)
(* number of objects, workloads, versions, requests at a time, failures    *)
(* and restarts.                                                           *)
(***************************************************************************)
EXTENDS InitController, TLAPS

Objs == [Objects -> Stamped]
Savs == [Objects -> SUBSET Versions]
Hands == [at : {"idle", "create", "stamp", "restamp", "deployments", "statefulsets"},
          copy : Stamped, v : Versions \cup {NoVersion}]
Loads == [Workloads -> [mounts : SUBSET Objects, ann : Annotations, rv : Nat]]
Reqs == [at : {"idle", "visit", "update", "rejected"}, w : Workloads \cup {NoKey},
         mounts : SUBSET Objects, ann : Annotations, rv : Nat, todo : SUBSET Objects,
         o : Objects \cup {NoKey}, copy : Stamped, added : Annotations]
Walks == [at : {"listDeployments", "deployments", "listStatefulSets", "statefulSets",
                "create", "update", "answer", "done"},
          listed : SUBSET Items, item : Items, todo : SUBSET Objects,
          o : Objects \cup {NoKey}, copy : Stamped, annotations : Annotations]
Lefts == [requests : Nat, stamps : Nat, faults : Nat]

(* Each part of the invariant is about one variable, and about the objects *)
(* and the versions they were stamped with, which only grow: it takes them *)
(* as parameters.                                                          *)

\* The annotations ann of workload w are versions that were stamped, and w is named on
\* every object they have a key of, if it is a Deployment.
Good(w, ann, obj, st) ==
  \A o \in Objects :
    /\ ann[o] \in st[o] \cup {NoVersion, NoKey}
    /\ ann[o] # NoKey /\ w \in Deployments => w \in obj[o].deployments

\* A copy of o that can still be stored is what is stored.
Faithful(o, copy, obj, st) ==
  /\ copy.rv <= obj[o].rv
  /\ copy.rv = obj[o].rv => copy = obj[o]
  /\ copy.stamp \in st[o] \cup {NoVersion}
  /\ copy.deployments \subseteq obj[o].deployments

\* A request under way has a workload, a version or a visit ahead for each mount, and
\* nothing in its patch that is not mounted.
RequestGood(q, obj, st) ==
  q.at \in {"visit", "update"} =>
    /\ q.w \in Workloads
    /\ Good(q.w, q.ann, obj, st) /\ Good(q.w, q.added, obj, st)
    /\ q.todo \subseteq q.mounts
    /\ \A o \in Objects : q.added[o] # NoKey => o \in q.mounts
    /\ \A o \in q.mounts : o \in q.todo \/ q.ann[o] # NoKey \/ q.added[o] # NoKey
    /\ q.at = "update" => q.o \in q.todo /\ Faithful(q.o, q.copy, obj, st)

\* A handler: what it rolls out has been stamped.
HandlerGood(h, o, obj, st) ==
  h.at # "idle" =>
    /\ Faithful(o, h.copy, obj, st)
    /\ h.at \in {"deployments", "statefulsets"} => h.v \in st[o]

\* The walk: what was listed is good, and what it is about to store keeps the names, and
\* takes the place of no stamp.
WalkGood(i, obj, st) ==
  /\ \A item \in i.listed : item.rv > 0 /\ item.w \in Workloads /\ Good(item.w, item.ann, obj, st)
  /\ Good(i.item.w, i.item.ann, obj, st) /\ Good(i.item.w, i.annotations, obj, st)
  /\ i.item # NoItem => i.item.w \in Workloads
  /\ i.item = NoItem => /\ i.todo = {} /\ i.annotations = Bare
                       /\ i.at \notin {"create", "update", "answer"}
  /\ i.at = "answer" => i.todo = {}
  /\ i.at = "create" => i.o \in Objects /\ i.copy.stamp = NoVersion /\ Faithful(i.o, i.copy, obj, st)
  /\ i.at = "update" => /\ i.o \in Objects /\ i.copy.stamp \in Versions
                        /\ i.copy.rv <= obj[i.o].rv
                        /\ i.copy.rv = obj[i.o].rv => /\ obj[i.o].stamp = NoVersion
                                                      /\ obj[i.o].deployments \subseteq i.copy.deployments
                        /\ i.item.w \in Deployments => i.item.w \in i.copy.deployments

ObjectsGood(obj, st) ==
  \A o \in Objects : obj[o].stamp \in st[o] \cup {NoVersion}

\* What is stamped, or about to be, was made.
Made(hands, i, st, sav) ==
  /\ \A o \in Objects : st[o] \subseteq sav[o]
  /\ \A o \in Objects : hands[o].at \in {"stamp", "restamp"} => hands[o].v \in sav[o]
  /\ i.at = "update" => i.copy.stamp \in sav[i.o]

\* The inductive invariant.
IInv ==
  /\ object \in Objs /\ saved \in Savs /\ stamped \in Savs /\ handler \in [Objects -> Hands]
  /\ workload \in Loads /\ request \in [Clients -> Reqs] /\ left \in Lefts
  /\ init \in Walks
  /\ ObjectsGood(object, stamped) /\ Made(handler, init, stamped, saved)
  /\ \A o \in Objects : HandlerGood(handler[o], o, object, stamped)
  /\ \A w \in Workloads : Good(w, workload[w].ann, object, stamped)
  /\ \A r \in Clients : RequestGood(request[r], object, stamped)
  /\ WalkGood(init, object, stamped)

\* What a step does to objects and stamps: names and versions are added, a change makes a
\* newer copy.
Grows(obj, st, obj2, st2) ==
  \A o \in Objects :
    /\ st[o] \subseteq st2[o]
    /\ obj[o].deployments \subseteq obj2[o].deployments
    /\ obj2[o] = obj[o] \/ obj2[o].rv > obj[o].rv

\* What StampsSeen says of a step.
Seen ==
  \A o \in Objects :
    object[o].stamp # NoVersion /\ object[o].stamp # object'[o].stamp
      => object'[o].stamp \in stamped[o] \/ handler[o].copy.stamp = object[o].stamp

-----------------------------------------------------------------------------
(* What stays good.                                                        *)

\* Annotations that are good stay so when names and versions are added.
LEMMA GoodStays ==
  ASSUME NEW w, NEW ann, NEW obj, NEW st, NEW obj2, NEW st2,
         Good(w, ann, obj, st), Grows(obj, st, obj2, st2)
  PROVE  Good(w, ann, obj2, st2)
BY DEF Good, Grows

\* A copy stays faithful: a change to the object makes it one that cannot be stored.
LEMMA FaithfulStays ==
  ASSUME NEW o \in Objects, NEW copy \in Stamped, NEW obj \in Objs, NEW st, NEW obj2 \in Objs, NEW st2,
         Faithful(o, copy, obj, st), Grows(obj, st, obj2, st2)
  PROVE  Faithful(o, copy, obj2, st2)
<1>1. obj[o].rv \in Nat /\ obj2[o].rv \in Nat /\ copy.rv \in Nat
  BY DEF Objs, Stamped
<1> QED BY <1>1 DEF Faithful, Grows

\* A request under way is not disturbed by the others.
LEMMA RequestStays ==
  ASSUME NEW q \in Reqs, NEW obj \in Objs, NEW st, NEW obj2 \in Objs, NEW st2,
         RequestGood(q, obj, st), Grows(obj, st, obj2, st2)
  PROVE  RequestGood(q, obj2, st2)
<1>1. Good(q.w, q.ann, obj, st) => Good(q.w, q.ann, obj2, st2)
  BY GoodStays
<1>2. Good(q.w, q.added, obj, st) => Good(q.w, q.added, obj2, st2)
  BY GoodStays
<1>3. q.o \in q.todo /\ Faithful(q.o, q.copy, obj, st) => Faithful(q.o, q.copy, obj2, st2)
  <2>1. q.copy \in Stamped /\ q.todo \subseteq Objects
    BY DEF Reqs
  <2> QED BY <2>1, FaithfulStays
<1> QED BY <1>1, <1>2, <1>3 DEF RequestGood

\* Handlers are not disturbed by the others.
LEMMA HandlersStay ==
  ASSUME NEW h \in Hands, NEW o \in Objects, NEW obj \in Objs, NEW st, NEW obj2 \in Objs, NEW st2,
         HandlerGood(h, o, obj, st), Grows(obj, st, obj2, st2)
  PROVE  HandlerGood(h, o, obj2, st2)
<1>1. h.copy \in Stamped
  BY DEF Hands
<1> QED BY <1>1, FaithfulStays DEF HandlerGood, Grows

\* The walk is not disturbed by the others.
LEMMA WalkStays ==
  ASSUME NEW i \in Walks, NEW obj \in Objs, NEW st, NEW obj2 \in Objs, NEW st2,
         WalkGood(i, obj, st), Grows(obj, st, obj2, st2)
  PROVE  WalkGood(i, obj2, st2)
<1>1. \A item \in i.listed : item.rv > 0 /\ item.w \in Workloads /\ Good(item.w, item.ann, obj2, st2)
  BY GoodStays DEF WalkGood
<1>2. Good(i.item.w, i.item.ann, obj2, st2) /\ Good(i.item.w, i.annotations, obj2, st2)
  BY GoodStays DEF WalkGood
<1>3. ASSUME i.at = "create"
      PROVE  i.o \in Objects /\ i.copy.stamp = NoVersion /\ Faithful(i.o, i.copy, obj2, st2)
  <2>1. i.copy \in Stamped
    BY DEF Walks
  <2> QED BY <2>1, <1>3, FaithfulStays DEF WalkGood
<1>4. ASSUME i.at = "update"
      PROVE  /\ i.o \in Objects /\ i.copy.stamp \in Versions
             /\ i.copy.rv <= obj2[i.o].rv
             /\ i.copy.rv = obj2[i.o].rv => /\ obj2[i.o].stamp = NoVersion
                                            /\ obj2[i.o].deployments \subseteq i.copy.deployments
  <2>1. i.o \in Objects /\ i.copy.rv \in Nat
    BY <1>4 DEF WalkGood, Walks, Stamped
  <2>2. obj[i.o].rv \in Nat /\ obj2[i.o].rv \in Nat
    BY <2>1 DEF Objs, Stamped
  <2> QED BY <1>4, <2>1, <2>2 DEF WalkGood, Grows
<1> QED BY <1>1, <1>2, <1>3, <1>4 DEF WalkGood

\* A step that changes neither objects nor stamps lets everything stay.
LEMMA NothingGrows ==
  ASSUME NEW obj \in Objs, NEW st
  PROVE  Grows(obj, st, obj, st)
BY DEF Grows

\* All requests stay good when one of them moves to a good one.
LEMMA RequestMoves ==
  ASSUME IInv, NEW r \in Clients, NEW q \in Reqs, object' \in Objs,
         Grows(object, stamped, object', stamped'), RequestGood(q, object', stamped'),
         request' = [request EXCEPT ![r] = q]
  PROVE  /\ request' \in [Clients -> Reqs]
         /\ \A c \in Clients : RequestGood(request'[c], object', stamped')
<1>1. request' \in [Clients -> Reqs]
  BY DEF IInv
<1>2. ASSUME NEW c \in Clients
      PROVE  RequestGood(request'[c], object', stamped')
  <2>1. CASE c = r
    BY <2>1 DEF IInv
  <2>2. CASE c # r
    <3>1. request'[c] = request[c] /\ request[c] \in Reqs /\ RequestGood(request[c], object, stamped)
      BY <2>2 DEF IInv
    <3>2. object \in Objs
      BY DEF IInv
    <3> QED BY <3>1, <3>2, RequestStays
  <2> QED BY <2>1, <2>2
<1> QED BY <1>1, <1>2

\* All requests stay good when none moves.
LEMMA RequestsStay ==
  ASSUME IInv, object' \in Objs, Grows(object, stamped, object', stamped'), UNCHANGED request
  PROVE  /\ request' \in [Clients -> Reqs]
         /\ \A c \in Clients : RequestGood(request'[c], object', stamped')
<1>1. object \in Objs /\ request \in [Clients -> Reqs]
  BY DEF IInv
<1> QED BY <1>1, RequestStays DEF IInv

\* What the templates carry stays good.
LEMMA WorkloadsStay ==
  ASSUME IInv, Grows(object, stamped, object', stamped'), UNCHANGED workload
  PROVE  workload' \in Loads /\ \A w \in Workloads : Good(w, workload'[w].ann, object', stamped')
BY GoodStays DEF IInv

\* No annotations are good annotations.
LEMMA BareIsGood ==
  ASSUME NEW w, NEW obj, NEW st
  PROVE  Bare \in Annotations /\ Good(w, Bare, obj, st)
BY DEF Bare, Annotations, Good, Keys, Values

\* The records of nothing under way are of their types.
LEMMA NothingTyped ==
  /\ Unstamped \in Stamped /\ NoRequest \in Reqs /\ NoItem \in Items /\ NoWalk \in Walks
  /\ [NoRequest EXCEPT !.at = "rejected"] \in Reqs
  /\ NoHandler \in Hands /\ NoHandler.at = "idle"
  /\ NoRequest.at = "idle" /\ [NoRequest EXCEPT !.at = "rejected"].at = "rejected"
<1>1. Bare \in Annotations
  BY BareIsGood
<1>2. Unstamped \in Stamped
  BY DEF Unstamped, Stamped
<1> QED BY <1>1, <1>2 DEF NoRequest, Reqs, NoItem, Items, NoWalk, Walks, NoHandler, Hands

\* A container that begins to walk holds nothing.
LEMMA NoWalkIsGood ==
  ASSUME NEW obj, NEW st
  PROVE  WalkGood(NoWalk, obj, st)
BY BareIsGood, NothingTyped DEF WalkGood, NoWalk, NoItem

-----------------------------------------------------------------------------
(* The webhooks and the clients.                                           *)

\* Handlers stay good when none moves.
LEMMA HandlersKept ==
  ASSUME IInv, object' \in Objs, Grows(object, stamped, object', stamped'), UNCHANGED handler
  PROVE  /\ handler' \in [Objects -> Hands]
         /\ \A o \in Objects : HandlerGood(handler'[o], o, object', stamped')
<1>1. object \in Objs /\ handler \in [Objects -> Hands]
  BY DEF IInv
<1> QED BY <1>1, HandlersStay DEF IInv

\* The invariant after a step that the walk takes no part in.
LEMMA OthersStep ==
  ASSUME IInv, object' \in Objs, saved' \in Savs, stamped' \in Savs, left' \in Lefts,
         UNCHANGED init, Grows(object, stamped, object', stamped'),
         ObjectsGood(object', stamped'), Made(handler', init, stamped', saved'),
         handler' \in [Objects -> Hands],
         \A o \in Objects : HandlerGood(handler'[o], o, object', stamped'),
         workload' \in Loads, \A w \in Workloads : Good(w, workload'[w].ann, object', stamped'),
         request' \in [Clients -> Reqs],
         \A c \in Clients : RequestGood(request'[c], object', stamped')
  PROVE  IInv'
<1>1. WalkGood(init', object', stamped')
  BY WalkStays DEF IInv
<1> QED BY <1>1 DEF IInv

\* ... and changes neither objects nor versions.
LEMMA QuietStep ==
  ASSUME IInv, left' \in Lefts, UNCHANGED init, UNCHANGED <<object, versionVars>>,
         workload' \in Loads, \A w \in Workloads : Good(w, workload'[w].ann, object, stamped),
         request' \in [Clients -> Reqs],
         \A c \in Clients : RequestGood(request'[c], object, stamped)
  PROVE  IInv'
<1>1. UNCHANGED <<object, saved, stamped, handler>>
  BY DEF versionVars
<1>2. Grows(object, stamped, object', stamped')
  BY <1>1, NothingGrows DEF IInv
<1> QED BY <1>1, <1>2, HandlersKept, OthersStep DEF IInv

\* A failure, an edit or a new version uses up some of its bound.
LEMMA Spent ==
  ASSUME left \in Lefts, NEW what \in {"requests", "stamps", "faults"}, Spend(what)
  PROVE  left' \in Lefts
BY DEF Spend, Lefts

\* A request that is answered leaves nothing behind.
LEMMA Replied ==
  ASSUME IInv, NEW r \in Clients, object' \in Objs, Grows(object, stamped, object', stamped'),
         Accepted(r) \/ Rejected(r)
  PROVE  /\ request' \in [Clients -> Reqs]
         /\ \A c \in Clients : RequestGood(request'[c], object', stamped')
<1>1. PICK q \in {NoRequest, [NoRequest EXCEPT !.at = "rejected"]} :
        request' = [request EXCEPT ![r] = q]
  BY DEF Accepted, Rejected
<1>2. q \in Reqs /\ RequestGood(q, object', stamped')
  BY <1>1, NothingTyped DEF RequestGood
<1> QED BY <1>1, <1>2, RequestMoves

\* A request begins with annotations that are good.
LEMMA Asked ==
  ASSUME IInv, NEW r \in Clients, NEW w \in Workloads, NEW mounts \in SUBSET Objects,
         NEW ann \in Annotations, NEW rv \in Nat, object' \in Objs,
         Grows(object, stamped, object', stamped'), Good(w, ann, object', stamped'),
         Requests(r, w, mounts, ann, rv)
  PROVE  /\ request' \in [Clients -> Reqs]
         /\ \A c \in Clients : RequestGood(request'[c], object', stamped')
<1> DEFINE q == [NoRequest EXCEPT !.at = "visit", !.w = w, !.mounts = mounts, !.ann = ann,
                                  !.rv = rv, !.todo = Lacking(ann, mounts)]
<1>1. q \in Reqs
  BY NothingTyped DEF Reqs, Lacking
<1>2. /\ q.at = "visit" /\ q.w = w /\ q.ann = ann /\ q.added = Bare
      /\ q.mounts = mounts /\ q.todo = Lacking(ann, mounts)
  BY DEF NoRequest
<1>3. RequestGood(q, object', stamped')
  <2>1. Good(w, Bare, object', stamped')
    BY BareIsGood
  <2>2. \A o \in Objects : Bare[o] = NoKey
    BY DEF Bare, Keys
  <2>3. \A o \in mounts : o \in Lacking(ann, mounts) \/ ann[o] # NoKey
    BY DEF Lacking
  <2> HIDE DEF q
  <2> QED BY <1>2, <2>1, <2>2, <2>3 DEF RequestGood, Lacking
<1>4. request' = [request EXCEPT ![r] = q]
  BY DEF Requests
<1> HIDE DEF q
<1> QED BY <1>1, <1>3, <1>4, RequestMoves

\* The annotations of a user's file are good.
LEMMA FileIsGood ==
  ASSUME NEW w, NEW obj, NEW st, NEW keys \in SUBSET Owners
  PROVE  LET ann == [k \in Keys |-> IF k \in keys THEN Written ELSE NoKey] IN
         ann \in Annotations /\ Good(w, ann, obj, st)
BY WorkloadsAssumption DEF Annotations, Good, Keys, Values

\* A user creates or replaces a workload.
LEMMA CreateKeeps ==
  ASSUME IInv, NEW r \in Clients, NEW w \in Workloads, Create(r, w), UNCHANGED init
  PROVE  IInv'
<1>1. PICK mounts \in SUBSET Objects, keys \in SUBSET Owners :
        Requests(r, w, mounts, [k \in Keys |-> IF k \in keys THEN Written ELSE NoKey],
                 workload[w].rv)
  BY DEF Create
<1>2. workload[w].rv \in Nat
  BY DEF IInv, Loads
<1>3. UNCHANGED <<object, versionVars, stamped, workload>> /\ left' \in Lefts
  BY Spent DEF Create, IInv, versionVars
<1>4. Grows(object, stamped, object', stamped') /\ object' \in Objs
  BY <1>3, NothingGrows DEF IInv
<1>5. /\ request' \in [Clients -> Reqs]
      /\ \A c \in Clients : RequestGood(request'[c], object', stamped')
  BY <1>1, <1>2, <1>4, FileIsGood, Asked
<1> QED BY <1>3, <1>5, QuietStep DEF IInv

\* A user edits a workload.
LEMMA EditKeeps ==
  ASSUME IInv, NEW r \in Clients, NEW w \in Workloads, Edit(r, w), UNCHANGED init
  PROVE  IInv'
<1>1. PICK mounts \in SUBSET Objects :
        Requests(r, w, mounts, workload[w].ann, workload[w].rv)
  BY DEF Edit
<1>2. workload[w].rv \in Nat /\ workload[w].ann \in Annotations
  BY DEF IInv, Loads
<1>3. UNCHANGED <<object, versionVars, stamped, workload>> /\ left' \in Lefts
  BY Spent DEF Edit, IInv, versionVars
<1>4. Grows(object, stamped, object', stamped') /\ object' \in Objs
  BY <1>3, NothingGrows DEF IInv
<1>5. /\ request' \in [Clients -> Reqs]
      /\ \A c \in Clients : RequestGood(request'[c], object', stamped')
  <2>1. Good(w, workload[w].ann, object', stamped')
    BY <1>3 DEF IInv
  <2> QED BY <1>1, <1>2, <1>4, <2>1, Asked
<1> QED BY <1>3, <1>5, QuietStep DEF IInv

\* A reconciler rolls a version out: the one workload that is named gets it.
LEMMA RollOutKeeps ==
  ASSUME IInv, NEW r \in Clients, NEW o \in Objects, NEW w \in Workloads,
         RollOut(r, o, w), UNCHANGED init
  PROVE  IInv'
<1> DEFINE h == handler[o]
           ann == [workload[w].ann EXCEPT ![o] = h.v]
<1>1. /\ UNCHANGED <<object, saved, stamped, workload, left>>
      /\ Requests(r, w, workload[w].mounts, ann, workload[w].rv)
      /\ \/ h.at = "deployments" /\ h.copy.deployments = {w} /\ HandlerGoes(o, "statefulsets")
         \/ /\ h.at = "statefulsets" /\ h.copy.statefulsets = {w}
            /\ handler' = [handler EXCEPT ![o] = NoHandler]
  BY DEF RollOut
<1>2. h \in Hands /\ HandlerGood(h, o, object, stamped) /\ stamped \in Savs
  BY DEF IInv
<1>3. h.v \in stamped[o] /\ h.v \in Versions /\ h.copy \in Stamped
      /\ h.copy.deployments \subseteq object[o].deployments
  BY <1>1, <1>2 DEF HandlerGood, Faithful, Savs, Hands
<1>4. /\ workload[w].rv \in Nat /\ workload[w].ann \in Annotations
      /\ workload[w].mounts \in SUBSET Objects
  BY DEF IInv, Loads
<1>5. Grows(object, stamped, object', stamped') /\ object' \in Objs
  BY <1>1, NothingGrows DEF IInv
<1>6. PICK next \in {NoHandler, [h EXCEPT !.at = "statefulsets"]} :
        handler' = [handler EXCEPT ![o] = next]
  BY <1>1 DEF HandlerGoes
<1>7. /\ handler' \in [Objects -> Hands]
      /\ \A x \in Objects : HandlerGood(handler'[x], x, object', stamped')
      /\ Made(handler', init, stamped', saved')
  <2>1. next \in Hands /\ next.at \in {"idle", "statefulsets"} /\ HandlerGood(next, o, object, stamped)
    BY <1>2, <1>3, <1>1, NothingTyped DEF Hands, HandlerGood
  <2> QED BY <1>1, <1>6, <2>1 DEF IInv, Made
<1>8. ann \in Annotations
  BY <1>3, <1>4 DEF Annotations, Values
<1>9. w \in Deployments => w \in object[o].deployments
  <2>1. h.copy.statefulsets \subseteq StatefulSets
    BY <1>3 DEF Stamped
  <2> QED BY <1>1, <1>3, <2>1, WorkloadsAssumption
<1>10. Good(w, ann, object', stamped')
  <2>1. Good(w, workload[w].ann, object', stamped')
    BY <1>5, <1>1, WorkloadsStay
  <2>2. \A x \in Objects : x # o => ann[x] = workload[w].ann[x]
    BY <1>4 DEF Annotations, Keys
  <2>3. ann[o] = h.v
    BY <1>4 DEF Annotations, Keys
  <2> HIDE DEF ann
  <2> QED BY <2>1, <2>2, <2>3, <1>1, <1>3, <1>9 DEF Good
<1>11. /\ request' \in [Clients -> Reqs]
       /\ \A c \in Clients : RequestGood(request'[c], object', stamped')
  <2> HIDE DEF ann
  <2> QED BY <1>1, <1>4, <1>5, <1>8, <1>10, Asked
<1> QED BY <1>1, <1>5, <1>7, <1>11, WorkloadsStay, OthersStep DEF IInv

\* A copy of the newest version is stored: the object has what is on the copy, and is
\* newer than before if that is anything new.
LEMMA Stored ==
  ASSUME object \in Objs, NEW o \in Objects, NEW copy \in Stamped, Newest(o, copy), Store(o, copy)
  PROVE  /\ object' \in Objs /\ \A x \in Objects : x # o => object'[x] = object[x]
         /\ object'[o].stamp = copy.stamp /\ object'[o].deployments = copy.deployments
         /\ object'[o] = object[o] \/ object'[o].rv > object[o].rv
<1> DEFINE stored == IF copy = object[o] THEN object[o] ELSE [copy EXCEPT !.rv = copy.rv + 1]
<1>1. /\ stored \in Stamped /\ stored.stamp = copy.stamp
      /\ stored.deployments = copy.deployments
      /\ stored = object[o] \/ stored.rv > object[o].rv
  BY DEF Stamped, Newest, Objs
<1>2. object' = [object EXCEPT ![o] = stored]
  BY DEF Store, Objs
<1> HIDE DEF stored
<1> QED BY <1>1, <1>2 DEF Objs

\* A reconciler reads an object.
LEMMA ReadKeeps ==
  ASSUME IInv, NEW o \in Objects, Read(o), UNCHANGED init
  PROVE  IInv'
<1> DEFINE h == [NoHandler EXCEPT !.at = "create", !.copy = object[o]]
<1>1. UNCHANGED <<object, saved, stamped, workload, request>> /\ left' \in Lefts
  BY Spent DEF Read, IInv
<1>2. object[o] \in Stamped
  BY DEF IInv, Objs
<1>3. h \in Hands /\ h.at = "create" /\ h.copy = object[o]
  BY <1>2, NothingTyped DEF Hands, NoHandler
<1>4. handler' = [handler EXCEPT ![o] = h]
  BY DEF Read
<1> HIDE DEF h
<1>5. HandlerGood(h, o, object, stamped)
  BY <1>2, <1>3 DEF HandlerGood, Faithful, Stamped, IInv, ObjectsGood
<1>6. /\ handler' \in [Objects -> Hands]
      /\ \A x \in Objects : HandlerGood(handler'[x], x, object', stamped')
      /\ Made(handler', init, stamped', saved')
  BY <1>1, <1>3, <1>4, <1>5 DEF IInv, Made
<1>7. Grows(object, stamped, object', stamped') /\ object' \in Objs
  BY <1>1, NothingGrows DEF IInv
<1> QED BY <1>1, <1>6, <1>7, WorkloadsStay, RequestsStay, OthersStep DEF IInv

\* What a version that is made changes.
LEMMA Versioned ==
  ASSUME IInv, NEW o \in Objects, NEW v \in Versions, NewVersion(o, v)
  PROVE  /\ saved' \in Savs /\ v \in saved'[o]
         /\ \A x \in Objects : saved[x] \subseteq saved'[x]
BY DEF NewVersion, IInv, Savs

\* A reconciler makes a version, or takes one that there is.
LEMMA MakeVersionKeeps ==
  ASSUME IInv, NEW o \in Objects, MakeVersion(o), UNCHANGED init
  PROVE  IInv'
<1>1. UNCHANGED <<object, stamped, workload, request, left>> /\ handler[o].at = "create"
  BY DEF MakeVersion
<1>2. PICK v \in Versions, at \in {"stamp", "restamp"} :
        /\ handler' = [handler EXCEPT ![o].at = at, ![o].v = v]
        /\ NewVersion(o, v) \/ (v \in saved[o] /\ UNCHANGED saved)
  BY DEF MakeVersion
<1> DEFINE h == [handler[o] EXCEPT !.at = at, !.v = v]
<1>3. handler[o] \in Hands /\ HandlerGood(handler[o], o, object, stamped)
  BY DEF IInv
<1>4. h \in Hands /\ h.at = at /\ h.v = v /\ h.copy = handler[o].copy
  BY <1>3 DEF Hands
<1>5. handler' = [handler EXCEPT ![o] = h]
  BY <1>2 DEF IInv, Hands
<1> HIDE DEF h
<1>6. saved' \in Savs /\ v \in saved'[o] /\ \A x \in Objects : saved[x] \subseteq saved'[x]
  BY <1>2, Versioned DEF IInv
<1>7. HandlerGood(h, o, object, stamped)
  BY <1>1, <1>3, <1>4 DEF HandlerGood
<1>8. /\ handler' \in [Objects -> Hands]
      /\ \A x \in Objects : HandlerGood(handler'[x], x, object', stamped')
  BY <1>1, <1>4, <1>5, <1>7 DEF IInv
<1>9. Made(handler', init, stamped', saved')
  <2>1. init.at = "update" => init.o \in Objects
    BY DEF IInv, WalkGood
  <2> QED BY <1>1, <1>4, <1>5, <1>6, <2>1 DEF IInv, Made
<1>10. Grows(object, stamped, object', stamped') /\ object' \in Objs
  BY <1>1, NothingGrows DEF IInv
<1> QED BY <1>1, <1>6, <1>8, <1>9, <1>10, WorkloadsStay, RequestsStay, OthersStep DEF IInv

\* A reconciler stores its copy: it takes the place of what the reconciler has read.
LEMMA StampStores ==
  ASSUME IInv, NEW o \in Objects, Stamp(o)
  PROVE  /\ object' \in Objs /\ stamped' \in Savs
         /\ Grows(object, stamped, object', stamped') /\ ObjectsGood(object', stamped')
         /\ \A x \in Objects : stamped'[x] \subseteq saved[x]
         /\ handler[o].v \in stamped'[o] /\ handler[o].copy.stamp = object[o].stamp
         /\ \A x \in Objects : x # o => object'[x] = object[x]
<1> DEFINE h == handler[o]
           copy == [h.copy EXCEPT !.stamp = h.v]
<1>1. h \in Hands /\ HandlerGood(h, o, object, stamped) /\ h.at \in {"stamp", "restamp"}
  BY DEF IInv, Stamp
<1>2. h.v \in saved[o] /\ h.v \in Versions
  BY <1>1 DEF IInv, Made, Savs
<1>3. h.copy = object[o]
  BY <1>1 DEF Stamp, Newest, HandlerGood, Faithful
<1>4. /\ copy \in Stamped /\ copy.stamp = h.v /\ copy.rv = h.copy.rv
      /\ copy.deployments = h.copy.deployments
  BY <1>1, <1>2 DEF Hands, Stamped
<1>5. Store(o, copy) /\ stamped' = [stamped EXCEPT ![o] = @ \cup {h.v}]
  BY DEF Stamp
<1> HIDE DEF copy
<1>6. /\ object' \in Objs /\ \A x \in Objects : x # o => object'[x] = object[x]
      /\ object'[o].stamp = h.v /\ object'[o].deployments = object[o].deployments
      /\ object'[o] = object[o] \/ object'[o].rv > object[o].rv
  <2>1. Newest(o, copy)
    BY <1>3, <1>4 DEF Newest
  <2> QED BY <1>3, <1>4, <1>5, <2>1, Stored DEF IInv
<1>7. stamped' \in Savs /\ h.v \in stamped'[o] /\ \A x \in Objects : stamped[x] \subseteq stamped'[x]
  BY <1>2, <1>5 DEF IInv, Savs
<1>8. \A x \in Objects : stamped'[x] \subseteq saved[x]
  BY <1>2, <1>5 DEF IInv, Savs, Made
<1> QED BY <1>3, <1>6, <1>7, <1>8 DEF Grows, ObjectsGood, IInv

\* The handler of one object moves on to where there is nothing to be stamped.
LEMMA HandlerMoves ==
  ASSUME IInv, NEW o \in Objects, NEW h \in Hands, object' \in Objs, stamped' \in Savs,
         saved' \in Savs, left' \in Lefts, UNCHANGED <<init, workload, request>>,
         Grows(object, stamped, object', stamped'), ObjectsGood(object', stamped'),
         \A x \in Objects : stamped'[x] \subseteq saved'[x] /\ saved[x] \subseteq saved'[x],
         handler' = [handler EXCEPT ![o] = h], h.at \notin {"stamp", "restamp"},
         HandlerGood(h, o, object', stamped')
  PROVE  IInv'
<1>1. handler' \in [Objects -> Hands]
  BY DEF IInv
<1>2. ASSUME NEW x \in Objects PROVE HandlerGood(handler'[x], x, object', stamped')
  <2>1. CASE x = o
    BY <2>1 DEF IInv
  <2>2. CASE x # o
    <3>1. /\ handler'[x] = handler[x] /\ handler[x] \in Hands /\ object \in Objs
          /\ HandlerGood(handler[x], x, object, stamped)
      BY <2>2 DEF IInv
    <3> QED BY <3>1, HandlersStay
  <2> QED BY <2>1, <2>2
<1>3. Made(handler', init, stamped', saved')
  <2>1. init.at = "update" => init.o \in Objects
    BY DEF IInv, WalkGood
  <2> QED BY <2>1 DEF IInv, Made
<1> QED BY <1>1, <1>2, <1>3, WorkloadsStay, RequestsStay, OthersStep

\* A reconciler stamps an object.
LEMMA StampObjectKeeps ==
  ASSUME IInv, NEW o \in Objects, StampObject(o), UNCHANGED init
  PROVE  IInv'
<1>1. Stamp(o) /\ UNCHANGED <<saved, workload, request, left>>
  BY DEF StampObject
<1>2. PICK at \in {"deployments", "statefulsets"} :
        \/ handler' = [handler EXCEPT ![o] = NoHandler]
        \/ handler' = [handler EXCEPT ![o].at = at]
  BY DEF StampObject, HandlerGoes
<1> DEFINE moved == [handler[o] EXCEPT !.at = at]
<1>3. handler[o] \in Hands /\ HandlerGood(handler[o], o, object, stamped)
      /\ handler[o].at \in {"stamp", "restamp"}
  BY <1>1 DEF IInv, Stamp
<1>4. /\ moved \in Hands /\ moved.at = at /\ moved.v = handler[o].v
      /\ moved.copy = handler[o].copy
  BY <1>3 DEF Hands
<1>5. /\ object' \in Objs /\ stamped' \in Savs
      /\ Grows(object, stamped, object', stamped') /\ ObjectsGood(object', stamped')
      /\ \A x \in Objects : stamped'[x] \subseteq saved[x]
      /\ handler[o].v \in stamped'[o]
  BY <1>1, StampStores
<1>6. HandlerGood(handler[o], o, object', stamped')
  BY <1>3, <1>5, HandlersStay DEF IInv
<1>7. PICK h \in {NoHandler, moved} : handler' = [handler EXCEPT ![o] = h]
  BY <1>2
<1> HIDE DEF moved
<1>8. h \in Hands /\ h.at \notin {"stamp", "restamp"} /\ HandlerGood(h, o, object', stamped')
  BY <1>3, <1>4, <1>5, <1>6, NothingTyped DEF HandlerGood
<1> QED BY <1>1, <1>5, <1>7, <1>8, HandlerMoves DEF IInv

\* A handler ends, whether or not its call was carried out.
LEMMA HandlerEndsKeeps ==
  ASSUME IInv, NEW o \in Objects, HandlerEnds(o), UNCHANGED init
  PROVE  IInv'
<1>1. UNCHANGED <<workload, request, left>> /\ handler' = [handler EXCEPT ![o] = NoHandler]
  BY DEF HandlerEnds
<1>2. /\ object' \in Objs /\ stamped' \in Savs /\ saved' \in Savs
      /\ Grows(object, stamped, object', stamped') /\ ObjectsGood(object', stamped')
      /\ \A x \in Objects : stamped'[x] \subseteq saved'[x] /\ saved[x] \subseteq saved'[x]
  <2>1. CASE UNCHANGED <<object, saved, stamped>>
    BY <2>1, NothingGrows DEF IInv, Made
  <2>2. CASE UNCHANGED <<object, stamped>> /\ \E v \in Versions : NewVersion(o, v)
    BY <2>2, Versioned, NothingGrows DEF IInv, Made
  <2>3. CASE Stamp(o) /\ UNCHANGED saved
    BY <2>3, StampStores DEF IInv
  <2> QED BY <2>1, <2>2, <2>3 DEF HandlerEnds
<1>3. NoHandler \in Hands /\ NoHandler.at = "idle" /\ HandlerGood(NoHandler, o, object', stamped')
  BY NothingTyped DEF HandlerGood
<1> QED BY <1>1, <1>2, <1>3, HandlerMoves DEF IInv

\* A pod's webhook stamps an earlier version.
LEMMA RollBackStores ==
  ASSUME IInv, NEW o \in Objects, RollBack(o)
  PROVE  /\ object' \in Objs /\ Grows(object, stamped, object', stamped')
         /\ ObjectsGood(object', stamped') /\ object'[o].stamp \in stamped[o]
         /\ \A x \in Objects : x # o => object'[x] = object[x]
<1>1. PICK v \in stamped[o] : Store(o, [object[o] EXCEPT !.stamp = v])
  BY DEF RollBack
<1> DEFINE copy == [object[o] EXCEPT !.stamp = v]
<1>2. object[o] \in Stamped /\ v \in Versions /\ stamped' = stamped
  BY DEF IInv, Objs, Savs, RollBack, versionVars
<1>3. /\ copy \in Stamped /\ copy.stamp = v /\ copy.rv = object[o].rv
      /\ copy.deployments = object[o].deployments
  BY <1>2 DEF Stamped
<1>4. Store(o, copy) /\ Newest(o, copy)
  BY <1>1, <1>3 DEF Newest
<1> HIDE DEF copy
<1>5. /\ object' \in Objs /\ \A x \in Objects : x # o => object'[x] = object[x]
      /\ object'[o].stamp = v /\ object'[o].deployments = object[o].deployments
      /\ object'[o] = object[o] \/ object'[o].rv > object[o].rv
  BY <1>3, <1>4, Stored DEF IInv
<1> QED BY <1>2, <1>5 DEF Grows, ObjectsGood, IInv

LEMMA RollBackKeeps ==
  ASSUME IInv, NEW o \in Objects, RollBack(o), UNCHANGED init
  PROVE  IInv'
<1>1. UNCHANGED <<saved, stamped, handler, workload, request>> /\ left' \in Lefts
  BY Spent DEF RollBack, IInv, versionVars
<1>2. object' \in Objs /\ Grows(object, stamped, object', stamped') /\ ObjectsGood(object', stamped')
  BY RollBackStores
<1> QED BY <1>1, <1>2, HandlersKept, WorkloadsStay, RequestsStay, OthersStep DEF IInv

\* The webhook reads the next mount.
LEMMA VisitMountKeeps ==
  ASSUME IInv, NEW r \in Clients, VisitMount(r), UNCHANGED init
  PROVE  IInv'
<1>1. UNCHANGED <<object, versionVars, stamped, workload, left>> /\ request[r].at = "visit"
  BY DEF VisitMount, versionVars
<1>2. Grows(object, stamped, object', stamped') /\ object' \in Objs
  BY <1>1, NothingGrows DEF IInv
<1>3. request[r] \in Reqs /\ RequestGood(request[r], object, stamped)
  BY DEF IInv
<1>4. /\ request' \in [Clients -> Reqs]
      /\ \A c \in Clients : RequestGood(request'[c], object', stamped')
  <2>1. CASE Rejected(r)
    BY <1>2, <2>1, Replied
  <2>2. ASSUME NEW o \in request[r].todo,
               request' = [request EXCEPT ![r].at = "update", ![r].o = o, ![r].copy = object[o]]
        PROVE  /\ request' \in [Clients -> Reqs]
               /\ \A c \in Clients : RequestGood(request'[c], object', stamped')
    <3> DEFINE q == [request[r] EXCEPT !.at = "update", !.o = o, !.copy = object[o]]
    <3>1. o \in Objects /\ object[o] \in Stamped
      BY <1>3 DEF IInv, Objs, Reqs
    <3>2. q \in Reqs /\ request' = [request EXCEPT ![r] = q]
      BY <1>3, <3>1, <2>2 DEF Reqs
    <3>3. Faithful(o, object[o], object, stamped)
      BY <3>1 DEF Faithful, Stamped, IInv, ObjectsGood
    <3>4. RequestGood(q, object', stamped')
      BY <1>1, <1>3, <3>3 DEF RequestGood, Reqs
    <3> HIDE DEF q
    <3> QED BY <1>2, <3>2, <3>4, RequestMoves
  <2> QED BY <2>1, <2>2 DEF VisitMount
<1> QED BY <1>1, <1>4, QuietStep DEF IInv

\* The name goes on a copy: no Deployment's name is lost, and the stamp stays.
LEMMA NamedTyped ==
  ASSUME NEW copy \in Stamped, NEW w \in Workloads
  PROVE  /\ Named(copy, w) \in Stamped
         /\ Named(copy, w).stamp = copy.stamp /\ Named(copy, w).rv = copy.rv
         /\ copy.deployments \subseteq Named(copy, w).deployments
         /\ w \in Deployments => w \in Named(copy, w).deployments
<1>1. CASE w \in Deployments
  BY <1>1 DEF Named, Stamped
<1>2. CASE w \notin Deployments /\ w \in copy.statefulsets
  BY <1>2 DEF Named, Stamped
<1>3. CASE w \notin Deployments /\ w \notin copy.statefulsets
  <2>1. w \in StatefulSets
    BY <1>3 DEF Workloads
  <2> QED BY <1>3, <2>1 DEF Named, Stamped
<1> QED BY <1>1, <1>2, <1>3

\* The webhook stores the named copy.
LEMMA UpdateMountKeeps ==
  ASSUME IInv, NEW r \in Clients, UpdateMount(r), UNCHANGED init
  PROVE  IInv'
<1> DEFINE o == request[r].o
           w == request[r].w
           copy == Named(request[r].copy, w)
           q == [request[r] EXCEPT !.at = "visit", !.todo = @ \ {o},
                                   !.o = NoKey, !.copy = Unstamped, !.added[o] = copy.stamp]
<1>1. /\ UNCHANGED <<versionVars, saved, stamped, handler, workload, left>>
      /\ request[r].at = "update"
  BY DEF UpdateMount, versionVars
<1>2. request[r] \in Reqs /\ RequestGood(request[r], object, stamped)
  BY DEF IInv
<1>3. o \in Objects /\ o \in request[r].todo /\ request[r].copy \in Stamped /\ w \in Workloads
  BY <1>1, <1>2 DEF RequestGood, Reqs
<1>4. Faithful(o, request[r].copy, object, stamped)
  BY <1>1, <1>2 DEF RequestGood
<1>5. CASE Rejected(r) /\ UNCHANGED object
  <2>1. Grows(object, stamped, object', stamped') /\ object' \in Objs
    BY <1>1, <1>5, NothingGrows DEF IInv
  <2> QED BY <1>1, <1>5, <2>1, Replied, QuietStep DEF IInv
<1>6. CASE Newest(o, copy) /\ Store(o, copy) /\ request' = [request EXCEPT ![r] = q]
  <2>1. /\ copy \in Stamped /\ copy.stamp = request[r].copy.stamp
        /\ copy.rv = request[r].copy.rv /\ request[r].copy.deployments \subseteq copy.deployments
        /\ w \in Deployments => w \in copy.deployments
    BY <1>3, NamedTyped
  <2>2. request[r].copy = object[o]
    BY <1>6, <2>1, <1>4 DEF Newest, Faithful
  <2> HIDE DEF copy
  <2>3. /\ object' \in Objs /\ \A x \in Objects : x # o => object'[x] = object[x]
        /\ object'[o].stamp = copy.stamp /\ object'[o].deployments = copy.deployments
        /\ object'[o] = object[o] \/ object'[o].rv > object[o].rv
    BY <1>3, <1>6, <2>1, Stored DEF IInv
  <2>4. Grows(object, stamped, object', stamped')
    BY <1>1, <2>1, <2>2, <2>3 DEF Grows
  <2>5. ObjectsGood(object', stamped') /\ Made(handler', init, stamped', saved')
    BY <1>1, <2>1, <2>2, <2>3 DEF ObjectsGood, IInv
  <2>6. q \in Reqs
    <3>1. copy.stamp \in Values /\ o \in Keys
      BY <2>1, <1>3 DEF Stamped, Values, Keys
    <3>2. [request[r].added EXCEPT ![o] = copy.stamp] \in Annotations
      BY <3>1, <1>2 DEF Reqs, Annotations
    <3> QED BY <1>2, <3>2, NothingTyped DEF Reqs
  <2>7. /\ q.at = "visit" /\ q.w = w /\ q.mounts = request[r].mounts /\ q.ann = request[r].ann
        /\ q.todo = request[r].todo \ {o} /\ q.added[o] = copy.stamp
        /\ \A x \in Objects : x # o => q.added[x] = request[r].added[x]
    BY <1>2, <1>3 DEF Reqs, Annotations, Keys
  <2> HIDE DEF q
  <2>8. RequestGood(q, object', stamped')
    <3>1. RequestGood(request[r], object', stamped')
      BY <1>2, <2>3, <2>4, RequestStays DEF IInv
    <3>2. copy.stamp \in stamped[o] \cup {NoVersion} /\ copy.stamp # NoKey
      BY <2>1, <1>4, WorkloadsAssumption DEF Faithful, Stamped
    <3>3. Good(w, q.added, object', stamped')
      BY <1>1, <2>1, <2>3, <2>7, <3>1, <3>2 DEF RequestGood, Good
    <3>4. request[r].mounts \subseteq Objects
      BY <1>2 DEF Reqs
    <3> QED BY <1>1, <1>3, <2>7, <3>1, <3>2, <3>3, <3>4 DEF RequestGood
  <2> QED BY <1>1, <1>6, <2>3, <2>4, <2>5, <2>6, <2>8, RequestMoves, WorkloadsStay, HandlersKept,
              OthersStep DEF IInv
<1>7. \/ Rejected(r) /\ UNCHANGED object
      \/ Newest(o, copy) /\ Store(o, copy) /\ request' = [request EXCEPT ![r] = q]
  BY DEF UpdateMount
<1> QED BY <1>5, <1>6, <1>7

\* The API server stores a workload with annotations that are good.
LEMMA PersistKeeps ==
  ASSUME IInv, NEW r \in Clients, NEW ann \in Annotations,
         request[r].at \in {"visit", "update"}, Good(request[r].w, ann, object, stamped),
         Persist(r, ann), UNCHANGED <<object, versionVars>>, left' \in Lefts, UNCHANGED init
  PROVE  IInv'
<1> DEFINE w == request[r].w
           new == [mounts |-> request[r].mounts, ann |-> ann, rv |-> request[r].rv]
<1>1. request[r] \in Reqs /\ w \in Workloads
  BY DEF IInv, RequestGood
<1>2. Grows(object, stamped, object', stamped') /\ object' \in Objs /\ UNCHANGED stamped
  BY NothingGrows DEF IInv, versionVars
<1>3. Accepted(r) \/ Rejected(r)
  BY DEF Persist
<1>4. workload' \in Loads /\ \A x \in Workloads : Good(x, workload'[x].ann, object, stamped)
  <2>1. CASE UNCHANGED workload
    BY <2>1 DEF IInv
  <2>2. CASE workload' = [workload EXCEPT ![w] = [new EXCEPT !.rv = new.rv + 1]]
    <3> DEFINE stored == [new EXCEPT !.rv = new.rv + 1]
    <3>1. /\ stored \in [mounts : SUBSET Objects, ann : Annotations, rv : Nat]
          /\ stored.ann = ann
      BY <1>1 DEF Reqs
    <3>2. workload' = [workload EXCEPT ![w] = stored]
      BY <2>2
    <3> HIDE DEF stored
    <3> QED BY <1>1, <3>1, <3>2 DEF IInv, Loads
  <2> QED BY <2>1, <2>2 DEF Persist
<1> QED BY <1>2, <1>3, <1>4, Replied, QuietStep DEF IInv

\* What the patch makes of good annotations.
LEMMA PatchedIsGood ==
  ASSUME NEW w, NEW ann \in Annotations, NEW added \in Annotations, NEW stale, NEW obj, NEW st,
         Good(w, ann, obj, st), Good(w, added, obj, st)
  PROVE  /\ Patched(ann, [added EXCEPT ![Sync] = Written], stale) \in Annotations
         /\ Good(w, Patched(ann, [added EXCEPT ![Sync] = Written], stale), obj, st)
<1>1. Sync \in Keys /\ Sync \notin Objects
  BY WorkloadsAssumption DEF Keys
<1>2. [added EXCEPT ![Sync] = Written] \in Annotations
  BY <1>1 DEF Annotations, Values
<1>3. \A o \in Objects : [added EXCEPT ![Sync] = Written][o] = added[o]
  BY <1>1 DEF Annotations, Keys
<1>4. Objects \subseteq Keys
  BY DEF Keys
<1> QED BY <1>2, <1>3, <1>4 DEF Patched, Annotations, Values, Good

\* The webhook answers with its patch.
LEMMA PatchWorkloadKeeps ==
  ASSUME IInv, NEW r \in Clients, PatchWorkload(r), UNCHANGED init
  PROVE  IInv'
<1> DEFINE added == [request[r].added EXCEPT ![Sync] = Written]
           stale == Stale(request[r].mounts, request[r].ann)
           ann == Patched(request[r].ann, added, stale)
<1>1. UNCHANGED <<object, versionVars, stamped, left>> /\ request[r].at = "visit"
  BY DEF PatchWorkload, versionVars
<1>2. CASE Rejected(r) /\ UNCHANGED workload
  <2>1. Grows(object, stamped, object', stamped') /\ object' \in Objs
    BY <1>1, NothingGrows DEF IInv
  <2> QED BY <1>1, <1>2, <2>1, Replied, QuietStep DEF IInv
<1>3. CASE Persist(r, ann)
  <2>1. request[r] \in Reqs /\ RequestGood(request[r], object, stamped)
    BY DEF IInv
  <2>2. /\ Good(request[r].w, request[r].ann, object, stamped)
        /\ Good(request[r].w, request[r].added, object, stamped)
        /\ request[r].ann \in Annotations /\ request[r].added \in Annotations
    BY <1>1, <2>1 DEF RequestGood, Reqs
  <2>3. ann \in Annotations /\ Good(request[r].w, ann, object, stamped)
    BY <2>2, PatchedIsGood
  <2> HIDE DEF ann
  <2> QED BY <1>1, <1>3, <2>3, PersistKeeps DEF IInv
<1> QED BY <1>2, <1>3 DEF PatchWorkload

\* The webhook fails, or cannot be reached.
LEMMA OutagesKeep ==
  ASSUME IInv, NEW r \in Clients, Outages(r), UNCHANGED init
  PROVE  IInv'
<1>1. /\ Spend("faults") /\ UNCHANGED <<object, versionVars, stamped>>
      /\ request[r].at \in {"visit", "update"}
  BY DEF Outages, WebhookFails, Unreachable, versionVars
<1>2. left' \in Lefts
  BY <1>1, Spent DEF IInv
<1>3. CASE WebhookFails(r)
  <2>1. Grows(object, stamped, object', stamped') /\ object' \in Objs
    BY <1>1, NothingGrows DEF IInv
  <2> QED BY <1>1, <1>2, <1>3, <2>1, Replied, QuietStep DEF IInv, WebhookFails
<1>4. CASE Unreachable(r)
  <2>1. request[r].ann \in Annotations /\ Good(request[r].w, request[r].ann, object, stamped)
    BY <1>1 DEF IInv, RequestGood, Reqs
  <2> QED BY <1>1, <1>2, <1>4, <2>1, PersistKeeps DEF Unreachable
<1> QED BY <1>3, <1>4 DEF Outages

-----------------------------------------------------------------------------
(* The walk.                                                               *)

\* The invariant after a step of the walk that changes neither objects nor versions, and
\* does not go on to store a copy.
LEMMA WalkMoves ==
  ASSUME IInv, UNCHANGED <<object, versionVars, workload>>, left' \in Lefts,
         request' \in [Clients -> Reqs],
         \A c \in Clients : RequestGood(request'[c], object, stamped),
         init' \in Walks, WalkGood(init', object, stamped), init'.at # "update"
  PROVE  IInv'
<1>1. UNCHANGED <<saved, stamped, handler>>
  BY DEF versionVars
<1>2. Made(handler, init', stamped, saved)
  BY DEF IInv, Made
<1> QED BY <1>1, <1>2 DEF IInv

\* ... and leaves the requests alone.
LEMMA WalkGoesOn ==
  ASSUME IInv, UNCHANGED webhookVars,
         NEW i \in Walks, WalkGood(i, object, stamped), i.at # "update", init' = i
  PROVE  IInv'
BY WalkMoves DEF IInv, webhookVars

\* The container ends.
LEMMA Exited ==
  ASSUME InitExit, NEW obj, NEW st
  PROVE  init' \in Walks /\ WalkGood(init', obj, st) /\ init'.at # "update"
BY NothingTyped, NoWalkIsGood DEF InitExit, NoWalk

\* The invariant after a step of the walk that changes objects and versions.
LEMMA WalkStep ==
  ASSUME IInv, object' \in Objs, saved' \in Savs, stamped' \in Savs, left' \in Lefts,
         UNCHANGED <<handler, workload, request>>,
         Grows(object, stamped, object', stamped'), ObjectsGood(object', stamped'),
         \A x \in Objects : stamped'[x] \subseteq saved'[x] /\ saved[x] \subseteq saved'[x],
         init' \in Walks, WalkGood(init', object', stamped'),
         init'.at = "update" => init'.copy.stamp \in saved'[init'.o]
  PROVE  IInv'
<1>1. Made(handler', init', stamped', saved')
  BY DEF IInv, Made
<1> QED BY <1>1, HandlersKept, WorkloadsStay, RequestsStay DEF IInv

\* The workloads are listed.
LEMMA InitListKeeps ==
  ASSUME IInv, NEW at \in {"listDeployments", "listStatefulSets"},
         NEW kind \in SUBSET Workloads, NEW next \in {"deployments", "statefulSets"},
         InitList(at, kind, next)
  PROVE  IInv'
<1> DEFINE listed == {[w |-> w, mounts |-> workload[w].mounts, ann |-> workload[w].ann,
                       rv |-> workload[w].rv] : w \in {x \in kind : Exists(x)}}
           i == [NoWalk EXCEPT !.at = next, !.listed = listed]
<1>1. init.at = at /\ init' = i /\ UNCHANGED webhookVars
  BY DEF InitList
<1>2. ASSUME NEW item \in listed
      PROVE  /\ item \in Items /\ item.rv > 0 /\ item.w \in Workloads
             /\ Good(item.w, item.ann, object, stamped)
  <2>1. PICK w \in kind : Exists(w) /\ item = [w |-> w, mounts |-> workload[w].mounts,
                                  ann |-> workload[w].ann, rv |-> workload[w].rv]
    OBVIOUS
  <2>2. workload[w] \in [mounts : SUBSET Objects, ann : Annotations, rv : Nat]
    BY DEF IInv, Loads
  <2> QED BY <2>1, <2>2 DEF Items, Exists, IInv
<1> HIDE DEF listed
<1>3. listed \subseteq Items
  BY <1>2
<1>4. i \in Walks /\ i.at = next /\ i.listed = listed /\ i.item = NoItem /\ i.todo = {} /\ i.annotations = Bare
  BY <1>3, NothingTyped DEF Walks, NoWalk
<1> HIDE DEF i
<1>5. WalkGood(i, object, stamped)
  <2>1. Good(NoItem.w, NoItem.ann, object, stamped) /\ Good(NoItem.w, Bare, object, stamped)
    BY BareIsGood DEF NoItem
  <2> QED BY <1>2, <1>4, <2>1 DEF WalkGood
<1> QED BY <1>1, <1>4, <1>5, WalkGoesOn

\* The walk goes on to the next workload.
LEMMA InitNextKeeps ==
  ASSUME IInv, InitNext
  PROVE  IInv'
<1>1. init \in Walks /\ WalkGood(init, object, stamped)
  BY DEF IInv
<1>2. UNCHANGED webhookVars /\ init.at \in {"deployments", "statefulSets"} /\ init.item = NoItem
  BY DEF InitNext
<1>3. ASSUME NEW item \in init.listed,
             init' = [init EXCEPT !.item = item, !.listed = @ \ {item},
                                  !.todo = Lacking(item.ann, item.mounts)]
      PROVE  IInv'
  <2> DEFINE i == [init EXCEPT !.item = item, !.listed = @ \ {item},
                               !.todo = Lacking(item.ann, item.mounts)]
  <2>1. /\ item \in Items /\ item.rv > 0 /\ item.w \in Workloads
        /\ Good(item.w, item.ann, object, stamped)
    BY <1>1 DEF WalkGood, Walks
  <2>2. item # NoItem /\ Lacking(item.ann, item.mounts) \subseteq Objects
    BY <2>1 DEF NoItem, Items, Lacking
  <2>3. /\ i \in Walks /\ i.at = init.at /\ i.item = item /\ i.listed \subseteq init.listed
        /\ i.annotations = init.annotations
    BY <1>1, <2>1, <2>2 DEF Walks
  <2>4. i.annotations = Bare
    BY <1>1, <1>2, <2>3 DEF WalkGood
  <2> HIDE DEF i
  <2>5. WalkGood(i, object, stamped)
    BY <1>1, <1>2, <2>1, <2>2, <2>3, <2>4, BareIsGood DEF WalkGood
  <2>6. init' = i
    BY <1>3 DEF i
  <2> QED BY <1>2, <2>3, <2>5, <2>6, WalkGoesOn
<1>4. ASSUME NEW at \in {"listStatefulSets", "done"}, init' = [NoWalk EXCEPT !.at = at]
      PROVE  IInv'
  <2> DEFINE i == [NoWalk EXCEPT !.at = at]
  <2>1. i \in Walks /\ i.at # "update"
    BY NothingTyped DEF Walks
  <2>2. WalkGood(i, object, stamped)
    BY BareIsGood, NothingTyped DEF WalkGood, NoWalk, NoItem
  <2> QED BY <1>2, <1>4, <2>1, <2>2, WalkGoesOn
<1> QED BY <1>3, <1>4 DEF InitNext

\* The walk reads a mount.
LEMMA InitGetKeeps ==
  ASSUME IInv, InitGet
  PROVE  IInv'
<1>1. init \in Walks /\ WalkGood(init, object, stamped)
  BY DEF IInv
<1>2. UNCHANGED webhookVars /\ init.at \in {"deployments", "statefulSets"}
  BY DEF InitGet
<1>3. CASE InitExit
  <2>1. init' \in Walks /\ WalkGood(init', object, stamped) /\ init'.at # "update"
    BY <1>3, Exited
  <2> QED BY <1>2, <2>1, WalkGoesOn
<1>4. ASSUME NEW o \in init.todo, init' = [init EXCEPT !.todo = @ \ {o}]
      PROVE  IInv'
  <2> DEFINE i == [init EXCEPT !.todo = @ \ {o}]
  <2>1. /\ i \in Walks /\ i.at = init.at /\ i.item = init.item /\ i.listed = init.listed
        /\ i.annotations = init.annotations
    BY <1>1 DEF Walks
  <2> HIDE DEF i
  <2>2. init.item # NoItem
    BY <1>1 DEF WalkGood
  <2>3. WalkGood(i, object, stamped)
    BY <1>1, <1>2, <2>1, <2>2 DEF WalkGood
  <2>4. init' = i
    BY <1>4 DEF i
  <2> QED BY <1>2, <2>1, <2>3, <2>4, WalkGoesOn
<1>5. ASSUME NEW o \in init.todo, object[o].stamp = NoVersion,
             init' = [init EXCEPT !.at = "create", !.todo = @ \ {o}, !.o = o,
                                  !.copy = object[o]]
      PROVE  IInv'
  <2> DEFINE i == [init EXCEPT !.at = "create", !.todo = @ \ {o}, !.o = o, !.copy = object[o]]
  <2>1. o \in Objects /\ object[o] \in Stamped
    BY <1>1 DEF Walks, IInv, Objs
  <2>2. /\ i \in Walks /\ i.at = "create" /\ i.item = init.item /\ i.listed = init.listed
        /\ i.annotations = init.annotations /\ i.o = o /\ i.copy = object[o]
    BY <1>1, <2>1 DEF Walks
  <2> HIDE DEF i
  <2>3. init.item # NoItem
    BY <1>1 DEF WalkGood
  <2>4. Faithful(o, object[o], object, stamped)
    BY <2>1 DEF Faithful, Stamped, IInv, ObjectsGood
  <2>5. WalkGood(i, object, stamped)
    BY <1>1, <1>5, <2>1, <2>2, <2>3, <2>4 DEF WalkGood
  <2>6. init' = i
    BY <1>5 DEF i
  <2> QED BY <1>2, <2>2, <2>5, <2>6, WalkGoesOn
<1> QED BY <1>3, <1>4, <1>5 DEF InitGet

\* The walk makes a version.
LEMMA InitCreateKeeps ==
  ASSUME IInv, InitCreate
  PROVE  IInv'
<1> DEFINE o == init.o
<1>1. init \in Walks /\ WalkGood(init, object, stamped) /\ init.at = "create"
  BY DEF IInv, InitCreate
<1>2. /\ o \in Objects /\ Faithful(o, init.copy, object, stamped) /\ init.copy.stamp = NoVersion
      /\ init.item # NoItem
  BY <1>1 DEF WalkGood
<1>3. PICK v \in Versions :
        /\ NewVersion(o, v)
        /\ init' = [init EXCEPT !.at = "update", !.copy = InitNamed(v)]
  BY DEF InitCreate
<1>4. UNCHANGED <<object, stamped, handler, workload, request, left>>
  BY DEF InitCreate
<1> DEFINE copy == InitNamed(v)
           i == [init EXCEPT !.at = "update", !.copy = copy]
<1>5. /\ copy \in Stamped /\ copy.stamp = v /\ copy.rv = init.copy.rv
      /\ init.copy.deployments \subseteq copy.deployments
      /\ init.item.w \in Deployments => init.item.w \in copy.deployments
  BY <1>1 DEF InitNamed, Walks, Stamped
<1>6. init' = i
  BY <1>3
<1> HIDE DEF copy
<1>7. /\ i \in Walks /\ i.at = "update" /\ i.o = o /\ i.copy = copy /\ i.item = init.item
      /\ i.listed = init.listed /\ i.todo = init.todo /\ i.annotations = init.annotations
  BY <1>1, <1>5 DEF Walks
<1> HIDE DEF i
<1>8. saved' \in Savs /\ v \in saved'[o] /\ \A x \in Objects : saved[x] \subseteq saved'[x]
  BY <1>2, <1>3, Versioned
<1>9. /\ object' \in Objs /\ stamped' \in Savs /\ Grows(object, stamped, object', stamped')
      /\ ObjectsGood(object', stamped') /\ \A x \in Objects : stamped'[x] \subseteq saved'[x]
  BY <1>4, <1>8, NothingGrows DEF IInv, Made
<1>10. WalkGood(i, object', stamped')
  <2>1. /\ copy.rv <= object[o].rv
        /\ copy.rv = object[o].rv => /\ object[o].stamp = NoVersion
                                     /\ object[o].deployments \subseteq copy.deployments
    BY <1>2, <1>5 DEF Faithful
  <2> QED BY <1>1, <1>2, <1>4, <1>5, <1>7, <2>1 DEF WalkGood
<1> QED BY <1>4, <1>5, <1>6, <1>7, <1>8, <1>9, <1>10, WalkStep DEF IInv

\* The walk stores its copy: an object without a stamp is stamped, and no name is lost.
LEMMA WalkStores ==
  ASSUME IInv, init.at = "update", InitStore
  PROVE  /\ object' \in Objs /\ stamped' \in Savs
         /\ Grows(object, stamped, object', stamped') /\ ObjectsGood(object', stamped')
         /\ \A x \in Objects : stamped'[x] \subseteq saved[x]
         /\ \A x \in Objects : x # init.o => object'[x] = object[x]
         /\ object[init.o].stamp = NoVersion /\ init.copy.stamp \in stamped'[init.o]
         /\ init.item.w \in Deployments => init.item.w \in object'[init.o].deployments
<1> DEFINE o == init.o
<1>1. init \in Walks /\ WalkGood(init, object, stamped)
  BY DEF IInv
<1>2. /\ o \in Objects /\ object[o].stamp = NoVersion /\ init.copy.stamp \in Versions
      /\ object[o].deployments \subseteq init.copy.deployments
      /\ init.item.w \in Deployments => init.item.w \in init.copy.deployments
  BY <1>1 DEF WalkGood, InitStore, Newest
<1>3. /\ object' \in Objs /\ \A x \in Objects : x # o => object'[x] = object[x]
      /\ object'[o].stamp = init.copy.stamp /\ object'[o].deployments = init.copy.deployments
      /\ object'[o] = object[o] \/ object'[o].rv > object[o].rv
  <2>1. init.copy \in Stamped /\ object \in Objs
    BY <1>1 DEF Walks, IInv
  <2> QED BY <1>2, <2>1, Stored DEF InitStore
<1>4. /\ stamped' \in Savs /\ init.copy.stamp \in stamped'[o]
      /\ \A x \in Objects : stamped[x] \subseteq stamped'[x]
  BY <1>2 DEF InitStore, IInv, Savs
<1>5. \A x \in Objects : stamped'[x] \subseteq saved[x]
  BY <1>2 DEF InitStore, IInv, Savs, Made
<1> QED BY <1>2, <1>3, <1>4, <1>5 DEF Grows, ObjectsGood, IInv

\* The copy is stored, or the container ends.
LEMMA InitUpdateKeeps ==
  ASSUME IInv, InitUpdate
  PROVE  IInv'
<1> DEFINE o == init.o
<1>1. init \in Walks /\ WalkGood(init, object, stamped) /\ init.at = "update"
  BY DEF IInv, InitUpdate
<1>2. UNCHANGED <<saved, handler, workload, request, left>>
  BY DEF InitUpdate
<1>3. CASE InitExit /\ UNCHANGED <<object, stamped>>
  BY <1>2, <1>3, Exited, WalkMoves DEF IInv, versionVars
<1>4. CASE InitStore /\ InitStored
  <2> DEFINE i == [init EXCEPT !.at = Walking, !.o = NoKey, !.copy = Unstamped,
                               !.annotations[o] = init.copy.stamp]
  <2>1. /\ object' \in Objs /\ stamped' \in Savs
        /\ Grows(object, stamped, object', stamped') /\ ObjectsGood(object', stamped')
        /\ \A x \in Objects : stamped'[x] \subseteq saved[x]
        /\ init.copy.stamp \in stamped'[o]
        /\ init.item.w \in Deployments => init.item.w \in object'[o].deployments
    BY <1>1, <1>4, WalkStores
  <2>2. o \in Objects /\ init.item # NoItem
    BY <1>1 DEF WalkGood
  <2>3. Walking \in {"deployments", "statefulSets"}
    BY DEF Walking
  <2>4. /\ i \in Walks /\ i.at = Walking /\ i.item = init.item /\ i.listed = init.listed
        /\ i.todo = init.todo /\ i.annotations[o] = init.copy.stamp
        /\ \A x \in Objects : x # o => i.annotations[x] = init.annotations[x]
    <3>1. init.copy.stamp \in Values /\ o \in Keys
      BY <1>1, <2>2 DEF Walks, Stamped, Values, Keys
    <3>2. init.annotations \in Annotations
      BY <1>1 DEF Walks
    <3>3. [init.annotations EXCEPT ![o] = init.copy.stamp] \in Annotations
      BY <3>1, <3>2 DEF Annotations
    <3>4. Objects \subseteq Keys
      BY DEF Keys
    <3> QED BY <1>1, <2>3, <3>1, <3>2, <3>3, <3>4, NothingTyped DEF Walks, Annotations
  <2>5. init' = i
    BY <1>4 DEF InitStored
  <2> HIDE DEF i
  <2>6. /\ \A item \in i.listed : item.rv > 0 /\ item.w \in Workloads
                                  /\ Good(item.w, item.ann, object', stamped')
        /\ Good(i.item.w, i.item.ann, object', stamped')
        /\ Good(init.item.w, init.annotations, object', stamped')
    BY <1>1, <2>1, <2>4, GoodStays DEF WalkGood
  <2>7. Good(i.item.w, i.annotations, object', stamped')
    BY <2>1, <2>4, <2>6 DEF Good
  <2>8. WalkGood(i, object', stamped')
    BY <1>1, <2>2, <2>3, <2>4, <2>6, <2>7 DEF WalkGood
  <2> QED BY <1>2, <2>1, <2>3, <2>4, <2>5, <2>8, WalkStep DEF IInv
<1> QED BY <1>3, <1>4 DEF InitUpdate

\* The walk asks to store the workload, or goes on.
LEMMA InitWriteKeeps ==
  ASSUME IInv, InitWrite
  PROVE  IInv'
<1> DEFINE item == init.item
           made == [k \in Keys |-> IF init.annotations[k] # NoKey THEN init.annotations[k]
                                                                 ELSE item.ann[k]]
<1>1. init \in Walks /\ WalkGood(init, object, stamped)
  BY DEF IInv
<1>2. /\ UNCHANGED <<object, versionVars, stamped, workload, left>>
      /\ init.at \in {"deployments", "statefulSets"} /\ init.item # NoItem /\ init.todo = {}
  BY DEF InitWrite, versionVars
<1>3. CASE init.annotations = Bare /\ UNCHANGED request /\ init' = [init EXCEPT !.item = NoItem]
  <2> DEFINE i == [init EXCEPT !.item = NoItem]
  <2>1. /\ i \in Walks /\ i.at = init.at /\ i.item = NoItem /\ i.listed = init.listed
        /\ i.annotations = init.annotations /\ i.todo = init.todo
    BY <1>1, NothingTyped DEF Walks
  <2> HIDE DEF i
  <2>2. Good(NoItem.w, NoItem.ann, object, stamped) /\ Good(NoItem.w, Bare, object, stamped)
    BY BareIsGood DEF NoItem
  <2>3. WalkGood(i, object, stamped)
    BY <1>1, <1>2, <1>3, <2>1, <2>2 DEF WalkGood
  <2>4. init' = i /\ UNCHANGED webhookVars
    BY <1>2, <1>3 DEF i, webhookVars
  <2> QED BY <1>2, <2>1, <2>3, <2>4, WalkGoesOn
<1>4. CASE Requests(InitClient, item.w, item.mounts, made, item.rv)
           /\ init' = [init EXCEPT !.at = "answer"]
  <2> DEFINE i == [init EXCEPT !.at = "answer"]
  <2>1. /\ i \in Walks /\ i.at = "answer" /\ i.item = init.item /\ i.listed = init.listed
        /\ i.annotations = init.annotations /\ i.todo = init.todo
    BY <1>1 DEF Walks
  <2> HIDE DEF i
  <2>2. WalkGood(i, object, stamped)
    BY <1>1, <1>2, <2>1 DEF WalkGood
  <2>3. init' = i
    BY <1>4 DEF i
  <2>4. item.w \in Workloads /\ item.mounts \in SUBSET Objects /\ item.rv \in Nat
        /\ item.ann \in Annotations /\ init.annotations \in Annotations
    BY <1>1, <1>2 DEF WalkGood, Walks, Items
  <2>5. made \in Annotations
    BY <2>4 DEF Annotations
  <2>6. Good(item.w, made, object, stamped)
    <3>1. \A x \in Objects : made[x] \in {init.annotations[x], item.ann[x]}
      BY DEF Keys
    <3>2. Good(item.w, init.annotations, object, stamped) /\ Good(item.w, item.ann, object, stamped)
      BY <1>1 DEF WalkGood
    <3> HIDE DEF made
    <3> QED BY <3>1, <3>2 DEF Good
  <2>7. /\ request' \in [Clients -> Reqs]
        /\ \A c \in Clients : RequestGood(request'[c], object', stamped')
    <3> HIDE DEF made
    <3>1. Grows(object, stamped, object', stamped') /\ object' \in Objs
      BY <1>2, NothingGrows DEF IInv
    <3> QED BY <1>2, <1>4, <2>4, <2>5, <2>6, <3>1, Asked, WorkloadsAssumption
  <2> QED BY <1>2, <2>1, <2>2, <2>3, <2>7, WalkMoves DEF IInv
<1> QED BY <1>3, <1>4 DEF InitWrite

\* The walk gets its answer.
LEMMA InitAnswerKeeps ==
  ASSUME IInv, InitAnswer
  PROVE  IInv'
<1>1. init \in Walks /\ WalkGood(init, object, stamped)
  BY DEF IInv
<1>2. UNCHANGED <<object, versionVars, stamped, workload, left>> /\ init.at = "answer"
  BY DEF InitAnswer, versionVars
<1>3. CASE UNCHANGED request
           /\ init' = [init EXCEPT !.at = Walking, !.item = NoItem, !.annotations = Bare]
  <2> DEFINE i == [init EXCEPT !.at = Walking, !.item = NoItem, !.annotations = Bare]
  <2>1. Walking \in {"deployments", "statefulSets"}
    BY DEF Walking
  <2>2. /\ i \in Walks /\ i.at = Walking /\ i.item = NoItem /\ i.listed = init.listed
        /\ i.annotations = Bare /\ i.todo = init.todo
    BY <1>1, <2>1, NothingTyped, BareIsGood DEF Walks
  <2> HIDE DEF i
  <2>3. Good(NoItem.w, NoItem.ann, object, stamped) /\ Good(NoItem.w, Bare, object, stamped)
    BY BareIsGood DEF NoItem
  <2>4. WalkGood(i, object, stamped)
    BY <1>1, <1>2, <2>1, <2>2, <2>3 DEF WalkGood
  <2>5. init' = i /\ UNCHANGED webhookVars
    BY <1>2, <1>3 DEF i, webhookVars
  <2> QED BY <1>2, <2>1, <2>2, <2>4, <2>5, WalkGoesOn
<1>4. CASE request' = [request EXCEPT ![InitClient] = NoRequest] /\ InitExit
  <2>1. InitClient \in Clients /\ Accepted(InitClient)
    BY <1>4, WorkloadsAssumption DEF Accepted
  <2>2. Grows(object, stamped, object', stamped') /\ object' \in Objs
    BY <1>2, NothingGrows DEF IInv
  <2>3. /\ request' \in [Clients -> Reqs]
        /\ \A c \in Clients : RequestGood(request'[c], object, stamped)
    BY <1>2, <2>1, <2>2, Replied
  <2> QED BY <1>2, <1>4, <2>3, Exited, WalkMoves DEF IInv
<1> QED BY <1>3, <1>4 DEF InitAnswer

\* What the container asked for is answered or given up, or another client goes on with it.
LEMMA RequestHandedOver ==
  ASSUME IInv,
         \/ request' = [request EXCEPT ![InitClient] = NoRequest]
         \/ \E r \in Clients \ {InitClient} :
              request' = [request EXCEPT ![r] = request[InitClient], ![InitClient] = NoRequest]
  PROVE  /\ request' \in [Clients -> Reqs]
         /\ \A c \in Clients : RequestGood(request'[c], object, stamped)
<1>1. InitClient \in Clients /\ request \in [Clients -> Reqs]
      /\ \A c \in Clients : RequestGood(request[c], object, stamped)
  BY WorkloadsAssumption DEF IInv
<1>2. NoRequest \in Reqs /\ RequestGood(NoRequest, object, stamped)
  BY NothingTyped DEF RequestGood
<1>3. CASE request' = [request EXCEPT ![InitClient] = NoRequest]
  BY <1>1, <1>2, <1>3
<1>4. ASSUME NEW r \in Clients \ {InitClient},
             request' = [request EXCEPT ![r] = request[InitClient], ![InitClient] = NoRequest]
      PROVE  /\ request' \in [Clients -> Reqs]
             /\ \A c \in Clients : RequestGood(request'[c], object, stamped)
  <2>1. request' \in [Clients -> Reqs]
    BY <1>1, <1>2, <1>4
  <2>2. \A c \in Clients : request'[c] \in {request[c], request[InitClient], NoRequest}
    BY <1>1, <1>4
  <2> QED BY <1>1, <1>2, <2>1, <2>2
<1> QED BY <1>3, <1>4

\* A call of the walk fails, whether or not it was carried out.
LEMMA InitFailsKeeps ==
  ASSUME IInv, InitFails
  PROVE  IInv'
<1>1. Spend("faults") /\ UNCHANGED <<handler, workload>> /\ InitExit
  BY DEF InitFails
<1>2. left' \in Lefts
  BY <1>1, Spent DEF IInv
<1>3. init \in Walks /\ WalkGood(init, object, stamped)
  BY DEF IInv
<1>4. init' \in Walks /\ init'.at # "update" /\ WalkGood(init', object', stamped')
  BY <1>1, Exited
<1>5. CASE UNCHANGED <<object, saved, stamped, request>>
  BY <1>1, <1>2, <1>4, <1>5, WalkMoves DEF IInv, versionVars
<1>6. CASE /\ init.at = "create" /\ UNCHANGED <<object, stamped, request>>
           /\ \E v \in Versions : NewVersion(init.o, v)
  <2>1. init.o \in Objects
    BY <1>3, <1>6 DEF WalkGood
  <2>2. saved' \in Savs /\ \A x \in Objects : saved[x] \subseteq saved'[x]
    BY <1>6, <2>1, Versioned
  <2>3. /\ object' \in Objs /\ stamped' \in Savs /\ Grows(object, stamped, object', stamped')
        /\ ObjectsGood(object', stamped') /\ \A x \in Objects : stamped'[x] \subseteq saved'[x]
    BY <1>6, <2>2, NothingGrows DEF IInv, Made
  <2> QED BY <1>1, <1>2, <1>4, <1>6, <2>2, <2>3, WalkStep
<1>7. CASE init.at = "update" /\ InitStore /\ UNCHANGED <<saved, request>>
  <2>1. /\ object' \in Objs /\ stamped' \in Savs /\ Grows(object, stamped, object', stamped')
        /\ ObjectsGood(object', stamped') /\ \A x \in Objects : stamped'[x] \subseteq saved[x]
    BY <1>7, WalkStores
  <2> QED BY <1>1, <1>2, <1>4, <1>7, <2>1, WalkStep DEF IInv
<1>8. CASE /\ UNCHANGED <<object, saved, stamped>>
           /\ \/ request' = [request EXCEPT ![InitClient] = NoRequest]
              \/ \E r \in Clients \ {InitClient} :
                   request' = [request EXCEPT ![r] = request[InitClient], ![InitClient] = NoRequest]
  <2>1. /\ request' \in [Clients -> Reqs]
        /\ \A c \in Clients : RequestGood(request'[c], object, stamped)
    BY <1>8, RequestHandedOver
  <2> QED BY <1>1, <1>2, <1>4, <1>8, <2>1, WalkMoves DEF versionVars
<1> QED BY <1>5, <1>6, <1>7, <1>8 DEF InitFails

\* A new pod of the manager walks again.
LEMMA InitAgainKeeps ==
  ASSUME IInv, InitAgain
  PROVE  IInv'
<1>1. NoWalk \in Walks /\ NoWalk.at # "update" /\ WalkGood(NoWalk, object, stamped)
  BY NothingTyped, NoWalkIsGood DEF NoWalk
<1> QED BY <1>1, WalkGoesOn DEF InitAgain

-----------------------------------------------------------------------------
(* The invariant and the theorems.                                         *)

\* The invariant holds when Configurator is installed.
LEMMA InstallBegins ==
  ASSUME InstallInit
  PROVE  IInv
<1>1. /\ object = [o \in Objects |-> [Unstamped EXCEPT !.rv = 1]]
      /\ saved = [o \in Objects |-> {}] /\ stamped = [o \in Objects |-> {}]
      /\ handler = [o \in Objects |-> NoHandler]
  BY DEF InstallInit, WebhookInit
<1>2. object \in Objs /\ \A o \in Objects : object[o].stamp = NoVersion
  BY <1>1 DEF Objs, Unstamped, Stamped
<1>3. /\ saved \in Savs /\ stamped \in Savs /\ handler \in [Objects -> Hands]
      /\ \A o \in Objects : HandlerGood(handler[o], o, object, stamped)
  BY <1>1, NothingTyped DEF Savs, HandlerGood
<1>4. workload \in Loads /\ \A w \in Workloads : Good(w, workload[w].ann, object, stamped)
  <2>1. PICK exist \in SUBSET Workloads, mounted \in [Workloads -> SUBSET Objects],
             keys \in [Workloads -> SUBSET Owners] :
          workload = [w \in Workloads |->
            IF w \in exist
            THEN [mounts |-> mounted[w], rv |-> 1,
                  ann |-> [k \in Keys |-> IF k \in keys[w] THEN Written ELSE NoKey]]
            ELSE [mounts |-> {}, ann |-> Bare, rv |-> 0]]
    BY DEF InstallInit, WebhookInit
  <2>2. ASSUME NEW w \in Workloads
        PROVE  /\ workload[w] \in [mounts : SUBSET Objects, ann : Annotations, rv : Nat]
               /\ Good(w, workload[w].ann, object, stamped)
    <3>1. CASE w \in exist
      <4>1. keys[w] \in SUBSET Owners /\ mounted[w] \in SUBSET Objects
        OBVIOUS
      <4> DEFINE ann == [k \in Keys |-> IF k \in keys[w] THEN Written ELSE NoKey]
      <4>2. ann \in Annotations /\ Good(w, ann, object, stamped)
        BY <4>1, FileIsGood
      <4>3. workload[w] = [mounts |-> mounted[w], rv |-> 1, ann |-> ann]
        BY <2>1, <3>1
      <4> HIDE DEF ann
      <4> QED BY <4>1, <4>2, <4>3
    <3>2. CASE w \notin exist
      <4>1. workload[w] = [mounts |-> {}, ann |-> Bare, rv |-> 0]
        BY <2>1, <3>2
      <4> QED BY <4>1, BareIsGood
    <3> QED BY <3>1, <3>2
  <2>3. workload = [w \in Workloads |-> workload[w]]
    BY <2>1
  <2> QED BY <2>2, <2>3 DEF Loads
<1>5. /\ request \in [Clients -> Reqs]
      /\ \A r \in Clients : RequestGood(request[r], object, stamped)
  <2>1. request = [r \in Clients |-> NoRequest]
    BY DEF InstallInit, WebhookInit
  <2> QED BY <2>1, NothingTyped DEF RequestGood
<1>6. left \in Lefts
  BY WorkloadsAssumption DEF InstallInit, WebhookInit, Lefts
<1>7. init = NoWalk /\ init.at = "listDeployments"
  BY DEF InstallInit, NoWalk
<1>8. ObjectsGood(object, stamped) /\ Made(handler, init, stamped, saved)
  BY <1>1, <1>2, <1>7, NothingTyped DEF ObjectsGood, Made
<1> QED BY <1>2, <1>3, <1>4, <1>5, <1>6, <1>7, <1>8, NothingTyped, NoWalkIsGood DEF IInv

\* Every step of the walk keeps the invariant.
LEMMA WalkKeeps ==
  ASSUME IInv, Walk
  PROVE  IInv'
<1>1. CASE InitListDeployments
  BY <1>1, InitListKeeps DEF InitListDeployments, Workloads
<1>2. CASE InitListStatefulSets
  BY <1>2, InitListKeeps DEF InitListStatefulSets, Workloads
<1> QED BY <1>1, <1>2, InitNextKeeps, InitGetKeeps, InitCreateKeeps, InitUpdateKeeps,
           InitWriteKeeps, InitAnswerKeeps DEF Walk

\* Every step keeps the invariant.
LEMMA InstallKeeps ==
  ASSUME IInv, [InstallNext]_vars
  PROVE  IInv'
<1>1. CASE Walk
  BY <1>1, WalkKeeps
<1>2. CASE InitFails
  BY <1>2, InitFailsKeeps
<1>3. CASE InitAgain
  BY <1>3, InitAgainKeeps
<1>4. ASSUME NEW r \in Clients, Webhook(r), UNCHANGED init PROVE IInv'
  BY <1>4, VisitMountKeeps, UpdateMountKeeps, PatchWorkloadKeeps DEF Webhook
<1>5. ASSUME NEW r \in Clients, Outages(r), UNCHANGED init PROVE IInv'
  BY <1>5, OutagesKeep
<1>6. ASSUME NEW r \in Clients, Client(r), UNCHANGED init PROVE IInv'
  BY <1>6, CreateKeeps, EditKeeps, RollOutKeeps DEF Client
<1>7. ASSUME NEW o \in Objects, Reconcile(o) \/ RollBack(o), UNCHANGED init PROVE IInv'
  BY <1>7, ReadKeeps, MakeVersionKeeps, StampObjectKeeps, HandlerEndsKeeps, RollBackKeeps DEF Reconcile
<1>8. CASE UNCHANGED vars
  BY <1>8 DEF vars, webhookVars, versionVars, IInv, ObjectsGood, Made
<1> QED BY <1>1, <1>2, <1>3, <1>4, <1>5, <1>6, <1>7, <1>8 DEF InstallNext

\* The inductive invariant holds of every behaviour.
THEOREM InstallInvariant == InstallSpec => []IInv
<1>1. InstallInit => IInv
  BY InstallBegins
<1>2. IInv /\ [InstallNext]_vars => IInv'
  BY InstallKeeps
<1> QED BY <1>1, <1>2, PTL DEF InstallSpec

\* Objects, versions, templates, requests and the walk keep their types.
THEOREM InstallTypeCorrect == InstallSpec => []InitTypeOK
<1>1. IInv => InitTypeOK
  BY DEF IInv, InitTypeOK, WebhookTypeOK, Objs, Savs, Hands, Loads, Reqs, Lefts, Walks
<1> QED BY <1>1, InstallInvariant, PTL

\* The webhook of Deployments and the init container lose no name: whatever the requests,
\* conflicts, failures and outages, a Deployment whose template carries a version of what
\* it mounts is named there.
THEOREM NamesAreKept == InstallSpec => []DeploymentsNamed
<1>1. IInv => DeploymentsNamed
  BY DEF IInv, DeploymentsNamed, Good, Loads, Workloads
<1> QED BY <1>1, InstallInvariant, PTL

\* Templates only carry versions that were stamped, and stamps versions that were made.
THEOREM CarriedAreSaved == InstallSpec => []TemplatesCarrySaved
<1>1. IInv => TemplatesCarrySaved
  BY DEF IInv, TemplatesCarrySaved, ObjectsGood, Good, Made
<1> QED BY <1>1, InstallInvariant, PTL

\* A webhook stores the object with the stamp it has.
LEMMA UpdateMountSeen ==
  ASSUME IInv, NEW r \in Clients, UpdateMount(r)
  PROVE  Seen
<1> DEFINE o == request[r].o
           copy == Named(request[r].copy, request[r].w)
<1>1. /\ o \in Objects /\ request[r].copy \in Stamped /\ request[r].w \in Workloads
      /\ Faithful(o, request[r].copy, object, stamped)
  BY DEF IInv, UpdateMount, RequestGood, Reqs
<1>2. copy \in Stamped /\ copy.stamp = request[r].copy.stamp /\ copy.rv = request[r].copy.rv
  BY <1>1, NamedTyped
<1>3. \/ UNCHANGED object
      \/ Newest(o, copy) /\ Store(o, copy)
  BY DEF UpdateMount
<1> HIDE DEF copy
<1>4. CASE Newest(o, copy) /\ Store(o, copy)
  <2>1. object'[o].stamp = object[o].stamp /\ \A x \in Objects : x # o => object'[x] = object[x]
    BY <1>1, <1>2, <1>4, Stored DEF IInv, Newest, Faithful
  <2> QED BY <2>1 DEF Seen
<1> QED BY <1>3, <1>4 DEF Seen

\* Every step leaves the stamps that those who store have not seen.
LEMMA StepsSeen ==
  ASSUME IInv, InstallNext
  PROVE  Seen
<1>1. CASE UNCHANGED object
  BY <1>1 DEF Seen
<1>2. CASE init.at = "update" /\ InitStore
  BY <1>2, WalkStores DEF Seen
<1>3. ASSUME NEW o \in Objects, Stamp(o) PROVE Seen
  BY <1>3, StampStores DEF Seen
<1>4. ASSUME NEW o \in Objects, RollBack(o) PROVE Seen
  BY <1>4, RollBackStores DEF Seen
<1>5. CASE Walk
  BY <1>1, <1>2, <1>5 DEF Walk, InitListDeployments, InitListStatefulSets, InitList, InitNext, InitGet,
     InitCreate, InitUpdate, InitWrite, InitAnswer, webhookVars
<1>6. CASE InitFails
  BY <1>1, <1>2, <1>6 DEF InitFails
<1>7. CASE InitAgain
  BY <1>1, <1>7 DEF InitAgain, webhookVars
<1>8. ASSUME NEW r \in Clients, Webhook(r) \/ Outages(r) PROVE Seen
  BY <1>1, <1>8, UpdateMountSeen DEF Webhook, Outages, VisitMount, PatchWorkload, WebhookFails, Unreachable
<1>9. ASSUME NEW r \in Clients, Client(r) PROVE Seen
  BY <1>1, <1>9 DEF Client, Create, Edit, RollOut
<1>10. ASSUME NEW o \in Objects, Reconcile(o) PROVE Seen
  BY <1>1, <1>3, <1>10 DEF Reconcile, Read, MakeVersion, StampObject, HandlerEnds
<1> QED BY <1>4, <1>5, <1>6, <1>7, <1>8, <1>9, <1>10 DEF InstallNext

\* A stamp gives way to a new version only if its maker, a reconciler, has read the stamp:
\* neither the walk nor a webhook puts a copy in its place that they took before.
THEOREM StampsAreSeen == InstallSpec => StampsSeen
<1>1. IInv /\ [InstallNext]_vars => [Seen]_vars
  BY StepsSeen
<1> QED BY <1>1, InstallInvariant, PTL DEF StampsSeen, Seen, InstallSpec

\* A template that the webhook went over has the keys of exactly what is mounted, for
\* every manifest and whatever requests ran beside this one.
THEOREM MountsAreAnnotated == InstallSpec => TemplatesMatchMounts
<1> DEFINE Matched ==
      \A w \in Workloads : \A r \in Clients :
        PatchWorkload(r) /\ workload[w]' # workload[w]
          => {o \in Objects : workload'[w].ann[o] # NoKey} = workload'[w].mounts
<1>1. IInv => Matched
  <2> SUFFICES ASSUME IInv, NEW w \in Workloads, NEW r \in Clients,
                      PatchWorkload(r), workload'[w] # workload[w]
               PROVE  {o \in Objects : workload'[w].ann[o] # NoKey} = workload'[w].mounts
    OBVIOUS
  <2> DEFINE q == request[r]
             stale == Stale(q.mounts, q.ann)
             added == [q.added EXCEPT ![Sync] = Written]
             ann == Patched(q.ann, added, stale)
             new == [mounts |-> q.mounts, ann |-> ann, rv |-> q.rv]
  <2>1. q \in Reqs /\ RequestGood(q, object, stamped) /\ q.at = "visit" /\ q.todo = {}
    BY DEF IInv, PatchWorkload
  <2>2. workload' = [workload EXCEPT ![q.w] = [new EXCEPT !.rv = new.rv + 1]]
    BY DEF PatchWorkload, Persist
  <2>3. w = q.w
    BY <2>2 DEF IInv, Loads
  <2>4. workload'[w].ann = ann /\ workload'[w].mounts = q.mounts
    BY <2>2, <2>3 DEF IInv, Loads
  <2>5. ASSUME NEW o \in Objects PROVE ann[o] # NoKey <=> o \in q.mounts
    <3>1. o \in Keys /\ o # Sync /\ o \notin Lookalikes
      BY WorkloadsAssumption DEF Keys
    <3>2. added[o] = q.added[o]
      BY <2>1, <3>1 DEF Reqs, Annotations
    <3>3. ann[o] = IF o \in stale THEN NoKey ELSE IF q.added[o] # NoKey THEN q.added[o] ELSE q.ann[o]
      BY <3>1, <3>2 DEF Patched
    <3>4. o \in stale <=> o \notin q.mounts /\ q.ann[o] # NoKey
      BY <3>1 DEF Stale
    <3>5. /\ q.added[o] # NoKey => o \in q.mounts
          /\ o \in q.mounts => q.ann[o] # NoKey \/ q.added[o] # NoKey
      BY <2>1 DEF RequestGood
    <3> HIDE DEF ann, stale
    <3> QED BY <3>3, <3>4, <3>5
  <2>6. q.mounts \subseteq Objects
    BY <2>1 DEF Reqs
  <2> HIDE DEF ann
  <2> QED BY <2>4, <2>5, <2>6
<1>2. IInv => [Matched]_vars
  BY <1>1
<1> QED BY <1>2, InstallInvariant, PTL DEF TemplatesMatchMounts
=============================================================================
