# Configurator in TLA+

Configurator keeps versions of Kubernetes ConfigMaps and Secrets. For every content a
ConfigMap has had there is a `CustomConfigMap` (CCM) that never changes its content; a
Secret has `CustomSecret`s (CS). The version in force is *stamped* on the object, as an
annotation, and on the pod template of every workload that mounts it, so that a new
version starts a rolling update and a rolled back workload brings its old configuration
back with it.

This directory holds TLA+ models of that code, the configurations TLC checks them with,
and proofs TLAPS checks. Paths below are relative to `src/`.

* [1 The system](#1-the-system) — the inventory
* [2 The modules](#2-the-modules) — and how they correspond to the code
* [3 What is checked](#3-what-is-checked) — runs, bounds, fairness
* [4 What the code does not do](#4-what-the-code-does-not-do) — findings
* [5 What is proved](#5-what-is-proved)
* [6 What is not modelled](#6-what-is-not-modelled)
* [7 Plan](#7-plan)

## 1 The system

Three processes share the API server and nothing else.

| component | code | state it keeps | operations |
|---|---|---|---|
| ConfigMap reconciler | `controllers/core/configmap_controller.go` | none of its own; annotations on the ConfigMap, labels `current` and `latest` on CCMs, the annotation on pod templates | `Reconcile`, `UpdateConfigMap`, `CopyCCMToCM`, `CreateNewCCM` |
| Secret reconciler | `controllers/core/secret_controller.go` | the same for Secrets, whose own annotations are versioned too | `Reconcile`, `UpdateSecret`, `CopyCSToSecret`, `CreateNewCS` |
| Purge job | `controllers/configurator.gopaddle.io/purge.go` | none | `PurgeJob`, `PurgeCCMAndCS`: delete versions no revision uses |
| CCM and CS reconcilers | `controllers/configurator.gopaddle.io/*_controller.go` | none | nothing: they return at once |
| manager | `main.go` | work queues, informer caches | starts the above in one process |
| Init controller | `controllerInit/controllerInit.go` | none | walks over the existing workloads once, creates first versions, stamps objects and templates |
| Deployment webhook | `controllerWebhook/deployment-webhookhandle.go` | none | `createDeploymentPatch`: names the Deployment on the ConfigMap and the Secret, patches the template |
| StatefulSet webhook | `controllerWebhook/stateful-webhookhandle.go` | none | `createStatefulsetPatch` |
| Pod webhook | `controllerWebhook/podValidation-webhookhandle.go` | none | `ConfigValidation`, `CopyCCMToCM`, `CopyCSToSecret`: a pod of an older revision rolls the ConfigMap back |
| webhook server, API types, test scaffolding | `controllerWebhook/main.go`, `apis/`, `*_suite_test.go` | — | I/O, schemes, generated code |

### How they interact

* Everything goes through API objects. A reconciler reads them from **informer caches**
  that lag the API server and may lag the reconciler's own writes; webhooks and the init
  controller read the API server itself.
* Updates are **optimistic**: the API server takes an object only from a copy of its
  newest resource version and answers a conflict otherwise.
* A reconciler has **one worker** and a work queue that holds a key at most once. An
  error puts the key back; a panic ends the process, which starts again with fresh
  caches. An informer queues every key again on its resync.
* The reconciler writes the stamp on the ConfigMap after a user's edit; the pod webhook
  writes the same stamp, and the content, when an older revision's pod is admitted; the
  workload webhooks write the names of workloads beside it; the user writes the content.
  **Four writers, one object.**
* "Which version is current" is stored twice: as the stamp on the ConfigMap and as the
  label `current` on a CCM. `UpdateConfigMap` tells an edit from a rollback by comparing
  the two, so every window in which they differ is a window in which one is taken for the
  other.

### What is hard, and what makes each part correct

| component | hard | correct when |
|---|---|---|
| ConfigMap reconciler | a version takes six calls to make and a crash, a conflict, an error or an edit can come between any two; stale caches; reverts; retries that find half of the work done | stamps name saved versions and tell the truth about the content; contents of versions never change; every content is saved; one version is current; templates follow the stamp; it comes to rest |
| Secret reconciler | the same, and a nil map on the way back | the same, annotations included |
| Pod webhook | reads two objects and writes three in five calls; a label selector that names one fixed ConfigMap | a rollback installs one version's content and stamp together and moves the label with it |
| Workload webhooks | write the ConfigMap before the workload is admitted; text matching on annotation keys | every Deployment whose template carries a version is named on the object; a template has the keys of exactly what it mounts, of versions that exist |
| Init controller | fails anywhere and runs again from the start | a version that was made and not stamped gets onto no template; names and stamps that others write meanwhile stay; it succeeds some day |
| Purge | lists several kinds one after the other while all others write; failed lists look empty | no version is deleted that is current, stamped, or carried by a revision; what is deleted comes back with no other content; what is unused goes |

`PROJECT.json` lists each hazard at the line where it bites.

## 2 The modules

```
VersionStore                 what an owner of a ConfigMap or Secret is promised (abstract)
  ^ INSTANCE ... WITH
ConfigMapProperties --> ConfigMapController --> Cluster
  ^        ^       ^     the reconciler          API server, caches, queue, users, webhooks
  |        |       |
  |   PurgeJob  PodWebhook     composed with the reconciler, call by call
  |
SecretController               the same protocol, with rules of its own for contents

InitController --> WorkloadWebhooks     the init container's walk; the workload webhooks

ConfigMapProofs, ConfigMapRefinement, PatientProofs, SecretProofs, SecretPatientProofs,
  PodWebhookProofs, PurgeProofs, InitProofs                                       (TLAPS)
MCConfigMapController, MCSecretController, MCPurgeJob, MCPodWebhook, MCInitController  (TLC)
```

An arrow is EXTENDS. There are two groups, because there are two questions. The first
group follows **one object** through all that makes, restores and removes its versions:
here caches and events matter, and workloads are little more than templates. The second
follows **workloads and objects in their numbers** through admission and the init walk:
these read the API server itself, so there are no caches, and contents do not matter.

### VersionStore

An object with a content and a stamp, and saved versions. Its owner edits the content; a
content is saved under a name that was never used; a saved version is installed, content
and stamp together. Nothing else happens, in particular no version is ever lost or
changed. It promises no more than that: that every edit *is* saved is a property of the
detailed model, because it needs fairness and patience (section 3).

### Cluster and ConfigMapController

`Cluster` is the world of one ConfigMap.

| variable | in the code |
|---|---|
| `cm` | the ConfigMap: `data` (Data and BinaryData), whether it has annotations at all, the stamp `version` (`currentCustomConfigMapVersion`), the names in the annotations `deployments` and `statefulsets`, the resource version |
| `ccm` | its CCMs by postfix: content, labels `current` and `latest`, resource version |
| `cmCache`, `ccmCache`, `cmWatch`, `ccmWatch` | what the informers hold, and the events they have not seen |
| `queued` | the ConfigMap's key is in the reconciler's work queue |
| `template`, `revisions` | the version on each workload's pod template (`Bare`: a template without annotations; `Absent`: the workload is gone), and every version a template has carried, which is what ReplicaSets and ControllerRevisions remember |
| `left` | what is left of the bounds |

Its actions are the API server's (`StoreCM`, `UpdateCM`, ...; an update that changes
nothing sends no event, one of a deleted object is not found), the informers'
(`DeliverCM`, `DeliverCCM`, `Resync`, `Relist`), the user's (`Edit` keeps the annotations,
`Replace` replaces them), the workload webhooks' (`Apply`) and the pod webhook's
(`AdmitPod`). A call ends in one of three ways: `ok`, `conflict`, or `error`, and the
request behind an `error` may have been carried out: that is a timeout, a lost answer, or
a refusal.

In `ConfigMapController`, `pc` names the call the handler makes next, and `my`, `cur`,
`other` and `tries` are its local variables. One action is one client call with the code
before it since the last one.

| action | code (`configmap_controller.go`) |
|---|---|
| `FirstVersion`, `StampFirst` | `Reconcile`: no stamp, no current version; create one, stamp it |
| `AdoptVersion` | `Reconcile`: no stamp, but the current version has the content |
| `NewVersion` | `Reconcile` or `UpdateConfigMap` calls `CreateNewCCM`, which removes the label `current` |
| `DropLatest`, `DropLatestPanics`, `UndoDrop` | the loop that removes the label `latest`, six tries; `Items[0]` of an empty list; the revert after an error |
| `CreateNew`, `RevertCurrent`, `RevertLatest` | `r.Create` of the new version, and the two reverts when it fails |
| `StampNew`, `StampNewPanics` | the stamp on the ConfigMap; the write to nil annotations |
| `RollDeployments`, `RollStatefulSets`, `RollPanics` | the stamp on the template of the workload the annotation names; more than one name is an error |
| `RollBack`, `RaiseCurrent`, `DropOld`, `RollBackMissing` | `UpdateConfigMap` and `CopyCCMToCM`: the stamp is not the current version |
| `NothingToDo` | every way through without a call |
| `Crash` | the process ends at any point and starts again |

### SecretController

`secret_controller.go` repeats `configmap_controller.go` line by line but for what a
Secret's content is. `cm` is the Secret here and `ccm` its CustomSecrets; `Data` is
instantiated with `Contents`, records of a payload, the owner's annotations, and the
annotation `customConfigMap-name`, which the pod webhook puts on Secrets by mistake of
key and the reconciler takes for the owner's. The actions that touch contents are
defined anew (`SecretAdoptVersion`, `SecretNewVersion`, `SecretRollBack`,
`SecretNothingToDo`, all over `Differs`), `SecretRollBackPanics` is the nil map of
`CopyCSToSecret` (`FindsNilMap` is its guard), and the others are ConfigMapController's own.

### PurgeJob

| action | call (`purge.go`) |
|---|---|
| `PurgeList` | the versions are listed |
| `PurgeDeployments`, `PurgeStatefulSets` | for one of them, the workloads of a kind are listed (`ListWorkloads`) |
| `PurgeRevisions` | the ReplicaSets of one Deployment, or the ControllerRevisions of one StatefulSet, are listed and searched |
| `PurgeGet` | the ConfigMap is read |
| `PurgeDelete` | the version is deleted |
| `PurgeDone` | no version is left: the job ends until its timer fires |

`job` is where the job stands, the workloads of the last list it has not looked at yet
(`lists`) and what it has found (`checkConfig`). `history` says whose ReplicaSets and
ControllerRevisions carry what; Cluster's `revisions` are all of them. `deleted` and
`began` are history variables. Between any two calls the reconciler, the user, the
informers and the revision history (`Trim`) move. A list that fails is an empty one, as in
the code. A version that is gone is gone for the informers too, and a handler that holds a
copy of it gets NotFound.

### PodWebhook

`ConfigValidation` and `CopyCCMToCM` call by call, for several pods: `HookGet`,
`HookGetCCM`, `HookUpdate`, `HookList`, `HookDrop`, `HookRaise`. Everywhere else an
admission is the one step `AdmitPod`; `HookIsAtomic` is what makes that right.
`selected` says who bears the name `config-multi-env-files` that the code's selector
names: this ConfigMap, another one, or none.

### WorkloadWebhooks and InitController

| variable | in the code |
|---|---|
| `object` | Configurator's annotations on each ConfigMap and Secret, with resource versions |
| `saved`, `stamped` | each object's versions; those of them it has been stamped with (history) |
| `handler` | per object: where its reconciler stands, the copy it has read, the version it is going to stamp it with |
| `workload` | each workload: what it mounts, its template's annotations, its resource version |
| `request` | per client: the request its webhook is working on (mounts still to visit, the copy in hand, what the patch adds) |
| `init` | the walk |

A request goes through `VisitMount` and `UpdateMount` for each mount whose key is missing
or empty, then `PatchWorkload` computes the JSON patch (`Stale`, `Patched`, `Applicable`)
and the API server stores the workload or finds that it changed meanwhile. It may fail at
any call (`WebhookFails`), or the webhook may be away, and its failure policy `Ignore` lets
the workload through (`Unreachable`). Clients are users, reconcilers that roll out, and the
init controller, whose own updates of workloads go through the same webhooks: `InitWrite`
makes the request, `InitAnswer` waits for its end. `InitExit` is `os.Exit` after any error:
the container runs again until a walk succeeds, and a new pod of the manager (`InitAgain`)
walks again beside the reconcilers of the old one.

A reconciler reads an object (`Read`), makes a version (`MakeVersion`: the first one, also
beside a first one the walk is making, or one that takes another's place), stamps the object
(`StampObject`), and rolls the version out, to the Deployment first and then to the
StatefulSet (`RollOut`). It ends anywhere (`HandlerEnds`). The pod webhook's rollback stamps
an earlier version (`RollBack`). Which branch a handler takes depends on labels and
contents, which are the first group's matter; here any of them may be taken.

### What is abstracted

* **One ConfigMap** in the first group. The handlers of different ConfigMaps share nothing
  but API objects of their own; what crosses objects is the webhook's selector
  (`selected`, `foreign`) and the workloads (second group).
* **Reads from a cache** are part of the action that makes the next call. The cache
  lags anyway, so any value an earlier read could give, a later delivery of events gives
  as well. Such reads do not fail. The webhooks, purge and the walk read the API server,
  and there each read is an action.
* **Names.** `RandomSequence` gives five random letters or digits; `CreateCCM` takes any unused
  member of `Versions`. `Create` of a name in use answers AlreadyExists; with 36^5 names
  that case is left out.
* **An update of a workload that conflicts** is counted as a fault in the first group: the
  reconciler treats every error of that call alike.
* **Workload webhooks are one step, `Apply`, in the first group.** The reconcilers see the
  ConfigMap change and the template change, which `Apply` does together; the window in
  between is what the second group is about.
* **A rollback of a workload** is its pod's admission; `template` keeps the version that
  was rolled out last, and only `TemplateFollows` reads it, when nothing was rolled back.
* **JSON patches** do what the API server's library does: `replace` of a key that is
  missing adds it, `remove` of one that is missing fails the whole patch.
* **Annotation keys** are members of `Objects`, of `Owners` (some of them `Lookalikes`,
  whose text contains `ccm-` or `cs-`) or `Sync`; volumes, containers and init containers
  are one set of mounts.
* Postfixes with dots, owner references and metadata are left out.

## 3 What is checked

| run | specification | question |
|---|---|---|
| `cm_safety` | `Spec` | do stamps and revisions refer to saved versions, do stamps tell the truth, is the version store implemented — with an edit, an apply, a rollback, a fault and a crash in any order? |
| `cm_settled` | `FairPatientSpec` | when nobody touches the ConfigMap before the reconciler is done, is each content saved, and saved before Configurator replaces it, and does the system settle with one current version, stamped, in content and on the template? |
| `cm_settles` | `FairSpec` | do retries, conflicts, panics and its own events ever keep the reconciler going for ever? |
| `secret` | `SecretSpec` | the questions of `cm_safety`, of the Secret reconciler, annotations included |
| `purge` | `FairPurgeSpec` | does the job, which looks at one workload after the other, spare what the revisions of a workload carry, do deleted versions stay away, does what is neither on a revision nor stamped go? |
| `hook` | `HookSpec` | are two admissions at a time, beside the reconciler and a user, as good as one step each? |
| `install` | `FairInstallSpec` | does any interleaving of walk, requests, reconcilers and outages lose a name or a stamp, or leave a template with a version its object was never stamped with or the key of what it does not mount; and does the walk end? |
| `cm_edits_lost`, `secret_loop`, `purge_used`, `hook_labels`, `init_shared` | see section 4 | does the code do what its documentation and its comments say? It does not |

### Properties

One reconciler (`ConfigMapProperties`, and their counterparts in `SecretController`):

* `StampedVersionSaved`, `RevisionsSaved` — a dangling stamp would leave the reconciler
  retrying for ever and a rollback without a content.
* `StampIsTruthful` — no step of Configurator changes content or stamp without making
  both agree. The handler writes a stamp it computed from a copy; only the conflict check
  keeps an edit from being stamped with a version that does not have it. For Secrets,
  `SecretStampIsTruthful`: annotations agree *if the version has some*, which is all the
  code compares.
* `ImplementsVersionStore` — the refinement; for Secrets it is about payloads.
* `SettledInStep`, `TemplateFollows` — the two stores of "current", the content and the
  template agree when everything is handled.
* `EditsKept` — no step of Configurator takes a content out of the ConfigMap that no version
  keeps. This is what a user must be able to rely on; it holds when the user is patient
  (`cm_settled`) and fails when not (`cm_edits_lost`).
* `SecretSettledInStep`, `PayloadsKept` — the same of a patient Secret. They say of the
  annotations what the code's own comparison (`Differs`) says: annotations of a version
  that has none stay on the Secret, and go with the next rollback. They are proved
  (section 5) and have no run of their own.
* `NilMapOnlyOnEchoes` — the panic that loops in `secret_loop` heals itself in a patient
  system; proved as well.
* `Settles`, `EditsSaved` — liveness.

Purge:

* `PurgeSparesRevisions` — the job looks at the revisions of one workload after the other,
  then at the ConfigMap, then deletes; what the revisions of some one workload carried all
  that time survives unless a call failed. (A version that moves from a workload not yet
  looked at to one already looked at may be missed.)
* `PurgeImplementsVersionStore` — a reconciler that works on with copies of a version that
  was deleted meanwhile brings no content back.
* `UnusedGo` — liveness: the job does delete what it is there for, versions that are neither
  on a revision nor the one the ConfigMap is stamped with.

Pod webhook:

* `HookIsAtomic` — when nobody bears the name in the selector, every call of the webhook
  is a step of `Next` or changes nothing anybody sees.

Workload webhooks and init controller:

* `DeploymentsNamed` — the reconciler finds the workloads to roll out by their names on
  the object, which requests and walk write concurrently from copies.
* `TemplatesCarrySaved` — the versions on templates have been stamped, and those have been
  made: what a walk or a handler made before it came to grief goes no further.
* `StampsSeen` — only a reconciler that has read a stamp puts a new version's in its place.
  Walk and reconciler may both make an object's first version; the second one's update
  conflicts, and so does that of a webhook with an older copy.
* `TemplatesMatchMounts` — the patch, computed from the manifest and a walk over mounts
  during which others move, leaves the keys of exactly what is mounted.
* `InitEnds` — liveness: the container succeeds some day.

### Bounds

| bound | why it is enough |
|---|---|
| `Versions`, `Spare` | every handler makes at most one version. `Spare` is how many names `FirstVersion` must leave, since on a lagging cache it may be repeated: with `Spare` two below the number of versions, up to two first versions exist — enough for the case of two current ones — and the rest are for edits |
| `MaxEdits` 1 or 2 | the second edit meets what the first one left |
| `MaxPods` 1 or 2 | a rollback, with edits before and after it; two, in `hook`, so that both pods' webhooks update the ConfigMap |
| `MaxFaults`, `MaxCrashes` 0 or 1 | one failure at any point of a chain of calls; reverts that fail too need none, they conflict |
| `MaxApplies` 0 or 1 | a workload that appears or is named in the middle of a handler |
| two or three contents | an edit, an edit back; with three, an edit that equals nothing saved before |
| two Deployments (`cm_settled`, `init_shared`) | more than one name in an annotation (an error); a second workload that shares an object |
| two pods (`hook`) | two webhooks that hold copies of one ConfigMap |
| `MaxRequests`, `MaxStamps` 1 (`install`) | a user's request or a rollback, and a version of the reconciler's making, at any point of the walk and of the walk's own requests; a Deployment, a StatefulSet, a ConfigMap, and a Secret that may be missing |
| `TwoEvents` (`secret`, `hook`), `OneEvent` (`purge`) | both informers together are two events, or one, behind: enough for a cache that shows one thing old and another new; `cm_safety`, `cm_settled` and `cm_settles` let them lag as long as they like |
| `Late`, `NoBare`, `Unedited` (`purge`) | the job starts when a revision carries a version, templates have annotations, and the ConfigMap has one fixed content at first: nothing happens to the job before that, and `cm_safety` has the rest |
| a Deployment and a StatefulSet (`purge`) | two lists of workloads and two of revisions, and a version that one of them shows and the other does not |
| `SimpleStatefulSets` (`install`) | only Deployments have owners' annotations and mount what is missing: the code does not tell kinds apart there |

What the bounds of one run leave out another has: `cm_safety` has a Deployment, faults and
crashes, `cm_settles` a StatefulSet with both, `cm_settled` two edits and three contents.
Beyond them the proofs of section 5 hold for any bounds.

`NamesInOrder` (a CONSTRAINT) makes TLC hand names out in order. A name is random and no
action compares names but for equality, so every behaviour is a renaming of one that meets
it. `NamesLeft` (purge only) stops where the names run out: with a purge the reconciler
makes versions without end, so `UnusedGo` is checked of behaviours that leave a name.
Symmetry of contents, pods and workloads is used only in runs without liveness.

Deadlock is checked in every run: the resync, the job's timer and a new pod of the manager
always leave a next step.

### Fairness

* `WF(Controller)`: the manager has a worker that runs as long as a key is queued, and a
  handler does not stop between calls; the client has timeouts. This is weak fairness: a
  handler under way stays enabled until it moves.
* `WF(Deliver(...))` for both watches: an informer's watch delivers, or is replaced by one
  that lists again.
* `WF(PurgeCCMAndCS)`: the timer fires again and again, and the job does not stop between
  two calls.
* `WF(Walk)` and `WF(Webhook(InitClient))`: Kubernetes runs an init container until it
  succeeds, and a request gets an answer.
* Nothing is assumed of users, faults, crashes, other requests, or the resync. The
  liveness properties therefore hold without the ten-hour resync ever happening.

`PatientSpec` (and `PatientSecretSpec`, `PatientHookSpec`) restricts the surroundings: the user, the webhooks
and the resync act only when no key, event or handler is under way. It is how the code is
meant to be used (edit, wait, edit), and section 4 shows that without it some of these
properties fail. In `PatientHookSpec` an admission begins only when there is another
rollback left for it in the bound: it has to be able to end, or nothing else may begin. Crashes are not restricted, but `cm_settled` has none: see below.

## 4 What the code does not do

Each of these runs ends in a counterexample; PROJECT.json has the lines.

* `cm_edits_lost` — an edit made while the previous one is being versioned is
  **overwritten**: `StampNew` conflicts, and the retry takes the stale stamp for a rollback.
* `secret_loop` — an edit of a Secret is versioned, and the update that stamps the Secret
  **fails**. The retry finds the old stamp, which is not the current version any more, and
  takes it for a rollback; when that version has no annotations, `CopyCSToSecret` writes to a
  nil map. The manager panics, starts again and panics again for ever. No rollback is needed
  for it: a real one to such a version makes the pod webhook panic first
  (`podValidation-webhookhandle.go:407`), which denies the pod and writes nothing.
* `purge_used` — the job **deletes a version in use**: the one the ConfigMap is stamped with
  when no revision carries it, or one that a workload got after the job had looked at its revisions.
* `hook_labels` — the webhook moves the label `current` of versions of **one fixed
  ConfigMap**. A rollback of another one leaves two current versions of it, and no branch
  of the reconciler handles two. The one that does bear the name is no better off, because
  the reconciler answers the webhook's write of the stamp by moving the labels itself. If
  it does so before the webhook lists the current versions, the webhook takes the label
  from the version that has it by right, and the call that should give it back conflicts:
  no version is current. `RollbacksSettle` (section 5) proves that the selector is all
  that is wrong: where nobody bears the name, rollbacks settle.
* `init_shared` — the walk **does not annotate the second workload** that mounts an object:
  it finds the object stamped and leaves it at that.

Known limits that the properties allow for, each a hazard in PROJECT.json with its line:
a crash inside `CreateNewCCM` leaves no current version, and no branch handles none when
there is a stamp; its reverts use copies earlier calls have made old, and conflict; after
six attempts on a cache that lags the label `latest` stays on two versions (so
`SettledInStep` asks for some latest version); an error between the stamp and the rollout
is never made up for. `cm_settled` is therefore checked without faults and crashes. And
**two first versions** of an object can be current: a walk that ended between making a version
and stamping it makes another one when it runs again, and a walk beside a reconciler makes
one beside the reconciler's. Only one of them is stamped (`StampsSeen`), but both have the
label, and no branch of the reconciler handles two. No property excludes it.

## 5 What is proved

Everything below holds for any versions, contents, workloads, objects, pods and clients,
and for any bounds; `NamesInOrder` and the other constraints of the runs are no part of the
specifications.
Assumed are only the assumptions on constants, which TLC evaluates in the runs:
`ValuesAssumption` (special values differ from ordinary ones, a workload is of one kind),
`BoundsAssumption` and `SpareAssumption` (bounds are natural numbers),
`ContentsAssumption` (what a Secret's content consists of) and `WorkloadsAssumption` (the
same as `ValuesAssumption`, for the second group).

| module | theorem | establishes |
|---|---|---|
| `ConfigMapProofs` | `Invariant` | `Spec => []IInv` |
| | `TypeCorrect`, `StampsAreSaved`, `RevisionsAreSaved` | `TypeOK`, `StampedVersionSaved`, `RevisionsSaved` |
| `ConfigMapRefinement` | `StampsAreTruthful`, `Refinement` | `StampIsTruthful`; `Spec` implements `VersionStore` |
| `PatientProofs` | `PatientInvariant` | `PatientSpec => []PatientInv` |
| | `UnharmedInStep`, `UnharmedFollows`, `UnharmedKeeps` | `SettledInStep`, `TemplateFollows` and `EditsKept` up to the first fault or crash |
| | `PatientInStep`, `PatientFollows`, `PatientKeeps` | the same without condition, where `MaxFaults` and `MaxCrashes` are 0, as in `cm_settled` |
| `SecretProofs` | `SecretInvariant` | `SecretSpec => []IInv` |
| | `SecretTypeCorrect`, `SecretStampsAreSaved`, `SecretRevisionsAreSaved` | as above |
| | `SecretStampsAreTruthful`, `SecretRefinement` | `SecretStampIsTruthful`; payloads implement `VersionStore` |
| `SecretPatientProofs` | `SecretPatientInvariant` | `PatientSecretSpec => []SecretPatientInv` |
| | `SecretUnharmedInStep`, `SecretUnharmedFollows`, `SecretUnharmedKeeps` | `SecretSettledInStep`, `TemplateFollows` and `PayloadsKept` up to the first fault or crash |
| | `SecretUnharmedRestarts` | `NilMapOnlyOnEchoes` up to the first fault or crash |
| | `SecretPatientInStep`, `SecretPatientKeeps`, `SecretPatientRestarts` | `SecretSettledInStep`, `PayloadsKept` and `NilMapOnlyOnEchoes` without condition, where `MaxFaults` and `MaxCrashes` are 0 |
| `PodWebhookProofs` | `HookInvariant`, `HookTypeCorrect` | `HookSpec => []HookInv`; `HookTypeOK` |
| | `AdmissionIsAtomic` | `HookIsAtomic` |
| | `AdmissionIsTruthful`, `HookRefinement` | `StampIsTruthful` and `VersionStore`, with webhooks call by call |
| | `PatientHookInvariant`, `PatientAdmission` | where nobody bears the selected name and until something fails, a patient system with admissions call by call is a patient system with admissions in one step |
| | `RollbacksSettle` | there, `RollbackSettles` |
| `InitProofs` | `InstallInvariant`, `InstallTypeCorrect` | `InstallSpec => []IInv`; `InitTypeOK` |
| | `NamesAreKept`, `CarriedAreSaved`, `StampsAreSeen`, `MountsAreAnnotated` | `DeploymentsNamed`, `TemplatesCarrySaved`, `StampsSeen`, `TemplatesMatchMounts` |
| `PurgeProofs` | `PurgeInvariant`, `PurgeTypeCorrect` | `PurgeSpec => []PurgeInv`; `PurgeTypeOK` |
| | `RevisionsAreSpared`, `PurgeRefinement` | `PurgeSparesRevisions`; `PurgeSpec` implements a version store that remembers what was purged |

That is every safety property of the passing runs, and `SecretSettledInStep`,
`PayloadsKept` and `NilMapOnlyOnEchoes` besides.

### One reconciler

That the stamp on the ConfigMap names a saved version does not follow from itself: the
handler may be about to write back an old copy with another stamp, which it took from a
cache, which took it from an event. `IInv` says it of all of them: every stamp in `cm`,
`cmCache` and `cmWatch` exists (`StampsKnown`); every copy of a CCM in the cache or in an
event exists with that content (`CopiesAgree`); and what a handler holds at each `pc` is
good enough for the call it makes there (`HandlerKnows`: in `stampNew`, for instance, `my`
carries an existing version *and its content*, which is what makes the stamp truthful). It
is split by variables into `CMSide`, `CCMSide`, `WorkloadSide` and `HandlerSide`, so that
each action only argues about the sides it touches.

No step takes a version away or changes its content (`Grows`), so every fact about a copy
survives every step that leaves the copy alone. `NextInv` proves
`IInv /\ [Next]_vars => IInv' /\ Grows` with one lemma per action over lemmas about
calls (`UpdateCMSafe`, `UpdateCCMSafe`, `CreateCCMSafe`). The refinement then classifies
every step (`StoreStep`): it keeps the object and all contents, saves one content under an
unused name, installs a saved version, or spends an edit. Both the action property and the
step simulation follow.

The Secret reconciler has the same invariant: its own actions are proved to preserve it,
and the shared ones are cited. `SecretStoreStep` is `StoreStep` where "installs" says of
the annotations only what the code guarantees.

### A patient system

`SettledInStep`, `TemplateFollows` and `EditsKept` are not about copies but about *when*:
that the reconciler, once it is done, has done all of it, and nothing twice. `PatientInv`
adds to `IInv`:

* `Informed` — what lags, lags behind something: a copy of a version in the cache or in an
  event is no newer than the version, one that is as new *is* the version, and the last
  event of a version, or the cache when no event is left, is the version itself. It holds
  of every step of the system, patient or not.
* `Phases` — how far a change has come. There are ten: `Untouched` and `FirstMade` (the
  first version), `Changed` (a user or a rollback has written, the handler has not begun),
  `Making` and `Made` (`CreateNewCCM` and the stamp), `Raising` and `Dropping`
  (`CopyCCMToCM`), `Rolling` (the templates), `Echoing` and `Drained`. Each says what the
  handler holds, what is stored, and what caches and watches still have to see. Retries
  and panics need no phase of their own, they lead from one of these to another: a copy
  that lags conflicts and leaves things as they were, a nil map ends the process where a
  fresh cache finds the same work to do.
* `Annotated`, `Nameless`, `Follows` — a stamp needs annotations; a ConfigMap without a
  stamp names no workloads, which is why `StampFirst` need not roll anything out; and
  the template of the one workload named carries the stamp but while a rollout is under way.

`Echoing` is the delicate phase. The reconciler's own writes come back to it as events,
in an order that two watches do not keep: it may see its stamp before it sees the version
the stamp names, and would take the one for a rollback to a version it does not know. The
invariant says that the new version is the last thing the version watch has to deliver
(`HeardLast`). So a cache that shows one current version shows everything as it is, and
there is nothing to do, or it shows an older version that has lost the label since and
not the new one at all (`EchoOfCurrent`): then `RollBackMissing` changes nothing and an
update of the older version conflicts.

All but `IInv`, `Informed` and the sanity of counters is claimed of `Unharmed` states
only, those where no call has failed for the API server's own reasons and the process has not
crashed: section 4 says what either leaves behind. `MaxFaults = 0` and `MaxCrashes = 0`,
which `cm_settled` checks under, make all states `Unharmed`; the theorems that assume it
state the properties as the run does, and the `Unharmed...` ones need no assumption.

### A patient Secret

`SecretPatientInv` is `PatientInv` with `SecretSteady` in place of `Steady`: a Secret is in
one of the ten phases, and the proofs of the shared steps are cited, or it is in one of five
that a ConfigMap cannot be in.

* `Fitting` — at rest, with annotations that its version does not keep. It behaves as a
  Secret that is in step, but for a resync, which finds it `Changed`.
* `Admitted`, `SecretRaising`, `SecretDropping` — a rollback. For a ConfigMap `CopyCCMToCM`
  finds the content already there and stores nothing, so `Raising` follows `Changed`. The
  webhook leaves the annotation `customConfigMap-name` on a Secret, which no version has, so
  `CopyCSToSecret` writes the Secret a second time and an event more is on its way while the
  labels move. The invariant has to say that the Secret may not have been heard of yet
  (`Hearing`) all along.
* `Reheard` — what that event does. The handler it starts may have a cache in which the
  labels have not moved yet and take the restored stamp for another rollback. It writes
  what is there already, which stores nothing, and then gives the label current to a copy
  that is older than the version (`ReheardFound`), which conflicts. What ends it is that
  the version watch delivers.

The panic on the nil map occurs in a patient system too: on a cache that shows an older
version as current, the stamp is taken for a rollback, and the stamped version need have no
annotations. `SecretUnharmedRestarts` proves that this is the only way: whenever a handler is
about to write to a nil map, the label current is where the stamp is (`NilMapOnlyOnEchoes`),
and the process that starts again, with fresh caches, finds it there. So no panic leads to
another. It needs one more invariant, `Restorable`: a stamp that is at rest away from the
label names a version that has annotations, because only the webhook's rollback puts it
there, and the webhook panics itself on one that has none. The loop of `secret_loop` begins
with a failed call, which leaves a stamp behind that no rollback made.

### Beside the reconciler

*Pod webhook.* `HookInv` is `IInv` and what each pod's webhook holds: its copies of versions
agree with the versions; the ConfigMap it is about to store has a stamp some revision
carries and that version's content; and a copy that is not the newest any more will
conflict (`Fresh`, with `Ages`: resource versions only grow). With that, each call is shown
to be a step of the one-step model or to change nothing. `PatientHookInv` adds that one
admission is under way at a time and that nothing moves between its read and its update,
so that the update is the `AdmitPod` of a patient system and `PatientInv` carries over.

*Purge.* Here versions do go, so `Grows` fails and `IInv` with it: copies outlive what
they are copies of. `PurgeInv` compares copies with `Content`, what a version has **or had
when it was deleted**. Names are used once, so `Content` of a version never changes once
it has one, and an update through a copy of a version that is gone is answered NotFound.
`RememberedStep` classifies steps as `StoreStep` does, over `Content`. For the job,
`JobKnows` says that whatever is still to be looked at exists, and that, as long as no
call has failed, a version the job has not come across is on no revision that one of the
workloads it has `Searched` has had since it began (`NotMissed`). That needs `HistoryTold`:
a workload that is not listed has no revisions. All other steps are `Harmless`.

### Workloads and objects

`IInv` of `InitProofs` relates copies to objects: a copy in the hand of a webhook or of the
walk or of a handler is no newer than the object, and if it is as new it *is* the object
(`Faithful`), so an update that does not conflict loses no name (`DeploymentsNamed`). It then
follows a version along its way — made, stamped, on a copy, in a patch, on a template — and
says at each that it has come that way (`Made`, `HandlerGood`, `RequestGood`, `WalkGood`,
`Good`). For `StampsSeen` it says that the walk, which starts from a copy without a stamp,
stores it only over an object without one; every step satisfies `Seen`.

### Only model-checked

`Settles`, `EditsSaved`, `UnusedGo` and `InitEnds`: liveness under fairness is out of the
prover's reach, as ENABLED is. Nothing in the models is recursive, so nothing is left out
for that.

## 6 What is not modelled

* Deletion of a ConfigMap or of a workload by users, and garbage collection over owner
  references.
* Failing reads from caches; a `Create` with a name in use.
* The Secret half of purge, which repeats the ConfigMap half over CustomSecrets; its loop
  over namespaces, whose turns share nothing; two runs of the job at a time.
* The label calls of the Secret half of the pod webhook (`SecretAdmitPod` ends with the
  update of the Secret). Their last one, which gives the saved version the label current,
  also stores that version with `customConfigMap-name` among its annotations, which is not
  taken out again (`podValidation-webhookhandle.go:431-437`).
* Labels in the second group: how many versions are current, and what the reconciler makes
  of it. Contents neither: a user's edit of an object, which conflicts with a copy as any
  other write does, is not an action of its own.
* Manifests that carry Configurator's own keys, as when they are taken from a cluster: `Create`
  gives a template the owner's keys only. Nor is the request that rolls a workload back a
  client's: it brings the annotations of an old revision (`RollBack` is what the pod's
  webhook makes of that).
* The reconciler waiting for the answer of its first rollout before it makes the second.
* Secrets whose name contains `ccm-`: `updateAnnotation` takes their key for a ConfigMap's.
* The CustomConfigMap and CustomSecret reconcilers (they do nothing), the webhook
  server's TLS and routing, scheme registration, generated deep copies, test scaffolding
  (it starts an API server and checks nothing).
* The scripts under `docs/_site` are a generated web site with vendored libraries (search,
  pop-ups, scrolling); they have no part in the program, which is written in Go.

## 7 Plan

1. **Proofs**: what is left of `PatientInv` after a fault or a crash. The labels can then be
   on several versions or on none; claims about content and stamp alone should survive.
2. **Two objects in the first group**: a workload that mounts two ConfigMaps, whose
   handlers write its template in turn.
3. **Deletion by users** and garbage collection, beside purge: the model already has
   versions that vanish.
4. **Names as text**: postfixes with dots, `strings.Contains` on keys and names, against a
   reference definition over bounded strings.
