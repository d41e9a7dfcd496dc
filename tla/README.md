# A TLA+ verification of the Infinispan Operator

The operator keeps Infinispan clusters on Kubernetes in the state their custom
resources ask for. It is a set of controllers that share nothing but the
Kubernetes API: each reconcile reads a cached copy of a resource, looks at the
cluster, takes one small step and stores what it did in `status`. The next
reconcile, perhaps by another process, starts from there. Almost nothing in it
is concurrent in the sense of threads, and almost everything is concurrent in
the sense that matters: a user edits while a shutdown is half done, the cache
lags behind the operator's own writes, the process dies between two API calls.
The models here are about those interleavings.

## The system

| Component | State it keeps | Operations | Talks to |
|---|---|---|---|
| Infinispan reconcile pipeline (`pkg/reconcile/pipeline/infinispan`, `controllers/infinispan.go`) | `Infinispan` resource: `status.conditions`, `replicas`, `replicasWantedAtRestart`, `operand` | an ordered list of handlers; requeue, stop, error | API server, servers by REST |
| Scaling, graceful shutdown, shutdown upgrade (`handler/manage/upgrades.go`, `manage.go`, `conditions.go`) | the same, the StatefulSet, volume claims, the rebalancing flag of the servers | schedule, disable rebalancing, stop servers, scale to zero, destroy, restore size, enable rebalancing | StatefulSet controller, servers |
| StatefulSet rolling update (`statefulset_updates.go`) | pod template, hashes of the configuration | compare and update | StatefulSet controller |
| HotRod rolling upgrade (`hotrod_upgrades.go`, `pkg/infinispan/upgrades`) | `status.hotRodRollingUpgradeStatus`, two StatefulSets | prepare, redirect the Service, sync data, replace, roll back | both clusters |
| Backup and Restore (`zero_controller.go`, `backup_controller.go`, `restore_controller.go`) | `status.phase`, a pod, a volume claim, the operation on the pod's server | accept, initialize, execute, wait, clean up | API server, the pod's server, garbage collector |
| Batch (`batch_controller.go`) | `status.phase`, a ConfigMap, a Job | initialize, execute, wait | API server, Job controller |
| Cache and listener (`cache_controller.go`, `launcher/listener`) | `Cache` resources, caches on the servers, a stream of server events | create or update in both directions, sweep stale resources, delete with a finalizer | servers by REST and SSE |
| Schema (`schema_controller.go`) | `Schema` resources, schemas on the servers | upload, report errors, delete | servers |
| Cross-site and gossip router (`gossiprouter.go`, `xsite.go`) | a Deployment, a Service, the site view | create, remove, wait for the view | API server, other sites |
| Webhooks (`api/v1/infinispan_webhook.go`, `api/v2alpha1/*_webhook.go`) | none | default and validate one object | API server |
| Version manager (`pkg/infinispan/version`) | the list of operands | lookup, order, upgrade graph | everyone |
| Configuration, users, TLS, Grafana, logging, pause | ConfigMaps, Secrets, annotations | render | API server |

What is hard here, and what makes each part correct:

* **Lifecycle.** A shutdown is a protocol over a dozen reconciles. Servers must
  stop before their pods go; the size must survive; rebalancing, switched off at
  the start, must come back at the end; a volume must not be deleted under a pod
  that stays; an upgrade must end, and must never bring an older server to newer
  data. The enemies are edits at the wrong moment, a stale cache under a patch
  that carries no resource version, crashes between two calls, and failed calls.
* **Backup and Restore.** The operation must run once although the reconcile that
  starts it may run often; the phase must tell the truth about the operation;
  the pod, a member of the cluster, must leave. The enemies are stale phases, a
  pod or a resource of the same name that belongs to an earlier instance, crashes
  and evictions.
* **Caches and schemas.** Two writers on both sides, no resource versions in their
  patches, and an event stream with gaps. The two sides must come to rest and then
  agree, and data must not be removed on account of an event that is out of date.
* **HotRod upgrades.** Two clusters and a stage counter; a rollback from each stage.
* **Batches.** A Job and a ConfigMap found by name, phases read from a cache: the
  script must run once and the phase must be that of its own Job.
* **Rolling updates.** The pod template is written by one piece of code and compared
  by another, part by part. Every change must reach the pods, and nothing else may
  restart them.
* **Cross-site.** Operators on different platforms wait for each other's addresses
  and watch nothing of each other.

`PROJECT.json` lists these hazards at their lines.

## Modules

| Module | What it is |
|---|---|
| `ClusterLifecycle` | one `Infinispan` resource of upgrade type `Shutdown` |
| `ClusterLifecycleProofs` | its theorems |
| `ZeroCapacity` | `Backup` and `Restore` resources |
| `ZeroCapacityProofs` | its theorems |
| `LiveUpgrade` | what a Hot Rod rolling upgrade promises: the abstract specification |
| `HotRodUpgrade` | one `Infinispan` resource of upgrade type `HotRodRolling`; implements `LiveUpgrade` |
| `HotRodUpgradeProofs` | its theorems |
| `SyncedResources` | custom resources under merge patches and the work queue they wake |
| `CacheSync` | one cache, its `Cache` resources, the controller and the listener; extends `SyncedResources` |
| `CacheSyncProofs` | its theorems |
| `SchemaSync` | one schema, its `Schema` resources, the controller and the listener; extends `SyncedResources` |
| `SchemaSyncProofs` | its theorems |
| `BatchJob` | a `Batch` resource and its Job |
| `BatchJobProofs` | its theorems |
| `Rollout` | from an edit to the pods: files, pod template, restarts, in-place rolling upgrades |
| `RolloutProofs` | its theorems |
| `XSite` | cross-site replication: several `Infinispan` resources, each with its operator |
| `XSiteProofs` | its theorems |

Every `MC` module and `.cfg` named after one of these is a model-checked instance of it.

### ClusterLifecycle

The state is the resource in the API server (`cr`), the versions of it on their
way to the informer (`watch`) and the informer's copy (`cache`); the running
reconcile (`pc`, its copies `rc`, `rs`, `rp` of the resource, the StatefulSet and
the pod list); the StatefulSet, its pods and volume claims, the servers'
rebalancing flag; the cluster's Service and the listener's Deployment. `stopped`
and `opened` are history.

A reconcile is a pass of `pc` through the handlers in the order of
`pipeline.go`: `PreliminaryChecks`, `ClusterService`,
`ScheduleGracefulShutdownUpgrade`, `ClusterStatefulSet`, `PodStatus`,
`GracefulShutdownUpgrade`, `GracefulShutdown`, `AwaitUpgrade`, `ClusterScaling`,
`StatefulSetRollingUpgrade`, `AwaitPodIps`, `EnableRebalanceAfterScaleUp`,
`AwaitWellFormedCondition`, `ConfigListener`. A handler is one action; where it makes
two API calls it is two, since the other actors move, or the process dies,
between them. `UpdateInfinispan` and `CreateOrPatch` are modelled by what they
do: read the cache again, give up on a different version (`Conflict`), and send
a JSON merge patch with no resource version (`Merged`), which overwrites what
the cache has not seen. Spec and status are two patches.

The other actors are the user (`UserScales`, `UserUpgrades`, through the checks
of the admission webhook), the informer, the StatefulSet controller, the kubelet
and the faults: the operator crashes, the deletion of the StatefulSet fails, a
REST call fails, the kubelet restarts a container whose cache container is shut
down, a pod is evicted. With `Patient = TRUE` the user edits only a settled
cluster, as the documentation asks; with `FALSE` at any moment.

Left out or simplified: the upgrade types `InPlaceRolling` (in `Rollout`) and
`HotRodRolling` (in `HotRodUpgrade`), custom images and CVE rebuilds (in `Rollout`);
the handlers that only render (ConfigMaps, Secrets, users, loggers, routes) or report
(console URL); the pod template of the StatefulSet (in `Rollout`; here
`StatefulSetRollingUpgrade` changes its replicas only); split views of the cluster;
messages of conditions. The StatefulSet is read
live at its first load in a reconcile and is a snapshot after that. Versions of
the resource are compared by content instead of by `resourceVersion`, so an
update after an A-B-A change passes here and conflicts in the API server. Pods
go together with a deleted StatefulSet.

### ZeroCapacity

Per resource: its version in the API server, in the watch and in the cache; the
step of the running reconcile and its copy; the pod and the instance of the
resource that owns it; the volume claim; the operation on the pod's server.
`runs` and `done` are history, charged to the owner of the pod.

`Reconcile` picks the step for the cached phase; `Accept`, `InitResources`,
`CreatePod`, `MarkInitialized`, `Execute`, `MarkRunning`, `Wait`, `MarkSucceeded`,
`MarkFailed` and `Cleanup` are the calls of `zero_controller.go`. `UpdatePhase` is
`CreateOrPatch`: read from the cache, then patch by name, whatever instance has
that name. A pod found under the name is taken as it is. The user creates and deletes resources, the informer
delivers, the garbage collector removes what a deleted instance owned, the pod
becomes ready, the operation completes or fails, the Infinispan cluster changes
between stable, unstable and absent; the faults are a crash of the operator, a
failed call and an eviction.

Left out: the pause annotation, the informer of pods (a pod is read live),
scheduling constraints of the volume's access mode, `status.reason` and
`status.pvc` (the latter is set on the copy before `CreateOrPatch` reads the
resource into it, so it is never stored).

### HotRodUpgrade and LiveUpgrade

A second cluster is created beside the first, its caches are connected to it by
remote stores, clients are redirected, the data is copied, the first cluster is
removed; setting `spec.version` back removes the second instead. The state is the
resource with `hotRodRollingUpgradeStatus` (`stage`, `source`, `target`, `from`), its
way to the cache, the running reconcile, the clusters by StatefulSet name with
their version, entries and caches, and the selector of the cluster Service.

`pc` passes through `ClusterService`, `ScheduleHotRodRollingUpgrade`,
`ClusterStatefulSet` (while no upgrade is in progress), `PodStatus`, the stage
(`createNewStatefulSet` and `CreateTarget`, `prepare`, `redirectService`, `syncData` and
`DisconnectSource`, `replaceStatefulSet`, `cleanup` or `rollback`, the last two with
`RemoveSelector`, `RemoveStatefulSet`, `RemoveStatus`) and `AwaitWellFormedCondition`. A
stage that fails asks for another reconcile and lets the remaining handlers run
(`RequeueEventually`); an update that meets another version of the resource stops
the pipeline. The pod list is read once per reconcile, so after `replaceStatefulSet`
the well-formed condition is still that of the source (`listed`).

Clients store entries in any cluster that the Service selects. A connected cluster
writes through to its source. `LiveUpgrade` has only the version, whether an upgrade
is in progress and the entries stored while none was; its steps are `Store`, `Begin`,
`Complete` (a newer version, the same entries) and `Rollback` (the same version, the
same entries). It promises nothing for entries stored during an upgrade, since the
code does not keep them all: see `hot_transfer`. The refinement mapping reads
version and entries from the cluster that the resource names, and while an upgrade
lasts from where it began, so it fails if the status of an upgrade disappears while
that cluster has the wrong version or lacks an entry.

The user asks for any version the webhook admits, at any moment and at every stage. One
prerequisite is the documentation's (`proc_recovering_hot_rod_rolling_upgrades.adoc:10`): an
upgrade is taken back only while the source cluster exists. `crossed` is history. It becomes
true in the steps in which a rollback and an upgrade collide (`Overtakes`, `Resumes`): a pass
that does not know of the rollback yet removes the source, or hands the resource over to the
target; a pass from a stale copy schedules an upgrade that is in progress again, to another
version; the upgrade is asked for again while its rollback is on. The code loses data or
the upgrade there (see the list below), and after such a step the properties claim nothing.

The Service selects the pods of both clusters whenever `ClusterService` has run, also while the
target has no caches yet: `Available` allows that window, and no other.

Left out: single pods (a cluster is ready as a whole, and stays ready), replicas, the
ConfigMap and the ping and external Services of the target, custom images, labels that
`HotRodRollingUpgrade` adds to an old resource. One cache stands for all. What a server
answers to `SyncData` for a cache that is no longer connected is its own affair: both
answers are possible.

### SyncedResources, CacheSync and SchemaSync

A cache can be created and changed through a `Cache` resource or by a client of the
server. The controller (`cache_controller.go`, `Reconcile`) carries resources to the
server; the listener, a process of its own (`CacheListener`, `launcher/listener`),
carries the server's events back to resources. Both read a resource, call the
server, and write the resource with a merge patch that has no resource version.

The state of `CacheSync` is the resources by `metadata.name` (`crs`), the controller's
queue, the cache's configuration on the server, the Infinispan resource and the
Schema the cache refers to, the reconciliation in progress (`ctl`: its next call and
its copy of the spec), the events on their way to the listener (`stream`), and the
listener (`lst`). One action is one call of the controller (`RemoveMarked`,
`DeleteMarked`, `Pause`, `AddStrategy`, `ClusterMissing`, `SchemaNotReady`,
`DeleteOnServer`, `RemoveFinalizer`, `Exists`, `Compare`, `UpdateConfig`, `Annotate`,
`Erase`, `CreateOnServer`, `Finish`) or of the listener (`ReadNames` and
`RemoveStaleResources`, the sweep after a start; `Subscribe`; `FindForSet`, `CreateCR`,
`GetCR`, `PatchCR`; `FindForRemove`, `RetainCR`, `MarkCR`). The annotation
`ListenerAnnotationGeneration` is `listenerGen`, `controllerDelete` the annotation that
announces a recreation, `marked` the one that asks for a deletion. `SchemaSync` has the
same shape, with the references of caches that hold a deletion back and the one-way
mode of servers before 16.1 (`bidi`).

The user creates, edits, deletes and pauses; clients set and remove; the cluster
forms, fails to and disappears; the Schema becomes ready. Faults: the operator dies
between two calls, a call fails, the listener dies, the stream breaks. `hurry` counts
changes made before the last one has settled, and `unseen` says that a removal
happened while nobody listened: the code promises nothing for those, and the
properties name them as exceptions.

The webhook's `ValidateCreate` lists the resources through the informer before the new one is
stored. So it may miss a resource that was created, or see one that is gone, as long as the
controller has not been woken for it (`WebhookLists`, from `Behind` and `InformerLists` of
`SyncedResources`): a user and the listener can both get a resource for the one cache, and
then the listener reports an error for every event.

Left out: the markup of a configuration and its conversion (a configuration is the
value the server compares), the lag of the informers of Cache and Schema in the controllers, other
caches than one (a sweep treats each alone), events of the Kubernetes recorder.

### BatchJob

The stored Batch, Job and ConfigMap, and the cached copies of the first two (`seen`);
the Infinispan resource by uid; the reconciliation between two calls (`ctl`). `Pause`,
`Accept`, `AwaitCluster`, `InitializeResources` and `StoreInitialized`,
`ClusterReplaced`, `Execute` and `StoreRunning`, `WaitToComplete` are the steps of
`batch_controller.go`, `Update` its `CreateOrPatch`. A batch may be deleted and created
again while the Job of the first is still there; the cluster may be replaced by one of
the same name; the Job controller and the garbage collector act on their own. The
content of the script and the Job's pod are left out.

### Rollout

`cr` has the parts of `spec` the pod template depends on, each with a few values, and
`status.operand`; `user` the objects the resource refers to, as counters of their
edits; `stored` what the operator writes before the pods start; `sts` the template and
its annotations; `pod` the template and the files each pod was started with.

A pass is `Begin`, `PreliminaryChecks`, `Configure` (all it renders, from one reading of
the inputs), `Schedule`, `StoreIdentities`, `StoreFiles`, `ClusterStatefulSet` or
`AnnounceImage` and `UpdateStatefulSet`, `AwaitWellFormed`. `ClusterStatefulSetSpec` and
`StatefulSetRollingUpgrade` translate the creation and the update part by part: what is
compared, what is assigned, what is only added and never removed, which hashes and
environment variables follow. Parts that both treat alike are one part (`knob`). Pods
are replaced one at a time; a pod of a generated name reads the files as they are when
it starts. `Foreign` is the checksum of another cluster that the global map
`DeploymentAnnotations` may carry over.

Scaling and the steps of a shutdown upgrade are in `ClusterLifecycle`; here that upgrade is
one step, which stops the servers and, while the type is `Shutdown`, removes the StatefulSet
and ends the upgrade: `pipeline.go:202` adds that handler for this type only. With the type
changed meanwhile the cluster is left at zero (`down`). `sa` is `serviceAccountName`, with the
service account that the API server keeps when it is removed (`StoredTemplate`). `hurried` is
history: an edit was taken back before the template showed its files.

### XSite

Per site: the resource with the conditions `GossipRouterReady` and
`CrossSiteViewFormed`, its Service, Route, router Deployment and pod, the stored and the
running configuration of the servers, the log line that tells of recovered files, the
running pass. `XSiteService`, `Configure` (keystores, then `searchRemoteSites` and
`LocalAddress`), `GossipRouter`, `Servers` and `XSiteViewCondition` are the handlers of a
pass; a handler that cannot go on asks for another pass. An address is where it leads
(`route`, a numbered load balancer address, `node`, `static`, `local`), and
`Reaches` says which of them work with which encryption: the network, external.

The user edits a spec, and edits it back, or completes a keystore; a load balancer gets an
address and may get another; a router crashes; servers follow their configuration; any of
the pods in `Damaged` recovers its files, of which the operator reads the first pod's log only;
a push fails; a pass fails. Nothing in one cluster watches the other, so `Resync`, the informer's
periodic resync, is the only thing that repeats a pass that ended well.

Left out: more than one relay node, the text of the stacks, tokens and kubeconfigs, a
location without URL that names another cluster on the same Kubernetes.

## Runs

| Run | Instance | Shows |
|---|---|---|
| `lifecycle` | 3 replicas, 2 edits, 2 versions, 1 crash or failed call | servers stop before their pods go (`ServersStopBeforeRemoval`), volumes of pods that stay are kept (`VolumesKept`), the reported operand is the running one (`OperandTruthful`), no client reaches a stopped-and-started server before rebalancing is enabled (`ServiceClosedWhileRebalanceDisabled`), upgrades complete (`UndisturbedUpgradeCompletes`), what is asked for is reached, rebalancing and Service included (`Converges`); with `TypeOK` |
| `faults` | 2 replicas, 2 edits, 2 versions, any one fault | the size of a stopped cluster is remembered and restored (`SizeRemembered`, `RestartSameSize`); operand and data never go backwards (`VersionsAdvance`, `OperandNeverReverts`, `DataNeverDowngraded`) |
| `zero` | a Backup and a Restore of it, or a Backup created twice; 1 cluster change, any one fault | phases tell the truth (`PhaseTruthful`), the operation of the first resource of a name is executed once (`ExecutedOnce`), operations end (`OperationEnds`), and their pods leave (`PodLeaves`) |
| `hot` | 3 versions, 3 edits at any stage, 1 entry, 1 crash or failed call | until a rollback and an upgrade cross: the Service leads to a cluster with caches, and to the target without them only while it is created and prepared (`Available`), data is never left only in a cluster to be removed (`EntriesHeld`), the stages implement `LiveUpgrade` (`ImplementsLiveUpgrade`), upgrades and rollbacks end with one cluster of the requested version (`Settles`) |
| `cache_sync` | 3 configurations, 3 changes, 1 of them hurried, any one fault | at rest both sides agree (`SettledInSync`), no data is removed on account of an old event (`DataKept`), a recreation does not cost the resource (`RecreateKeepsResource`), the two processes do not answer each other for ever (`Settles`) |
| `schema_sync` | 3 texts, one invalid, 3 changes, 1 of them hurried, any one fault | at rest both sides agree (`SettledInSync`), a schema in use stays (`ReferencedKept`), a deletion that was held back is made (`DeletedGoes`), a failed call is forgotten (`Recovers`) |
| `batch` | 2 batches and 2 clusters of one name, 4 changes, 1 crash | executed once (`ExecutedOnce`), the outcome is that of its own Job (`OutcomeTruthful`), phases only advance (`PhaseAdvances`), batches end (`Completes`) |
| `rolling` | 2 pods, 3 operands (a respin, a new stream), 2 overlays, 2 edits or 1 edit and 1 fault, from a full and from a bare spec | the chain of updates leads where a creation would (`Converged`), pods restart only for a change (`RestartOnlyForChange`), every change arrives (`PodsFollow`) |
| `xsite` | 2 sites, one with Routes and an incomplete keystore, one with a load balancer; 2 of an edit (which may be taken back), a move, a fault, a recovery of either of 2 pods | sites find each other (`SitesConnect`), a failed lookup costs no connection (`SitesKept`), the router's condition is true (`RouterTruthful`), the state that the first pod recovered is pushed (`RecoveryPushed`) |
| `upgrade_crash` | 1 replica, 1 edit, 1 crash | *violation* of `UpgradeCompletes` |
| `evicted_volume` | 3 replicas, 1 edit, 1 eviction | *violation* of `VolumesKept` |
| `hot_transfer` | 2 versions, 1 edit, 1 entry | *violation* of `AllTransferred` |

The typing of the state is a conjunct of one invariant of each module (`TypeOK` itself in `lifecycle`).

Bounds. Three replicas are the least with a pod that stays, one that goes and one
that is out of order. Two edits are a stop and a start, or a change and another
one on top. Two versions let an upgrade happen and a revert show, three also a
skipped one. The informer lags at most `MaxLag` = 2 versions behind, so a reconcile
can meet a cache that has seen neither of the operator's last two patches. One fault
per behaviour keeps a counterexample about that fault. Two creations of one Backup, or
of one Batch, make a stale instance and a current one. Three edits of a Hot Rod cluster
are an upgrade, a rollback and the upgrade again or a further one; the entry is stored
before or during any of them. Three configurations are two that the server
changes into each other and one that needs a recreation; three changes are a creation,
a change and a second one, from either side. Three operands are the least with a respin
and a new stream. Two sites, since each relation between sites is between two; of the edits of a
site only the one that is taken back leaves sites that can be connected, so two edits are what
`SitesConnect` needs. Two pods, since a recovery is seen in the first and missed in another.
Deadlock is not checked: when the user and the fault budget are done and the cluster
has settled, nothing happens, as it should be; the liveness properties say that it
does not stop earlier.

Fairness. Weak fairness on the reconcile, the informer, the StatefulSet
controller (in `HotRodUpgrade`: a created cluster starts), the Job and Deployment
controllers, the kubelet, the garbage collector, the listener and the servers: the work
queue hands out a queued request, a watch delivers, and Kubernetes's controllers act.
In `ZeroCapacity` a reconcile of one name has strong fairness, because the queue
is first in, first out and the worker is only intermittently free while another
name requeues. In `XSite` the informer's periodic resync is fair: controller-runtime
repeats it every ten hours, and some of `SitesConnect` depends on it. The user and the
faults have none.

### Where the code and its documentation disagree

The violation runs are the `findings` of `PROJECT.json`:

* `upgrade_crash`: a crash between the deletion of the old cluster and the update
  of the status leaves a shutdown upgrade unfinished. `UndisturbedUpgradeCompletes` and
  `Converges` therefore stop at the first fault.
* `evicted_volume`: the claims to delete are computed from the pods that exist, so
  an eviction during a scale-down costs a pod that stays its volume.
* `hot_transfer`: `ClusterService` runs in every reconcile and takes back the
  redirection of the Service, so clients use both clusters until one is removed.

The same models show more, in instances that are not kept as runs, and the properties
name these cases as exceptions.

`ClusterLifecycle`:

* `OperandTruthful` with the fault `"delete"`: `destroyResources` fails, the status
  update at `upgrades.go:345` is made all the same, and the old StatefulSet is
  reported as the new version.
* `Converges` with `Patient = FALSE`: a shutdown taken back after rebalancing
  was disabled and before `GracefulShutdown` is set leaves it disabled, because only
  `ScalingUp` (`upgrades.go:358`) enables it again.
* `Converges` with three edits: a version bump while the cluster is stopped, followed
  at once by the old size, does not converge.
* `RestartSameSize` with `Patient = FALSE`: a `replicas` edit that arrives after
  the servers stopped and before `GracefulShutdown` is set bypasses the check in
  `upgrades.go:309`.
* `SizeRemembered` with two faults, one of them an eviction or a restart, and three edits: a
  reconcile that works from an old copy writes its conditions back, `GracefulShutdown` among
  them, after a later one has resumed the cluster and reset the size it was to restore;
  with `Patient = FALSE` a lag of three is enough.
* `ServiceClosedWhileRebalanceDisabled` after an upgrade: the Service selects the new
  pods before rebalancing is enabled.
* `ServersStopBeforeRemoval` with the fault `"restart"`: the kubelet may restart a
  stopped server before the StatefulSet is scaled down.

`ZeroCapacity`:

* `PhaseTruthful` for a name used twice: the patch of the phase carries neither a
  uid nor a resource version (`backup_controller.go:90`), so the result of a deleted
  Backup is written into the one created in its place.
* `PhaseTruthful` with the fault `"call"`: one failed status call is the final
  phase `Failed` of an operation that goes on to complete.
* `ExecutedOnce` for the later resources of a name, with `MaxCreates = 3` and
  `MaxChanges = 3`: a reconcile of the deleted Backup goes on and writes its phases into
  the one created in its place, whose phase can so go back from `Running`; when that one
  is deleted in turn, a pod created again for it executes the operation a second time.
  `con_backup_restore.adoc:22` calls the operations "one-time" events. The attempt to
  prove the property for every resource of a name led here; with two uses of the name TLC
  finds no such behaviour, and `ExecutedOnce` is about the first.
* `OperationEnds` for a name used twice: a new Backup that adopts the pod of a
  deleted one stays in `Initialized` once that pod is garbage-collected.

`HotRodUpgrade`:

* A rollback that an upgrade overtakes (`crossed`), with `MaxVersion = 2`, `MaxEdits = 2`,
  `MaxLag = 1` and no fault. The user sets the version back at the `Cleanup` stage, which the webhook
  admits at every stage (`infinispan_webhook.go:240-252`), while a pass that has not seen it
  deletes the source (`hotrod_upgrades.go:523`). Its update conflicts, the next pass rolls back
  (`hotrod_upgrades.go:101-107`) and deletes the target too (`hotrod_upgrades.go:549`): every entry is
  lost. `proc_recovering_hot_rod_rolling_upgrades.adoc:5` says: "You can roll back a failed Hot Rod
  rolling upgrade to the previous version if the original cluster is still present", as it was.
  `Available` and `EntriesHeld` without their first disjunct are violated so. The same happens one stage
  earlier when the stale pass hands the resource over to the target. Without the documentation's
  prerequisite, which the webhook does not check, a rollback after the source went does it as well.
* The upgrade asked for again during its rollback resumes a stage whose target the rollback
  has removed, or whose caches are gone.
* A pass from a copy older than the upgrade in progress schedules it again, to another version:
  the operand in the status is then not the version of the target.
* `Available`: at the stages `Start` and `Prepare` `ClusterService` makes the Service select all pods
  of the resource (`services.go:48`) and undoes the redirection to the source
  (`hotrod_upgrades.go:333`), so clients are also led to a target that has no caches yet;
  `proc_upgrading_clusters_hot_rod_rolling.adoc:5` promises an upgrade "without service disruption".
* `Settles`, `TargetForgotten`: a rollback at the `Cleanup` stage deletes the StatefulSet that
  `status.statefulSetName` names (`hotrod_upgrades.go:549`). If the update that follows
  conflicts, since `PodStatus` has just patched the resource, the next reconcile
  stops in `PodStatus`, which cannot load it (`conditions.go:79`), and so does every
  later one.
* `Settles`, `DisconnectForgotten`: the operator dies, or its update conflicts, after
  `DisconnectSource` and before the stage is stored; the upgrade ends only if the server accepts
  `SyncData` for a cache without a source.

`CacheSync` and `SchemaSync`:

* `SettledInSync` with hurried changes: a client that removes a cache and creates it
  again at once loses the resource; a retried reconcile creates a cache again that a
  client has just removed; two recreations in a row use the one `controllerDelete`
  annotation and cost the resource.
* `SettledInSync` with `unseen = "lost"`: the stream is opened again without a sweep
  (`listener.go:150`), so the resource of a cache removed meanwhile stays; and when a client
  removed a schema while the listener was off, the sweep of the next listener may read the names
  before the controller puts the schema again and mark the resource after it: the schema
  stays without a resource. In `CacheSync` also the removal that a recreation has announced,
  lost with a listener that dies: `controllerDelete` stays, and the next removal by a client is
  taken for the controller's.
* `SettledInSync` of `CacheSync` with two faults: the stream breaks during a recreation, the
  listener patches the old configuration back, and an operator that dies then forgets that it
  was to write its own. Or a recreation is announced after an `UpdateConfig` that failed, and
  the operator dies before the removal: the next attempt updates the cache in place,
  `controllerDelete` stays, and the next removal by a client is taken for the controller's.
  The property and its run are about one fault.
* `RecreateKeepsResource` with a spec that gives both `template` and `templateName`, which no
  webhook refuses: the cache is created from the named template (`cache_controller.go:415`), so
  it differs from `template` and is recreated at once. With a failed call and two crashes
  in between, two removals share one `controllerDelete`, and the second costs the resource.
* Two resources for one cache or schema: the webhook's list may miss a resource that was just
  created (`cache_webhook.go:84-85`, `schema_webhook.go:75`), so that two creations pass; and with
  `SpecNamed = FALSE` it compares `spec.name` as written while the controller falls back to
  `metadata.name`, so that both pass even one long after the other. `cache_controller.go:640` says
  that it "should never happen". `SettledInSync` claims nothing for a hurried change, without
  which it takes `SpecNamed = FALSE`.
* `SettledInSync` with `KebabName = FALSE`: the sweep compares the names of caches in
  kebab case (`cache_controller.go:449`, `462`) and marks the resource of a cache that has
  upper-case letters.
* The strategy `recreate` answers any failure of `UpdateConfig` by removing the cache
  (`cache_controller.go:386`): `DataKept` allows it.
* A reference that is made between the listing of the caches and the removal of the
  schema (`schema_controller.go:225`) does not protect it: `ReferencedKept` is about
  references older than the deletion.
* `Recovers` with two failed status checks in a row: the second leaves the condition as
  it is, so nothing wakes the controller (`schema_controller.go:261`).

`BatchJob`: a batch created before the cache knows that the last one is gone gets the
phase of the other (`hurry`); a `Running` batch whose Job is removed waits for ever; a
crash between the creation of the Job and `Running`, with the cluster replaced
meanwhile, reports `Failed` although the Job ran.

`Rollout`:

* `PodsFollow`, `hurried`: an edit is taken back while its files are stored and the template is not
  changed yet, because the pass that stored them failed; the template then matches, and a pod
  that started in between keeps files that nobody asks for.
* `PodsFollow`, `UpgradeAbandoned`: the type is changed during a shutdown upgrade. The pipeline
  no longer has the handler that ends it (`pipeline.go:202`, `types_util.go:958-960`), the Upgrade
  condition still keeps the StatefulSet from being provisioned (`pipeline.go:183`), and
  `AwaitUpgrade` asks for another pass for ever (`upgrades.go:410-415`): the cluster stays at zero.
* `RestartOnlyForChange`, `ReplacesImage`: a cluster of type `InPlaceRolling` with `spec.image` is created
  with that image (`types_util.go:211`); the next comparison replaces it by the operand's
  (`statefulset_updates.go:95-103`), and the pods roll with nothing changed. `status.operand` goes on
  to show the custom image. `Converged` compares the image for this type without `spec.image` only:
  with type `Shutdown` an image set between the first pass and the creation and removed later
  stays, since `UpgradeRequired` looks at `status.operand` only.
* A `serviceAccountName` that is removed stays in the template, as
  `statefulset_updates.go:143-149` says itself. The removal of a cpu limit, a renamed claim, a
  renamed keystore Secret and the disabling of authentication or encryption are not carried to
  an existing template either: `Converged` says which parts it is about. One probe is updated per
  pass.
* Generated credentials that the cache has not seen yet are generated again
  (`authentication.go:17`).

`XSite`: a Route stays when the exposure is changed and leads nowhere without
encryption; a router that is disabled later keeps its Deployment; the peer of a site
without a router fails its lookup for as long (`Connectable` excludes the three). The
log line of a recovery goes with its pod, and with it the push. Only the log of the first
pod is read (`conditions.go:195-201`), where the comment (`conditions.go:193`) says that "we must
perform state-transfer to all sites if a SFS recovery has occurred": a recovery of another
pod is never pushed, and `EveryRecoveryPushed`, that comment, is violated by the instance of the run.

## Proofs

`ClusterLifecycleProofs` proves, for every number of replicas, versions, edits,
faults and every bound on the lag (`BoundsAssumption`, `FaultsAssumption`):

* `TypeCorrect`: `Spec => []TypeOK`. One lemma per action on top of lemmas about
  the helpers (what a merge patch, an update or the end of a reconcile keeps). The
  work is in the sizes: `status.replicas` may be nil, and `aliased` records that
  in the Go code it may point at `spec.replicas`; the conjunct that ties the two
  is needed for induction.
* `Advance`: `Spec => []VersionsAdvance`, the inductive invariant about versions.
  The versions of the resource in the API server, the watch and the cache are
  ordered (`DeliveryOrdered`), the copy a reconcile patches with is one that passed
  the conflict check, and hence reports an operand no older than any reported
  before (`SecondPatchCurrent`), and neither the StatefulSet nor the volumes are
  ahead of what the cache reports. It is needed because a merge patch without a
  resource version could bring back an old `status.operand`; that it never does
  depends on which handlers write it and on the order of the informer's events.
* `OperandKept` and `DataKept`: the action properties `OperandNeverReverts` and
  `DataNeverDowngraded`, from that invariant and one lemma per action.

`ZeroCapacityProofs`, for any Backups, Restores and number of creations, cluster changes
and faults (`NamesAssumption`, `LimitsAssumption`), with `IInv`, a conjunction per name:

* `StartsOnce`: `Spec => []ExecutedOnce`. A pod can be created only from a copy in phase
  `Initializing`, and a new pod has no operation, so the second execution needs an early
  copy after the first. `LastOK` and `OrderOK` say that the versions on their way to the
  cache are in the order they were written, and that the stored phase is at most one write
  ahead of the copy and the cache; `OnceOK`, that once the operation was accepted no early
  version is left in copy, cache or watch, and that the pod that accepted it knows it.
* `Truthful`: `Spec => []PhaseTruthful`. `CopyOK` ties the step of a reconcile to the phase it
  began from, `OwnOK` says that the pod of the first resource is its own and that its
  operation is the one counted in `done`, and `GoodOK`, that until the operation fails, and
  but for crashes, nobody writes `Failed`.

`BatchJobProofs`, for any number of batches, clusters, changes and crashes
(`BoundsAssumption`, `SpecsAssumption`):

* `StartsOnce`: `Spec => []ExecutedOnce`. `StartedOnce` is the argument: the Job of a batch that
  was started stays as long as the batch, and its name keeps a second one from being
  created, whatever the cache says.
* `Truthful` and `Advances`: `OutcomeTruthful` and `PhaseAdvances`. `Unhurried` relates the stored
  batch, the cached one, the Job in both and the running reconcile: the cached copy is at
  most one phase behind (`Ahead`), and what the controller would write from it again is what is
  stored. It is claimed only while no batch was replaced before the cache knew, since
  patches go by name.

`CacheSyncProofs`, for any configurations, user specs and generated names
(`ConfigAssumption`, `SpecsAssumption`, `NamesAssumption`: the API server finds another name
to generate):

* `TypeCorrect`: `Spec => []TypeOK`.
* `DataNotTaken`: `Spec => DataKept`. `CtlOK` keeps along the steps of a reconcile what an
  earlier step has tested: one that erases the cache has the strategy `recreate` in its copy.
* `RecreationKept`: `SpecNamed /\ OneTemplate /\ "stream" \notin Faults =>
  (Spec => RecreateKeepsResource)`, for any number of changes, crashes of either process and
  failed calls. `OneTemplate`: no spec of a user gives both `template` and `templateName`
  (above). The invariant `Unhurried` is claimed while nobody hurries the two processes: then
  they take turns. While the listener has something of a client's to carry over, the
  controller only removes what is marked (`ListenerFirst`); the removal for a deleted
  resource is the last thing that happens to it (`DeletedLast`); the copy of the spec
  that the controller works with is the resource's (`CopyFresh`); the controller's own events
  agree with the resource, so that the listener writes nothing for them (`Agreed`); and while a
  recreation's removal is on its way, `controllerDelete` is set, no second one is, and no
  step that leads to a second one is in progress (`Announced`). `EventsOK` relates the stream
  to the listener's step at all times. That there is one resource (`OneCR`) is part of it, and
  only of it: `Lone` says that nothing was created since the listener decided to create one, so that
  the webhook's list, late as it may be, is right.

`SchemaSyncProofs`, for any texts and generated names and any number of changes and of
faults of any kind (`ProtoAssumption`, `NamesAssumption`):

* `TypeCorrect`: `Spec => []TypeOK`.
* `Guarded`: `Spec => ReferencedKept`. `GuardOK` says that the resource of a reconcile that removes
  a schema stays, under deletion, until that reconcile is done, so that nobody asks for its deletion
  anew, and that no reference older than the deletion is left once the references have been
  looked up.
* `InSyncWhenSettled`: `Spec => []SettledInSync`. The invariant `InTouch` is claimed only while
  nobody hurries the two processes (`Calm`), which once over is over for good. `ServerSide`:
  the last event of the stream says what the server has and nothing follows a removal
  (`LinkOK`), and what the listener has read of a resource is still so when it writes
  (`WorkOK`). `ControllerSide`: the same of the controller (`StepOK`); nothing puts a schema back
  whose removal is still to be handled (`WithdrawnOK`), or which the sweep is about to
  take for missing (`AbsentOK`); what differs with no event left is on its way to the server
  (`CarriedOK`), and so is what the resource says of it (`ToldOK`). For the creations of the
  listener, `Lone` as in `CacheSync`, and `GoneOK`: a schema without a resource has none that went
  a moment ago, which the webhook's list could still show.

`HotRodUpgradeProofs`, for any versions, edits at any stage, writes, faults and bounds on the
lag (`LimitsAssumption`, `KindsAssumption`):

* `NoDowntime`: `Spec => []Available`.
* `NothingLost`: `Spec => [](crossed \/ EntriesHeld)`.
* `Implementation`: `Spec => ImplementsLiveUpgrade`, the whole refinement:
  `LiveUpgrade` promises no liveness.

All three rest on `UntilCrossed`, `Spec => [](crossed \/ IInv)`: of a behaviour in which a rollback
and an upgrade have crossed they say nothing from there on, since the code keeps no promise
there (above). A rollback that they do not exclude may begin at any stage, `Replace` and `Cleanup`
included: it has to be seen by the pass that would go on. The invariant is about the versions
of one resource: in the API server, in the watch, in the cache and in the hands of the
reconcile. Each makes sense by itself (`Good`), a later one is at most the next stage of an
earlier one (`Follows`), and in what the cache has yet to see an
upgrade begins or ends at most once (`Once`): without it the end of a rollback and the
beginning of the next upgrade look like one step, and the order alone is not inductive. What
the reconcile is about to do follows from its copy (`Copy`, `Path`), the cluster of the
resource has the entries (`Home`), and the target has them as long as some version lets the
operator go forward (`TargetReady`). For the refinement, `Moves` says of every step that it
leaves the status alone or is one of the five writes of the operator.

`XSiteProofs`, for any sites, platforms, specs, edits, moves and faults
(`SitesAssumption`, `SpecsAssumption`), with `IInv`, the shape of the state and `SiteOK` of
every site:

* `RouterConditionTruthful`: `Spec => []RouterTruthful`. `Recorded` says that after the router
  handler a site that is not queued has the Deployment its resource asks for and the
  condition its pod deserves; `Current`, that a site whose resource is not the one a pass
  works from is queued. Together they say that no edit or crash is missed.
* `ConnectionsKept`: `Spec => SitesKept`. `Addressed` says that the configuration of a pass has
  an address for every site that the pass's copy of the resource gives a URL for, which a
  lookup that fails must not undo.

`RolloutProofs`, for any pods, overlays, operands with their streams and respins, initial
specs, edits (taken back or not) and faults (`VersionsAssumption`, `SpecsAssumption`):

* `UpdatesConverge`: `Spec => []Converged`. The comparison and the creation are two pieces of
  code, so the argument has two halves. `FixedIsCreated`: a StatefulSet in which the
  comparison finds nothing to change is, in the parts it covers, what a creation would
  give; for the environment this needs `EnvNoted`, that the annotation tells the
  environment the template has. `PassOK`: a pass with nothing queued behind it works from the
  present resource, overlay, keystore and stored credentials.
* `NoNeedlessRestart`: `Spec => RestartOnlyForChange`. `MadeIsFixed`: what was created from the
  present inputs is left alone by the comparison, unless the comparison replaces a custom image
  (`ReplacesImage`); `CurrentOK` keeps it along the passes that follow.

Every inductive invariant was checked by TLC before it was proved (that of `ZeroCapacity`
with three creations of one name, three cluster changes and two faults; that of `Rollout`
with three edits or two faults and edits taken back; `crossed \/ IInv` of `HotRodUpgrade` at the
bounds of its run; `InTouch` of `SchemaSync` with four changes and one fault, its conjunct
`GoneOK` at the bounds of the run, and for one step from every state of a small instance that has it;
`Unhurried` of `CacheSync` with four changes and three faults).

Model-checked only: everything under fairness, which is out of the prover's reach (so is
ENABLED); `OperandTruthful`, `SizeRemembered`, `ServiceClosedWhileRebalanceDisabled`,
`RestartSameSize`, `ServersStopBeforeRemoval` and `VolumesKept` of `ClusterLifecycle`, each of
which needs a patient user, or the absence of some fault, and an invariant about the sizes in
all versions of the resource; `SettledInSync` of `CacheSync`, whose recreation spreads one
change over both directions and which holds for one fault only (above); and
`RecreateKeepsResource` where the stream may break.

## Not modelled

* The Grafana dashboard and the operator's own configuration: one object, created,
  updated or deleted in one call.
* ServiceMonitor, the external Service with its Route or Ingress, loggers, the console
  URL: handlers with one call each, which nothing else reads. The pause annotation of
  Infinispan, Backup and Restore resources: the step is that of the other controllers.
* The REST and curl client: text and I/O; a call is an action, and so is its failure.
* The text of configurations, stacks and identities, and the list of operands: only
  what they depend on is in `Rollout` and `XSite`.
* The webhooks' checks of one object (sizes, formats, immutable fields) that no state
  of a controller depends on; deep copies, mocks and types, which are generated or
  declarations.
* Single pods of a Hot Rod upgrade: the address of a source pod in the remote stores
  (`hotrod_upgrades.go:439`) may go stale.
* The informer of the Cache and the Schema controller is taken to be up to date.

## Plan

1. Proofs: `OperandTruthful`, `SizeRemembered` and `ServersStopBeforeRemoval` of
   `ClusterLifecycle`, for a patient user; `SettledInSync` of `CacheSync`, for one fault.
2. Composition of `ZeroCapacity` with `ClusterLifecycle` (the pod counts in the
   cluster's size, and the cluster's stability gates the operation), and of `CacheSync`
   with `SchemaSync`.
3. Informer lag in `CacheSync` and `SchemaSync`; pods in `HotRodUpgrade`.
