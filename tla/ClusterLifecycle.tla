-------------------------- MODULE ClusterLifecycle --------------------------
(***************************************************************************)
(* The life of one Infinispan cluster under spec.upgrades.type = Shutdown: *)
(* provisioning, scaling, graceful shutdown and restart, and the shutdown  *)
(* upgrade to a new server version.                                        *)
(*                                                                         *)
(* One reconcile of the Infinispan controller is one pass of `pc' through  *)
(* the handlers of the pipeline, one action per handler (a handler that    *)
(* makes several API calls has one action per call, because another actor  *)
(* may move, or the operator may crash, between two calls).  The other     *)
(* actors are the user, who edits the custom resource, the informer that   *)
(* delivers its versions to the operator, the StatefulSet controller, the  *)
(* kubelet, and the faults of the constant Faults.                         *)
(***************************************************************************)
EXTENDS Integers, FiniteSets, Sequences

CONSTANTS
    MaxReplicas,      \* the largest spec.replicas a user asks for
    InitialReplicas,  \* spec.replicas of the new custom resource
    MaxVersion,       \* operand versions are 1..MaxVersion, in release order
    MaxEdits,         \* bound on the number of user edits
    MaxFaults,        \* bound on the number of faults
    MaxLag,           \* bound on the versions the informer has yet to deliver
    Patient,          \* TRUE: the user edits only a settled cluster
    Faults            \* the faults that may occur, a subset of FaultKinds

(***************************************************************************)
(* "crash"    the operator process dies and a new one starts;              *)
(* "delete"   the API server fails the deletion of the StatefulSet;        *)
(* "server"   a REST call to a server fails;                               *)
(* "restart"  the kubelet restarts a container whose liveness probe fails  *)
(*            because its cache container is shut down;                    *)
(* "evict"    a pod is evicted from its node.                              *)
(***************************************************************************)
FaultKinds == {"crash", "delete", "server", "restart", "evict"}

ASSUME BoundsAssumption ==
    /\ MaxReplicas \in Nat \ {0}
    /\ InitialReplicas \in 0..MaxReplicas
    /\ MaxVersion \in Nat \ {0}
    /\ MaxEdits \in Nat
    /\ MaxFaults \in Nat
    /\ MaxLag \in Nat \ {0}

ASSUME FaultsAssumption == Patient \in BOOLEAN /\ Faults \subseteq FaultKinds

VARIABLES
    cr,        \* the Infinispan custom resource in the API server
    watch,     \* versions of it the informer has yet to deliver, oldest first
    cache,     \* the version in the informer's cache, which the operator reads
    queued,    \* whether a reconcile request is in the work queue
    pc,        \* the next handler of the running reconcile, or "idle"
    rc,        \* the reconcile's copy of the custom resource
    aliased,   \* whether in that copy status.replicas points at spec.replicas
    rs,        \* the reconcile's copy of the StatefulSet
    rp,        \* the reconcile's list of pods
    sts,       \* the StatefulSet
    pod,       \* per index, the state of its server
    pvc,       \* the indexes whose data volume claim exists
    rebalance, \* whether rebalancing is enabled in the cluster
    service,   \* which pods the cluster Service selects
    listener,  \* the ConfigListener Deployment
    stopped,   \* (history) size of the cluster that was last scaled to zero
    opened,    \* (history) version of the server that last opened the volumes
    edits,     \* user edits so far
    faults     \* faults so far

reconcileVars == <<pc, rc, aliased, rs, rp>>
crVars        == <<cr, watch>>
clusterVars   == <<sts, pod, pvc, rebalance, stopped, opened>>
exposedVars   == <<service, listener>>
budgetVars    == <<edits, faults>>

vars == <<crVars, cache, queued, reconcileVars, clusterVars, exposedVars,
          budgetVars>>

-----------------------------------------------------------------------------
(***************************************************************************)
(* Data.                                                                   *)
(***************************************************************************)

Index     == 0..(MaxReplicas - 1)
Replicas  == 0..MaxReplicas
Version   == 1..MaxVersion
NoVersion == 0
None      == -1            \* a nil *int32

\* Absence of a condition means False, so the conditions are a record.
Conditions ==
    [prelim : BOOLEAN, upgrade : BOOLEAN, stopping : BOOLEAN,
     graceful : BOOLEAN, scalingUp : BOOLEAN, scalingDown : BOOLEAN,
     wellFormed : {"True", "False", "Unknown"}]

SpecFields == [replicas : Replicas, version : Version]

Status ==
    [replicas : Replicas \cup {None}, wanted : Replicas,
     operand : Version \cup {NoVersion}, phase : {"", "Pending", "Running"},
     ready : SUBSET Index, conds : Conditions]

CustomResource == [spec : SpecFields, status : Status]

NoConditions ==
    [prelim |-> FALSE, upgrade |-> FALSE, stopping |-> FALSE,
     graceful |-> FALSE, scalingUp |-> FALSE, scalingDown |-> FALSE,
     wellFormed |-> "False"]

\* A custom resource as the API server first stores it: no status yet.
NewCR ==
    [spec   |-> [replicas |-> InitialReplicas, version |-> 1],
     status |-> [replicas |-> None, wanted |-> 0, operand |-> NoVersion,
                 phase |-> "", ready |-> {}, conds |-> NoConditions]]

StatefulSets == [exists : BOOLEAN, replicas : Replicas,
                 version : Version \cup {NoVersion}]
NoSts        == [exists |-> FALSE, replicas |-> 0, version |-> NoVersion]

ServerStates == {"none", "starting", "running", "stopped"}

Pods    == {i \in Index : pod[i] # "none"}
Running == {i \in Index : pod[i] = "running"}

\* The StatefulSet and its status as the API server shows them: a pod is
\* ready when its server answers the readiness probe.
StsView  == [sts |-> sts, current |-> Cardinality(Pods),
             ready |-> Cardinality(Running)]
StsViews == [sts : StatefulSets, current : Replicas, ready : Replicas]
NoView   == [sts |-> NoSts, current |-> 0, ready |-> 0]

PodLists == [all : SUBSET Index, ready : SUBSET Index]
NoPods   == [all |-> {}, ready |-> {}]

\* The handlers of the pipeline in their order, with the later API calls of
\* the handlers that make more than one.
Handlers ==
    {"idle", "PreliminaryChecks", "ClusterService",
     "PreliminaryCondition", "ScheduleGracefulShutdownUpgrade", "ScheduleStatus",
     "ClusterStatefulSet", "ClusterStatefulSetStatus", "PodStatus",
     "GracefulShutdownUpgrade", "UpgradeSpec", "UpgradeStatus",
     "GracefulShutdown", "StopServers", "ScaleToZero", "AwaitUpgrade",
     "ClusterScaling", "StatefulSetRollingUpgrade", "AwaitPodIps",
     "EnableRebalanceAfterScaleUp", "AwaitWellFormedCondition",
     "ConfigListener"}

TypeOK ==
    /\ cr \in CustomResource
    /\ watch \in Seq(CustomResource)
    /\ cache \in CustomResource
    /\ queued \in BOOLEAN
    /\ pc \in Handlers
    /\ rc \in CustomResource
    /\ aliased \in BOOLEAN /\ (aliased => rc.status.replicas # None)
    /\ rs \in StsViews
    /\ rp \in PodLists
    /\ sts \in StatefulSets
    /\ pod \in [Index -> ServerStates]
    /\ pvc \in SUBSET Index
    /\ rebalance \in BOOLEAN
    /\ service \in {"absent", "pods", "nothing"}
    /\ listener \in {"absent", "off", "on"}
    /\ stopped \in Replicas
    /\ opened \in Version \cup {NoVersion}
    /\ edits \in 0..MaxEdits
    /\ faults \in 0..MaxFaults

Init ==
    /\ cr = NewCR /\ cache = NewCR /\ watch = <<>>
    /\ queued = TRUE
    /\ pc = "idle" /\ rc = NewCR /\ aliased = FALSE
    /\ rs = NoView /\ rp = NoPods
    /\ sts = NoSts
    /\ pod = [i \in Index |-> "none"]
    /\ pvc = {}
    /\ rebalance = TRUE
    /\ service = "absent" /\ listener = "absent"
    /\ stopped = 0 /\ opened = NoVersion
    /\ edits = 0 /\ faults = 0

-----------------------------------------------------------------------------
(***************************************************************************)
(* Writing the custom resource.                                            *)
(***************************************************************************)

\* A new version reaches the informer later; writing what is already stored
\* makes no version.
Write(new) ==
    /\ Len(watch) < MaxLag
    /\ cr' = new
    /\ watch' = IF new = cr THEN watch ELSE Append(watch, new)

\* A JSON merge patch carries the fields that differ between `before' and
\* `after' and leaves the others as they are in the API server.  The
\* conditions are a list, which a merge patch replaces as a whole.
Patched(live, before, after) == IF after = before THEN live ELSE after

PatchStatus(live, before, after) ==
    [replicas |-> Patched(live.replicas, before.replicas, after.replicas),
     wanted   |-> Patched(live.wanted, before.wanted, after.wanted),
     operand  |-> Patched(live.operand, before.operand, after.operand),
     phase    |-> Patched(live.phase, before.phase, after.phase),
     ready    |-> Patched(live.ready, before.ready, after.ready),
     conds    |-> Patched(live.conds, before.conds, after.conds)]

PatchSpec(live, before, after) ==
    [replicas |-> Patched(live.replicas, before.replicas, after.replicas),
     version  |-> live.version]

\* The reconcile ends; with retry, or if an event arrived meanwhile, another
\* one follows.
End(retry) ==
    /\ pc' = "idle" /\ rc' = NewCR /\ aliased' = FALSE
    /\ rs' = NoView /\ rp' = NoPods
    /\ queued' = (queued \/ retry)

Proceed(handler) == pc' = handler /\ UNCHANGED <<rs, rp, queued>>

Skip(handler) == Proceed(handler) /\ UNCHANGED <<rc, aliased, crVars>>

Requeue == End(TRUE) /\ UNCHANGED crVars

\* UpdateInfinispan reads the resource again, from the informer's cache, and
\* gives up when that is not the version the reconcile works on.  The patch
\* itself carries no resource version: it overwrites what the cache lags
\* behind on.
Conflict == cache # rc /\ Requeue

Merged(after) ==
    IF after = rc
    THEN rc
    ELSE [spec   |-> PatchSpec(cr.spec, rc.spec, after.spec),
          status |-> PatchStatus(cr.status, rc.status, after.status)]

Patch(after) == IF after = rc THEN UNCHANGED crVars ELSE Write(Merged(after))

\* The patch response replaces the reconcile's copy.
UpdateInfinispan(after) ==
    /\ cache = rc
    /\ Patch(after)
    /\ rc' = Merged(after)
    /\ aliased' = FALSE

UpdateThen(after, handler) ==
    \/ Conflict
    \/ UpdateInfinispan(after) /\ Proceed(handler)

UpdateAndRequeue(after) ==
    \/ Conflict
    \/ cache = rc /\ Patch(after) /\ End(TRUE)

\* When both spec and status change, CreateOrPatch sends two patches.
UpdateSpecThenStatus(after, statusHandler) ==
    \/ Conflict
    \/ /\ after.spec = rc.spec
       /\ cache = rc /\ Patch(after) /\ End(TRUE)
    \/ /\ after.spec # rc.spec
       /\ cache = rc
       /\ Patch([rc EXCEPT !.spec = after.spec])
       /\ rc' = [cr' EXCEPT !.status =
                     PatchStatus(cr.status, rc.status, after.status)]
       /\ aliased' = FALSE
       /\ Proceed(statusHandler)

\* The second patch does carry a resource version, the one the first patch
\* returned, so an edit between the two makes it fail.
UpdateStatusAfterSpec ==
    /\ End(TRUE)
    /\ \/ cr.spec = rc.spec /\ Write([cr EXCEPT !.status = rc.status])
       \/ cr.spec # rc.spec /\ UNCHANGED crVars

-----------------------------------------------------------------------------
(***************************************************************************)
(* The handlers.                                                           *)
(***************************************************************************)

\* Reconcile: fetch the resource from the informer's cache, build the
\* pipeline and start it.
Reconcile ==
    /\ pc = "idle" /\ queued
    /\ queued' = FALSE
    /\ rc' = cache /\ aliased' = FALSE
    /\ pc' = "PreliminaryChecks"
    /\ UNCHANGED <<crVars, rs, rp, clusterVars, exposedVars>>

\* A conflict does not end this handler: it goes on with the version that
\* UpdateInfinispan read.
PreliminaryChecks ==
    /\ pc = "PreliminaryChecks"
    /\ IF rc.status.replicas = None
       THEN /\ \/ UpdateInfinispan(
                      [rc EXCEPT !.status.replicas = rc.spec.replicas])
               \/ /\ cache # rc
                  /\ rc' = cache /\ aliased' = FALSE
                  /\ UNCHANGED crVars
            /\ Proceed("PreliminaryCondition")
       ELSE IF rc.status.conds.prelim
            THEN Skip("ClusterService")
            ELSE Skip("PreliminaryCondition")
    /\ UNCHANGED <<clusterVars, exposedVars>>

\* The second half of PreliminaryChecks: the pipeline stops after it.
PreliminaryCondition ==
    /\ pc = "PreliminaryCondition"
    /\ IF rc.status.conds.prelim
       THEN Requeue
       ELSE UpdateAndRequeue([rc EXCEPT !.status.conds.prelim = TRUE,
                                        !.status.operand = rc.spec.version,
                                        !.status.phase = "Pending"])
    /\ UNCHANGED <<clusterVars, exposedVars>>

\* While ScalingUp is set the Service must match no pod.
ClusterService ==
    /\ pc = "ClusterService"
    /\ service' = IF rc.status.conds.scalingUp THEN "nothing" ELSE "pods"
    /\ Skip("ScheduleGracefulShutdownUpgrade")
    /\ UNCHANGED <<clusterVars, listener>>

UpgradeRequired(i) ==
    \/ i.status.operand = NoVersion
    \/ i.status.phase # "Pending" /\ i.status.operand # i.spec.version

\* The provision handlers are part of the pipeline only while no upgrade is
\* in progress.
ScheduleGracefulShutdownUpgrade ==
    /\ pc = "ScheduleGracefulShutdownUpgrade"
    /\ \/ rc.status.conds.upgrade /\ Skip("PodStatus")
       \/ /\ ~rc.status.conds.upgrade /\ ~UpgradeRequired(rc)
          /\ Skip("ClusterStatefulSet")
       \/ /\ ~rc.status.conds.upgrade /\ UpgradeRequired(rc)
          /\ UpdateSpecThenStatus(
                [rc EXCEPT !.spec.replicas = 0,
                           !.status.conds.upgrade = TRUE,
                           !.status.operand = rc.spec.version,
                           !.status.phase = "Pending"],
                "ScheduleStatus")
    /\ UNCHANGED <<clusterVars, exposedVars>>

ScheduleStatus ==
    /\ pc = "ScheduleStatus"
    /\ UpdateStatusAfterSpec
    /\ UNCHANGED <<clusterVars, exposedVars>>

\* The StatefulSet is created with the image of status.operand.
ClusterStatefulSet ==
    /\ pc = "ClusterStatefulSet"
    /\ UNCHANGED <<rc, aliased, crVars, rp, queued, pod, pvc, rebalance,
                   opened, exposedVars>>
    /\ \/ /\ sts.exists
          /\ rs' = StsView
          /\ pc' = "PodStatus"
          /\ UNCHANGED <<sts, stopped>>
       \/ /\ ~sts.exists
          /\ sts' = [exists |-> TRUE, replicas |-> rc.spec.replicas,
                     version |-> rc.status.operand]
          /\ stopped' = IF rc.spec.replicas = 0 THEN stopped ELSE 0
          /\ pc' = "ClusterStatefulSetStatus"
          /\ UNCHANGED rs

ClusterStatefulSetStatus ==
    /\ pc = "ClusterStatefulSetStatus"
    /\ UpdateThen([rc EXCEPT !.status.replicas = rc.spec.replicas], "PodStatus")
    /\ UNCHANGED <<clusterVars, exposedVars>>

\* Without a StatefulSet the pipeline stops here and is tried again.  A
\* StatefulSet loaded earlier in the reconcile is not loaded again.
PodStatus ==
    /\ pc = "PodStatus"
    /\ IF ~rs.sts.exists /\ ~sts.exists
       THEN Requeue
       ELSE \/ Conflict
            \/ /\ UpdateInfinispan([rc EXCEPT !.status.ready = Running])
               /\ rs' = IF rs.sts.exists THEN rs ELSE StsView
               /\ rp' = [all |-> Pods, ready |-> Running]
               /\ pc' = "GracefulShutdownUpgrade"
               /\ UNCHANGED queued
    /\ UNCHANGED <<clusterVars, exposedVars>>

\* (mutant) The StatefulSet is missing from the resources to delete.
DestroyServicesOnly ==
    /\ service' = "absent" /\ listener' = "absent"
    /\ UNCHANGED clusterVars

\* The StatefulSet goes, and with it any pod, the services and the
\* ConfigListener.  The volume claims are kept.
destroyResources ==
    /\ sts' = NoSts
    /\ pod' = [i \in Index |-> "none"]
    /\ service' = "absent" /\ listener' = "absent"
    /\ UNCHANGED <<pvc, rebalance, stopped, opened>>

\* If the deletion of the StatefulSet fails, nothing after it is deleted and
\* the handler still goes on.
GracefulShutdownUpgrade ==
    /\ pc = "GracefulShutdownUpgrade"
    /\ LET ready == /\ rc.status.conds.upgrade
                    /\ ~rc.status.conds.stopping
                    /\ rc.status.wanted > 0
       IN  \/ /\ ~ready
              /\ Skip("GracefulShutdown")
              /\ UNCHANGED <<clusterVars, exposedVars, faults>>
           \/ /\ ready
              /\ Skip("UpgradeSpec")
              /\ destroyResources
              /\ UNCHANGED faults
           \/ /\ ready
              /\ "delete" \in Faults /\ faults < MaxFaults
              /\ faults' = faults + 1
              /\ Skip("UpgradeSpec")
              /\ UNCHANGED <<clusterVars, exposedVars>>

UpgradeSpec ==
    /\ pc = "UpgradeSpec"
    /\ UpdateSpecThenStatus([rc EXCEPT !.spec.replicas = rc.status.wanted,
                                       !.status.conds.upgrade = FALSE],
                            "UpgradeStatus")
    /\ UNCHANGED <<clusterVars, exposedVars>>

UpgradeStatus ==
    /\ pc = "UpgradeStatus"
    /\ UpdateStatusAfterSpec
    /\ UNCHANGED <<clusterVars, exposedVars>>

(***************************************************************************)
(* GracefulShutdown has five cases, on spec.replicas, on the replicas of   *)
(* the StatefulSet and on the conditions.                                  *)
(***************************************************************************)
StopRequested == rc.spec.replicas = 0 /\ rs.sts.replicas # 0

\* Every listed server must answer, and until one is found that is already
\* shut down each must see all members.
ReadyToStop ==
    /\ \A i \in rp.all : pod[i] \in {"running", "stopped"}
    /\ \A i \in rp.all :
         (pod[i] = "running" /\ \A j \in rp.all : j < i => pod[j] = "running")
         => Cardinality(Running) = rs.sts.replicas

\* Rebalancing is disabled through the first server that still runs; then
\* the servers checked here are shut down one by one.
CheckServers ==
    /\ StopRequested /\ ~rc.status.conds.stopping
    /\ IF ReadyToStop
       THEN LET running == {i \in rp.all : pod[i] = "running"}
            IN  /\ rebalance' = (rebalance /\ running = {})
                /\ rp' = [rp EXCEPT !.ready = running]
                /\ pc' = "StopServers"
                /\ UNCHANGED <<rc, aliased, crVars, rs, queued>>
       ELSE Requeue /\ UNCHANGED rebalance
    /\ UNCHANGED <<sts, pod, pvc, stopped, opened, exposedVars>>

\* (mutant) Scale to zero without waiting for the servers to stop.
RecordReplicasAtOnce ==
    /\ StopRequested
    /\ UpdateThen([rc EXCEPT !.status.wanted = rs.sts.replicas], "ScaleToZero")
    /\ UNCHANGED <<clusterVars, exposedVars>>

\* (mutant) spec.replicas of the custom resource is recorded.
RecordReplicasOfSpec ==
    /\ StopRequested /\ rc.status.conds.stopping
    /\ UpdateThen([rc EXCEPT !.status.wanted = rc.spec.replicas], "ScaleToZero")
    /\ UNCHANGED <<clusterVars, exposedVars>>

\* (mutant) status.currentReplicas of the StatefulSet is recorded.
RecordCurrentReplicas ==
    /\ StopRequested /\ rc.status.conds.stopping
    /\ UpdateThen([rc EXCEPT !.status.wanted = rs.current], "ScaleToZero")
    /\ UNCHANGED <<clusterVars, exposedVars>>

RecordReplicas ==
    /\ StopRequested /\ rc.status.conds.stopping
    /\ UpdateThen([rc EXCEPT !.status.wanted = rs.sts.replicas], "ScaleToZero")
    /\ UNCHANGED <<clusterVars, exposedVars>>

\* (mutant) Stopping is not cleared.
CompleteStopStillStopping ==
    /\ rc.spec.replicas = 0 /\ rs.sts.replicas = 0
    /\ IF rs.current = 0
       THEN /\ listener' = IF listener = "absent" THEN listener ELSE "off"
            /\ UpdateAndRequeue([rc EXCEPT !.status.conds.graceful = TRUE])
       ELSE Requeue /\ UNCHANGED listener
    /\ UNCHANGED <<clusterVars, service>>

CompleteStop ==
    /\ rc.spec.replicas = 0 /\ rs.sts.replicas = 0
    /\ IF rs.current = 0
       THEN /\ listener' = IF listener = "absent" THEN listener ELSE "off"
            /\ UpdateAndRequeue([rc EXCEPT !.status.conds.graceful = TRUE,
                                           !.status.conds.stopping = FALSE])
       ELSE Requeue /\ UNCHANGED listener
    /\ UNCHANGED <<clusterVars, service>>

\* (mutant) ScalingUp is not announced.
ResumeUnannounced ==
    /\ rc.spec.replicas # 0 /\ rc.status.conds.graceful
    /\ IF rc.status.wanted \notin {0, rc.spec.replicas}
       THEN Requeue
       ELSE UpdateAndRequeue([rc EXCEPT
                !.status.replicas = rc.spec.replicas,
                !.status.wanted = 0,
                !.status.conds.graceful = FALSE])
    /\ UNCHANGED <<clusterVars, exposedVars>>

Resume ==
    /\ rc.spec.replicas # 0 /\ rc.status.conds.graceful
    /\ IF rc.status.wanted \notin {0, rc.spec.replicas}
       THEN Requeue
       ELSE UpdateAndRequeue([rc EXCEPT
                !.status.replicas = rc.spec.replicas,
                !.status.wanted = 0,
                !.status.conds.graceful = FALSE,
                !.status.conds.scalingUp = TRUE])
    /\ UNCHANGED <<clusterVars, exposedVars>>

GracefulShutdown ==
    /\ pc = "GracefulShutdown"
    /\ \/ CheckServers
       \/ RecordReplicas
       \/ CompleteStop
       \/ Resume
       \/ /\ rc.spec.replicas # 0 /\ ~rc.status.conds.graceful
          /\ Skip("AwaitUpgrade")
          /\ UNCHANGED <<clusterVars, exposedVars>>

\* One Shutdown request per checked server, in the order of the pod names;
\* when all are done the Stopping condition is set.
StopServers ==
    /\ pc = "StopServers"
    /\ \/ \E i \in rp.ready :
            /\ \A j \in rp.ready : i <= j
            /\ IF pod[i] = "running"
               THEN /\ pod' = [pod EXCEPT ![i] = "stopped"]
                    /\ rp' = [rp EXCEPT !.ready = @ \ {i}]
                    /\ UNCHANGED <<rc, aliased, crVars, pc, rs, queued>>
               ELSE Requeue /\ UNCHANGED pod
       \/ /\ rp.ready = {}
          /\ UpdateAndRequeue([rc EXCEPT !.status.conds.stopping = TRUE,
                                         !.status.conds.wellFormed = "False"])
          /\ UNCHANGED pod
    /\ UNCHANGED <<sts, pvc, rebalance, stopped, opened, exposedVars>>

\* The Update carries the resource version of the loaded StatefulSet.
ScaleToZero ==
    /\ pc = "ScaleToZero"
    /\ Requeue
    /\ IF rs = StsView
       THEN /\ sts' = [sts EXCEPT !.replicas = 0]
            /\ stopped' = sts.replicas
       ELSE UNCHANGED <<sts, stopped>>
    /\ UNCHANGED <<pod, pvc, rebalance, opened, exposedVars>>

AwaitUpgrade ==
    /\ pc = "AwaitUpgrade"
    /\ IF rc.status.conds.upgrade THEN Requeue ELSE Skip("ClusterScaling")
    /\ UNCHANGED <<clusterVars, exposedVars>>

\* (mutant) One claim too many.
RemovedClaimsFromLast(current) ==
    IF rc.status.replicas > rc.spec.replicas /\ rc.spec.replicas # 0
    THEN (current - 1)..(rc.status.replicas - 1)
    ELSE {}

\* The claims of the indexes from CurrentReplicas up to the old size go.
RemovedClaims(current) ==
    IF rc.status.replicas > rc.spec.replicas /\ rc.spec.replicas # 0
    THEN current..(rc.status.replicas - 1)
    ELSE {}

\* Scaling is first announced by a condition; when the StatefulSet has the
\* requested size and the pods followed, the condition is removed and
\* status.replicas is brought up to date, as a pointer to spec.replicas.
ClusterScaling ==
    /\ pc = "ClusterScaling"
    /\ LET spec  == rc.spec.replicas
           conds == rc.status.conds
           down  == rc.status.replicas > spec
           due   == rc.status.replicas # spec /\ sts.exists /\ sts.replicas = spec
           wait  == \/ conds.scalingUp /\ Cardinality(Running) < spec
                    \/ conds.scalingDown /\ Cardinality(Running) > spec
           announced == IF down THEN conds.scalingDown ELSE conds.scalingUp
           scaled    == [rc EXCEPT !.status.replicas = spec,
                                   !.status.conds.scalingUp = FALSE,
                                   !.status.conds.scalingDown = FALSE]
       IN  \/ /\ ~due
              /\ Skip("StatefulSetRollingUpgrade")
              /\ UNCHANGED pvc
           \/ /\ due /\ wait
              /\ Requeue
              /\ UNCHANGED pvc
           \/ /\ due /\ ~wait /\ ~announced
              /\ UpdateAndRequeue(
                   IF down
                   THEN [rc EXCEPT !.status.conds.scalingDown = TRUE]
                   ELSE [rc EXCEPT !.status.conds.scalingUp = TRUE])
              /\ UNCHANGED pvc
           \/ /\ due /\ ~wait /\ announced
              /\ pvc' = pvc \ RemovedClaims(Cardinality(Pods))
              /\ \/ Conflict
                 \/ /\ cache = rc
                    /\ Patch(scaled)
                    /\ rc' = Merged(scaled)
                    /\ aliased' = TRUE
                    /\ Proceed("StatefulSetRollingUpgrade")
    /\ UNCHANGED <<sts, pod, rebalance, stopped, opened, exposedVars>>

\* The size the reconcile reads from its copy.  Decoding the response of a
\* patch writes first spec.replicas, then status.replicas, to the same place.
SpecReplicas == IF aliased THEN rc.status.replicas ELSE rc.spec.replicas

\* Of the many fields this handler keeps equal to the custom resource, the
\* size is the one the life cycle depends on.
StatefulSetRollingUpgrade ==
    /\ pc = "StatefulSetRollingUpgrade"
    /\ pc' = "AwaitPodIps"
    /\ IF sts.exists /\ sts.replicas # SpecReplicas
       THEN /\ sts' = [sts EXCEPT !.replicas = SpecReplicas]
            /\ stopped' = IF sts.replicas = 0 THEN 0 ELSE stopped
            /\ queued' = TRUE
       ELSE UNCHANGED <<sts, stopped, queued>>
    /\ rs' = IF sts.exists THEN [StsView EXCEPT !.sts = sts'] ELSE rs
    /\ UNCHANGED <<rc, aliased, crVars, rp, pod, pvc, rebalance, opened,
                   exposedVars>>

\* A pod that is not ready may not have its IP yet.
AwaitPodIps ==
    /\ pc = "AwaitPodIps"
    /\ \/ rp.all # {} /\ Skip("EnableRebalanceAfterScaleUp")
       \/ /\ rp.all = {} \/ rp.all # rp.ready
          /\ UpdateAndRequeue([rc EXCEPT !.status.conds.wellFormed = "Unknown"])
    /\ UNCHANGED <<clusterVars, exposedVars>>

\* Rebalancing is enabled again once all servers have formed one cluster.
EnableRebalanceAfterScaleUp ==
    /\ pc = "EnableRebalanceAfterScaleUp"
    /\ LET spec   == SpecReplicas
           formed == /\ rs.current = spec
                     /\ Cardinality(rp.all) = spec
                     /\ \E i \in rp.ready : /\ \A j \in rp.ready : i <= j
                                            /\ pod[i] = "running"
                     /\ Cardinality(Running) = spec
       IN  \/ /\ ~(spec > 0 /\ rc.status.conds.scalingUp)
              /\ Skip("AwaitWellFormedCondition")
              /\ UNCHANGED rebalance
           \/ /\ spec > 0 /\ rc.status.conds.scalingUp /\ ~formed
              /\ Requeue
              /\ UNCHANGED rebalance
           \/ /\ spec > 0 /\ rc.status.conds.scalingUp /\ formed
              /\ rebalance' = TRUE
              /\ UpdateAndRequeue([rc EXCEPT !.status.conds.scalingUp = FALSE])
    /\ UNCHANGED <<sts, pod, pvc, stopped, opened, exposedVars>>

\* (mutant) Without a pod the status of the condition is left empty.
wellFormedConditionUnset ==
    IF Cardinality(rp.all) < SpecReplicas THEN ""
    ELSE IF ~(rp.all \subseteq rp.ready \cap Running) THEN "Unknown"
    ELSE "True"

\* A pod answers when it was ready and its server still runs; the servers
\* that answer share one view.
wellFormedCondition ==
    IF Cardinality(rp.all) < SpecReplicas THEN "Unknown"
    ELSE IF ~(rp.all \subseteq rp.ready \cap Running) THEN "Unknown"
    ELSE IF rp.all = {} THEN "False"
    ELSE "True"

AwaitWellFormedCondition ==
    /\ pc = "AwaitWellFormedCondition"
    /\ LET after == [rc EXCEPT
                       !.status.conds.wellFormed = wellFormedCondition,
                       !.status.phase = IF wellFormedCondition = "True"
                                        THEN "Running" ELSE @]
       IN IF /\ wellFormedCondition = "True"
             /\ Cardinality(rp.all) >= Merged(after).spec.replicas
          THEN UpdateThen(after, "ConfigListener")
          ELSE UpdateAndRequeue(after)
    /\ UNCHANGED <<clusterVars, exposedVars>>

ConfigListener ==
    /\ pc = "ConfigListener"
    /\ listener' = "on"
    /\ End(FALSE)
    /\ UNCHANGED <<crVars, clusterVars, service>>

\* A REST call of a handler that talks to the servers fails.
ServerCallFails ==
    /\ \/ pc = "StopServers" /\ rp.ready # {}
       \/ /\ pc = "EnableRebalanceAfterScaleUp"
          /\ SpecReplicas > 0 /\ rc.status.conds.scalingUp
    /\ "server" \in Faults /\ faults < MaxFaults
    /\ faults' = faults + 1
    /\ Requeue
    /\ UNCHANGED <<clusterVars, exposedVars>>

Operator ==
    /\ \/ /\ \/ Reconcile
             \/ PreliminaryChecks
             \/ PreliminaryCondition
             \/ ClusterService
             \/ ScheduleGracefulShutdownUpgrade
             \/ ScheduleStatus
             \/ ClusterStatefulSet
             \/ ClusterStatefulSetStatus
             \/ PodStatus
             \/ UpgradeSpec
             \/ UpgradeStatus
             \/ GracefulShutdown
             \/ StopServers
             \/ ScaleToZero
             \/ AwaitUpgrade
             \/ ClusterScaling
             \/ StatefulSetRollingUpgrade
             \/ AwaitPodIps
             \/ EnableRebalanceAfterScaleUp
             \/ AwaitWellFormedCondition
             \/ ConfigListener
          /\ UNCHANGED faults
       \/ GracefulShutdownUpgrade
       \/ ServerCallFails
    /\ UNCHANGED <<cache, edits>>

-----------------------------------------------------------------------------
(***************************************************************************)
(* The user.                                                               *)
(***************************************************************************)

\* What a user who follows the documentation waits for before an edit.
Settled ==
    /\ cr.status.conds.prelim /\ ~cr.status.conds.upgrade
    /\ ~cr.status.conds.stopping /\ ~cr.status.conds.graceful
    /\ ~cr.status.conds.scalingUp /\ ~cr.status.conds.scalingDown
    /\ cr.status.conds.wellFormed = "True"
    /\ cr.status.phase = "Running" /\ cr.status.operand = cr.spec.version
    /\ cr.status.replicas = cr.spec.replicas

StoppedByUser ==
    /\ cr.spec.replicas = 0
    /\ cr.status.conds.graceful /\ ~cr.status.conds.upgrade

\* A stopped cluster is restarted with the size it reports.
MayScale(n) ==
    \/ ~Patient
    \/ Settled
    \/ StoppedByUser /\ cr.status.wanted \in {0, n}

Edit(new) ==
    /\ edits < MaxEdits
    /\ edits' = edits + 1
    /\ new # cr
    /\ Write(new)
    /\ UNCHANGED <<cache, queued, reconcileVars, clusterVars, exposedVars,
                   faults>>

UserScales == \E n \in Replicas :
    MayScale(n) /\ Edit([cr EXCEPT !.spec.replicas = n])

\* (mutant) No webhook.
AdmitAnyVersion(v) == v # cr.spec.version

\* The validating webhook refuses a downgrade.
AdmitVersion(v) == v > cr.spec.version

UserUpgrades == \E v \in Version :
    /\ AdmitVersion(v)
    /\ ~Patient \/ Settled \/ StoppedByUser
    /\ Edit([cr EXCEPT !.spec.version = v])

-----------------------------------------------------------------------------
(***************************************************************************)
(* Kubernetes.                                                             *)
(***************************************************************************)

\* An event of the custom resource also queues a reconcile request.
InformerDelivers ==
    /\ watch # <<>>
    /\ cache' = Head(watch)
    /\ watch' = Tail(watch)
    /\ queued' = TRUE
    /\ UNCHANGED <<cr, reconcileVars, clusterVars, exposedVars, budgetVars>>

\* The StatefulSet controller changes its pods, in the order of their index
\* and one at a time (pod management policy OrderedReady); the new status of
\* the StatefulSet queues a reconcile request.
PodChanges(i, state) ==
    /\ pod' = [pod EXCEPT ![i] = state]
    /\ queued' = TRUE
    /\ UNCHANGED <<crVars, cache, reconcileVars, sts, rebalance, stopped,
                   exposedVars, edits>>

PodCreated == \E i \in Index :
    /\ sts.exists /\ i < sts.replicas
    /\ pod[i] = "none"
    /\ \A j \in Index : j < i => pod[j] = "running"
    /\ PodChanges(i, "starting")
    /\ pvc' = pvc \cup {i}
    /\ UNCHANGED <<opened, faults>>

PodDeleted == \E i \in Index :
    /\ sts.exists /\ i >= sts.replicas
    /\ pod[i] # "none"
    /\ \A j \in Index : j > i => pod[j] = "none"
    /\ \A j \in Index : j < sts.replicas => pod[j] = "running"
    /\ PodChanges(i, "none")
    /\ UNCHANGED <<pvc, opened, faults>>

ServerStarted == \E i \in Index :
    /\ pod[i] = "starting"
    /\ PodChanges(i, "running")
    /\ opened' = sts.version
    /\ UNCHANGED <<pvc, faults>>

Kubernetes == InformerDelivers \/ PodCreated \/ PodDeleted \/ ServerStarted

-----------------------------------------------------------------------------
(***************************************************************************)
(* Faults.                                                                 *)
(***************************************************************************)
Fault(kind) ==
    /\ kind \in Faults /\ faults < MaxFaults
    /\ faults' = faults + 1

\* Everything a reconcile knows is lost; the new process lists the resource
\* afresh and starts with a reconcile of it.
OperatorCrashes ==
    /\ Fault("crash")
    /\ pc' = "idle" /\ rc' = NewCR /\ aliased' = FALSE
    /\ rs' = NoView /\ rp' = NoPods
    /\ cache' = cr /\ watch' = <<>>
    /\ queued' = TRUE
    /\ UNCHANGED <<cr, clusterVars, exposedVars, edits>>

\* The liveness probe asks the cache container for its health.
ContainerRestarted == \E i \in Index :
    /\ Fault("restart")
    /\ pod[i] = "stopped"
    /\ PodChanges(i, "starting")
    /\ UNCHANGED <<pvc, opened>>

PodEvicted == \E i \in Index :
    /\ Fault("evict")
    /\ pod[i] # "none"
    /\ PodChanges(i, "none")
    /\ UNCHANGED <<pvc, opened>>

-----------------------------------------------------------------------------
Next ==
    \/ Operator
    \/ UserScales
    \/ UserUpgrades
    \/ Kubernetes
    \/ OperatorCrashes
    \/ ContainerRestarted
    \/ PodEvicted

\* The work queue runs a queued request, the informer delivers every event
\* and the StatefulSet controller and the kubelet act.  Nothing obliges the
\* user, and no fault has to happen.
Fairness ==
    /\ WF_vars(Operator)
    /\ WF_vars(InformerDelivers)
    /\ WF_vars(PodCreated)
    /\ WF_vars(PodDeleted)
    /\ WF_vars(ServerStarted)

Spec == Init /\ [][Next]_vars /\ Fairness

-----------------------------------------------------------------------------
(***************************************************************************)
(* Properties.                                                             *)
(***************************************************************************)

Formed == cr.status.phase = "Running" \/ cr.status.conds.upgrade

\* A server that still runs is never removed to bring the cluster down: the
\* StatefulSet is scaled to zero or deleted only when its servers were shut
\* down before ("GracefulShutdown safely scales down the cluster to 0 pods").
ServersStopBeforeRemoval ==
    [][\A i \in Index :
         Formed /\ pod[i] = "running" /\ pod'[i] = "none"
         => sts'.exists /\ sts'.replicas > 0]_vars

\* A cluster that was stopped comes back with the number of pods it had.
RestartSameSize ==
    [][stopped # 0 /\ sts.replicas = 0 /\ sts'.replicas # 0
       => sts'.replicas = stopped]_vars

\* The operand that status.operand reports as running is the one the
\* StatefulSet runs.
OperandTruthful ==
    cr.status.phase = "Running" /\ sts.exists
    => sts.version = cr.status.operand

\* The data volume of a pod that the StatefulSet is to run is never removed.
VolumesKept ==
    [][\A i \in pvc \ pvc' : i >= sts.replicas]_vars

\* The order in which the API server stored two versions of the resource, as
\* far as the requested and the reported operand show it.
NotNewer(a, b) == /\ a.spec.version <= b.spec.version
                  /\ a.status.operand <= b.status.operand

\* The handlers a reconcile goes through with the copy it read at its start.
UnpatchedHandlers ==
    {"PreliminaryChecks", "ClusterService", "ScheduleGracefulShutdownUpgrade",
     "ClusterStatefulSet"}

\* The informer sees versions in the order of the API server.
DeliveryOrdered ==
    /\ NotNewer(cache, cr)
    /\ \A i \in 1..Len(watch) : NotNewer(cache, watch[i]) /\ NotNewer(watch[i], cr)
    /\ \A i, j \in 1..Len(watch) : i <= j => NotNewer(watch[i], watch[j])

\* The second patch of an upgrade step still has an operand to report that is
\* at least as new as the reported one.
SecondPatchCurrent ==
    pc \in {"ScheduleStatus", "UpgradeStatus"}
    => /\ cr.status.operand <= rc.status.operand
       /\ rc.status.operand <= cache.spec.version

\* What keeps operand and servers from going backwards: a reconcile that passes
\* the conflict check reports an operand as new as any reported before, and a
\* StatefulSet runs an operand that the informer has seen reported.
VersionsAdvance ==
    /\ DeliveryOrdered
    /\ cr.status.operand <= cache.spec.version
    /\ SecondPatchCurrent
    /\ pc \in UnpatchedHandlers => rc.status.operand <= cache.status.operand
    /\ sts.version <= cache.status.operand
    /\ opened <= cache.status.operand
    /\ sts.exists => opened <= sts.version
    /\ pc \in UnpatchedHandlers /\ ~sts.exists => opened <= rc.status.operand
    /\ Pods # {} => sts.exists

\* The operand that the custom resource reports is never replaced by an older
\* one, whatever copies of the resource the reconciles work on: the versions
\* they read only move forward, and the webhook admits no downgrade.
OperandNeverReverts == [][cr'.status.operand >= cr.status.operand]_vars

\* No server is started on volumes that a newer server has opened.
DataNeverDowngraded == [][opened' >= opened]_vars

\* The size of a stopped cluster is not lost: while the custom resource
\* reports GracefulShutdown, status.replicasWantedAtRestart is the size that
\* the StatefulSet had when it was scaled to zero.
SizeRemembered ==
    cr.status.conds.graceful /\ stopped # 0 => cr.status.wanted = stopped

\* A cluster that was stopped is not opened to clients while its servers run
\* with rebalancing still disabled, over all the handlers that close, open and
\* reselect the Service. (A shutdown upgrade leaves the Service of the new
\* cluster open, so this is about clusters that were not upgraded yet.)
ServiceClosedWhileRebalanceDisabled ==
    /\ Running # {} /\ ~rebalance /\ cr.spec.replicas > 0
    /\ opened = 1 /\ faults = 0
    => service # "pods"

\* A scheduled upgrade completes, with crashes of the operator and failed calls.
UpgradeCompletes ==
    cr.status.conds.upgrade
    ~> ~cr.status.conds.upgrade /\ cr.status.phase = "Running"

\* As long as nothing fails, a scheduled upgrade completes: some condition,
\* requeue or watch event leads on from each of its many reconciles.
UndisturbedUpgradeCompletes ==
    cr.status.conds.upgrade
    ~> \/ ~cr.status.conds.upgrade /\ cr.status.phase = "Running"
       \/ faults > 0

\* The state a resource asks for, when the operator has done its work.
Converged ==
    IF cr.spec.replicas = 0
    THEN cr.status.conds.graceful /\ Pods = {}
    ELSE /\ Settled
         /\ Pods = 0..(cr.spec.replicas - 1) /\ Running = Pods
         /\ sts.version = cr.spec.version
         /\ rebalance /\ service = "pods" /\ listener = "on"

\* As long as nothing fails, once the user stops editing, the cluster reaches
\* the requested state and stays there, with rebalancing enabled again and the
\* Service open.
Converges == <>[](Converged \/ faults > 0)
=============================================================================
