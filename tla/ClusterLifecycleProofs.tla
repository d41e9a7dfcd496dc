----------------------- MODULE ClusterLifecycleProofs -----------------------
(***************************************************************************)
(* Theorems about ClusterLifecycle, for every number of replicas, versions, *)
(* edits and faults, and for a user of any patience.                       *)
(***************************************************************************)
EXTENDS ClusterLifecycle, FiniteSetTheorems, SequenceTheorems, TLAPS

-----------------------------------------------------------------------------
(***************************************************************************)
(* Types of the helpers.                                                   *)
(***************************************************************************)

\* A merge patch of well-typed statuses and specs is well typed.
LEMMA MergedType ==
    ASSUME TypeOK, NEW after \in CustomResource
    PROVE  Merged(after) \in CustomResource
  BY DEF TypeOK, Merged, PatchSpec, PatchStatus, Patched, CustomResource,
         SpecFields, Status

\* Writing the custom resource keeps the API server and the watch well typed.
LEMMA WriteType ==
    ASSUME TypeOK, NEW new \in CustomResource, Write(new)
    PROVE  cr' \in CustomResource /\ watch' \in Seq(CustomResource)
  BY DEF TypeOK, Write

\* The merge patch of a handler keeps the API server and the watch well typed.
LEMMA PatchType ==
    ASSUME TypeOK, NEW after \in CustomResource, Patch(after)
    PROVE  cr' \in CustomResource /\ watch' \in Seq(CustomResource)
  BY MergedType, WriteType DEF Patch, TypeOK, crVars

\* The variables that a reconcile keeps for itself, and the custom resource.
ReconcileTypeOK ==
    /\ cr \in CustomResource
    /\ watch \in Seq(CustomResource)
    /\ queued \in BOOLEAN
    /\ pc \in Handlers
    /\ rc \in CustomResource
    /\ aliased \in BOOLEAN /\ (aliased => rc.status.replicas # None)
    /\ rs \in StsViews
    /\ rp \in PodLists

\* Zero, which stops a cluster, is an admissible size.
LEMMA ZeroReplicas == 0 \in Replicas
  BY BoundsAssumption DEF Replicas

\* The custom resource a user creates is well typed.
LEMMA NewCRType == NewCR \in CustomResource
  BY BoundsAssumption DEF NewCR, CustomResource, SpecFields, Status, Replicas,
     Version, NoVersion, NoConditions, Conditions, None

\* Ending a reconcile clears its copies and keeps the types.
LEMMA EndType ==
    ASSUME TypeOK, NEW retry \in BOOLEAN, End(retry),
           cr' \in CustomResource, watch' \in Seq(CustomResource)
    PROVE  ReconcileTypeOK'
  <1>1. queued' \in BOOLEAN
    BY Zenon DEF End, TypeOK
  <1>2. pc' \in Handlers
    BY DEF End, Handlers
  <1>3. NoView \in StsViews
    BY BoundsAssumption
    DEF NoView, NoSts, StsViews, StatefulSets, Replicas, NoVersion
  <1>4. NoPods \in PodLists
    BY DEF NoPods, PodLists
  <1> QED
    BY <1>1, <1>2, <1>3, <1>4, NewCRType DEF End, ReconcileTypeOK

\* A requeue without a write keeps the types.
LEMMA RequeueType ==
    ASSUME TypeOK, Requeue
    PROVE  ReconcileTypeOK'
  BY EndType DEF Requeue, crVars, TypeOK

\* Going on to the next handler without a write keeps the types.
LEMMA SkipType ==
    ASSUME TypeOK, NEW handler \in Handlers, Skip(handler)
    PROVE  ReconcileTypeOK'
  BY DEF Skip, Proceed, crVars, TypeOK, ReconcileTypeOK

\* UpdateInfinispan, then the next handler, keeps the types.
LEMMA UpdateThenType ==
    ASSUME TypeOK, NEW after \in CustomResource, NEW handler \in Handlers,
           UpdateThen(after, handler)
    PROVE  ReconcileTypeOK'
  <1>1. CASE Conflict
    BY <1>1, RequeueType DEF Conflict
  <1>2. CASE UpdateInfinispan(after) /\ Proceed(handler)
    BY <1>2, PatchType, MergedType
    DEF UpdateInfinispan, Proceed, TypeOK, ReconcileTypeOK
  <1> QED BY <1>1, <1>2 DEF UpdateThen

\* UpdateInfinispan, then the end of the reconcile, keeps the types.
LEMMA UpdateAndRequeueType ==
    ASSUME TypeOK, NEW after \in CustomResource, UpdateAndRequeue(after)
    PROVE  ReconcileTypeOK'
  <1>1. CASE Conflict
    BY <1>1, RequeueType DEF Conflict
  <1>2. CASE cache = rc /\ Patch(after) /\ End(TRUE)
    BY <1>2, PatchType, EndType
  <1> QED BY <1>1, <1>2 DEF UpdateAndRequeue

\* The first of the two patches of an upgrade step keeps the types.
LEMMA UpdateSpecThenStatusType ==
    ASSUME TypeOK, NEW after \in CustomResource, NEW handler \in Handlers,
           UpdateSpecThenStatus(after, handler)
    PROVE  ReconcileTypeOK'
  <1>1. CASE Conflict
    BY <1>1, RequeueType DEF Conflict
  <1>2. CASE cache = rc /\ Patch(after) /\ End(TRUE)
    BY <1>2, PatchType, EndType
  <1>3. CASE /\ Patch([rc EXCEPT !.spec = after.spec])
             /\ rc' = [cr' EXCEPT !.status =
                          PatchStatus(cr.status, rc.status, after.status)]
             /\ aliased' = FALSE
             /\ Proceed(handler)
    <2>1. [rc EXCEPT !.spec = after.spec] \in CustomResource
      BY DEF TypeOK, CustomResource
    <2>2. cr' \in CustomResource /\ watch' \in Seq(CustomResource)
      BY <1>3, <2>1, PatchType
    <2>3. PatchStatus(cr.status, rc.status, after.status) \in Status
      BY DEF TypeOK, PatchStatus, Patched, CustomResource, Status
    <2>4. rc' \in CustomResource
      BY <1>3, <2>2, <2>3 DEF CustomResource
    <2> QED
      BY <1>3, <2>2, <2>4 DEF Proceed, TypeOK, ReconcileTypeOK
  <1> QED BY <1>1, <1>2, <1>3 DEF UpdateSpecThenStatus

\* The second of the two patches keeps the types.
LEMMA UpdateStatusAfterSpecType ==
    ASSUME TypeOK, UpdateStatusAfterSpec
    PROVE  ReconcileTypeOK'
  <1>1. [cr EXCEPT !.status = rc.status] \in CustomResource
    BY DEF TypeOK, CustomResource
  <1>2. cr' \in CustomResource /\ watch' \in Seq(CustomResource)
    BY <1>1, WriteType DEF UpdateStatusAfterSpec, crVars, TypeOK
  <1> QED BY <1>2, EndType DEF UpdateStatusAfterSpec

\* The StatefulSet counts its pods.
LEMMA StsViewType ==
    ASSUME TypeOK
    PROVE  StsView \in StsViews
  <1>1. IsFiniteSet(Index) /\ Cardinality(Index) = MaxReplicas
    BY FS_Interval, BoundsAssumption DEF Index
  <1>2. Pods \subseteq Index /\ Running \subseteq Index
    BY DEF Pods, Running
  <1>3. Cardinality(Pods) \in Replicas /\ Cardinality(Running) \in Replicas
    BY <1>1, <1>2, FS_Subset, FS_CardinalityType, BoundsAssumption DEF Replicas
  <1> QED BY <1>3 DEF StsView, StsViews, TypeOK

\* The variables that no handler's copy is part of.
ClusterTypeOK ==
    /\ sts \in StatefulSets
    /\ pod \in [Index -> ServerStates]
    /\ pvc \in SUBSET Index
    /\ rebalance \in BOOLEAN
    /\ stopped \in Replicas
    /\ opened \in Version \cup {NoVersion}
    /\ service \in {"absent", "pods", "nothing"}
    /\ listener \in {"absent", "off", "on"}

\* A handler that only touches the resource leaves the cluster well typed.
LEMMA ClusterUnchangedType ==
    ASSUME TypeOK, UNCHANGED <<clusterVars, exposedVars>>
    PROVE  ClusterTypeOK'
  BY DEF TypeOK, ClusterTypeOK, clusterVars, exposedVars

-----------------------------------------------------------------------------
(***************************************************************************)
(* The handlers keep the types.                                            *)
(***************************************************************************)
TypesKept == ReconcileTypeOK' /\ ClusterTypeOK'

\* Fetching the resource at the start of a reconcile keeps the types.
LEMMA ReconcileStartType ==
    ASSUME TypeOK, Reconcile PROVE TypesKept
  <1>1. ClusterTypeOK'
    BY ClusterUnchangedType DEF Reconcile
  <1>2. ReconcileTypeOK'
    <2>1. queued' \in BOOLEAN /\ pc' \in Handlers
      BY DEF Reconcile, Handlers
    <2>2. aliased' \in BOOLEAN /\ (aliased' => rc'.status.replicas # None)
      BY DEF Reconcile, TypeOK
    <2> QED
      BY <2>1, <2>2 DEF Reconcile, TypeOK, ReconcileTypeOK, crVars
  <1> QED BY <1>1, <1>2 DEF TypesKept

\* PreliminaryChecks stores a size in status.replicas, never a nil.
LEMMA PreliminaryChecksType ==
    ASSUME TypeOK, PreliminaryChecks PROVE TypesKept
  <1>0. SUFFICES ReconcileTypeOK'
    BY ClusterUnchangedType DEF PreliminaryChecks, TypesKept
  <1> DEFINE after == [rc EXCEPT !.status.replicas = rc.spec.replicas]
  <1>1. after \in CustomResource
    BY DEF TypeOK, CustomResource, SpecFields, Status
  <1>2. CASE rc.status.replicas = None /\ UpdateInfinispan(after)
                /\ Proceed("PreliminaryCondition")
    BY <1>1, <1>2, UpdateThenType DEF UpdateThen, Handlers
  <1>3. CASE /\ rc' = cache /\ aliased' = FALSE /\ UNCHANGED crVars
             /\ Proceed("PreliminaryCondition")
    BY <1>3
    DEF TypeOK, ReconcileTypeOK, Proceed, crVars, Handlers
  <1>4. CASE Skip("ClusterService") \/ Skip("PreliminaryCondition")
    BY <1>4, SkipType DEF Handlers
  <1> QED
    BY <1>2, <1>3, <1>4 DEF PreliminaryChecks

\* The first status of a new resource is well typed.
LEMMA PreliminaryConditionType ==
    ASSUME TypeOK, PreliminaryCondition PROVE TypesKept
  <1> DEFINE after == [rc EXCEPT !.status.conds.prelim = TRUE,
                                 !.status.operand = rc.spec.version,
                                 !.status.phase = "Pending"]
  <1>1. after \in CustomResource
    BY DEF TypeOK, CustomResource, SpecFields, Status, Conditions
  <1>2. ReconcileTypeOK'
    BY <1>1, RequeueType, UpdateAndRequeueType DEF PreliminaryCondition
  <1> QED
    BY <1>2, ClusterUnchangedType DEF PreliminaryCondition, TypesKept

\* Provisioning the Service keeps the types.
LEMMA ClusterServiceType ==
    ASSUME TypeOK, ClusterService PROVE TypesKept
  <1>1. ReconcileTypeOK'
    BY SkipType DEF ClusterService, Handlers
  <1> QED
    BY <1>1 DEF ClusterService, TypesKept, TypeOK, ClusterTypeOK, clusterVars

\* Scheduling an upgrade keeps the types.
LEMMA ScheduleType ==
    ASSUME TypeOK, ScheduleGracefulShutdownUpgrade PROVE TypesKept
  <1> DEFINE after == [rc EXCEPT !.spec.replicas = 0,
                                 !.status.conds.upgrade = TRUE,
                                 !.status.operand = rc.spec.version,
                                 !.status.phase = "Pending"]
  <1>1. after \in CustomResource
    BY ZeroReplicas, ZenonT(30) DEF TypeOK, CustomResource, SpecFields, Status, Conditions
  <1>2. {"PodStatus", "ClusterStatefulSet", "ScheduleStatus"} \subseteq Handlers
    BY DEF Handlers
  <1>3. CASE Skip("PodStatus") \/ Skip("ClusterStatefulSet")
    BY <1>2, <1>3, SkipType, ClusterUnchangedType
    DEF ScheduleGracefulShutdownUpgrade, TypesKept
  <1>4. CASE UpdateSpecThenStatus(after, "ScheduleStatus")
    BY <1>1, <1>2, <1>4, UpdateSpecThenStatusType, ClusterUnchangedType
    DEF ScheduleGracefulShutdownUpgrade, TypesKept
  <1> QED
    BY <1>3, <1>4 DEF ScheduleGracefulShutdownUpgrade

\* Storing the status of a scheduled upgrade keeps the types.
LEMMA ScheduleStatusType ==
    ASSUME TypeOK, ScheduleStatus PROVE TypesKept
  BY UpdateStatusAfterSpecType, ClusterUnchangedType DEF ScheduleStatus, TypesKept

\* The StatefulSet is created with an admissible size and operand.
LEMMA ClusterStatefulSetType ==
    ASSUME TypeOK, ClusterStatefulSet PROVE TypesKept
  <1>1. ReconcileTypeOK'
    BY StsViewType
    DEF ClusterStatefulSet, TypeOK, ReconcileTypeOK, Handlers, crVars
  <1>2. sts' \in StatefulSets /\ stopped' \in Replicas
    <2>1. rc.spec.replicas \in Replicas
            /\ rc.status.operand \in Version \cup {NoVersion}
      BY DEF TypeOK, CustomResource, SpecFields, Status
    <2>2. sts' \in StatefulSets
      <3>1. [exists |-> TRUE, replicas |-> rc.spec.replicas,
             version |-> rc.status.operand] \in StatefulSets
        BY <2>1 DEF StatefulSets
      <3> QED BY <3>1 DEF ClusterStatefulSet, TypeOK
    <2>3. stopped' \in Replicas
      BY ZeroReplicas DEF ClusterStatefulSet, TypeOK
    <2> QED BY <2>2, <2>3
  <1> QED
    BY <1>1, <1>2
    DEF ClusterStatefulSet, TypesKept, TypeOK, ClusterTypeOK, exposedVars

\* Reporting the size of the new StatefulSet keeps the types.
LEMMA ClusterStatefulSetStatusType ==
    ASSUME TypeOK, ClusterStatefulSetStatus PROVE TypesKept
  <1>1. [rc EXCEPT !.status.replicas = rc.spec.replicas] \in CustomResource
    BY DEF TypeOK, CustomResource, SpecFields, Status
  <1>2. ReconcileTypeOK'
    BY <1>1, UpdateThenType DEF ClusterStatefulSetStatus, Handlers
  <1> QED
    BY <1>2, ClusterUnchangedType DEF ClusterStatefulSetStatus, TypesKept

\* Listing the pods keeps the types.
LEMMA PodStatusType ==
    ASSUME TypeOK, PodStatus PROVE TypesKept
  <1>0. SUFFICES ReconcileTypeOK'
    BY ClusterUnchangedType DEF PodStatus, TypesKept
  <1> DEFINE after == [rc EXCEPT !.status.ready = Running]
  <1>1. after \in CustomResource
    BY DEF TypeOK, CustomResource, Status, Running
  <1>2. CASE Requeue \/ Conflict
    BY <1>2, RequeueType DEF Conflict
  <1>3. CASE /\ UpdateInfinispan(after)
             /\ rs' = IF rs.sts.exists THEN rs ELSE StsView
             /\ rp' = [all |-> Pods, ready |-> Running]
             /\ pc' = "GracefulShutdownUpgrade"
             /\ UNCHANGED queued
    <2>1. cr' \in CustomResource /\ watch' \in Seq(CustomResource)
            /\ rc' \in CustomResource /\ aliased' = FALSE
      BY <1>1, <1>3, PatchType, MergedType DEF UpdateInfinispan
    <2>2. rs' \in StsViews
      BY <1>3, StsViewType DEF TypeOK
    <2>3. rp' \in PodLists
      BY <1>3 DEF PodLists, Pods, Running
    <2> QED
      BY <1>3, <2>1, <2>2, <2>3 DEF ReconcileTypeOK, TypeOK, Handlers
  <1> QED
    BY <1>2, <1>3 DEF PodStatus

\* The size an upgrade restores is an admissible spec.replicas.
LEMMA UpgradedType ==
    ASSUME TypeOK
    PROVE  [rc EXCEPT !.spec.replicas = rc.status.wanted,
                      !.status.conds.upgrade = FALSE] \in CustomResource
  BY DEF TypeOK, CustomResource, SpecFields, Status, Conditions

\* Restoring spec.replicas after an upgrade keeps the types.
LEMMA UpgradeSpecType ==
    ASSUME TypeOK, UpgradeSpec PROVE TypesKept
  <1>2. ReconcileTypeOK'
    BY UpgradedType, UpdateSpecThenStatusType DEF UpgradeSpec, Handlers
  <1> QED
    BY <1>2, ClusterUnchangedType DEF UpgradeSpec, TypesKept

\* Clearing the Upgrade condition keeps the types.
LEMMA UpgradeStatusType ==
    ASSUME TypeOK, UpgradeStatus PROVE TypesKept
  BY UpdateStatusAfterSpecType, ClusterUnchangedType DEF UpgradeStatus, TypesKept

\* Deleting the old cluster keeps the types and the budget of faults.
LEMMA GracefulShutdownUpgradeType ==
    ASSUME TypeOK, GracefulShutdownUpgrade
    PROVE  TypesKept /\ faults' \in 0..MaxFaults
  <1>1. ReconcileTypeOK'
    BY SkipType DEF GracefulShutdownUpgrade, Handlers
  <1>2. UNCHANGED <<clusterVars, exposedVars>> => ClusterTypeOK'
    BY ClusterUnchangedType
  <1>3. destroyResources => ClusterTypeOK'
    BY BoundsAssumption
    DEF destroyResources, TypeOK, ClusterTypeOK, NoSts, StatefulSets, Replicas,
        ServerStates, NoVersion
  <1>4. faults' \in 0..MaxFaults
    BY BoundsAssumption DEF GracefulShutdownUpgrade, TypeOK
  <1> QED
    BY <1>1, <1>2, <1>3, <1>4
    DEF GracefulShutdownUpgrade, TypesKept, clusterVars, exposedVars

\* Checking the servers before a shutdown keeps the types.
LEMMA CheckServersType ==
    ASSUME TypeOK, CheckServers PROVE TypesKept
  <1>1. rebalance' \in BOOLEAN
    BY Zenon DEF CheckServers, TypeOK
  <1>2. ClusterTypeOK'
    BY <1>1 DEF CheckServers, TypeOK, ClusterTypeOK, exposedVars
  <1>3. CASE Requeue
    BY <1>2, <1>3, RequeueType DEF TypesKept
  <1>4. CASE /\ rp' = [rp EXCEPT !.ready = {i \in rp.all : pod[i] = "running"}]
             /\ pc' = "StopServers"
             /\ UNCHANGED <<rc, aliased, crVars, rs, queued>>
    <2>1. rp' \in PodLists
      BY <1>4 DEF TypeOK, PodLists
    <2>2. ReconcileTypeOK'
      BY <1>4, <2>1 DEF TypeOK, ReconcileTypeOK, Handlers, crVars
    <2> QED BY <1>2, <2>2 DEF TypesKept
  <1> QED BY <1>3, <1>4 DEF CheckServers

\* The size recorded for the restart is an admissible one.
LEMMA RecordReplicasType ==
    ASSUME TypeOK, RecordReplicas PROVE TypesKept
  <1>1. [rc EXCEPT !.status.wanted = rs.sts.replicas] \in CustomResource
    BY DEF TypeOK, CustomResource, Status, StsViews, StatefulSets
  <1>2. ReconcileTypeOK'
    BY <1>1, UpdateThenType DEF RecordReplicas, Handlers
  <1> QED
    BY <1>2, ClusterUnchangedType DEF RecordReplicas, TypesKept

\* Reporting GracefulShutdown keeps the types.
LEMMA CompleteStopType ==
    ASSUME TypeOK, CompleteStop PROVE TypesKept
  <1> DEFINE after == [rc EXCEPT !.status.conds.graceful = TRUE,
                                 !.status.conds.stopping = FALSE]
  <1>1. after \in CustomResource
    BY DEF TypeOK, CustomResource, Status, Conditions
  <1>2. ReconcileTypeOK'
    BY <1>1, UpdateAndRequeueType, RequeueType DEF CompleteStop
  <1>3. ClusterTypeOK'
    BY DEF CompleteStop, TypeOK, ClusterTypeOK, clusterVars
  <1> QED BY <1>2, <1>3 DEF TypesKept

\* The resource that the end of a stop leaves is well formed: the size of the
\* specification becomes the current one and nothing is left to restore.
LEMMA ResumedType ==
    ASSUME NEW c \in CustomResource
    PROVE  [c EXCEPT !.status.replicas = c.spec.replicas,
                     !.status.wanted = 0,
                     !.status.conds.graceful = FALSE,
                     !.status.conds.scalingUp = TRUE] \in CustomResource
  BY ZeroReplicas, ZenonT(30) DEF CustomResource, SpecFields, Status, Conditions

\* Resuming a stopped cluster keeps the types.
LEMMA ResumeType ==
    ASSUME TypeOK, Resume PROVE TypesKept
  <1> DEFINE after == [rc EXCEPT !.status.replicas = rc.spec.replicas,
                                 !.status.wanted = 0,
                                 !.status.conds.graceful = FALSE,
                                 !.status.conds.scalingUp = TRUE]
  <1>1. after \in CustomResource
    BY ResumedType DEF TypeOK
  <1>2. ReconcileTypeOK'
    BY <1>1, UpdateAndRequeueType, RequeueType DEF Resume
  <1> QED
    BY <1>2, ClusterUnchangedType DEF Resume, TypesKept

\* Every case of GracefulShutdown keeps the types.
LEMMA GracefulShutdownType ==
    ASSUME TypeOK, GracefulShutdown PROVE TypesKept
  <1>1. CASE /\ Skip("AwaitUpgrade")
             /\ UNCHANGED <<clusterVars, exposedVars>>
    <2>1. "AwaitUpgrade" \in Handlers
      BY DEF Handlers
    <2> QED BY <1>1, <2>1, SkipType, ClusterUnchangedType DEF TypesKept
  <1> QED
    BY <1>1, CheckServersType, RecordReplicasType, CompleteStopType, ResumeType
    DEF GracefulShutdown

\* Shutting down a server, and setting Stopping, keep the types.
LEMMA StopServersType ==
    ASSUME TypeOK, StopServers PROVE TypesKept
  <1>1. CASE \E i \in rp.ready :
               /\ pod' = [pod EXCEPT ![i] = "stopped"]
               /\ rp' = [rp EXCEPT !.ready = @ \ {i}]
               /\ UNCHANGED <<rc, aliased, crVars, pc, rs, queued>>
    <2>1. rp' \in PodLists
      BY <1>1 DEF TypeOK, PodLists
    <2>2. ReconcileTypeOK'
      BY <1>1, <2>1 DEF TypeOK, ReconcileTypeOK, crVars
    <2>3. pod' \in [Index -> ServerStates]
      BY <1>1 DEF TypeOK, ServerStates
    <2> QED
      BY <2>2, <2>3
      DEF StopServers, TypesKept, TypeOK, ClusterTypeOK, exposedVars
  <1>2. CASE Requeue /\ UNCHANGED pod
    <2>1. ClusterTypeOK'
      BY <1>2 DEF StopServers, TypeOK, ClusterTypeOK, exposedVars
    <2> QED BY <1>2, <2>1, RequeueType DEF TypesKept
  <1>3. CASE /\ UpdateAndRequeue([rc EXCEPT !.status.conds.stopping = TRUE,
                                         !.status.conds.wellFormed = "False"])
             /\ UNCHANGED pod
    <2>1. [rc EXCEPT !.status.conds.stopping = TRUE,
                     !.status.conds.wellFormed = "False"] \in CustomResource
      BY DEF TypeOK, CustomResource, Status, Conditions
    <2>2. ClusterTypeOK'
      BY <1>3 DEF StopServers, TypeOK, ClusterTypeOK, exposedVars
    <2> QED BY <1>3, <2>1, <2>2, UpdateAndRequeueType DEF TypesKept
  <1> QED BY <1>1, <1>2, <1>3 DEF StopServers

\* Scaling the StatefulSet to zero keeps the types.
LEMMA ScaleToZeroType ==
    ASSUME TypeOK, ScaleToZero PROVE TypesKept
  <1>1. sts' \in StatefulSets /\ stopped' \in Replicas
    BY ZeroReplicas DEF ScaleToZero, TypeOK, StatefulSets
  <1> QED
    BY <1>1, RequeueType
    DEF ScaleToZero, TypesKept, TypeOK, ClusterTypeOK, exposedVars

\* Waiting for an upgrade keeps the types.
LEMMA AwaitUpgradeType ==
    ASSUME TypeOK, AwaitUpgrade PROVE TypesKept
  <1>1. "ClusterScaling" \in Handlers
    BY DEF Handlers
  <1> QED
    BY <1>1, RequeueType, SkipType, ClusterUnchangedType
    DEF AwaitUpgrade, TypesKept

\* ClusterScaling aliases status.replicas only to an admissible size.
LEMMA ClusterScalingType ==
    ASSUME TypeOK, ClusterScaling PROVE TypesKept
  <1> DEFINE down   == [rc EXCEPT !.status.conds.scalingDown = TRUE]
             up     == [rc EXCEPT !.status.conds.scalingUp = TRUE]
             scaled == [rc EXCEPT !.status.replicas = rc.spec.replicas,
                                  !.status.conds.scalingUp = FALSE,
                                  !.status.conds.scalingDown = FALSE]
  <1>1. down \in CustomResource /\ up \in CustomResource
    BY DEF TypeOK, CustomResource, Status, Conditions
  <1>2. scaled \in CustomResource
    BY DEF TypeOK, CustomResource, SpecFields, Status, Conditions
  <1>3. "StatefulSetRollingUpgrade" \in Handlers
    BY DEF Handlers
  <1>4. pvc' \in SUBSET Index
    BY DEF ClusterScaling, TypeOK
  <1>5. ClusterTypeOK'
    BY <1>4 DEF ClusterScaling, TypeOK, ClusterTypeOK, exposedVars
  <1>6. CASE Skip("StatefulSetRollingUpgrade") \/ Requeue \/ Conflict
    BY <1>3, <1>5, <1>6, SkipType, RequeueType DEF TypesKept, Conflict
  <1>7. CASE UpdateAndRequeue(down) \/ UpdateAndRequeue(up)
    BY <1>1, <1>5, <1>7, UpdateAndRequeueType DEF TypesKept
  <1>8. CASE /\ rc.status.replicas # rc.spec.replicas
             /\ Patch(scaled) /\ rc' = Merged(scaled) /\ aliased' = TRUE
             /\ Proceed("StatefulSetRollingUpgrade")
    <2>1. cr' \in CustomResource /\ watch' \in Seq(CustomResource)
      BY <1>2, <1>8, PatchType
    <2>2. rc' \in CustomResource
      BY <1>2, <1>8, MergedType
    <2>3. scaled.status.replicas = rc.spec.replicas
      BY DEF TypeOK, CustomResource, Status
    <2>4. rc'.status.replicas = rc.spec.replicas
      BY <1>8, <2>3 DEF Merged, PatchStatus, Patched
    <2>5. rc.spec.replicas # None
      BY BoundsAssumption DEF TypeOK, CustomResource, SpecFields, Replicas, None
    <2>6. ReconcileTypeOK'
      BY <1>3, <1>8, <2>1, <2>2, <2>4, <2>5
      DEF ReconcileTypeOK, TypeOK, Proceed
    <2> QED BY <1>5, <2>6 DEF TypesKept
  <1> QED BY <1>6, <1>7, <1>8 DEF ClusterScaling

\* The size written to the StatefulSet is admissible, aliased or not.
LEMMA StatefulSetRollingUpgradeType ==
    ASSUME TypeOK, StatefulSetRollingUpgrade PROVE TypesKept
  <1>1. SpecReplicas \in Replicas
    BY DEF SpecReplicas, TypeOK, CustomResource, SpecFields, Status
  <1>2. sts' \in StatefulSets /\ stopped' \in Replicas
    BY <1>1, ZeroReplicas DEF StatefulSetRollingUpgrade, TypeOK, StatefulSets
  <1>3. rs' \in StsViews
    BY <1>2, StsViewType DEF StatefulSetRollingUpgrade, TypeOK, StsViews
  <1>4. queued' \in BOOLEAN /\ pc' \in Handlers
    BY DEF StatefulSetRollingUpgrade, TypeOK, Handlers
  <1> QED
    BY <1>2, <1>3, <1>4
    DEF StatefulSetRollingUpgrade, TypesKept, TypeOK, ReconcileTypeOK,
        ClusterTypeOK, crVars, exposedVars

\* Waiting for the pods' addresses keeps the types.
LEMMA AwaitPodIpsType ==
    ASSUME TypeOK, AwaitPodIps PROVE TypesKept
  <1>1. [rc EXCEPT !.status.conds.wellFormed = "Unknown"] \in CustomResource
    BY DEF TypeOK, CustomResource, Status, Conditions
  <1>2. "EnableRebalanceAfterScaleUp" \in Handlers
    BY DEF Handlers
  <1> QED
    BY <1>1, <1>2, SkipType, UpdateAndRequeueType, ClusterUnchangedType
    DEF AwaitPodIps, TypesKept

\* Enabling rebalancing keeps the types.
LEMMA EnableRebalanceType ==
    ASSUME TypeOK, EnableRebalanceAfterScaleUp PROVE TypesKept
  <1>1. [rc EXCEPT !.status.conds.scalingUp = FALSE] \in CustomResource
    BY DEF TypeOK, CustomResource, Status, Conditions
  <1>2. "AwaitWellFormedCondition" \in Handlers
    BY DEF Handlers
  <1>3. ReconcileTypeOK'
    BY <1>1, <1>2, SkipType, RequeueType, UpdateAndRequeueType
    DEF EnableRebalanceAfterScaleUp
  <1>4. ClusterTypeOK'
    BY DEF EnableRebalanceAfterScaleUp, TypeOK, ClusterTypeOK, exposedVars
  <1> QED BY <1>3, <1>4 DEF TypesKept

\* The WellFormed condition gets one of the three condition statuses.
LEMMA AwaitWellFormedType ==
    ASSUME TypeOK, AwaitWellFormedCondition PROVE TypesKept
  <1> DEFINE after == [rc EXCEPT
                         !.status.conds.wellFormed = wellFormedCondition,
                         !.status.phase = IF wellFormedCondition = "True"
                                          THEN "Running" ELSE @]
  <1>1. wellFormedCondition \in {"True", "False", "Unknown"}
    BY DEF wellFormedCondition
  <1>2. after \in CustomResource
    BY <1>1 DEF TypeOK, CustomResource, Status, Conditions
  <1>3. "ConfigListener" \in Handlers
    BY DEF Handlers
  <1>4. ReconcileTypeOK'
    BY <1>2, <1>3, UpdateThenType, UpdateAndRequeueType
    DEF AwaitWellFormedCondition
  <1> QED
    BY <1>4, ClusterUnchangedType DEF AwaitWellFormedCondition, TypesKept

\* Provisioning the ConfigListener keeps the types.
LEMMA ConfigListenerType ==
    ASSUME TypeOK, ConfigListener PROVE TypesKept
  <1>1. ReconcileTypeOK'
    BY EndType DEF ConfigListener, crVars, TypeOK
  <1> QED
    BY <1>1 DEF ConfigListener, TypesKept, TypeOK, ClusterTypeOK, clusterVars

\* A failed REST call keeps the types and the budget of faults.
LEMMA ServerCallFailsType ==
    ASSUME TypeOK, ServerCallFails
    PROVE  TypesKept /\ faults' \in 0..MaxFaults
  <1>1. TypesKept
    BY RequeueType, ClusterUnchangedType DEF ServerCallFails, TypesKept
  <1> QED
    BY <1>1, BoundsAssumption DEF ServerCallFails, TypeOK

-----------------------------------------------------------------------------
(***************************************************************************)
(* Type correctness.                                                       *)
(***************************************************************************)
LEMMA OperatorType ==
    ASSUME TypeOK, Operator PROVE TypeOK'
  <1>1. TypesKept /\ faults' \in 0..MaxFaults
    <2>1. ASSUME UNCHANGED faults PROVE faults' \in 0..MaxFaults
      BY <2>1 DEF TypeOK
    <2>2. CASE GracefulShutdownUpgrade
      BY <2>2, GracefulShutdownUpgradeType
    <2>3. CASE ServerCallFails
      BY <2>3, ServerCallFailsType
    <2> QED
      BY <2>1, <2>2, <2>3, ReconcileStartType, PreliminaryChecksType,
         PreliminaryConditionType, ClusterServiceType, ScheduleType,
         ScheduleStatusType, ClusterStatefulSetType,
         ClusterStatefulSetStatusType, PodStatusType, UpgradeSpecType,
         UpgradeStatusType, GracefulShutdownType, StopServersType,
         ScaleToZeroType, AwaitUpgradeType, ClusterScalingType,
         StatefulSetRollingUpgradeType, AwaitPodIpsType, EnableRebalanceType,
         AwaitWellFormedType, ConfigListenerType
      DEF Operator
  <1>2. cache' \in CustomResource /\ edits' \in 0..MaxEdits
    BY DEF Operator, TypeOK
  <1> QED
    BY <1>1, <1>2 DEF TypesKept, ReconcileTypeOK, ClusterTypeOK, TypeOK

\* A user's edit of a well-typed resource keeps the types.
LEMMA EditType ==
    ASSUME TypeOK, NEW new \in CustomResource, Edit(new) PROVE TypeOK'
  <1>1. cr' \in CustomResource /\ watch' \in Seq(CustomResource)
    BY WriteType DEF Edit
  <1>2. edits' \in 0..MaxEdits
    BY BoundsAssumption DEF Edit, TypeOK
  <1> QED
    BY <1>1, <1>2
    DEF Edit, TypeOK, reconcileVars, clusterVars, exposedVars

\* Every edit of the user keeps the types.
LEMMA UserType ==
    ASSUME TypeOK, UserScales \/ UserUpgrades PROVE TypeOK'
  <1>1. ASSUME NEW n \in Replicas
        PROVE  [cr EXCEPT !.spec.replicas = n] \in CustomResource
    BY DEF TypeOK, CustomResource, SpecFields
  <1>2. ASSUME NEW v \in Version
        PROVE  [cr EXCEPT !.spec.version = v] \in CustomResource
    BY DEF TypeOK, CustomResource, SpecFields
  <1> QED
    BY <1>1, <1>2, EditType DEF UserScales, UserUpgrades

\* Delivering a version to the informer's cache keeps the types.
LEMMA InformerType ==
    ASSUME TypeOK, InformerDelivers PROVE TypeOK'
  <1>1. cache' \in CustomResource /\ watch' \in Seq(CustomResource)
    BY HeadTailProperties DEF InformerDelivers, TypeOK
  <1> QED
    BY <1>1
    DEF InformerDelivers, TypeOK, reconcileVars, clusterVars, exposedVars,
        budgetVars

\* A new state of a pod keeps the types.
LEMMA PodChangesType ==
    ASSUME TypeOK, NEW i \in Index, NEW state \in ServerStates,
           PodChanges(i, state), pvc' \in SUBSET Index,
           opened' \in Version \cup {NoVersion}, faults' \in 0..MaxFaults
    PROVE  TypeOK'
  <1>1. pod' \in [Index -> ServerStates]
    BY DEF PodChanges, TypeOK
  <1> QED
    BY <1>1 DEF PodChanges, TypeOK, crVars, reconcileVars, exposedVars

\* Every action of Kubernetes on a pod keeps the types.
LEMMA PodType ==
    ASSUME TypeOK,
           \/ PodCreated \/ PodDeleted \/ ServerStarted
           \/ ContainerRestarted \/ PodEvicted
    PROVE  TypeOK'
  <1>1. {"none", "starting", "running"} \subseteq ServerStates
    BY DEF ServerStates
  <1>2. opened \in Version \cup {NoVersion} /\ pvc \in SUBSET Index
          /\ faults \in 0..MaxFaults /\ sts.version \in Version \cup {NoVersion}
    BY DEF TypeOK, StatefulSets
  <1>3. CASE PodCreated
    <2>1. PICK i \in Index : /\ PodChanges(i, "starting")
                             /\ pvc' = pvc \cup {i}
                             /\ UNCHANGED <<opened, faults>>
      BY <1>3 DEF PodCreated
    <2> QED BY <1>1, <1>2, <2>1, PodChangesType
  <1>4. CASE PodDeleted
    BY <1>1, <1>2, <1>4, PodChangesType DEF PodDeleted
  <1>5. CASE ServerStarted
    BY <1>1, <1>2, <1>5, PodChangesType DEF ServerStarted
  <1>6. Fault("restart") \/ Fault("evict") => faults' \in 0..MaxFaults
    BY <1>2, BoundsAssumption DEF Fault
  <1>7. CASE ContainerRestarted
    BY <1>1, <1>2, <1>6, <1>7, PodChangesType DEF ContainerRestarted
  <1>8. CASE PodEvicted
    BY <1>1, <1>2, <1>6, <1>8, PodChangesType DEF PodEvicted
  <1> QED BY <1>3, <1>4, <1>5, <1>7, <1>8

\* A crash of the operator keeps the types.
LEMMA CrashType ==
    ASSUME TypeOK, OperatorCrashes PROVE TypeOK'
  <1>1. watch' \in Seq(CustomResource) /\ cache' \in CustomResource
    BY DEF OperatorCrashes, TypeOK
  <1>2. faults' \in 0..MaxFaults
    BY BoundsAssumption DEF OperatorCrashes, Fault, TypeOK
  <1>3. ReconcileTypeOK'
    <2>1. NoView \in StsViews
      BY ZeroReplicas DEF NoView, NoSts, StsViews, StatefulSets, NoVersion
    <2>2. NoPods \in PodLists
      BY DEF NoPods, PodLists
    <2>3. pc' \in Handlers
      BY DEF OperatorCrashes, Handlers
    <2> QED
      BY <1>1, <2>1, <2>2, <2>3, NewCRType
      DEF OperatorCrashes, ReconcileTypeOK, TypeOK
  <1> QED
    BY <1>1, <1>2, <1>3
    DEF OperatorCrashes, ReconcileTypeOK, TypeOK, clusterVars, exposedVars

\* The initial state is well typed.
LEMMA InitType == Init => TypeOK
  <1> SUFFICES ASSUME Init PROVE TypeOK
    OBVIOUS
  <1>1. NoView \in StsViews /\ NoSts \in StatefulSets
    BY ZeroReplicas DEF NoView, NoSts, StsViews, StatefulSets, NoVersion
  <1>2. NoPods \in PodLists
    BY DEF NoPods, PodLists
  <1>3. pod \in [Index -> ServerStates]
    BY DEF Init, ServerStates
  <1>4. edits \in 0..MaxEdits /\ faults \in 0..MaxFaults
    BY BoundsAssumption DEF Init
  <1>5. pc \in Handlers
    BY DEF Init, Handlers
  <1>6. watch \in Seq(CustomResource)
    BY DEF Init
  <1>7. /\ service \in {"absent", "pods", "nothing"}
        /\ listener \in {"absent", "off", "on"}
        /\ opened \in Version \cup {NoVersion} /\ pvc \in SUBSET Index
        /\ aliased = FALSE /\ queued = TRUE /\ rebalance = TRUE
    BY DEF Init
  <1> QED
    BY <1>1, <1>2, <1>3, <1>4, <1>5, <1>6, <1>7, NewCRType, ZeroReplicas
    DEF Init, TypeOK

\* Every step keeps the types.
LEMMA NextType == TypeOK /\ [Next]_vars => TypeOK'
  <1> SUFFICES ASSUME TypeOK, [Next]_vars PROVE TypeOK'
    OBVIOUS
  <1>1. CASE UNCHANGED vars
    BY <1>1
    DEF vars, TypeOK, crVars, reconcileVars, clusterVars, exposedVars,
        budgetVars
  <1> QED
    BY <1>1, OperatorType, UserType, InformerType, PodType, CrashType
    DEF Next, Kubernetes

\* Every variable keeps its type, in particular the sizes that go round
\* between spec, status, StatefulSet and reconcile, one of them through an
\* aliased pointer, stay sizes.
THEOREM TypeCorrect == Spec => []TypeOK
  BY InitType, NextType, PTL DEF Spec

-----------------------------------------------------------------------------
(***************************************************************************)
(* Operand versions only advance.                                          *)
(***************************************************************************)

\* The versions in a custom resource can be compared.
LEMMA VersionTypes ==
    ASSUME NEW x \in CustomResource
    PROVE  x.spec.version \in Nat /\ x.status.operand \in Nat
  <1>1. Version \subseteq Nat /\ NoVersion \in Nat
    BY BoundsAssumption DEF Version, NoVersion
  <1> QED BY <1>1 DEF CustomResource, SpecFields, Status

\* The versions of the StatefulSet and of the volumes can be compared.
LEMMA ClusterVersionTypes ==
    ASSUME TypeOK
    PROVE  sts.version \in Nat /\ opened \in Nat
  <1>1. Version \subseteq Nat /\ NoVersion \in Nat
    BY BoundsAssumption DEF Version, NoVersion
  <1> QED BY <1>1 DEF TypeOK, StatefulSets

\* The custom resource is left alone, or a version is stored that is not older.
StoresNotOlder ==
    \/ UNCHANGED <<cr, watch>>
    \/ NotNewer(cr, cr') /\ watch' = Append(watch, cr')

\* Storing a version that is not older keeps the order of delivery.
LEMMA DeliveryKept ==
    ASSUME TypeOK, TypeOK', DeliveryOrdered, StoresNotOlder, UNCHANGED cache
    PROVE  DeliveryOrdered'
  <1>1. CASE UNCHANGED <<cr, watch>>
    BY <1>1 DEF DeliveryOrdered
  <1>2. CASE NotNewer(cr, cr') /\ watch' = Append(watch, cr')
    <2>1. /\ Len(watch') = Len(watch) + 1 /\ Len(watch) \in Nat
          /\ \A i \in 1..Len(watch) : watch'[i] = watch[i]
          /\ watch'[Len(watch) + 1] = cr'
      BY <1>2, AppendProperties DEF TypeOK
    <2>2. \A i \in 1..Len(watch) : watch[i] \in CustomResource
      BY DEF TypeOK
    <2>3. /\ cr.spec.version \in Nat /\ cr.status.operand \in Nat
          /\ cr'.spec.version \in Nat /\ cr'.status.operand \in Nat
          /\ cache.spec.version \in Nat /\ cache.status.operand \in Nat
      BY VersionTypes DEF TypeOK
    <2>4. \A i \in 1..Len(watch) :
            watch[i].spec.version \in Nat /\ watch[i].status.operand \in Nat
      BY <2>2, VersionTypes
    <2>5. NotNewer(cache', cr')
      BY <1>2, <2>3 DEF DeliveryOrdered, NotNewer
    <2>6. ASSUME NEW i \in 1..Len(watch')
          PROVE  NotNewer(cache', watch'[i]) /\ NotNewer(watch'[i], cr')
      <3>1. CASE i \in 1..Len(watch)
        BY <1>2, <2>1, <2>3, <2>4, <3>1 DEF DeliveryOrdered, NotNewer
      <3>2. CASE i = Len(watch) + 1
        BY <2>1, <2>3, <2>5, <3>2 DEF NotNewer
      <3> QED BY <2>1, <3>1, <3>2
    <2>7. ASSUME NEW i \in 1..Len(watch'), NEW j \in 1..Len(watch'), i <= j
          PROVE  NotNewer(watch'[i], watch'[j])
      <3>1. CASE j \in 1..Len(watch)
        BY <2>1, <2>7, <3>1 DEF DeliveryOrdered
      <3>2. CASE j = Len(watch) + 1
        BY <2>1, <2>6, <3>2
      <3> QED BY <2>1, <3>1, <3>2
    <2> QED BY <2>5, <2>6, <2>7 DEF DeliveryOrdered
  <1> QED BY <1>1, <1>2 DEF StoresNotOlder

\* What a step of the operator may do to the custom resource: the requested
\* version stays, and an operand is reported that is not older than the one
\* reported and not newer than what the informer has seen requested.
ReportsForward ==
    /\ StoresNotOlder
    /\ cr'.status.operand <= cache.spec.version
    /\ cr.status.operand <= cr'.status.operand

\* A step that leaves the custom resource alone reports forward.
LEMMA NoReport ==
    ASSUME TypeOK, VersionsAdvance, UNCHANGED crVars
    PROVE  ReportsForward
  BY VersionTypes
  DEF ReportsForward, StoresNotOlder, VersionsAdvance, TypeOK, crVars

\* A handler computes its patch from the copy that the conflict check found to
\* be the informer's: the operand it reports is that copy's, in which case the
\* patch does not carry it, or the version requested there.
KnownOperand(after) ==
    after.status.operand \in {rc.status.operand, rc.spec.version}

\* A write of a known operand reports forward.
LEMMA WriteForward ==
    ASSUME TypeOK, NEW new \in CustomResource, Write(new),
           new.spec.version = cr.spec.version,
           cr.status.operand <= new.status.operand,
           new.status.operand <= cache.spec.version
    PROVE  ReportsForward
  BY VersionTypes
  DEF ReportsForward, StoresNotOlder, Write, NotNewer, TypeOK

\* A patch computed from the informer's copy reports forward.
LEMMA PatchForward ==
    ASSUME TypeOK, VersionsAdvance, cache = rc, NEW after \in CustomResource,
           KnownOperand(after), Patch(after)
    PROVE  ReportsForward
  <1>1. CASE after = rc
    BY <1>1, NoReport DEF Patch
  <1>2. CASE after # rc
    <2>1. Merged(after) \in CustomResource
      BY MergedType
    <2>2. Merged(after).spec.version = cr.spec.version
      BY <1>2 DEF Merged, PatchSpec
    <2>3. Merged(after).status.operand \in {cr.status.operand, rc.spec.version}
      BY <1>2 DEF Merged, PatchStatus, Patched, KnownOperand
    <2>4. /\ cr.status.operand <= Merged(after).status.operand
          /\ Merged(after).status.operand <= cache.spec.version
      BY <2>3, VersionTypes DEF VersionsAdvance, TypeOK
    <2> QED
      BY <1>2, <2>1, <2>2, <2>4, WriteForward DEF Patch
  <1> QED BY <1>1, <1>2

\* The handlers whose copy of the resource VersionsAdvance speaks of.
CopyMatters == UnpatchedHandlers \cup {"ScheduleStatus", "UpgradeStatus"}

\* A step that reports forward and leaves the reconcile at a handler whose copy
\* no longer matters.
LeavesForward == ReportsForward /\ pc' \notin CopyMatters

\* The end of a reconcile leaves no copy behind.
LEMMA IdleForward ==
    ASSUME ReportsForward, NEW retry, End(retry)
    PROVE  LeavesForward
  BY DEF LeavesForward, End, CopyMatters, UnpatchedHandlers

\* A requeue without a write reports forward.
LEMMA RequeueForward ==
    ASSUME TypeOK, VersionsAdvance, Requeue
    PROVE  LeavesForward
  BY NoReport, IdleForward DEF Requeue

\* A handler that writes nothing reports forward.
LEMMA SkipForward ==
    ASSUME TypeOK, VersionsAdvance, NEW handler, handler \notin CopyMatters,
           Skip(handler)
    PROVE  LeavesForward
  BY NoReport DEF Skip, Proceed, LeavesForward

\* UpdateInfinispan followed by another handler reports forward.
LEMMA UpdateThenForward ==
    ASSUME TypeOK, VersionsAdvance, NEW after \in CustomResource,
           KnownOperand(after), NEW handler, handler \notin CopyMatters,
           UpdateThen(after, handler)
    PROVE  LeavesForward
  <1>1. CASE Conflict
    BY <1>1, RequeueForward DEF Conflict
  <1>2. CASE UpdateInfinispan(after) /\ Proceed(handler)
    BY <1>2, PatchForward DEF UpdateInfinispan, Proceed, LeavesForward
  <1> QED BY <1>1, <1>2 DEF UpdateThen

\* UpdateInfinispan at the end of a reconcile reports forward.
LEMMA UpdateAndRequeueForward ==
    ASSUME TypeOK, VersionsAdvance, NEW after \in CustomResource,
           KnownOperand(after), UpdateAndRequeue(after)
    PROVE  LeavesForward
  <1>1. CASE Conflict
    BY <1>1, RequeueForward DEF Conflict
  <1>2. CASE cache = rc /\ Patch(after) /\ End(TRUE)
    BY <1>2, PatchForward, IdleForward
  <1> QED BY <1>1, <1>2 DEF UpdateAndRequeue

\* The first of two patches leaves the operand to report in the copy.
LEMMA SpecPatchForward ==
    ASSUME TypeOK, TypeOK', VersionsAdvance, NEW after \in CustomResource,
           KnownOperand(after), UNCHANGED cache,
           NEW handler \in {"ScheduleStatus", "UpgradeStatus"},
           UpdateSpecThenStatus(after, handler)
    PROVE  ReportsForward /\ SecondPatchCurrent' /\ pc' \notin UnpatchedHandlers
  <1>1. CASE Conflict
    BY <1>1, RequeueForward
    DEF Conflict, LeavesForward, CopyMatters, SecondPatchCurrent
  <1>2. CASE cache = rc /\ Patch(after) /\ End(TRUE)
    BY <1>2, PatchForward, IdleForward
    DEF LeavesForward, CopyMatters, SecondPatchCurrent
  <1>3. CASE /\ cache = rc
             /\ Patch([rc EXCEPT !.spec = after.spec])
             /\ rc' = [cr' EXCEPT !.status =
                          PatchStatus(cr.status, rc.status, after.status)]
             /\ Proceed(handler)
    <2> DEFINE first == [rc EXCEPT !.spec = after.spec]
    <2>1. first \in CustomResource /\ first.status = rc.status
      BY DEF TypeOK, CustomResource
    <2>2. ReportsForward
      BY <1>3, <2>1, PatchForward DEF KnownOperand
    <2>3. cr'.status.operand = cr.status.operand
      <3>1. CASE first = rc
        BY <1>3, <3>1 DEF Patch, crVars
      <3>2. CASE first # rc
        <4>1. cr' = Merged(first)
          BY <1>3, <3>2 DEF Patch, Write
        <4> QED
          BY <2>1, <3>2, <4>1 DEF Merged, PatchStatus, Patched
      <3> QED BY <3>1, <3>2
    <2>4. rc'.status.operand \in {cr.status.operand, rc.spec.version}
      <3>1. rc'.status = PatchStatus(cr.status, rc.status, after.status)
        BY <1>3 DEF TypeOK, CustomResource
      <3> QED
        BY <3>1 DEF PatchStatus, Patched, KnownOperand
    <2>5. cr'.status.operand <= rc'.status.operand
            /\ rc'.status.operand <= cache'.spec.version
      BY <1>3, <2>3, <2>4, VersionTypes DEF VersionsAdvance, TypeOK
    <2> QED
      BY <1>3, <2>2, <2>5
      DEF SecondPatchCurrent, Proceed, UnpatchedHandlers
  <1> QED BY <1>1, <1>2, <1>3 DEF UpdateSpecThenStatus

\* The second patch reports the operand that the first one left in the copy.
LEMMA StatusPatchForward ==
    ASSUME TypeOK, VersionsAdvance, pc \in {"ScheduleStatus", "UpgradeStatus"},
           UpdateStatusAfterSpec
    PROVE  LeavesForward
  <1>1. CASE Write([cr EXCEPT !.status = rc.status])
    <2>1. [cr EXCEPT !.status = rc.status] \in CustomResource
      BY DEF TypeOK, CustomResource
    <2>2. ReportsForward
      BY <1>1, <2>1, WriteForward
      DEF VersionsAdvance, SecondPatchCurrent, TypeOK, CustomResource
    <2> QED BY <2>2, IdleForward DEF UpdateStatusAfterSpec
  <1>2. CASE UNCHANGED crVars
    BY <1>2, NoReport, IdleForward DEF UpdateStatusAfterSpec
  <1> QED BY <1>1, <1>2 DEF UpdateStatusAfterSpec

-----------------------------------------------------------------------------
(***************************************************************************)
(* A step that leaves the version of the StatefulSet and the volumes alone  *)
(* keeps VersionsAdvance when it leaves the handlers whose copy matters.   *)
(***************************************************************************)
SameServers ==
    /\ sts'.version = sts.version /\ sts'.exists = sts.exists
    /\ opened' = opened /\ Pods' = Pods

\* A step that leaves the cluster alone leaves its versions alone.
LEMMA UnchangedServers ==
    ASSUME UNCHANGED clusterVars PROVE SameServers
  BY DEF SameServers, clusterVars, Pods

\* Such a step keeps VersionsAdvance.
LEMMA QuietStep ==
    ASSUME TypeOK, TypeOK', VersionsAdvance, UNCHANGED cache, LeavesForward,
           SameServers
    PROVE  VersionsAdvance'
  <1>1. DeliveryOrdered'
    BY DeliveryKept DEF VersionsAdvance, LeavesForward, ReportsForward
  <1>2. SecondPatchCurrent'
    BY DEF LeavesForward, CopyMatters, SecondPatchCurrent
  <1> QED
    BY <1>1, <1>2
    DEF VersionsAdvance, LeavesForward, ReportsForward, CopyMatters, SameServers

\* A reconcile that goes on with the copy it read.
LEMMA CopyKeptStep ==
    ASSUME TypeOK, TypeOK', VersionsAdvance, UNCHANGED cache,
           pc \in UnpatchedHandlers, NEW handler \in UnpatchedHandlers,
           Skip(handler), SameServers
    PROVE  VersionsAdvance'
  <1>1. DeliveryOrdered'
    BY DeliveryKept DEF VersionsAdvance, StoresNotOlder, Skip, crVars
  <1>2. SecondPatchCurrent'
    BY DEF Skip, Proceed, SecondPatchCurrent, UnpatchedHandlers
  <1> QED
    BY <1>1, <1>2 DEF VersionsAdvance, Skip, Proceed, crVars, SameServers

\* The handlers that report nothing or a known operand and then leave.
Quiet ==
    \/ PreliminaryCondition \/ ScheduleStatus \/ ClusterStatefulSetStatus
    \/ PodStatus \/ UpgradeStatus \/ GracefulShutdown \/ StopServers
    \/ ScaleToZero \/ AwaitUpgrade \/ ClusterScaling
    \/ StatefulSetRollingUpgrade \/ AwaitPodIps \/ EnableRebalanceAfterScaleUp
    \/ AwaitWellFormedCondition \/ ConfigListener \/ ServerCallFails

\* Each of these handlers reports forward.
LEMMA QuietForward ==
    ASSUME TypeOK, VersionsAdvance, Quiet
    PROVE  LeavesForward
  <1> DEFINE names == {"PodStatus", "GracefulShutdownUpgrade", "ScaleToZero",
                       "AwaitUpgrade", "ClusterScaling", "StopServers",
                       "StatefulSetRollingUpgrade", "AwaitPodIps",
                       "EnableRebalanceAfterScaleUp",
                       "AwaitWellFormedCondition", "ConfigListener"}
  <1>0. \A h \in names : h \notin CopyMatters
    BY DEF CopyMatters, UnpatchedHandlers
  <1> HIDE DEF names
  <1>00. /\ {"PodStatus", "GracefulShutdownUpgrade", "ScaleToZero",
             "AwaitUpgrade", "ClusterScaling"} \subseteq names
         /\ {"StopServers", "StatefulSetRollingUpgrade", "AwaitPodIps",
             "EnableRebalanceAfterScaleUp", "AwaitWellFormedCondition",
             "ConfigListener"} \subseteq names
    BY DEF names
  <1>1. CASE PreliminaryCondition
    <2> DEFINE after == [rc EXCEPT !.status.conds.prelim = TRUE,
                                   !.status.operand = rc.spec.version,
                                   !.status.phase = "Pending"]
    <2>1. after \in CustomResource /\ KnownOperand(after)
      BY DEF TypeOK, CustomResource, SpecFields, Status, Conditions, KnownOperand
    <2> QED
      BY <1>1, <2>1, RequeueForward, UpdateAndRequeueForward
      DEF PreliminaryCondition
  <1>2. CASE ScheduleStatus \/ UpgradeStatus
    BY <1>2, StatusPatchForward DEF ScheduleStatus, UpgradeStatus
  <1>3. CASE ClusterStatefulSetStatus
    <2> DEFINE after == [rc EXCEPT !.status.replicas = rc.spec.replicas]
    <2>1. after \in CustomResource /\ KnownOperand(after)
      BY DEF TypeOK, CustomResource, SpecFields, Status, KnownOperand
    <2> QED
      BY <1>0, <1>00, <1>3, <2>1, UpdateThenForward DEF ClusterStatefulSetStatus
  <1>4. CASE PodStatus
    <2> DEFINE after == [rc EXCEPT !.status.ready = Running]
    <2>1. after \in CustomResource /\ KnownOperand(after)
      BY DEF TypeOK, CustomResource, Status, Running, KnownOperand
    <2>2. CASE Requeue \/ Conflict
      BY <2>2, RequeueForward DEF Conflict
    <2>3. CASE UpdateInfinispan(after) /\ pc' = "GracefulShutdownUpgrade"
      BY <1>0, <1>00, <2>1, <2>3, PatchForward DEF UpdateInfinispan, LeavesForward
    <2> QED BY <1>4, <2>2, <2>3 DEF PodStatus
  <1>5. CASE GracefulShutdown
    <2>1. CASE CheckServers
      <3>1. CASE Requeue
        BY <3>1, RequeueForward
      <3>2. CASE pc' = "StopServers" /\ UNCHANGED crVars
        BY <1>0, <1>00, <3>2, NoReport DEF LeavesForward
      <3> QED BY <2>1, <3>1, <3>2 DEF CheckServers, crVars
    <2>2. CASE RecordReplicas
      <3> DEFINE after == [rc EXCEPT !.status.wanted = rs.sts.replicas]
      <3>1. after \in CustomResource /\ KnownOperand(after)
        BY DEF TypeOK, CustomResource, Status, StsViews, StatefulSets,
               KnownOperand
      <3> QED
        BY <1>0, <1>00, <2>2, <3>1, UpdateThenForward DEF RecordReplicas
    <2>3. CASE CompleteStop
      <3> DEFINE after == [rc EXCEPT !.status.conds.graceful = TRUE,
                                     !.status.conds.stopping = FALSE]
      <3>1. after \in CustomResource /\ KnownOperand(after)
        BY DEF TypeOK, CustomResource, Status, Conditions, KnownOperand
      <3> QED
        BY <2>3, <3>1, RequeueForward, UpdateAndRequeueForward DEF CompleteStop
    <2>4. CASE Resume
      <3> DEFINE after == [rc EXCEPT !.status.replicas = rc.spec.replicas,
                                     !.status.wanted = 0,
                                     !.status.conds.graceful = FALSE,
                                     !.status.conds.scalingUp = TRUE]
      <3>1. after \in CustomResource
        BY ResumedType DEF TypeOK
      <3>2. KnownOperand(after)
        BY DEF TypeOK, CustomResource, Status, KnownOperand
      <3> QED
        BY <2>4, <3>1, <3>2, RequeueForward, UpdateAndRequeueForward DEF Resume
    <2>5. CASE Skip("AwaitUpgrade")
      BY <1>0, <1>00, <2>5, SkipForward
    <2> QED BY <1>5, <2>1, <2>2, <2>3, <2>4, <2>5 DEF GracefulShutdown
  <1>6. CASE StopServers
    <2> DEFINE after == [rc EXCEPT !.status.conds.stopping = TRUE,
                                   !.status.conds.wellFormed = "False"]
    <2>1. after \in CustomResource /\ KnownOperand(after)
      BY DEF TypeOK, CustomResource, Status, Conditions, KnownOperand
    <2>2. CASE Requeue
      BY <2>2, RequeueForward
    <2>3. CASE UNCHANGED <<crVars, pc>>
      BY <1>0, <1>00, <1>6, <2>3, NoReport DEF LeavesForward, StopServers
    <2>4. CASE UpdateAndRequeue(after)
      BY <2>1, <2>4, UpdateAndRequeueForward
    <2> QED BY <1>6, <2>2, <2>3, <2>4 DEF StopServers
  <1>7. CASE ScaleToZero \/ ServerCallFails
    BY <1>7, RequeueForward DEF ScaleToZero, ServerCallFails
  <1>8. CASE AwaitUpgrade
    BY <1>0, <1>00, <1>8, RequeueForward, SkipForward DEF AwaitUpgrade
  <1>9. CASE ClusterScaling
    <2> DEFINE down   == [rc EXCEPT !.status.conds.scalingDown = TRUE]
               up     == [rc EXCEPT !.status.conds.scalingUp = TRUE]
               scaled == [rc EXCEPT !.status.replicas = rc.spec.replicas,
                                    !.status.conds.scalingUp = FALSE,
                                    !.status.conds.scalingDown = FALSE]
    <2>1. /\ down \in CustomResource /\ KnownOperand(down)
          /\ up \in CustomResource /\ KnownOperand(up)
      BY DEF TypeOK, CustomResource, Status, Conditions, KnownOperand
    <2>2. scaled \in CustomResource /\ KnownOperand(scaled)
      BY DEF TypeOK, CustomResource, SpecFields, Status, Conditions, KnownOperand
    <2>3. CASE Skip("StatefulSetRollingUpgrade") \/ Requeue \/ Conflict
      BY <1>0, <1>00, <2>3, SkipForward, RequeueForward DEF Conflict
    <2>4. CASE UpdateAndRequeue(down) \/ UpdateAndRequeue(up)
      BY <2>1, <2>4, UpdateAndRequeueForward
    <2>5. CASE /\ cache = rc /\ Patch(scaled)
               /\ Proceed("StatefulSetRollingUpgrade")
      BY <1>0, <1>00, <2>2, <2>5, PatchForward DEF Proceed, LeavesForward
    <2> QED BY <1>9, <2>3, <2>4, <2>5 DEF ClusterScaling
  <1>10. CASE StatefulSetRollingUpgrade
    BY <1>0, <1>00, <1>10, NoReport DEF StatefulSetRollingUpgrade, LeavesForward, crVars
  <1>11. CASE AwaitPodIps
    <2> DEFINE after == [rc EXCEPT !.status.conds.wellFormed = "Unknown"]
    <2>1. after \in CustomResource /\ KnownOperand(after)
      BY DEF TypeOK, CustomResource, Status, Conditions, KnownOperand
    <2> QED
      BY <1>0, <1>00, <1>11, <2>1, SkipForward, UpdateAndRequeueForward
      DEF AwaitPodIps
  <1>12. CASE EnableRebalanceAfterScaleUp
    <2> DEFINE after == [rc EXCEPT !.status.conds.scalingUp = FALSE]
    <2>1. after \in CustomResource /\ KnownOperand(after)
      BY DEF TypeOK, CustomResource, Status, Conditions, KnownOperand
    <2> QED
      BY <1>0, <1>00, <1>12, <2>1, SkipForward, RequeueForward,
         UpdateAndRequeueForward
      DEF EnableRebalanceAfterScaleUp
  <1>13. CASE AwaitWellFormedCondition
    <2> DEFINE after == [rc EXCEPT
                           !.status.conds.wellFormed = wellFormedCondition,
                           !.status.phase = IF wellFormedCondition = "True"
                                            THEN "Running" ELSE @]
    <2>1. wellFormedCondition \in {"True", "False", "Unknown"}
      BY DEF wellFormedCondition
    <2>2. after \in CustomResource /\ KnownOperand(after)
      BY <2>1 DEF TypeOK, CustomResource, Status, Conditions, KnownOperand
    <2> QED
      BY <1>0, <1>00, <1>13, <2>2, UpdateThenForward, UpdateAndRequeueForward
      DEF AwaitWellFormedCondition
  <1>14. CASE ConfigListener
    BY <1>14, NoReport, IdleForward DEF ConfigListener
  <1> QED
    BY <1>1, <1>2, <1>3, <1>4, <1>5, <1>6, <1>7, <1>8, <1>9, <1>10, <1>11,
       <1>12, <1>13, <1>14
    DEF Quiet

\* None of these handlers touches the servers' version or the volumes.
LEMMA QuietServers ==
    ASSUME TypeOK, Quiet
    PROVE  SameServers
  <1>1. CASE UNCHANGED clusterVars
    BY <1>1, UnchangedServers
  <1>2. CASE UNCHANGED <<sts, pod, opened>>
    BY <1>2 DEF SameServers, Pods
  <1>3. CASE StopServers
    <2>1. sts' = sts /\ opened' = opened
      BY <1>3 DEF StopServers
    <2>2. CASE \E i \in rp.ready :
                 pod[i] = "running" /\ pod' = [pod EXCEPT ![i] = "stopped"]
      BY <2>1, <2>2 DEF SameServers, Pods, TypeOK
    <2>3. CASE UNCHANGED pod
      BY <2>1, <2>3 DEF SameServers, Pods
    <2> QED BY <1>3, <2>2, <2>3 DEF StopServers
  <1>4. CASE ScaleToZero \/ StatefulSetRollingUpgrade
    <2>1. UNCHANGED <<pod, opened>>
      BY <1>4 DEF ScaleToZero, StatefulSetRollingUpgrade
    <2>2. sts'.version = sts.version /\ sts'.exists = sts.exists
      BY <1>4 DEF ScaleToZero, StatefulSetRollingUpgrade, TypeOK, StatefulSets
    <2> QED BY <2>1, <2>2 DEF SameServers, Pods
  <1>5. CASE GracefulShutdown
    BY <1>1, <1>2, <1>5
    DEF GracefulShutdown, CheckServers, RecordReplicas, CompleteStop, Resume
  <1> QED
    BY <1>1, <1>2, <1>3, <1>4, <1>5
    DEF Quiet, PreliminaryCondition, ScheduleStatus, ClusterStatefulSetStatus,
        PodStatus, UpgradeStatus, AwaitUpgrade, ClusterScaling, AwaitPodIps,
        EnableRebalanceAfterScaleUp, AwaitWellFormedCondition, ConfigListener,
        ServerCallFails

\* A reconcile starts with the informer's copy.
LEMMA ReconcileAdvance ==
    ASSUME TypeOK, TypeOK', VersionsAdvance, Reconcile, UNCHANGED cache
    PROVE  VersionsAdvance'
  <1>1. DeliveryOrdered'
    BY DeliveryKept DEF VersionsAdvance, StoresNotOlder, Reconcile, crVars
  <1>2. SecondPatchCurrent'
    BY DEF Reconcile, SecondPatchCurrent
  <1>3. SameServers
    BY UnchangedServers DEF Reconcile
  <1>4. cache.status.operand \in Nat
    BY VersionTypes DEF TypeOK
  <1> QED
    BY <1>1, <1>2, <1>3, <1>4
    DEF VersionsAdvance, Reconcile, crVars, SameServers

\* PreliminaryChecks goes on with a copy of the informer's, conflict or not.
LEMMA PreliminaryChecksAdvance ==
    ASSUME TypeOK, TypeOK', VersionsAdvance, PreliminaryChecks, UNCHANGED cache
    PROVE  VersionsAdvance'
  <1>1. SameServers
    BY UnchangedServers DEF PreliminaryChecks
  <1>2. "PreliminaryCondition" \notin CopyMatters
    BY DEF CopyMatters, UnpatchedHandlers
  <1> DEFINE after == [rc EXCEPT !.status.replicas = rc.spec.replicas]
  <1>3. after \in CustomResource /\ KnownOperand(after)
    BY DEF TypeOK, CustomResource, SpecFields, Status, KnownOperand
  <1>4. CASE UpdateInfinispan(after) /\ Proceed("PreliminaryCondition")
    BY <1>1, <1>2, <1>3, <1>4, UpdateThenForward, QuietStep DEF UpdateThen
  <1>5. CASE UNCHANGED crVars /\ Proceed("PreliminaryCondition")
    BY <1>1, <1>2, <1>5, NoReport, QuietStep DEF LeavesForward, Proceed
  <1>6. CASE Skip("PreliminaryCondition")
    BY <1>1, <1>2, <1>6, SkipForward, QuietStep
  <1>7. CASE Skip("ClusterService")
    BY <1>1, <1>7, CopyKeptStep DEF PreliminaryChecks, UnpatchedHandlers
  <1> QED
    BY <1>4, <1>5, <1>6, <1>7 DEF PreliminaryChecks

\* Provisioning the Service leaves versions alone.
LEMMA ClusterServiceAdvance ==
    ASSUME TypeOK, TypeOK', VersionsAdvance, ClusterService, UNCHANGED cache
    PROVE  VersionsAdvance'
  BY UnchangedServers, CopyKeptStep DEF ClusterService, UnpatchedHandlers

\* Scheduling, or finishing, an upgrade.
LEMMA SpecPatchAdvance ==
    ASSUME TypeOK, TypeOK', VersionsAdvance, UNCHANGED cache, SameServers,
           ReportsForward, SecondPatchCurrent', pc' \notin UnpatchedHandlers
    PROVE  VersionsAdvance'
  <1>1. DeliveryOrdered'
    BY DeliveryKept DEF VersionsAdvance, ReportsForward
  <1> QED
    BY <1>1 DEF VersionsAdvance, ReportsForward, SameServers

\* Scheduling an upgrade reports the operand requested in the informer's copy.
LEMMA ScheduleAdvance ==
    ASSUME TypeOK, TypeOK', VersionsAdvance, ScheduleGracefulShutdownUpgrade,
           UNCHANGED cache
    PROVE  VersionsAdvance'
  <1>1. SameServers
    BY UnchangedServers DEF ScheduleGracefulShutdownUpgrade
  <1> DEFINE after == [rc EXCEPT !.spec.replicas = 0,
                                 !.status.conds.upgrade = TRUE,
                                 !.status.operand = rc.spec.version,
                                 !.status.phase = "Pending"]
  <1>2. after \in CustomResource
    BY ZeroReplicas, ZenonT(30) DEF TypeOK, CustomResource, SpecFields, Status, Conditions
  <1>3. KnownOperand(after)
    BY DEF TypeOK, CustomResource, Status, KnownOperand
  <1>4. CASE Skip("PodStatus")
    <2>1. "PodStatus" \notin CopyMatters
      BY DEF CopyMatters, UnpatchedHandlers
    <2> QED BY <1>1, <1>4, <2>1, SkipForward, QuietStep
  <1>5. CASE Skip("ClusterStatefulSet")
    BY <1>1, <1>5, CopyKeptStep
    DEF ScheduleGracefulShutdownUpgrade, UnpatchedHandlers
  <1>6. CASE UpdateSpecThenStatus(after, "ScheduleStatus")
    BY <1>1, <1>2, <1>3, <1>6, SpecPatchForward, SpecPatchAdvance
  <1> QED
    BY <1>4, <1>5, <1>6 DEF ScheduleGracefulShutdownUpgrade

\* Finishing an upgrade reports no other operand.
LEMMA UpgradeSpecAdvance ==
    ASSUME TypeOK, TypeOK', VersionsAdvance, UpgradeSpec, UNCHANGED cache
    PROVE  VersionsAdvance'
  <1> DEFINE after == [rc EXCEPT !.spec.replicas = rc.status.wanted,
                                 !.status.conds.upgrade = FALSE]
  <1>1. after \in CustomResource
    BY UpgradedType
  <1>2. KnownOperand(after)
    BY DEF TypeOK, CustomResource, Status, KnownOperand
  <1> QED
    BY <1>1, <1>2, UnchangedServers, SpecPatchForward, SpecPatchAdvance
    DEF UpgradeSpec

\* The StatefulSet is created with the operand of the copy read at the start.
LEMMA ClusterStatefulSetAdvance ==
    ASSUME TypeOK, TypeOK', VersionsAdvance, ClusterStatefulSet, UNCHANGED cache
    PROVE  VersionsAdvance'
  <1>1. pc \in UnpatchedHandlers /\ pc' \notin CopyMatters /\ UNCHANGED crVars
    BY DEF ClusterStatefulSet, UnpatchedHandlers, CopyMatters, crVars
  <1>2. LeavesForward
    BY <1>1, NoReport DEF LeavesForward
  <1>3. CASE sts.exists
    <2>1. SameServers
      BY <1>3 DEF ClusterStatefulSet, SameServers, Pods
    <2> QED BY <1>2, <2>1, QuietStep
  <1>4. CASE ~sts.exists
    <2>1. sts'.exists /\ sts'.version = rc.status.operand /\ opened' = opened
      BY <1>4 DEF ClusterStatefulSet
    <2>2. DeliveryOrdered'
      BY <1>1, DeliveryKept DEF VersionsAdvance, StoresNotOlder, crVars
    <2>3. SecondPatchCurrent'
      BY <1>1 DEF SecondPatchCurrent, CopyMatters
    <2> QED
      BY <1>1, <1>4, <2>1, <2>2, <2>3
      DEF VersionsAdvance, crVars, CopyMatters
  <1> QED BY <1>3, <1>4

\* Deleting the StatefulSet leaves the volumes to the next operand.
LEMMA GracefulShutdownUpgradeAdvance ==
    ASSUME TypeOK, TypeOK', VersionsAdvance, GracefulShutdownUpgrade,
           UNCHANGED cache
    PROVE  VersionsAdvance'
  <1>1. pc' \notin CopyMatters /\ UNCHANGED crVars
    BY DEF GracefulShutdownUpgrade, Skip, Proceed, CopyMatters, UnpatchedHandlers
  <1>2. LeavesForward
    BY <1>1, NoReport DEF LeavesForward
  <1>3. CASE UNCHANGED clusterVars
    BY <1>2, <1>3, UnchangedServers, QuietStep
  <1>4. CASE destroyResources
    <2>1. /\ ~sts'.exists /\ sts'.version = 0 /\ opened' = opened
          /\ Pods' = {}
      BY <1>4 DEF destroyResources, NoSts, NoVersion, Pods
    <2>2. DeliveryOrdered'
      BY <1>1, DeliveryKept DEF VersionsAdvance, StoresNotOlder, crVars
    <2>3. SecondPatchCurrent'
      BY <1>1 DEF SecondPatchCurrent, CopyMatters
    <2>4. cache.status.operand \in Nat
      BY VersionTypes DEF TypeOK
    <2> QED
      BY <1>1, <2>1, <2>2, <2>3, <2>4 DEF VersionsAdvance, crVars, CopyMatters
  <1> QED BY <1>3, <1>4 DEF GracefulShutdownUpgrade

\* Every step of the operator keeps VersionsAdvance.
LEMMA OperatorAdvance ==
    ASSUME TypeOK, VersionsAdvance, Operator PROVE VersionsAdvance'
  <1>1. TypeOK' /\ UNCHANGED cache
    BY OperatorType DEF Operator
  <1>2. CASE Quiet
    BY <1>1, <1>2, QuietForward, QuietServers, QuietStep
  <1> QED
    BY <1>1, <1>2, ReconcileAdvance, PreliminaryChecksAdvance,
       ClusterServiceAdvance, ScheduleAdvance, UpgradeSpecAdvance,
       ClusterStatefulSetAdvance, GracefulShutdownUpgradeAdvance
    DEF Operator, Quiet

-----------------------------------------------------------------------------
(***************************************************************************)
(* The other actors.                                                       *)
(***************************************************************************)

\* The webhook lets a user change the requested version only upwards.
LEMMA UserAdvance ==
    ASSUME TypeOK, TypeOK', VersionsAdvance, UserScales \/ UserUpgrades
    PROVE  VersionsAdvance'
  <1>1. PICK new : Edit(new) /\ new.status = cr.status
                     /\ new.spec.version >= cr.spec.version
    <2>1. CASE UserScales
      <3>1. PICK n \in Replicas : Edit([cr EXCEPT !.spec.replicas = n])
        BY <2>1 DEF UserScales
      <3>2. /\ [cr EXCEPT !.spec.replicas = n].status = cr.status
            /\ [cr EXCEPT !.spec.replicas = n].spec.version = cr.spec.version
        BY DEF TypeOK, CustomResource, SpecFields
      <3>3. cr.spec.version >= cr.spec.version
        BY VersionTypes DEF TypeOK
      <3> QED BY <3>1, <3>2, <3>3
    <2>2. CASE UserUpgrades
      <3>1. PICK v \in Version : /\ v > cr.spec.version
                                 /\ Edit([cr EXCEPT !.spec.version = v])
        BY <2>2 DEF UserUpgrades, AdmitVersion
      <3>2. /\ [cr EXCEPT !.spec.version = v].status = cr.status
            /\ [cr EXCEPT !.spec.version = v].spec.version = v
        BY DEF TypeOK, CustomResource, SpecFields
      <3>3. v \in Nat /\ cr.spec.version \in Nat
        BY VersionTypes, BoundsAssumption DEF TypeOK, Version
      <3>4. v >= cr.spec.version
        BY <3>1, <3>3
      <3> QED BY <3>1, <3>2, <3>4
    <2> QED BY <2>1, <2>2
  <1>2. cr' = new /\ (UNCHANGED <<cr, watch>> \/ watch' = Append(watch, new))
    BY <1>1 DEF Edit, Write
  <1>3. NotNewer(cr, cr')
    BY <1>1, <1>2, VersionTypes DEF NotNewer, TypeOK
  <1>4. UNCHANGED <<cache, pc, rc, sts, pod, opened>>
    BY <1>1 DEF Edit, reconcileVars, clusterVars
  <1>5. DeliveryOrdered'
    BY <1>2, <1>3, <1>4, DeliveryKept DEF VersionsAdvance, StoresNotOlder
  <1>6. cr'.status.operand = cr.status.operand
    BY <1>1, <1>2
  <1> QED
    BY <1>4, <1>5, <1>6
    DEF VersionsAdvance, SecondPatchCurrent, Pods

\* The informer moves on to a version that is not older.
LEMMA InformerAdvance ==
    ASSUME TypeOK, TypeOK', VersionsAdvance, InformerDelivers
    PROVE  VersionsAdvance'
  <1>1. /\ cache' = watch[1] /\ Len(watch) \in Nat /\ Len(watch) >= 1
        /\ Len(watch') = Len(watch) - 1
        /\ \A i \in 1..Len(watch') : watch'[i] = watch[i + 1]
    BY HeadTailProperties DEF InformerDelivers, TypeOK
  <1>2. UNCHANGED <<cr, pc, rc, sts, pod, opened>>
    BY DEF InformerDelivers, reconcileVars, clusterVars
  <1>3. NotNewer(cache, cache') /\ NotNewer(cache', cr')
    BY <1>1, <1>2 DEF VersionsAdvance, DeliveryOrdered
  <1>4. DeliveryOrdered'
    <2>1. ASSUME NEW i \in 1..Len(watch')
          PROVE  NotNewer(cache', watch'[i]) /\ NotNewer(watch'[i], cr')
      BY <1>1, <1>2 DEF VersionsAdvance, DeliveryOrdered
    <2>2. ASSUME NEW i \in 1..Len(watch'), NEW j \in 1..Len(watch'), i <= j
          PROVE  NotNewer(watch'[i], watch'[j])
      BY <1>1, <2>2 DEF VersionsAdvance, DeliveryOrdered
    <2> QED BY <1>3, <2>1, <2>2 DEF DeliveryOrdered
  <1>5. /\ cr.status.operand \in Nat /\ rc.status.operand \in Nat
        /\ cache.spec.version \in Nat /\ cache.status.operand \in Nat
        /\ cache'.spec.version \in Nat /\ cache'.status.operand \in Nat
        /\ sts.version \in Nat /\ opened \in Nat
    BY VersionTypes, ClusterVersionTypes DEF TypeOK
  <1> QED
    BY <1>2, <1>3, <1>4, <1>5
    DEF VersionsAdvance, SecondPatchCurrent, NotNewer, Pods

\* Only a pod of the StatefulSet starts a server.
LEMMA PodAdvance ==
    ASSUME TypeOK, TypeOK', VersionsAdvance,
           \/ PodCreated \/ PodDeleted \/ ServerStarted
           \/ ContainerRestarted \/ PodEvicted
    PROVE  VersionsAdvance'
  <1>1. PICK i \in Index, state \in ServerStates : PodChanges(i, state)
    BY DEF PodCreated, PodDeleted, ServerStarted, ContainerRestarted,
           PodEvicted, ServerStates
  <1>2. UNCHANGED <<cr, watch, cache, pc, rc, sts>>
    BY <1>1 DEF PodChanges, crVars, reconcileVars
  <1>3. DeliveryOrdered' /\ SecondPatchCurrent'
    BY <1>2 DEF VersionsAdvance, DeliveryOrdered, SecondPatchCurrent
  <1>4. CASE PodCreated
    BY <1>2, <1>3, <1>4 DEF PodCreated, VersionsAdvance
  <1>5. CASE ServerStarted
    <2>1. sts.exists /\ opened' = sts.version
      BY <1>5 DEF ServerStarted, VersionsAdvance, Pods
    <2>2. sts.version \in Nat
      BY ClusterVersionTypes
    <2> QED BY <1>2, <1>3, <2>1, <2>2 DEF VersionsAdvance
  <1>6. CASE PodDeleted \/ ContainerRestarted \/ PodEvicted
    <2>1. sts.exists /\ opened' = opened
      BY <1>6
      DEF PodDeleted, ContainerRestarted, PodEvicted, VersionsAdvance, Pods
    <2> QED BY <1>2, <1>3, <2>1 DEF VersionsAdvance
  <1> QED BY <1>4, <1>5, <1>6

\* The new process starts from the API server's version.
LEMMA CrashAdvance ==
    ASSUME TypeOK, TypeOK', VersionsAdvance, OperatorCrashes
    PROVE  VersionsAdvance'
  <1>1. /\ cr.spec.version \in Nat /\ cr.status.operand \in Nat
        /\ cache.spec.version \in Nat /\ cache.status.operand \in Nat
        /\ sts.version \in Nat /\ opened \in Nat
    BY VersionTypes, ClusterVersionTypes DEF TypeOK
  <1>2. /\ cr' = cr /\ cache' = cr /\ watch' = <<>> /\ pc' = "idle"
        /\ UNCHANGED <<sts, pod, opened>>
    BY DEF OperatorCrashes, clusterVars
  <1>3. DeliveryOrdered'
    BY <1>1, <1>2 DEF DeliveryOrdered, NotNewer
  <1>4. "idle" \notin CopyMatters
    BY DEF CopyMatters, UnpatchedHandlers
  <1> QED
    BY <1>1, <1>2, <1>3, <1>4
    DEF VersionsAdvance, DeliveryOrdered, NotNewer, SecondPatchCurrent,
        CopyMatters, Pods

\* A new cluster has no volumes and reports no operand.
LEMMA InitAdvance == Init => VersionsAdvance
  <1> SUFFICES ASSUME Init PROVE VersionsAdvance
    OBVIOUS
  <1>1. Pods = {} /\ pc = "idle" /\ opened = 0 /\ sts.version = 0 /\ ~sts.exists
    BY DEF Init, Pods, NoSts, NoVersion
  <1>2. cr.status.operand = 0 /\ cache = cr /\ cr.spec.version = 1 /\ watch = <<>>
    BY DEF Init, NewCR, NoVersion
  <1>3. DeliveryOrdered
    BY <1>2 DEF DeliveryOrdered, NotNewer
  <1> QED
    BY <1>1, <1>2, <1>3 DEF VersionsAdvance, SecondPatchCurrent, UnpatchedHandlers

\* Every step keeps VersionsAdvance.
LEMMA NextAdvance == TypeOK /\ VersionsAdvance /\ [Next]_vars => VersionsAdvance'
  <1> SUFFICES ASSUME TypeOK, VersionsAdvance, [Next]_vars PROVE VersionsAdvance'
    OBVIOUS
  <1>0. TypeOK'
    BY NextType
  <1>1. CASE UNCHANGED vars
    BY <1>1
    DEF vars, VersionsAdvance, DeliveryOrdered, SecondPatchCurrent, Pods,
        crVars, reconcileVars, clusterVars
  <1> QED
    BY <1>0, <1>1, OperatorAdvance, UserAdvance, InformerAdvance, PodAdvance,
       CrashAdvance
    DEF Next, Kubernetes

\* The inductive invariant holds in every behaviour.
THEOREM Advance == Spec => []VersionsAdvance
  BY InitType, NextType, InitAdvance, NextAdvance, PTL DEF Spec

-----------------------------------------------------------------------------
(***************************************************************************)
(* What follows for two consecutive states.                                *)
(***************************************************************************)

\* Every step of the operator reports forward.
LEMMA OperatorForward ==
    ASSUME TypeOK, VersionsAdvance, Operator PROVE ReportsForward
  <1>1. TypeOK' /\ UNCHANGED cache
    BY OperatorType DEF Operator
  <1>2. CASE Quiet
    BY <1>2, QuietForward DEF LeavesForward
  <1>3. CASE UNCHANGED crVars
    BY <1>3, NoReport
  <1>4. CASE PreliminaryChecks
    <2> DEFINE after == [rc EXCEPT !.status.replicas = rc.spec.replicas]
    <2>1. after \in CustomResource /\ KnownOperand(after)
      BY DEF TypeOK, CustomResource, SpecFields, Status, KnownOperand
    <2>2. CASE UpdateInfinispan(after)
      BY <2>1, <2>2, PatchForward DEF UpdateInfinispan
    <2> QED
      BY <1>3, <1>4, <2>2 DEF PreliminaryChecks, Skip
  <1>5. CASE ScheduleGracefulShutdownUpgrade
    <2> DEFINE after == [rc EXCEPT !.spec.replicas = 0,
                                   !.status.conds.upgrade = TRUE,
                                   !.status.operand = rc.spec.version,
                                   !.status.phase = "Pending"]
    <2>1. after \in CustomResource
      BY ZeroReplicas, ZenonT(30) DEF TypeOK, CustomResource, SpecFields, Status, Conditions
    <2>2. KnownOperand(after)
      BY DEF TypeOK, CustomResource, Status, KnownOperand
    <2>3. CASE UpdateSpecThenStatus(after, "ScheduleStatus")
      BY <1>1, <2>1, <2>2, <2>3, SpecPatchForward
    <2> QED
      BY <1>3, <1>5, <2>3 DEF ScheduleGracefulShutdownUpgrade, Skip
  <1>6. CASE UpgradeSpec
    <2> DEFINE after == [rc EXCEPT !.spec.replicas = rc.status.wanted,
                                   !.status.conds.upgrade = FALSE]
    <2>1. KnownOperand(after)
      BY DEF TypeOK, CustomResource, Status, KnownOperand
    <2> QED
      BY <1>1, <1>6, <2>1, UpgradedType, SpecPatchForward DEF UpgradeSpec
  <1>7. CASE \/ Reconcile \/ ClusterService \/ ClusterStatefulSet
             \/ GracefulShutdownUpgrade
    BY <1>3, <1>7
    DEF Reconcile, ClusterService, ClusterStatefulSet, GracefulShutdownUpgrade,
        Skip
  <1> QED
    BY <1>2, <1>4, <1>5, <1>6, <1>7 DEF Operator, Quiet

\* No actor replaces the reported operand by an older one: the operator reports
\* forward and the others leave the status alone.
LEMMA OperandStep ==
    TypeOK /\ VersionsAdvance /\ [Next]_vars
    => [cr'.status.operand >= cr.status.operand]_vars
  <1> SUFFICES ASSUME TypeOK, VersionsAdvance, Next
               PROVE  cr'.status.operand >= cr.status.operand
    OBVIOUS
  <1>0. /\ cr.status.operand \in Nat /\ cr'.status.operand \in Nat
        /\ TypeOK'
    BY NextType, VersionTypes DEF TypeOK
  <1>1. CASE Operator
    BY <1>0, <1>1, OperatorForward DEF ReportsForward
  <1>2. CASE UserScales \/ UserUpgrades
    <2>1. cr'.status = cr.status
      BY <1>2
      DEF UserScales, UserUpgrades, Edit, Write, TypeOK, CustomResource
    <2> QED BY <1>0, <2>1
  <1>3. CASE Kubernetes \/ OperatorCrashes \/ ContainerRestarted \/ PodEvicted
    <2>1. UNCHANGED cr
      BY <1>3
      DEF Kubernetes, InformerDelivers, PodCreated, PodDeleted, ServerStarted,
          OperatorCrashes, ContainerRestarted, PodEvicted, PodChanges, crVars
    <2> QED BY <1>0, <2>1
  <1> QED BY <1>1, <1>2, <1>3 DEF Next

\* The servers only move forward: a server starts from a StatefulSet whose
\* operand is as new as any that opened the volumes.
LEMMA DataStep ==
    TypeOK /\ VersionsAdvance /\ [Next]_vars => [opened' >= opened]_vars
  <1> SUFFICES ASSUME TypeOK, VersionsAdvance, Next
               PROVE  opened' >= opened
    OBVIOUS
  <1>0. opened \in Nat /\ sts.version \in Nat
    BY ClusterVersionTypes
  <1>1. CASE ServerStarted
    <2>1. Pods # {} /\ opened' = sts.version
      BY <1>1 DEF ServerStarted, Pods
    <2> QED BY <1>0, <2>1 DEF VersionsAdvance
  <1>2. CASE UNCHANGED opened
    BY <1>0, <1>2
  <1>3. CASE Operator
    <2>1. CASE Quiet
      BY <1>2, <2>1, QuietServers DEF SameServers
    <2>2. CASE \/ Reconcile \/ PreliminaryChecks \/ ClusterService
               \/ ScheduleGracefulShutdownUpgrade \/ UpgradeSpec
               \/ ClusterStatefulSet \/ GracefulShutdownUpgrade
      BY <1>2, <2>2
      DEF Reconcile, PreliminaryChecks, ClusterService,
          ScheduleGracefulShutdownUpgrade, UpgradeSpec, ClusterStatefulSet,
          GracefulShutdownUpgrade, destroyResources, clusterVars
    <2> QED BY <1>3, <2>1, <2>2 DEF Operator, Quiet
  <1>4. CASE UserScales \/ UserUpgrades
    BY <1>2, <1>4 DEF UserScales, UserUpgrades, Edit, clusterVars
  <1>5. CASE \/ InformerDelivers \/ PodCreated \/ PodDeleted
             \/ OperatorCrashes \/ ContainerRestarted \/ PodEvicted
    BY <1>2, <1>5
    DEF InformerDelivers, PodCreated, PodDeleted, OperatorCrashes,
        ContainerRestarted, PodEvicted, clusterVars
  <1> QED BY <1>1, <1>3, <1>4, <1>5 DEF Next, Kubernetes

\* The operand that status.operand reports never goes backwards, however far
\* the informer lags behind, whenever the operator crashes and whatever the
\* user edits meanwhile.
THEOREM OperandKept == Spec => OperandNeverReverts
  BY InitType, NextType, InitAdvance, NextAdvance, OperandStep, PTL
  DEF Spec, OperandNeverReverts

\* No server starts on volumes that a newer server has opened.
THEOREM DataKept == Spec => DataNeverDowngraded
  BY InitType, NextType, InitAdvance, NextAdvance, DataStep, PTL
  DEF Spec, DataNeverDowngraded

=============================================================================
