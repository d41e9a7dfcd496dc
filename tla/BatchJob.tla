------------------------------ MODULE BatchJob ------------------------------
(***************************************************************************)
(* A Batch resource: the Batch controller (controllers/batch_controller.go)*)
(* runs a script of CLI commands against a cluster, once, as a Kubernetes  *)
(* Job. The controller reads Batch and Job from the manager's cache, which *)
(* lags behind the API server, and writes phases with merge patches that   *)
(* carry no resourceVersion; Job and ConfigMap have the name of the batch, *)
(* whichever batch of that name they were made for. The informers of the   *)
(* ConfigMap and the Infinispan resource are taken to be up to date.       *)
(***************************************************************************)
EXTENDS Naturals, FiniteSets

CONSTANTS
    Specs,      \* the specs users write
    MaxBatches, \* bound: how often the batch is created
    MaxUids,    \* bound: how many Infinispan resources of the name there are
    Changes,    \* the kinds of change users and clusters make
    MaxChanges, \* bound: how many of them
    MaxHurry,   \* bound: how often a batch is created again before the controller
                \* has seen that the last one is gone
    MaxCrashes  \* bound: crashes of the operator

ASSUME BoundsAssumption ==
    /\ MaxBatches \in Nat /\ MaxUids \in Nat \ {0} /\ MaxChanges \in Nat /\ MaxHurry \in Nat /\ MaxCrashes \in Nat

None == [none |-> TRUE]
Phases == {"", "Initializing", "Initialized", "Running", "Succeeded", "Failed"}
Terminal == {"Succeeded", "Failed"}
Uid == 1..MaxBatches
ClusterUid == 0..MaxUids \* 0: not set, or no such resource

(* config, configMap: which of the two the spec gives; req <= limit: the   *)
(* container's resources, in units.                                        *)
Spec0 == [config: BOOLEAN, configMap: BOOLEAN, req: 0..2, limit: 0..2]
ASSUME SpecsAssumption == Specs \subseteq Spec0
Batch == [uid: Uid, spec: Spec0, phase: Phases, clusterUID: ClusterUid, paused: BOOLEAN, pausedCond: BOOLEAN]
Job == [owner: Uid, cluster: ClusterUid, mounts: BOOLEAN, state: {"pending", "active", "failing", "succeeded", "failed"}]

VARIABLES
    batch,     \* the stored Batch, or None
    job,       \* the stored Job, or None
    configMap, \* the uid of the batch the ConfigMap belongs to, 0 without one
    cluster,   \* the Infinispan resource: its uid (0 without one), is it stable, and
               \* the last uid there was
    seen,      \* the cache: the Batch and the Job as last delivered
    queued,    \* is the batch in the controller's queue?
    ctl,       \* the reconciliation in progress: its next call, and what it has read
    ran,       \* Jobs that came to an end, with their result (history)
    created,   \* how many batches were created
    started,   \* how many Jobs were created for each batch: 0, 1 or more (history)
    changes, hurry, crashes

vars == <<batch, job, configMap, cluster, seen, queued, ctl, ran, created, started, changes, hurry, crashes>>
history == <<ran, created, started, changes, hurry, crashes>>

Idle == [pc |-> "idle", to |-> "", clusterUID |-> 0]

Init ==
    /\ batch = None /\ job = None /\ configMap = 0
    /\ cluster = [uid |-> 1, stable |-> TRUE, last |-> 1]
    /\ seen = [batch |-> None, job |-> None]
    /\ queued = FALSE /\ ctl = Idle
    /\ ran = {} /\ created = 0 /\ started = [u \in Uid |-> 0]
    /\ changes = 0 /\ hurry = 0 /\ crashes = 0

(***************************************************************************)
(* Reconcile                                                               *)
(***************************************************************************)
Taken == queued /\ ctl = Idle
(* A batch queued again during its reconciliation stays queued.            *)
Ends(requeue) == queued' = (requeue \/ (ctl # Idle /\ queued)) /\ ctl' = Idle
Reading == UNCHANGED <<job, configMap, cluster, seen>> /\ UNCHANGED history

(* What a merge patch from the cached copy to "new" makes of the stored    *)
(* batch: fields that do not differ are not sent.                          *)
Patched(new) == [f \in DOMAIN batch |-> IF new[f] = seen.batch[f] THEN batch[f] ELSE new[f]]

(* update, the last call of a reconciliation: an unknown batch is an error. *)
Update(new) ==
    IF seen.batch = None \/ batch = None
    THEN UNCHANGED batch /\ Ends(TRUE)
    ELSE batch' = Patched(new) /\ Ends(FALSE)

UpdatePhase(to) == Update([seen.batch EXCEPT !.phase = to])

(* HandleReconciliationPause. Status().Update carries the version that was *)
(* read: it fails for a copy that is out of date. A cleared condition      *)
(* would let the reconciliation carry on; here its write starts another.   *)
Pausing == seen.batch.paused \/ seen.batch.pausedCond
(* Mutant: the status is written whatever its version.                     *)
PauseUnchecked ==
    /\ Taken /\ seen.batch # None /\ Pausing
    /\ IF seen.batch.paused = seen.batch.pausedCond \/ batch = None THEN UNCHANGED batch /\ Ends(FALSE)
       ELSE batch' = [batch EXCEPT !.pausedCond = seen.batch.paused, !.phase = seen.batch.phase] /\ Ends(FALSE)
    /\ Reading

Pause ==
    /\ Taken /\ seen.batch # None /\ Pausing
    /\ IF seen.batch.paused = seen.batch.pausedCond THEN UNCHANGED batch /\ Ends(FALSE)
       ELSE IF batch # seen.batch THEN UNCHANGED batch /\ Ends(TRUE)
       ELSE batch' = [batch EXCEPT !.pausedCond = batch.paused] /\ Ends(FALSE)
    /\ Reading

InPhase(phase) == Taken /\ seen.batch # None /\ ~Pausing /\ seen.batch.phase = phase

Ignore ==
    /\ (Taken /\ seen.batch = None) \/ \E p \in Terminal : InPhase(p)
    /\ Ends(FALSE) /\ UNCHANGED batch /\ Reading

Accept ==
    /\ InPhase("")
    /\ UpdatePhase("Initializing") /\ Reading

(* LookupResource and EnsureClusterStability: come back later.             *)
AwaitCluster ==
    /\ \/ InPhase("Initializing") /\ (cluster.uid = 0 \/ ~cluster.stable)
       \/ InPhase("Initialized") /\ cluster.uid = 0
    /\ Ends(TRUE) /\ UNCHANGED batch /\ Reading

(* A ConfigMap another batch controls is an error.                         *)
InitializeResources ==
    /\ InPhase("Initializing") /\ cluster.uid # 0 /\ cluster.stable
    /\ IF ~seen.batch.spec.configMap /\ configMap \notin {0, seen.batch.uid}
       THEN Ends(TRUE) /\ UNCHANGED configMap
       ELSE /\ configMap' = IF seen.batch.spec.configMap THEN configMap ELSE seen.batch.uid
            /\ queued' = FALSE
            /\ ctl' = [pc |-> "initialized", to |-> "Initialized", clusterUID |-> cluster.uid]
    /\ UNCHANGED <<batch, job, cluster, seen>> /\ UNCHANGED history

StoreInitialized ==
    /\ ctl.pc = "initialized"
    /\ Update([seen.batch EXCEPT !.phase = ctl.to, !.clusterUID = ctl.clusterUID])
    /\ Reading

ClusterReplaced ==
    /\ InPhase("Initialized") /\ cluster.uid \notin {0, seen.batch.clusterUID}
    /\ UpdatePhase("Failed") /\ Reading

(* Mutant: whatever Job has the name is taken for the batch's own.         *)
ExecuteAny ==
    /\ InPhase("Initialized") /\ cluster.uid # 0 /\ cluster.uid = seen.batch.clusterUID
    /\ IF seen.job # None
       THEN queued' = FALSE /\ ctl' = [Idle EXCEPT !.pc = "running", !.to = "Running"] /\ UNCHANGED <<job, started>>
       ELSE IF job # None
       THEN Ends(TRUE) /\ UNCHANGED <<job, started>>
       ELSE /\ job' = [owner |-> seen.batch.uid, cluster |-> cluster.uid,
                       mounts |-> ~seen.batch.spec.configMap, state |-> "pending"]
            /\ started' = [started EXCEPT ![seen.batch.uid] = IF @ = 2 THEN 2 ELSE @ + 1]
            /\ queued' = FALSE /\ ctl' = [Idle EXCEPT !.pc = "running", !.to = "Running"]
    /\ UNCHANGED <<batch, configMap, cluster, seen, ran, created, changes, hurry, crashes>>

(* Mutant: a Job that has come to an end is replaced.                      *)
ExecuteAgain ==
    /\ InPhase("Initialized") /\ cluster.uid # 0 /\ cluster.uid = seen.batch.clusterUID
    /\ job' = [owner |-> seen.batch.uid, cluster |-> cluster.uid,
                       mounts |-> ~seen.batch.spec.configMap, state |-> "pending"]
    /\ started' = [started EXCEPT ![seen.batch.uid] = IF @ = 2 THEN 2 ELSE @ + 1]
    /\ queued' = FALSE /\ ctl' = [Idle EXCEPT !.pc = "running", !.to = "Running"]
    /\ UNCHANGED <<batch, configMap, cluster, seen, ran, created, changes, hurry, crashes>>

(* CreateOrUpdate of the Job: one in the cache is left as it is, if this   *)
(* batch controls it, and is an error otherwise; one that the cache does   *)
(* not have yet makes Create fail.                                         *)
Execute ==
    /\ InPhase("Initialized") /\ cluster.uid # 0 /\ cluster.uid = seen.batch.clusterUID
    /\ IF seen.job # None /\ seen.job.owner = seen.batch.uid
       THEN queued' = FALSE /\ ctl' = [Idle EXCEPT !.pc = "running", !.to = "Running"] /\ UNCHANGED <<job, started>>
       ELSE IF seen.job # None \/ job # None
       THEN Ends(TRUE) /\ UNCHANGED <<job, started>>
       ELSE /\ job' = [owner |-> seen.batch.uid, cluster |-> cluster.uid,
                       mounts |-> ~seen.batch.spec.configMap, state |-> "pending"]
            /\ started' = [started EXCEPT ![seen.batch.uid] = IF @ = 2 THEN 2 ELSE @ + 1]
            /\ queued' = FALSE /\ ctl' = [Idle EXCEPT !.pc = "running", !.to = "Running"]
    /\ UNCHANGED <<batch, configMap, cluster, seen, ran, created, changes, hurry, crashes>>

StoreRunning ==
    /\ ctl.pc = "running"
    /\ UpdatePhase(ctl.to) /\ Reading

(* A Job that cannot be found is looked for again, one that has not come   *)
(* to an end wakes the controller itself.                                  *)
WaitToComplete ==
    /\ InPhase("Running")
    /\ IF seen.job = None THEN Ends(TRUE) /\ UNCHANGED batch
       ELSE IF seen.job.state = "succeeded" THEN UpdatePhase("Succeeded")
       ELSE IF seen.job.state = "failed" THEN UpdatePhase("Failed")
       ELSE Ends(FALSE) /\ UNCHANGED batch
    /\ Reading

Reconcile ==
    \/ Pause \/ Ignore \/ Accept \/ AwaitCluster \/ InitializeResources \/ StoreInitialized
    \/ ClusterReplaced \/ Execute \/ StoreRunning \/ WaitToComplete

(***************************************************************************)
(* The informers, the Job controller and the garbage collector (external). *)
(***************************************************************************)
DeliverBatch ==
    /\ seen.batch # batch
    /\ seen' = [seen EXCEPT !.batch = batch] /\ queued' = TRUE
    /\ UNCHANGED <<batch, job, configMap, cluster, ctl>> /\ UNCHANGED history

(* Mutant: the controller does not watch its Jobs.                         *)
DeliverJobSilently ==
    /\ seen.job # job
    /\ seen' = [seen EXCEPT !.job = job]
    /\ UNCHANGED <<batch, job, configMap, cluster, queued, ctl>> /\ UNCHANGED history

DeliverJob ==
    /\ seen.job # job
    /\ seen' = [seen EXCEPT !.job = job] /\ queued' = TRUE
    /\ UNCHANGED <<batch, job, configMap, cluster, ctl>> /\ UNCHANGED history

JobState(from, to) ==
    /\ job # None /\ job.state = from
    /\ job' = [job EXCEPT !.state = to]
    /\ UNCHANGED <<batch, configMap, cluster, seen, queued, ctl, created, started, changes, hurry, crashes>>
(* The pod waits for the ConfigMap it mounts.                              *)
JobStarts ==
    /\ JobState("pending", "active") /\ UNCHANGED ran
    /\ job.mounts => configMap # 0
JobSucceeds == JobState("active", "succeeded") /\ ran' = ran \cup {[job EXCEPT !.state = "succeeded"]}
(* status.failed is counted before the JobFailed condition is set.         *)
PodFails == JobState("active", "failing") /\ UNCHANGED ran
JobFails == JobState("failing", "failed") /\ ran' = ran \cup {[job EXCEPT !.state = "failed"]}
JobController == JobStarts \/ JobSucceeds \/ PodFails \/ JobFails

Orphan(owner) == owner # 0 /\ (batch # None => batch.uid # owner)
Collect ==
    /\ Orphan(configMap) \/ (job # None /\ Orphan(job.owner))
    /\ job' = IF job # None /\ Orphan(job.owner) THEN None ELSE job
    /\ configMap' = IF Orphan(configMap) THEN 0 ELSE configMap
    /\ UNCHANGED <<batch, cluster, seen, queued, ctl>> /\ UNCHANGED history

(***************************************************************************)
(* Users and clusters.                                                     *)
(***************************************************************************)
Change(kind) ==
    /\ kind \in Changes /\ changes < MaxChanges /\ changes' = changes + 1
    /\ UNCHANGED <<seen, queued, ctl, ran, crashes>>

(* ValidateCreate of the webhook.                                          *)
ValidateCreate(spec) == spec.config # spec.configMap /\ spec.req <= spec.limit

UserCreates ==
    /\ Change("create") /\ batch = None
    /\ created < MaxBatches /\ created' = created + 1
    /\ \E spec \in Specs :
          /\ ValidateCreate(spec)
          /\ batch' = [uid |-> created', spec |-> spec, phase |-> "", clusterUID |-> 0,
                       paused |-> FALSE, pausedCond |-> FALSE]
    /\ (seen.batch = None /\ ctl = Idle) \/ hurry < MaxHurry
    /\ hurry' = IF seen.batch = None /\ ctl = Idle THEN hurry ELSE hurry + 1
    /\ UNCHANGED <<job, configMap, cluster, started>>

(* The spec is immutable (ValidateUpdate): users delete, or pause.         *)
UserDeletes ==
    /\ Change("delete") /\ batch # None /\ batch' = None
    /\ UNCHANGED <<job, configMap, cluster, started, created, hurry>>
UserPauses ==
    /\ Change("pause") /\ batch # None /\ batch' = [batch EXCEPT !.paused = ~@]
    /\ UNCHANGED <<job, configMap, cluster, started, created, hurry>>
ClusterChanges ==
    /\ Change("cluster")
    /\ \/ cluster.uid # 0 /\ cluster' = [cluster EXCEPT !.uid = 0, !.stable = FALSE]
       \/ cluster.uid # 0 /\ cluster' = [cluster EXCEPT !.stable = ~@]
       \/ /\ cluster.uid = 0 /\ cluster.last < MaxUids
          /\ cluster' = [uid |-> cluster.last + 1, stable |-> TRUE, last |-> cluster.last + 1]
    /\ UNCHANGED <<batch, job, configMap, started, created, hurry>>

OperatorCrash ==
    /\ crashes < MaxCrashes /\ crashes' = crashes + 1 /\ ctl # Idle
    /\ ctl' = Idle /\ queued' = (batch # None)
    /\ seen' = [batch |-> batch, job |-> job]
    /\ UNCHANGED <<batch, job, configMap, cluster, ran, created, started, changes, hurry>>

Next ==
    \/ Reconcile \/ DeliverBatch \/ DeliverJob \/ JobController \/ Collect
    \/ UserCreates \/ UserDeletes \/ UserPauses \/ ClusterChanges \/ OperatorCrash

Fairness ==
    /\ WF_vars(Reconcile) /\ WF_vars(DeliverBatch) /\ WF_vars(DeliverJob)
    /\ WF_vars(JobController) /\ WF_vars(Collect)

Spec == Init /\ [][Next]_vars /\ Fairness

(***************************************************************************)
(* Properties                                                              *)
(***************************************************************************)
TypeOK ==
    /\ batch \in Batch \cup {None} /\ job \in Job \cup {None}
    /\ configMap \in 0..MaxBatches
    /\ cluster \in [uid: ClusterUid, stable: BOOLEAN, last: ClusterUid]
    /\ seen \in [batch: Batch \cup {None}, job: Job \cup {None}]
    /\ queued \in BOOLEAN
    /\ ctl \in [pc: {"idle", "initialized", "running"}, to: Phases, clusterUID: ClusterUid]
    /\ ran \subseteq Job /\ started \in [Uid -> 0..2] /\ created \in 0..MaxBatches
    /\ changes \in 0..MaxChanges /\ hurry \in 0..MaxHurry /\ crashes \in 0..MaxCrashes

(* The script of a batch is started at most once, although the controller  *)
(* may reach the creation of the Job several times: after a crash before   *)
(* the phase is stored, or with a cache that has neither the Job nor the   *)
(* phase yet. (A deleted batch the cache still has may be started again    *)
(* once its first Job was collected.) The state stays well typed.          *)
ExecutedOnce == TypeOK /\ (batch # None => started[batch.uid] <= 1)

(* The outcome a batch reports is that of its own Job on the cluster it    *)
(* was meant for: never that of an earlier batch of the same name whose    *)
(* Job is still there, and no failure without a failed Job unless the      *)
(* cluster was replaced at some time.                                      *)
OutcomeTruthful ==
    batch # None /\ hurry = 0 =>
        /\ batch.phase = "Succeeded" =>
              \E j \in ran : j.owner = batch.uid /\ j.cluster = batch.clusterUID /\ j.state = "succeeded"
        /\ batch.phase = "Failed" =>
              \/ \E j \in ran : j.owner = batch.uid /\ j.state = "failed"
              \/ cluster.last > 1

(* How far a phase is.                                                     *)
Rank == [p \in Phases |-> CASE p = "" -> 0 [] p = "Initializing" -> 1 [] p = "Initialized" -> 2
                            [] p = "Running" -> 3 [] OTHER -> 4]

(* The stored phase of a batch only advances, and its outcome is final,    *)
(* whatever copy of the batch the controller works from. (A batch that     *)
(* replaces another before the cache knows may get the phase of the other: *)
(* the patch goes by name.)                                                *)
PhaseAdvances ==
    [][batch # None /\ batch' # None /\ batch'.uid = batch.uid /\ hurry = 0 =>
          /\ Rank[batch.phase] <= Rank[batch'.phase]
          /\ batch.phase \in Terminal => batch'.phase = batch.phase]_vars

(* Every batch comes to an end, unless it is paused, its cluster is gone   *)
(* or not stable, or it replaced another in the eyes of the controller.    *)
Completes ==
    <>[](\/ batch = None \/ hurry > 0
         \/ batch.phase \in Terminal \/ batch.paused
         \/ cluster.uid = 0 \/ ~cluster.stable)
=============================================================================
