--------------------------- MODULE BatchJobProofs ---------------------------
(***************************************************************************)
(* Theorems about BatchJob, for every number of batches, clusters, changes *)
(* and crashes.                                                            *)
(***************************************************************************)
EXTENDS BatchJob, TLAPS

-----------------------------------------------------------------------------
(***************************************************************************)
(* The inductive invariant.                                                *)
(***************************************************************************)

(* Uids are given out in the order of creation, and no Job is started for  *)
(* a batch that does not exist yet.                                        *)
UidsCreated ==
    /\ batch # None => batch.uid <= created
    /\ seen.batch # None => seen.batch.uid <= created
    /\ job # None => job.owner <= created
    /\ seen.job # None => seen.job.owner <= created
    /\ \A u \in Uid : u > created => started[u] = 0

(* The Job of the stored batch is there.                                   *)
Owned == job # None /\ job.owner = batch.uid

(* The Job of a batch that was started stays until the batch is deleted:   *)
(* it is what makes the creation of a second one fail.                     *)
StartedOnce ==
    batch # None =>
        /\ started[batch.uid] > 0 => Owned
        /\ started[batch.uid] <= 1

(* A reconciliation in progress has a phase to store; Infinispan resources *)
(* are numbered; the history has every Job that came to its end.           *)
ContextOK ==
    /\ \/ ctl = Idle
       \/ ctl.pc = "initialized" /\ ctl.to = "Initialized" /\ ctl.clusterUID \in 1..cluster.last
       \/ ctl.pc = "running" /\ ctl.to = "Running"
    /\ cluster.last >= 1 /\ cluster.uid \in {0, cluster.last}
    /\ job # None /\ job.state \in {"succeeded", "failed"} => job \in ran

(* The phases the stored batch may have while the cache has "phase".       *)
Ahead(phase) ==
    CASE phase = "" -> {"", "Initializing"}
      [] phase = "Initializing" -> {"Initializing", "Initialized"}
      [] phase = "Initialized" -> {"Initialized", "Running", "Failed"}
      [] phase = "Running" -> {"Running", "Succeeded", "Failed"}
      [] OTHER -> {phase}

(* The stored batch by itself: its cluster, its Job and its phase agree.   *)
BatchOK ==
    /\ batch.clusterUID <= cluster.last
    /\ batch.phase \notin {"", "Initializing"} => batch.clusterUID >= 1
    /\ batch.phase \in {"Running", "Succeeded"} => Owned
    /\ batch.phase = "Succeeded" => job.state = "succeeded"
    /\ batch.phase = "Failed" => (Owned /\ job.state = "failed") \/ cluster.last > 1
    /\ Owned => job.cluster = batch.clusterUID

(* The cache has another batch's Job only while this one has none, and a   *)
(* Job that has ended in the cache has ended so in the API server.         *)
SeenJobOK ==
    /\ Owned => seen.job = None \/ seen.job.owner = batch.uid
    /\ seen.job # None /\ seen.job.owner = batch.uid =>
          /\ Owned
          /\ seen.job.state \in {"succeeded", "failed"} => job.state = seen.job.state

(* A batch the cache does not have is as its user created it.              *)
UnseenOK == ctl = Idle /\ batch.phase = "" /\ batch.clusterUID = 0 /\ ~Owned

(* The cached copy is of the same batch, at most one phase behind, and     *)
(* what the controller would write from it again is what is stored.        *)
SeenOK ==
    /\ seen.batch.uid = batch.uid
    /\ batch.phase \in Ahead(seen.batch.phase)
    /\ seen.batch.clusterUID <= batch.clusterUID
    /\ seen.batch.phase \notin {"", "Initializing"} => seen.batch.clusterUID >= 1
    /\ seen.batch.phase = "Initialized" /\ batch.phase = "Failed" => seen.batch.clusterUID < cluster.last
    /\ seen.batch.phase = "Running" /\ batch.phase = "Failed" => Owned /\ job.state = "failed"
    /\ Owned => seen.batch.phase \notin {"", "Initializing"}
    /\ ctl.pc = "initialized" =>
          /\ {seen.batch.phase, batch.phase} \subseteq {"Initializing", "Initialized"}
          /\ ~Owned /\ batch.clusterUID <= ctl.clusterUID
    /\ ctl.pc = "running" =>
          /\ {seen.batch.phase, batch.phase} \subseteq {"Initialized", "Running"}
          /\ Owned

Unhurried ==
    hurry = 0 /\ batch # None =>
        /\ BatchOK /\ SeenJobOK
        /\ seen.batch = None => UnseenOK
        /\ seen.batch # None => SeenOK

IInv == TypeOK /\ UidsCreated /\ StartedOnce /\ ContextOK /\ Unhurried

-----------------------------------------------------------------------------
(***************************************************************************)
(* Types, and what the helpers do.                                         *)
(***************************************************************************)

\* No batch and no Job is taken for the absence of one.
LEMMA NoneApart == None \notin Batch /\ None \notin Job
  BY DEF None, Batch, Job

\* A merge patch from the cached copy is a well-typed batch, of the uid that
\* is stored, with the fields the two copies differ in and no others.
LEMMA PatchedFields ==
    ASSUME TypeOK, batch # None, seen.batch # None, NEW new \in Batch
    PROVE  /\ Patched(new) \in Batch
           /\ \A f \in {"uid", "spec", "phase", "clusterUID", "paused", "pausedCond"} :
                Patched(new)[f] = IF new[f] = seen.batch[f] THEN batch[f] ELSE new[f]
  <1>1. DOMAIN batch = {"uid", "spec", "phase", "clusterUID", "paused", "pausedCond"}
    BY DEF TypeOK, Batch
  <1>2. Patched(new) \in Batch
    BY <1>1 DEF TypeOK, Batch, Patched
  <1> QED BY <1>1, <1>2 DEF Patched

\* The cached copy in another phase, and of another cluster, is a batch.
LEMMA NewCopies ==
    ASSUME TypeOK, seen.batch # None, NEW to \in Phases, NEW uid \in ClusterUid
    PROVE  /\ [seen.batch EXCEPT !.phase = to] \in Batch
           /\ [seen.batch EXCEPT !.phase = to, !.clusterUID = uid] \in Batch
  BY DEF TypeOK, Batch

\* No reconciliation in progress is a well-typed state of the controller.
LEMMA IdleType == Idle \in [pc: {"idle", "initialized", "running"}, to: Phases, clusterUID: ClusterUid]
  BY BoundsAssumption DEF Idle, Phases, ClusterUid

\* The end of a reconciliation is well typed.
LEMMA EndsType ==
    ASSUME TypeOK, NEW requeue \in BOOLEAN, Ends(requeue)
    PROVE  /\ queued' \in BOOLEAN /\ ctl' = Idle
           /\ ctl' \in [pc: {"idle", "initialized", "running"}, to: Phases, clusterUID: ClusterUid]
  <1>1. queued' \in BOOLEAN
    BY Zenon DEF Ends
  <1> QED BY <1>1, IdleType DEF Ends

\* update keeps the types and the reconciliation ends.
LEMMA UpdateType ==
    ASSUME TypeOK, NEW new, seen.batch # None => new \in Batch, Update(new)
    PROVE  /\ batch' \in Batch \cup {None} /\ queued' \in BOOLEAN /\ ctl' = Idle
           /\ ctl' \in [pc: {"idle", "initialized", "running"}, to: Phases, clusterUID: ClusterUid]
  <1>1. CASE seen.batch = None \/ batch = None
    BY <1>1, EndsType DEF Update, TypeOK
  <1>2. CASE ~(seen.batch = None \/ batch = None)
    BY <1>2, EndsType, PatchedFields DEF Update
  <1> QED BY <1>1, <1>2

\* update with the cached copy in another phase changes nothing but the phase
\* of the stored batch, and not even that where the cached copy has it.
LEMMA UpdatePhaseEffect ==
    ASSUME TypeOK, NEW to \in Phases, UpdatePhase(to)
    PROVE  /\ ctl' = Idle
           /\ \/ UNCHANGED batch /\ (batch = None \/ seen.batch = None)
              \/ /\ batch # None /\ seen.batch # None /\ batch' \in Batch
                 /\ batch'.uid = batch.uid /\ batch'.clusterUID = batch.clusterUID
                 /\ batch'.phase = IF to = seen.batch.phase THEN batch.phase ELSE to
  <1>1. CASE seen.batch = None \/ batch = None
    BY <1>1 DEF UpdatePhase, Update, Ends
  <1>2. CASE ~(seen.batch = None \/ batch = None)
    <2> DEFINE new == [seen.batch EXCEPT !.phase = to]
    <2>1. seen.batch \in Batch
      BY <1>2 DEF TypeOK
    <2>2. new \in Batch /\ new.uid = seen.batch.uid /\ new.clusterUID = seen.batch.clusterUID /\ new.phase = to
      BY <2>1 DEF Batch
    <2>3. batch' = Patched(new) /\ ctl' = Idle
      BY <1>2 DEF UpdatePhase, Update, Ends
    <2> HIDE DEF new
    <2> QED BY <1>2, <2>2, <2>3, PatchedFields
  <1> QED BY <1>1, <1>2

\* Storing the result of initializing changes nothing but the phase and the
\* cluster of the stored batch.
LEMMA StoreInitializedEffect ==
    ASSUME TypeOK, StoreInitialized
    PROVE  /\ ctl' = Idle
           /\ \/ UNCHANGED batch /\ (batch = None \/ seen.batch = None)
              \/ /\ batch # None /\ seen.batch # None /\ batch' \in Batch /\ batch'.uid = batch.uid
                 /\ batch'.phase = IF ctl.to = seen.batch.phase THEN batch.phase ELSE ctl.to
                 /\ batch'.clusterUID = IF ctl.clusterUID = seen.batch.clusterUID
                                        THEN batch.clusterUID ELSE ctl.clusterUID
  <1>1. CASE seen.batch = None \/ batch = None
    BY <1>1 DEF StoreInitialized, Update, Ends
  <1>2. CASE ~(seen.batch = None \/ batch = None)
    <2> DEFINE new == [seen.batch EXCEPT !.phase = ctl.to, !.clusterUID = ctl.clusterUID]
    <2>1. seen.batch \in Batch /\ ctl.to \in Phases /\ ctl.clusterUID \in ClusterUid
      BY <1>2 DEF TypeOK
    <2>2. new \in Batch /\ new.uid = seen.batch.uid /\ new.clusterUID = ctl.clusterUID /\ new.phase = ctl.to
      BY <2>1 DEF Batch
    <2>3. batch' = Patched(new) /\ ctl' = Idle
      BY <1>2 DEF StoreInitialized, Update, Ends
    <2> HIDE DEF new
    <2> QED BY <1>2, <2>2, <2>3, PatchedFields
  <1> QED BY <1>1, <1>2

\* The parts of the state that a reconciliation writes are well typed.
ReconcileTypes ==
    /\ batch \in Batch \cup {None} /\ job \in Job \cup {None} /\ configMap \in 0..MaxBatches
    /\ queued \in BOOLEAN
    /\ ctl \in [pc: {"idle", "initialized", "running"}, to: Phases, clusterUID: ClusterUid]
    /\ started \in [Uid -> 0..2]

\* Every step of Reconcile keeps the types.
LEMMA ReconcileType == ASSUME TypeOK, Reconcile PROVE ReconcileTypes'
  <1> USE DEF ReconcileTypes
  <1>1. CASE Pause
    <2>1. batch' \in Batch \cup {None}
      <3>1. CASE UNCHANGED batch
        BY <3>1 DEF TypeOK
      <3>2. CASE batch # None /\ batch' = [batch EXCEPT !.pausedCond = batch.paused]
        BY <3>2 DEF TypeOK, Batch
      <3> QED BY <1>1, <3>1, <3>2 DEF Pause
    <2>2. Ends(TRUE) \/ Ends(FALSE)
      BY <1>1 DEF Pause
    <2> QED BY <1>1, <2>1, <2>2, EndsType DEF Pause, Reading, history, TypeOK
  <1>2. CASE Ignore
    BY <1>2, EndsType DEF Ignore, Reading, history, TypeOK
  <1>3. CASE Accept
    BY <1>3, UpdateType, NewCopies DEF Accept, UpdatePhase, Reading, history, TypeOK, Phases, InPhase
  <1>4. CASE AwaitCluster
    BY <1>4, EndsType DEF AwaitCluster, Reading, history, TypeOK
  <1>5. CASE InitializeResources
    <2>1. seen.batch \in Batch /\ cluster.uid \in ClusterUid
      BY <1>5 DEF InitializeResources, InPhase, TypeOK
    <2>2. seen.batch.uid \in 0..MaxBatches
      BY <2>1, BoundsAssumption DEF Batch, Uid
    <2>3. configMap' \in 0..MaxBatches
      BY <1>5, <2>2 DEF InitializeResources, TypeOK
    <2>4. queued' \in BOOLEAN /\ ctl' \in [pc: {"idle", "initialized", "running"}, to: Phases, clusterUID: ClusterUid]
      <3>1. CASE Ends(TRUE)
        BY <3>1, EndsType
      <3>2. CASE ~Ends(TRUE)
        <4>1. ctl' = [pc |-> "initialized", to |-> "Initialized", clusterUID |-> cluster.uid] /\ queued' = FALSE
          BY <1>5, <3>2 DEF InitializeResources
        <4> QED BY <2>1, <4>1 DEF Phases
      <3> QED BY <3>1, <3>2
    <2> QED BY <1>5, <2>3, <2>4 DEF InitializeResources, history, TypeOK
  <1>6. CASE StoreInitialized
    <2>1. seen.batch # None => [seen.batch EXCEPT !.phase = ctl.to, !.clusterUID = ctl.clusterUID] \in Batch
      BY NewCopies DEF TypeOK
    <2> QED BY <1>6, <2>1, UpdateType DEF StoreInitialized, Reading, history, TypeOK
  <1>7. CASE ClusterReplaced
    BY <1>7, UpdateType, NewCopies DEF ClusterReplaced, UpdatePhase, Reading, history, TypeOK, Phases, InPhase
  <1>8. CASE Execute
    <2>1. seen.batch \in Batch /\ cluster.uid \in ClusterUid
      BY <1>8 DEF Execute, InPhase, TypeOK
    <2>2. seen.batch.uid \in Uid /\ seen.batch.spec.configMap \in BOOLEAN
      BY <2>1 DEF Batch, Spec0
    <2>3. [owner |-> seen.batch.uid, cluster |-> cluster.uid,
           mounts |-> ~seen.batch.spec.configMap, state |-> "pending"] \in Job
      BY <2>1, <2>2 DEF Job
    <2>4. [Idle EXCEPT !.pc = "running", !.to = "Running"]
             \in [pc: {"idle", "initialized", "running"}, to: Phases, clusterUID: ClusterUid]
      BY IdleType, ZenonT(30) DEF Phases
    <2>5. [started EXCEPT ![seen.batch.uid] = IF @ = 2 THEN 2 ELSE @ + 1] \in [Uid -> 0..2]
      BY <2>2 DEF TypeOK
    <2>6. queued' \in BOOLEAN /\ ctl' \in [pc: {"idle", "initialized", "running"}, to: Phases, clusterUID: ClusterUid]
      BY <1>8, <2>4, EndsType DEF Execute
    <2>7. job' \in Job \cup {None} /\ started' \in [Uid -> 0..2]
      BY <1>8, <2>3, <2>5 DEF Execute, TypeOK
    <2> QED BY <1>8, <2>6, <2>7 DEF Execute, TypeOK
  <1>9. CASE StoreRunning
    <2>1. seen.batch # None => [seen.batch EXCEPT !.phase = ctl.to] \in Batch
      BY NewCopies, BoundsAssumption DEF TypeOK
    <2> QED BY <1>9, <2>1, UpdateType DEF StoreRunning, UpdatePhase, Reading, history, TypeOK
  <1>10. CASE WaitToComplete
    <2>1. seen.batch # None => /\ [seen.batch EXCEPT !.phase = "Succeeded"] \in Batch
                               /\ [seen.batch EXCEPT !.phase = "Failed"] \in Batch
      BY NewCopies, BoundsAssumption DEF TypeOK, Phases
    <2>2. \/ UNCHANGED batch /\ (Ends(TRUE) \/ Ends(FALSE))
          \/ UpdatePhase("Succeeded") \/ UpdatePhase("Failed")
      BY <1>10 DEF WaitToComplete
    <2> QED BY <1>10, <2>1, <2>2, UpdateType, EndsType DEF WaitToComplete, UpdatePhase, Reading, history, TypeOK
  <1> QED
    BY <1>1, <1>2, <1>3, <1>4, <1>5, <1>6, <1>7, <1>8, <1>9, <1>10 DEF Reconcile

\* A reconciliation leaves the cluster, the caches, the users and the crashes
\* as they are, and the history but for the Jobs it starts.
LEMMA ReconcileFrame ==
    ASSUME Reconcile
    PROVE  UNCHANGED <<cluster, seen, ran, created, changes, hurry, crashes>>
  BY DEF Reconcile, Pause, Ignore, Accept, AwaitCluster, InitializeResources, StoreInitialized,
         ClusterReplaced, Execute, StoreRunning, WaitToComplete, Reading, history

\* The Job controller keeps the types: a Job only changes its state.
LEMMA JobControllerType ==
    ASSUME TypeOK, JobController
    PROVE  /\ job' \in Job /\ ran' \subseteq Job
           /\ UNCHANGED <<batch, configMap, cluster, seen, queued, ctl, created, started, changes, hurry, crashes>>
  <1>1. job \in Job
    BY DEF TypeOK, JobController, JobStarts, JobSucceeds, PodFails, JobFails, JobState
  <1>2. \A s \in {"pending", "active", "failing", "succeeded", "failed"} : [job EXCEPT !.state = s] \in Job
    BY <1>1 DEF Job
  <1> QED
    BY <1>2 DEF TypeOK, JobController, JobStarts, JobSucceeds, PodFails, JobFails, JobState

\* Every step of the specification keeps the types.
LEMMA TypeStep == ASSUME TypeOK, [Next]_vars PROVE TypeOK'
  <1> USE BoundsAssumption
  <1>1. CASE Reconcile
    <2>1. ReconcileTypes' /\ UNCHANGED <<cluster, seen, ran, created, changes, hurry, crashes>>
      BY <1>1, ReconcileType, ReconcileFrame
    <2> QED BY <2>1 DEF TypeOK, ReconcileTypes
  <1>2. CASE DeliverBatch
    <2>1. [seen EXCEPT !.batch = batch] \in [batch: Batch \cup {None}, job: Job \cup {None}]
      BY DEF TypeOK
    <2> QED BY <1>2, <2>1 DEF DeliverBatch, TypeOK, history
  <1>3. CASE DeliverJob
    <2>1. [seen EXCEPT !.job = job] \in [batch: Batch \cup {None}, job: Job \cup {None}]
      BY DEF TypeOK
    <2> QED BY <1>3, <2>1 DEF DeliverJob, TypeOK, history
  <1>4. CASE JobController
    BY <1>4, JobControllerType DEF TypeOK
  <1>5. CASE Collect
    BY <1>5 DEF Collect, TypeOK, history
  <1>6. CASE UserCreates
    <2>1. PICK spec \in Specs :
             batch' = [uid |-> created', spec |-> spec, phase |-> "", clusterUID |-> 0,
                       paused |-> FALSE, pausedCond |-> FALSE]
      BY <1>6 DEF UserCreates
    <2>2. created' \in Uid /\ spec \in Spec0 /\ 0 \in ClusterUid
      <3>1. created \in 0..MaxBatches /\ created < MaxBatches /\ created' = created + 1
        BY <1>6 DEF UserCreates, TypeOK
      <3> QED BY <3>1, SpecsAssumption DEF Uid, ClusterUid
    <2>3. batch' \in Batch
      BY <2>1, <2>2 DEF Batch, Phases
    <2>4. created' \in 0..MaxBatches /\ hurry' \in 0..MaxHurry /\ changes' \in 0..MaxChanges
      <3>1. created \in 0..MaxBatches /\ created < MaxBatches /\ created' = created + 1
        BY <1>6 DEF UserCreates, TypeOK
      <3>2. hurry \in 0..MaxHurry /\ (hurry' = hurry \/ (hurry < MaxHurry /\ hurry' = hurry + 1))
        BY <1>6 DEF UserCreates, TypeOK
      <3>3. changes \in 0..MaxChanges /\ changes < MaxChanges /\ changes' = changes + 1
        BY <1>6 DEF UserCreates, Change, TypeOK
      <3> QED BY <3>1, <3>2, <3>3
    <2> QED BY <1>6, <2>3, <2>4 DEF UserCreates, Change, TypeOK
  <1>7. CASE UserDeletes
    BY <1>7 DEF UserDeletes, Change, TypeOK
  <1>8. CASE UserPauses
    <2>1. batch \in Batch
      BY <1>8 DEF UserPauses, TypeOK
    <2>2. batch' \in Batch
      BY <1>8, <2>1 DEF UserPauses, Batch
    <2> QED BY <1>8, <2>2 DEF UserPauses, Change, TypeOK
  <1>9. CASE ClusterChanges
    <2>1. cluster' \in [uid: ClusterUid, stable: BOOLEAN, last: ClusterUid]
      <3> DEFINE C == [uid: ClusterUid, stable: BOOLEAN, last: ClusterUid]
      <3>1. cluster \in C /\ 0 \in ClusterUid
        BY DEF TypeOK, ClusterUid
      <3>2. [cluster EXCEPT !.uid = 0, !.stable = FALSE] \in C /\ [cluster EXCEPT !.stable = ~@] \in C
        BY <3>1
      <3>3. cluster.last < MaxUids => cluster.last + 1 \in ClusterUid
        BY <3>1 DEF ClusterUid
      <3>4. cluster.last < MaxUids =>
               [uid |-> cluster.last + 1, stable |-> TRUE, last |-> cluster.last + 1] \in C
        BY <3>3
      <3> QED BY <1>9, <3>2, <3>4 DEF ClusterChanges
    <2> QED BY <1>9, <2>1 DEF ClusterChanges, Change, TypeOK
  <1>10. CASE OperatorCrash
    <2>1. queued' \in BOOLEAN
      BY <1>10 DEF OperatorCrash
    <2> QED BY <1>10, <2>1, IdleType DEF OperatorCrash, TypeOK
  <1>11. CASE UNCHANGED vars
    BY <1>11 DEF vars, TypeOK
  <1> QED
    BY <1>1, <1>2, <1>3, <1>4, <1>5, <1>6, <1>7, <1>8, <1>9, <1>10, <1>11 DEF Next

-----------------------------------------------------------------------------
(***************************************************************************)
(* Every step keeps the invariant: what each kind of step does to the      *)
(* parts that say when a Job may be started.                               *)
(***************************************************************************)

\* A patch keeps the uid of the stored batch: no step of a reconciliation
\* turns one batch into another.
LEMMA UidKept ==
    ASSUME TypeOK, Reconcile
    PROVE  (batch' = None <=> batch = None) /\ (batch # None => batch'.uid = batch.uid)
  <1> USE NoneApart
  <1>1. CASE Pause
    <2>1. CASE batch # None /\ batch' = [batch EXCEPT !.pausedCond = batch.paused]
      BY <2>1 DEF TypeOK, Batch, None
    <2> QED BY <1>1, <2>1 DEF Pause
  <1>2. CASE UNCHANGED batch
    BY <1>2
  <1>3. ASSUME NEW to \in Phases, UpdatePhase(to)
        PROVE  (batch' = None <=> batch = None) /\ (batch # None => batch'.uid = batch.uid)
    BY <1>3, UpdatePhaseEffect
  <1>4. CASE StoreInitialized
    BY <1>4, StoreInitializedEffect
  <1>5. CASE StoreRunning
    BY <1>5, <1>3 DEF StoreRunning, TypeOK
  <1> QED
    BY <1>1, <1>2, <1>3, <1>4, <1>5
    DEF Reconcile, Ignore, Accept, AwaitCluster, InitializeResources, ClusterReplaced, Execute,
        WaitToComplete, Phases

\* A step of a reconciliation either leaves the Jobs as they are, or creates
\* the Job of the batch in the cache where there is none.
LEMMA JobCreation ==
    ASSUME Reconcile
    PROVE  \/ UNCHANGED <<job, started>>
           \/ /\ Execute /\ seen.batch # None /\ job = None /\ seen.job = None
              /\ job' = [owner |-> seen.batch.uid, cluster |-> cluster.uid,
                         mounts |-> ~seen.batch.spec.configMap, state |-> "pending"]
              /\ started' = [started EXCEPT ![seen.batch.uid] = IF @ = 2 THEN 2 ELSE @ + 1]
  BY DEF Reconcile, Pause, Ignore, Accept, AwaitCluster, InitializeResources, StoreInitialized,
         ClusterReplaced, Execute, InPhase, StoreRunning, WaitToComplete, Reading, history

\* Numbers: uids and counts are naturals.
LEMMA Numbers ==
    ASSUME TypeOK
    PROVE  /\ created \in Nat /\ hurry \in Nat /\ cluster.last \in Nat /\ cluster.uid \in Nat
           /\ ctl.clusterUID \in Nat
           /\ batch # None => batch.uid \in Uid /\ batch.uid \in Nat /\ batch.clusterUID \in Nat /\ batch.phase \in Phases
           /\ seen.batch # None => /\ seen.batch.uid \in Uid /\ seen.batch.uid \in Nat /\ seen.batch.clusterUID \in Nat
                                   /\ seen.batch.phase \in Phases
           /\ job # None => job.owner \in Uid /\ job.owner \in Nat /\ job.cluster \in Nat
           /\ seen.job # None => seen.job.owner \in Uid /\ seen.job.owner \in Nat
  <1> USE BoundsAssumption
  <1>1. created \in Nat /\ hurry \in Nat /\ cluster.last \in Nat /\ cluster.uid \in Nat /\ ctl.clusterUID \in Nat
    BY DEF TypeOK, ClusterUid
  <1>2. \A b \in Batch : b.uid \in Uid /\ b.uid \in Nat /\ b.clusterUID \in Nat /\ b.phase \in Phases
    BY DEF Batch, Uid, ClusterUid
  <1>3. \A j \in Job : j.owner \in Uid /\ j.owner \in Nat /\ j.cluster \in Nat
    BY DEF Job, Uid, ClusterUid
  <1> QED BY <1>1, <1>2, <1>3 DEF TypeOK

\* The Job controller changes the state of the Job and nothing else of it,
\* and every Job that ends is recorded.
LEMMA JobSteps ==
    ASSUME TypeOK, JobController
    PROVE  /\ job # None /\ job' # None
           /\ job'.owner = job.owner /\ job'.cluster = job.cluster
           /\ job.state \notin {"succeeded", "failed"}
           /\ job'.state \in {"succeeded", "failed"} => job' \in ran'
           /\ ran \subseteq ran'
  <1>1. job \in Job /\ job # None
    BY DEF TypeOK, JobController, JobStarts, JobSucceeds, PodFails, JobFails, JobState
  <1>2. \A s : /\ [job EXCEPT !.state = s].owner = job.owner
               /\ [job EXCEPT !.state = s].cluster = job.cluster
               /\ [job EXCEPT !.state = s].state = s
    BY <1>1 DEF Job
  <1>3. job' # None
    BY JobControllerType, NoneApart
  <1> QED
    BY <1>1, <1>2, <1>3 DEF JobController, JobStarts, JobSucceeds, PodFails, JobFails, JobState

\* A created batch has a uid of its own and no phase yet; the cache and the
\* controller know of no earlier one, or the user was in a hurry.
LEMMA CreatesEffect ==
    ASSUME TypeOK, UserCreates
    PROVE  /\ batch = None /\ batch' # None /\ created' = created + 1 /\ created' \in Uid
           /\ batch'.uid = created' /\ batch'.phase = "" /\ batch'.clusterUID = 0
           /\ hurry' = 0 => hurry = 0 /\ seen.batch = None /\ ctl = Idle
           /\ UNCHANGED <<job, configMap, cluster, started, seen, queued, ctl, ran, crashes>>
  <1>1. PICK spec \in Specs :
           batch' = [uid |-> created', spec |-> spec, phase |-> "", clusterUID |-> 0,
                     paused |-> FALSE, pausedCond |-> FALSE]
    BY DEF UserCreates
  <1>2. batch' # None /\ batch'.uid = created' /\ batch'.phase = "" /\ batch'.clusterUID = 0
    BY <1>1 DEF None
  <1>3. created' = created + 1 /\ created' \in Uid
    <2>1. created \in 0..MaxBatches /\ created < MaxBatches /\ created' = created + 1
      BY DEF UserCreates, TypeOK
    <2> QED BY <2>1, BoundsAssumption DEF Uid
  <1>4. hurry' = 0 => hurry = 0 /\ seen.batch = None /\ ctl = Idle
    <2>1. hurry \in Nat
      BY BoundsAssumption DEF TypeOK
    <2>2. \/ hurry' = hurry /\ seen.batch = None /\ ctl = Idle
          \/ hurry' = hurry + 1
      BY DEF UserCreates
    <2> QED BY <2>1, <2>2
  <1> QED BY <1>2, <1>3, <1>4 DEF UserCreates, Change

\* Uids stay in the order of creation.
LEMMA UidsStep ==
    ASSUME TypeOK, TypeOK', UidsCreated, Next
    PROVE  UidsCreated'
  <1> USE Numbers
  <1>1. CASE Reconcile
    <2>1. UNCHANGED <<seen, created>>
      BY <1>1, ReconcileFrame
    <2>2. batch' # None => batch'.uid <= created'
      BY <1>1, <2>1, UidKept DEF UidsCreated
    <2>3. CASE UNCHANGED <<job, started>>
      BY <2>1, <2>2, <2>3 DEF UidsCreated
    <2>4. CASE /\ seen.batch # None
               /\ job' = [owner |-> seen.batch.uid, cluster |-> cluster.uid,
                          mounts |-> ~seen.batch.spec.configMap, state |-> "pending"]
               /\ started' = [started EXCEPT ![seen.batch.uid] = IF @ = 2 THEN 2 ELSE @ + 1]
      <3>1. job'.owner <= created'
        BY <2>1, <2>4 DEF UidsCreated
      <3>2. \A u \in Uid : u > created' => started'[u] = 0
        BY <2>1, <2>4 DEF UidsCreated, TypeOK, Uid
      <3> QED BY <2>1, <2>2, <3>1, <3>2 DEF UidsCreated
    <2> QED BY <1>1, <2>3, <2>4, JobCreation
  <1>2. CASE DeliverBatch \/ DeliverJob \/ Collect \/ OperatorCrash
    BY <1>2 DEF DeliverBatch, DeliverJob, Collect, OperatorCrash, history, UidsCreated, TypeOK
  <1>3. CASE JobController
    BY <1>3, JobControllerType, JobSteps DEF UidsCreated
  <1>4. CASE UserCreates
    <2>1. created \in Nat /\ created' = created + 1
      BY <1>4, CreatesEffect
    <2>2. \A u \in Uid : u > created' => u > created
      BY <2>1, BoundsAssumption DEF Uid
    <2>3. batch'.uid = created' /\ UNCHANGED <<job, started, seen>>
      BY <1>4, CreatesEffect
    <2>4. \A n \in Nat : n <= created => n <= created'
      BY <2>1
    <2>5. batch'.uid <= created'
      BY <2>1, <2>3
    <2> QED BY <2>2, <2>3, <2>4, <2>5 DEF UidsCreated
  <1>5. CASE UserPauses
    <2>1. batch # None /\ batch'.uid = batch.uid
      BY <1>5 DEF UserPauses, TypeOK, Batch
    <2> QED BY <1>5, <2>1 DEF UserPauses, Change, UidsCreated
  <1>6. CASE UserDeletes \/ ClusterChanges
    BY <1>6 DEF UserDeletes, ClusterChanges, Change, UidsCreated
  <1> QED BY <1>1, <1>2, <1>3, <1>4, <1>5, <1>6 DEF Next

\* A batch that was started has its Job, which keeps it from being started
\* a second time.
LEMMA StartedStep ==
    ASSUME TypeOK, TypeOK', UidsCreated, StartedOnce, Next
    PROVE  StartedOnce'
  <1> USE Numbers
  <1>1. CASE Reconcile
    <2>1. (batch' = None <=> batch = None) /\ (batch # None => batch'.uid = batch.uid)
      BY <1>1, UidKept
    <2>2. CASE UNCHANGED <<job, started>>
      BY <2>1, <2>2 DEF StartedOnce, Owned
    <2>3. CASE /\ seen.batch # None /\ job = None
               /\ job' = [owner |-> seen.batch.uid, cluster |-> cluster.uid,
                          mounts |-> ~seen.batch.spec.configMap, state |-> "pending"]
               /\ started' = [started EXCEPT ![seen.batch.uid] = IF @ = 2 THEN 2 ELSE @ + 1]
      <3> SUFFICES ASSUME batch # None
                   PROVE  (started'[batch.uid] > 0 => Owned') /\ started'[batch.uid] <= 1
        BY <2>1 DEF StartedOnce
      <3>1. started[batch.uid] = 0
        BY <2>3, NoneApart DEF StartedOnce, Owned, TypeOK
      <3>2. job' # None /\ job'.owner = seen.batch.uid
        BY <2>3 DEF None
      <3>3. started' = [started EXCEPT ![seen.batch.uid] = IF @ = 2 THEN 2 ELSE @ + 1]
            /\ started \in [Uid -> 0..2]
        BY <2>3 DEF TypeOK
      <3>4. CASE seen.batch.uid = batch.uid
        BY <2>1, <3>1, <3>2, <3>3, <3>4 DEF Owned
      <3>5. CASE seen.batch.uid # batch.uid
        BY <3>1, <3>3, <3>5, <2>3
      <3> QED BY <3>4, <3>5
    <2> QED BY <1>1, <2>2, <2>3, JobCreation
  <1>2. CASE DeliverBatch \/ DeliverJob \/ OperatorCrash
    BY <1>2 DEF DeliverBatch, DeliverJob, OperatorCrash, history, StartedOnce, Owned
  <1>3. CASE JobController
    BY <1>3, JobControllerType, JobSteps DEF StartedOnce, Owned
  <1>4. CASE UserCreates
    <2>1. created \in Nat
      OBVIOUS
    <2>2. created' \in Uid /\ created' = created + 1 /\ UNCHANGED started /\ batch'.uid = created'
      BY <1>4, CreatesEffect
    <2>3. created' > created
      BY <2>1, <2>2
    <2>4. started'[batch'.uid] = 0
      BY <2>2, <2>3 DEF UidsCreated
    <2> QED BY <2>4 DEF StartedOnce
  <1>5. CASE Collect
    BY <1>5 DEF Collect, Orphan, StartedOnce, Owned, history
  <1>6. CASE UserPauses
    <2>1. batch # None /\ batch'.uid = batch.uid
      BY <1>6 DEF UserPauses, TypeOK, Batch
    <2> QED BY <1>6, <2>1 DEF UserPauses, Change, StartedOnce, Owned
  <1>7. CASE UserDeletes \/ ClusterChanges
    BY <1>7 DEF UserDeletes, ClusterChanges, Change, StartedOnce, Owned
  <1> QED BY <1>1, <1>2, <1>3, <1>4, <1>5, <1>6, <1>7 DEF Next

\* Infinispan resources are numbered upwards.
LEMMA ClusterEffect ==
    ASSUME TypeOK, ClusterChanges, cluster.last >= 1
    PROVE  /\ cluster'.last \in Nat /\ cluster'.last >= cluster.last
           /\ cluster'.uid \in {0, cluster'.last}
              \/ (cluster'.uid = cluster.uid /\ cluster'.last = cluster.last)
           /\ UNCHANGED <<batch, job, configMap, started, created, hurry, seen, queued, ctl, ran, crashes>>
  <1>1. cluster \in [uid: ClusterUid, stable: BOOLEAN, last: ClusterUid] /\ cluster.last \in Nat
    BY Numbers DEF TypeOK
  <1>2. \/ cluster' = [cluster EXCEPT !.uid = 0, !.stable = FALSE]
        \/ cluster' = [cluster EXCEPT !.stable = ~@]
        \/ cluster' = [uid |-> cluster.last + 1, stable |-> TRUE, last |-> cluster.last + 1]
    BY DEF ClusterChanges
  <1>3. \/ cluster'.uid = 0 /\ cluster'.last = cluster.last
        \/ cluster'.uid = cluster.uid /\ cluster'.last = cluster.last
        \/ cluster'.uid = cluster.last + 1 /\ cluster'.last = cluster.last + 1
    <2>1. CASE cluster' = [cluster EXCEPT !.uid = 0, !.stable = FALSE]
      BY <1>1, <2>1
    <2>2. CASE cluster' = [cluster EXCEPT !.stable = ~@]
      BY <1>1, <2>2
    <2>3. CASE cluster' = [uid |-> cluster.last + 1, stable |-> TRUE, last |-> cluster.last + 1]
      BY <2>3
    <2> QED BY <1>2, <2>1, <2>2, <2>3
  <1> QED BY <1>1, <1>3 DEF ClusterChanges, Change

\* What a step of a reconciliation leaves for the next one.
LEMMA ReconcileContext ==
    ASSUME TypeOK, ContextOK, Reconcile
    PROVE  \/ ctl' = Idle
           \/ InitializeResources /\ ctl' = [pc |-> "initialized", to |-> "Initialized", clusterUID |-> cluster.uid]
           \/ Execute /\ ctl' = [Idle EXCEPT !.pc = "running", !.to = "Running"]
  BY DEF Reconcile, Pause, Ignore, Accept, AwaitCluster, InitializeResources, StoreInitialized,
         ClusterReplaced, Execute, StoreRunning, WaitToComplete, UpdatePhase, Update, Ends

\* Reconciliations, Infinispan resources and the history of Jobs stay as
\* they should be.
LEMMA ContextStep ==
    ASSUME TypeOK, TypeOK', ContextOK, Next
    PROVE  ContextOK'
  <1> USE Numbers
  <1>1. CASE Reconcile
    <2>1. UNCHANGED <<cluster, ran>>
      BY <1>1, ReconcileFrame
    <2>2. job' # None /\ job'.state \in {"succeeded", "failed"} => job' \in ran'
      <3>1. CASE UNCHANGED job
        BY <2>1, <3>1 DEF ContextOK
      <3>2. CASE job' = [owner |-> seen.batch.uid, cluster |-> cluster.uid,
                         mounts |-> ~seen.batch.spec.configMap, state |-> "pending"]
        BY <3>2
      <3> QED BY <1>1, <3>1, <3>2, JobCreation
    <2>3. \/ ctl' = Idle
          \/ ctl'.pc = "initialized" /\ ctl'.to = "Initialized" /\ ctl'.clusterUID \in 1..cluster'.last
          \/ ctl'.pc = "running" /\ ctl'.to = "Running"
      <3>1. CASE InitializeResources /\ ctl' = [pc |-> "initialized", to |-> "Initialized", clusterUID |-> cluster.uid]
        <4>1. cluster.uid \in 1..cluster.last
          BY <3>1 DEF ContextOK, InitializeResources
        <4> QED BY <2>1, <3>1, <4>1
      <3>2. CASE ctl' = [Idle EXCEPT !.pc = "running", !.to = "Running"]
        BY <3>2 DEF Idle
      <3> QED BY <1>1, <3>1, <3>2, ReconcileContext
    <2> QED BY <2>1, <2>2, <2>3 DEF ContextOK
  <1>2. CASE DeliverBatch \/ DeliverJob \/ UserDeletes \/ UserPauses
    BY <1>2 DEF DeliverBatch, DeliverJob, UserDeletes, UserPauses, Change, history, ContextOK
  <1>3. CASE JobController
    BY <1>3, JobControllerType, JobSteps DEF ContextOK
  <1>4. CASE UserCreates
    BY <1>4, CreatesEffect DEF ContextOK
  <1>5. CASE ClusterChanges
    <2>1. cluster'.last \in Nat /\ cluster.last \in Nat /\ ctl.clusterUID \in Nat
          /\ cluster'.last >= cluster.last /\ cluster.last >= 1
      BY <1>5, ClusterEffect DEF ContextOK
    <2>2. ctl.clusterUID \in 1..cluster.last => ctl.clusterUID \in 1..cluster'.last
      BY <2>1
    <2>3. cluster'.last >= 1
      BY <2>1
    <2> QED BY <1>5, <2>2, <2>3, ClusterEffect DEF ContextOK
  <1>6. CASE Collect \/ OperatorCrash
    BY <1>6 DEF Collect, OperatorCrash, history, ContextOK
  <1> QED BY <1>1, <1>2, <1>3, <1>4, <1>5, <1>6 DEF Next

-----------------------------------------------------------------------------
(***************************************************************************)
(* What holds of a batch whose user was not in a hurry, step by step.      *)
(***************************************************************************)
UnhurriedOK ==
    /\ BatchOK /\ SeenJobOK
    /\ seen.batch = None => UnseenOK
    /\ seen.batch # None => SeenOK

\* Facts about the order of naturals, for the provers.
LEMMA Order ==
    \A l, m, n \in Nat : /\ l <= m /\ m <= n => l <= n
                         /\ m <= n /\ m # n => m < n
                         /\ m >= 1 /\ m < n => n > 1
  OBVIOUS

\* A reconciliation that is to store something is not idle.
LEMMA NotIdle == ctl.pc \in {"initialized", "running"} => ctl # Idle
  <1>1. Idle.pc = "idle"
    BY DEF Idle
  <1> QED BY <1>1

\* A step of a reconciliation that leaves the batch and the Jobs as they are,
\* and ends it, keeps what holds of the batch.
LEMMA NoWriteStep ==
    ASSUME UnhurriedOK, ctl' = Idle, UNCHANGED <<batch, job, cluster, seen>>
    PROVE  UnhurriedOK'
  BY DEF UnhurriedOK, BatchOK, SeenJobOK, UnseenOK, SeenOK, Owned, Idle

\* Storing a phase that may follow the cached one keeps what holds of the
\* batch: that is what every write of the controller has to show.
LEMMA PhaseStored ==
    ASSUME TypeOK, ContextOK, UnhurriedOK, batch # None, seen.batch # None,
           ctl' = Idle, UNCHANGED <<job, cluster, seen>>,
           batch'.uid = batch.uid, batch'.clusterUID = batch.clusterUID,
           NEW to \in Phases, batch'.phase = to, to \in Ahead(seen.batch.phase),
           to \notin {"", "Initializing"} => batch.clusterUID >= 1,
           to \in {"Running", "Succeeded"} => Owned,
           to = "Succeeded" => job.state = "succeeded",
           to = "Failed" => \/ Owned /\ job.state = "failed"
                            \/ seen.batch.phase = "Initialized" /\ seen.batch.clusterUID < cluster.last
                            \/ seen.batch.phase = "Failed" /\ cluster.last > 1,
           to = "Failed" /\ seen.batch.phase = "Initialized" => seen.batch.clusterUID < cluster.last,
           Owned => to \notin {"", "Initializing"}
    PROVE  UnhurriedOK'
  <1> USE Numbers
  <1>1. Owned' <=> Owned
    BY DEF Owned
  <1>2. SeenOK /\ BatchOK /\ SeenJobOK
    BY DEF UnhurriedOK
  <1>3. to = "Failed" => (Owned /\ job.state = "failed") \/ cluster.last > 1
    <2>1. seen.batch.clusterUID \in Nat /\ cluster.last \in Nat
      OBVIOUS
    <2>2. seen.batch.phase = "Initialized" => seen.batch.clusterUID >= 1
      BY <1>2 DEF SeenOK
    <2>3. seen.batch.phase = "Initialized" /\ seen.batch.clusterUID < cluster.last => cluster.last > 1
      BY <2>1, <2>2, Order
    <2> QED BY <2>3
  <1>4. BatchOK'
    BY <1>1, <1>2, <1>3 DEF BatchOK
  <1>5. SeenJobOK'
    BY <1>1, <1>2 DEF SeenJobOK
  <1>6. SeenOK'
    BY <1>1, <1>2 DEF SeenOK, Idle
  <1> QED BY <1>4, <1>5, <1>6 DEF UnhurriedOK

\* The reconciliation of a batch, phase by phase, keeps what holds of it.
LEMMA ReconcileUnhurried ==
    ASSUME TypeOK, UidsCreated, ContextOK, UnhurriedOK, batch # None, batch' # None, Reconcile
    PROVE  UnhurriedOK'
  <1> USE Numbers
  <1>0. UNCHANGED <<cluster, seen, ran>>
    BY ReconcileFrame
  <1>1. CASE Pause
    <2>1. CASE UNCHANGED batch
      BY <1>0, <1>1, <2>1, NoWriteStep DEF Pause, Ends, Reading
    <2>2. CASE seen.batch = batch /\ batch' = [batch EXCEPT !.pausedCond = batch.paused]
      <3>1. batch'.uid = batch.uid /\ batch'.clusterUID = batch.clusterUID /\ batch'.phase = batch.phase
        BY <2>2 DEF TypeOK, Batch
      <3>2. ctl' = Idle /\ UNCHANGED <<job, cluster, seen>>
        BY <1>1 DEF Pause, Ends, Reading
      <3> QED
        BY <2>2, <3>1, <3>2 DEF UnhurriedOK, BatchOK, SeenJobOK, UnseenOK, SeenOK, Owned, Idle
    <2> QED BY <1>1, <2>1, <2>2 DEF Pause
  <1>2. CASE Ignore
    BY <1>2, NoWriteStep DEF Ignore, Ends, Reading
  <1>3. CASE Accept
    <2>1. seen.batch # None /\ seen.batch.phase = "" /\ UNCHANGED job
      BY <1>3 DEF Accept, InPhase, Reading
    <2>2. SeenOK
      BY <2>1 DEF UnhurriedOK
    <2>3. ctl' = Idle /\ batch'.uid = batch.uid /\ batch'.clusterUID = batch.clusterUID /\ batch'.phase = "Initializing"
      BY <1>3, <2>1, UpdatePhaseEffect DEF Accept, Phases
    <2>4. ~Owned /\ "Initializing" \in Ahead(seen.batch.phase) /\ "Initializing" \in Phases
      BY <2>1, <2>2 DEF SeenOK, Ahead, Phases
    <2> QED BY <1>0, <2>1, <2>3, <2>4, PhaseStored
  <1>4. CASE AwaitCluster
    BY <1>4, NoWriteStep DEF AwaitCluster, Ends, Reading
  <1>5. CASE InitializeResources
    <2>1. seen.batch # None /\ seen.batch.phase = "Initializing" /\ UNCHANGED <<batch, job>> /\ cluster.uid # 0
          /\ ctl = Idle
      BY <1>5 DEF InitializeResources, InPhase, Taken
    <2>2. SeenOK /\ BatchOK
      BY <2>1 DEF UnhurriedOK
    <2>3. CASE ctl' = Idle
      BY <1>0, <2>1, <2>3, NoWriteStep
    <2>4. CASE ctl' = [pc |-> "initialized", to |-> "Initialized", clusterUID |-> cluster.uid]
      <3>1. ~Owned /\ batch.phase \in {"Initializing", "Initialized"}
        BY <2>1, <2>2 DEF SeenOK, Ahead
      <3>2. batch.clusterUID <= cluster.uid
        BY <2>1, <2>2 DEF BatchOK, ContextOK
      <3>3. ctl'.pc = "initialized" /\ ctl'.clusterUID = cluster.uid
        BY <2>4
      <3> QED
        BY <1>0, <2>1, <2>2, <3>1, <3>2, <3>3 DEF UnhurriedOK, BatchOK, SeenJobOK, SeenOK, Owned
    <2> QED BY <1>5, <2>3, <2>4 DEF InitializeResources, Ends
  <1>6. CASE StoreInitialized
    <2>1. ctl.pc = "initialized" /\ UNCHANGED job /\ ctl # Idle
      BY <1>6, NotIdle DEF StoreInitialized, Reading
    <2>2. ctl.to = "Initialized" /\ ctl.clusterUID \in 1..cluster.last
      BY <2>1 DEF ContextOK, Idle
    <2>3. seen.batch # None
      BY <2>1 DEF UnhurriedOK, UnseenOK
    <2>4. SeenOK /\ BatchOK /\ SeenJobOK
      BY <2>3 DEF UnhurriedOK
    <2>5. /\ ctl' = Idle /\ batch'.uid = batch.uid
          /\ batch'.phase = IF "Initialized" = seen.batch.phase THEN batch.phase ELSE "Initialized"
          /\ batch'.clusterUID = IF ctl.clusterUID = seen.batch.clusterUID THEN batch.clusterUID ELSE ctl.clusterUID
      BY <1>6, <2>2, <2>3, StoreInitializedEffect
    <2>6. batch'.phase = "Initialized" /\ ~Owned /\ seen.batch.phase \in {"Initializing", "Initialized"}
      BY <2>1, <2>4, <2>5 DEF SeenOK, Ahead
    <2>7. batch.clusterUID <= ctl.clusterUID /\ seen.batch.clusterUID <= batch.clusterUID
      BY <2>1, <2>4 DEF SeenOK
    <2>8. /\ batch'.clusterUID >= 1 /\ batch'.clusterUID <= cluster.last
          /\ seen.batch.clusterUID <= batch'.clusterUID
      BY <2>2, <2>3, <2>5, <2>7
    <2>9. ~Owned'
      BY <2>1, <2>5, <2>6 DEF Owned
    <2>10. BatchOK' /\ SeenJobOK'
      BY <1>0, <2>1, <2>4, <2>5, <2>6, <2>8, <2>9 DEF BatchOK, SeenJobOK
    <2>11. SeenOK'
      BY <1>0, <2>1, <2>4, <2>5, <2>6, <2>8, <2>9 DEF SeenOK, Ahead, Idle
    <2> QED BY <1>0, <2>3, <2>10, <2>11 DEF UnhurriedOK
  <1>7. CASE ClusterReplaced
    <2>1. seen.batch # None /\ seen.batch.phase = "Initialized" /\ UNCHANGED job
          /\ cluster.uid \notin {0, seen.batch.clusterUID}
      BY <1>7 DEF ClusterReplaced, InPhase, Reading
    <2>2. SeenOK /\ BatchOK
      BY <2>1 DEF UnhurriedOK
    <2>3. ctl' = Idle /\ batch'.uid = batch.uid /\ batch'.clusterUID = batch.clusterUID /\ batch'.phase = "Failed"
      BY <1>7, <2>1, UpdatePhaseEffect DEF ClusterReplaced, Phases
    <2>4. seen.batch.clusterUID < cluster.last /\ batch.clusterUID >= 1
      <3>1. batch.phase \in {"Initialized", "Running", "Failed"} /\ seen.batch.clusterUID <= cluster.last
        <4>1. seen.batch.clusterUID <= batch.clusterUID /\ batch.clusterUID <= cluster.last
          BY <2>2 DEF SeenOK, BatchOK
        <4>2. seen.batch.clusterUID <= cluster.last
          BY <2>1, <4>1
        <4> QED BY <2>1, <2>2, <4>2 DEF SeenOK, Ahead
      <3>2. cluster.last # seen.batch.clusterUID
        BY <2>1 DEF ContextOK
      <3>3. batch.clusterUID >= 1
        BY <2>2, <3>1 DEF BatchOK
      <3>4. seen.batch.clusterUID \in Nat /\ cluster.last \in Nat
        BY <2>1
      <3>5. seen.batch.clusterUID < cluster.last
        BY <3>1, <3>2, <3>4
      <3> QED BY <3>3, <3>5
    <2>5. "Failed" \in Ahead(seen.batch.phase) /\ "Failed" \in Phases
      BY <2>1 DEF Ahead, Phases
    <2> QED BY <1>0, <2>1, <2>3, <2>4, <2>5, PhaseStored
  <1>8. CASE Execute
    <2>1. /\ seen.batch # None /\ seen.batch.phase = "Initialized" /\ UNCHANGED batch
          /\ cluster.uid # 0 /\ cluster.uid = seen.batch.clusterUID
      BY <1>8 DEF Execute, InPhase
    <2>2. SeenOK /\ BatchOK /\ SeenJobOK
      BY <2>1 DEF UnhurriedOK
    <2>3. seen.batch.clusterUID = batch.clusterUID /\ cluster.uid = cluster.last
      <3>1. cluster.uid = cluster.last
        BY <2>1 DEF ContextOK
      <3>2. seen.batch.clusterUID <= batch.clusterUID /\ batch.clusterUID <= cluster.last
        BY <2>2 DEF SeenOK, BatchOK
      <3> QED BY <2>1, <3>1, <3>2
    <2>4. batch.phase \in {"Initialized", "Running"}
      BY <2>1, <2>2, <2>3 DEF SeenOK, Ahead
    <2>5. CASE ctl' = Idle /\ UNCHANGED job
      BY <1>0, <2>1, <2>5, NoWriteStep
    <2>6. CASE /\ seen.job # None /\ seen.job.owner = seen.batch.uid /\ UNCHANGED job
               /\ ctl' = [Idle EXCEPT !.pc = "running", !.to = "Running"]
      <3>1. Owned /\ ctl'.pc = "running"
        BY <2>2, <2>6 DEF SeenOK, SeenJobOK, Idle
      <3>2. Owned'
        BY <2>1, <2>6, <3>1 DEF Owned
      <3>3. SeenOK'
        BY <1>0, <2>1, <2>2, <2>4, <2>6, <3>1, <3>2 DEF SeenOK
      <3>4. BatchOK' /\ SeenJobOK'
        BY <1>0, <2>1, <2>2, <2>6, <3>1, <3>2 DEF BatchOK, SeenJobOK
      <3> QED BY <1>0, <2>1, <3>3, <3>4 DEF UnhurriedOK
    <2>7. CASE /\ seen.job = None /\ job = None
               /\ job' = [owner |-> seen.batch.uid, cluster |-> cluster.uid,
                          mounts |-> ~seen.batch.spec.configMap, state |-> "pending"]
               /\ ctl' = [Idle EXCEPT !.pc = "running", !.to = "Running"]
      <3>1. Owned' /\ ctl'.pc = "running" /\ job'.cluster = batch'.clusterUID /\ job'.state = "pending"
        BY <2>1, <2>2, <2>3, <2>7 DEF Owned, SeenOK, None, Idle
      <3>2. ~Owned
        BY <2>7 DEF Owned
      <3>3. SeenOK'
        BY <1>0, <2>1, <2>2, <2>4, <2>7, <3>1, <3>2 DEF SeenOK
      <3>4. BatchOK' /\ SeenJobOK'
        BY <1>0, <2>1, <2>2, <2>4, <2>7, <3>1, <3>2 DEF BatchOK, SeenJobOK
      <3> QED BY <1>0, <2>1, <3>3, <3>4 DEF UnhurriedOK
    <2> QED BY <1>8, <2>5, <2>6, <2>7 DEF Execute, Ends
  <1>9. CASE StoreRunning
    <2>1. ctl.pc = "running" /\ UNCHANGED job /\ ctl # Idle
      BY <1>9, NotIdle DEF StoreRunning, Reading
    <2>2. ctl.to = "Running"
      BY <2>1 DEF ContextOK, Idle
    <2>3. seen.batch # None
      BY <2>1 DEF UnhurriedOK, UnseenOK
    <2>4. SeenOK /\ BatchOK
      BY <2>3 DEF UnhurriedOK
    <2>5. /\ ctl' = Idle /\ batch'.uid = batch.uid /\ batch'.clusterUID = batch.clusterUID
          /\ batch'.phase = IF "Running" = seen.batch.phase THEN batch.phase ELSE "Running"
      BY <1>9, <2>2, <2>3, UpdatePhaseEffect DEF StoreRunning, Phases
    <2>6. batch'.phase = "Running" /\ Owned /\ seen.batch.phase \in {"Initialized", "Running"}
      BY <2>1, <2>4, <2>5 DEF SeenOK, Ahead
    <2>7. "Running" \in Ahead(seen.batch.phase) /\ "Running" \in Phases
      BY <2>6 DEF Ahead, Phases
    <2>8. batch.clusterUID >= 1
      BY <2>1, <2>4 DEF SeenOK, BatchOK
    <2> QED BY <1>0, <2>1, <2>3, <2>5, <2>6, <2>7, <2>8, PhaseStored
  <1>10. CASE WaitToComplete
    <2>1. seen.batch # None /\ seen.batch.phase = "Running" /\ UNCHANGED job
      BY <1>10 DEF WaitToComplete, InPhase, Reading
    <2>2. SeenOK /\ BatchOK /\ SeenJobOK
      BY <2>1 DEF UnhurriedOK
    <2>3. Owned /\ batch.clusterUID >= 1
      BY <2>1, <2>2 DEF SeenOK, BatchOK, Ahead
    <2>4. CASE UNCHANGED batch /\ ctl' = Idle
      BY <1>0, <2>1, <2>4, NoWriteStep
    <2>5. ASSUME NEW to \in {"Succeeded", "Failed"}, UpdatePhase(to),
                 seen.job # None, to = "Succeeded" => seen.job.state = "succeeded",
                 to = "Failed" => seen.job.state = "failed"
          PROVE  UnhurriedOK'
      <3>1. ctl' = Idle /\ batch'.uid = batch.uid /\ batch'.clusterUID = batch.clusterUID /\ batch'.phase = to
        BY <2>1, <2>5, UpdatePhaseEffect DEF Phases
      <3>2. job.state = seen.job.state
        BY <2>2, <2>3, <2>5 DEF SeenJobOK
      <3>3. to \in Ahead(seen.batch.phase) /\ to \in Phases
        BY <2>1 DEF Ahead, Phases
      <3> QED BY <1>0, <2>1, <2>3, <2>5, <3>1, <3>2, <3>3, PhaseStored
    <2> QED BY <1>10, <2>4, <2>5 DEF WaitToComplete, Ends
  <1> QED
    BY <1>1, <1>2, <1>3, <1>4, <1>5, <1>6, <1>7, <1>8, <1>9, <1>10 DEF Reconcile

\* What the informers, the Job controller, the garbage collector, users and a
\* crash do keeps what holds of a batch that was there before.
LEMMA OthersUnhurried ==
    ASSUME TypeOK, TypeOK', UidsCreated, ContextOK, UnhurriedOK, batch # None, batch' # None, Next, ~Reconcile
    PROVE  UnhurriedOK'
  <1> USE Numbers
  <1>1. CASE DeliverBatch
    <2>1. /\ seen'.batch = batch /\ seen'.job = seen.job
          /\ UNCHANGED <<batch, job, cluster, ctl>>
      BY <1>1 DEF DeliverBatch, TypeOK
    <2>2. BatchOK /\ SeenJobOK
      BY DEF UnhurriedOK
    <2>3. seen.batch # None => SeenOK
      BY DEF UnhurriedOK
    <2>4. seen.batch = None => UnseenOK
      BY DEF UnhurriedOK
    <2>5. Owned' <=> Owned
      BY <2>1 DEF Owned
    <2>6. BatchOK' /\ SeenJobOK'
      BY <2>1, <2>2, <2>5 DEF BatchOK, SeenJobOK
    <2>7. Owned => batch.phase \notin {"", "Initializing"}
      BY <2>3, <2>4 DEF SeenOK, UnseenOK, Ahead, Phases
    <2>8. batch.phase \in Ahead(batch.phase)
      BY DEF Ahead, Phases
    <2>9. ctl.pc = "initialized" => batch.phase \in {"Initializing", "Initialized"} /\ ~Owned /\ batch.clusterUID <= ctl.clusterUID
      BY <2>3, <2>4, NotIdle DEF SeenOK, UnseenOK
    <2>10. ctl.pc = "running" => batch.phase \in {"Initialized", "Running"} /\ Owned
      BY <2>3, <2>4, NotIdle DEF SeenOK, UnseenOK
    <2>11. SeenOK'
      <3>1. batch.clusterUID <= batch.clusterUID
        OBVIOUS
      <3>2. batch.phase \notin {"", "Initializing"} => batch.clusterUID >= 1
        BY <2>2 DEF BatchOK
      <3>3. batch' = batch /\ seen'.batch = batch'
        BY <2>1
      <3> QED BY <3>1, <3>2, <3>3, <2>1, <2>2, <2>5, <2>7, <2>8, <2>9, <2>10 DEF SeenOK
    <2> QED BY <2>1, <2>6, <2>11 DEF UnhurriedOK
  <1>2. CASE DeliverJob
    <2>1. /\ seen'.batch = seen.batch /\ seen'.job = job
          /\ UNCHANGED <<batch, job, cluster, ctl>>
      BY <1>2 DEF DeliverJob, TypeOK
    <2> QED BY <2>1 DEF UnhurriedOK, BatchOK, SeenJobOK, UnseenOK, SeenOK, Owned
  <1>3. CASE JobController
    <2>1. UNCHANGED <<batch, cluster, seen, ctl>>
      BY <1>3, JobControllerType
    <2>2. /\ job # None /\ job' # None
          /\ job'.owner = job.owner /\ job'.cluster = job.cluster
          /\ job.state \notin {"succeeded", "failed"}
      BY <1>3, JobSteps
    <2>3. Owned' <=> Owned
      BY <2>1, <2>2 DEF Owned
    <2>4. BatchOK'
      BY <2>1, <2>2, <2>3 DEF UnhurriedOK, BatchOK
    <2>5. SeenJobOK'
      BY <2>1, <2>2, <2>3 DEF UnhurriedOK, SeenJobOK
    <2>6. seen.batch = None => UnseenOK'
      BY <2>1, <2>2, <2>3 DEF UnhurriedOK, UnseenOK
    <2>7. seen.batch # None => SeenOK'
      BY <2>1, <2>2, <2>3 DEF UnhurriedOK, SeenOK
    <2> QED BY <2>1, <2>4, <2>5, <2>6, <2>7 DEF UnhurriedOK
  <1>4. CASE Collect
    <2>1. UNCHANGED <<batch, cluster, seen, ctl>>
      BY <1>4 DEF Collect
    <2>2. (Owned => UNCHANGED job) /\ (Owned' <=> Owned)
      BY <1>4 DEF Collect, Orphan, Owned
    <2>3. BatchOK' /\ SeenJobOK'
      BY <2>1, <2>2 DEF UnhurriedOK, BatchOK, SeenJobOK
    <2>4. (seen.batch = None => UnseenOK') /\ (seen.batch # None => SeenOK')
      BY <2>1, <2>2 DEF UnhurriedOK, UnseenOK, SeenOK
    <2> QED BY <2>1, <2>3, <2>4 DEF UnhurriedOK
  <1>5. CASE UserPauses
    <2>1. batch'.uid = batch.uid /\ batch'.clusterUID = batch.clusterUID /\ batch'.phase = batch.phase
      BY <1>5 DEF UserPauses, TypeOK, Batch
    <2>2. UNCHANGED <<job, cluster, seen, ctl>>
      BY <1>5 DEF UserPauses, Change
    <2> QED BY <2>1, <2>2 DEF UnhurriedOK, BatchOK, SeenJobOK, UnseenOK, SeenOK, Owned
  <1>6. CASE ClusterChanges
    <2>1. UNCHANGED <<batch, job, seen, ctl>> /\ cluster'.last \in Nat /\ cluster.last \in Nat /\ cluster'.last >= cluster.last
      BY <1>6, ClusterEffect DEF ContextOK
    <2>2. \A n \in Nat : /\ n <= cluster.last => n <= cluster'.last
                         /\ n < cluster.last => n < cluster'.last
      BY <2>1
    <2>3. cluster.last > 1 => cluster'.last > 1
      BY <2>1
    <2>4. Owned' <=> Owned
      BY <2>1 DEF Owned
    <2>5. BatchOK' /\ SeenJobOK'
      BY <2>1, <2>2, <2>3, <2>4 DEF UnhurriedOK, BatchOK, SeenJobOK
    <2>6. (seen.batch = None => UnseenOK') /\ (seen.batch # None => SeenOK')
      BY <2>1, <2>2, <2>4 DEF UnhurriedOK, UnseenOK, SeenOK
    <2> QED BY <2>1, <2>5, <2>6 DEF UnhurriedOK
  <1>7. CASE OperatorCrash
    <2>1. /\ seen'.batch = batch /\ seen'.job = job /\ ctl' = Idle /\ ctl # Idle
          /\ UNCHANGED <<batch, job, cluster>>
      BY <1>7 DEF OperatorCrash
    <2>2. BatchOK /\ SeenJobOK /\ SeenOK
      BY <2>1 DEF UnhurriedOK, UnseenOK
    <2>3. Owned' <=> Owned
      BY <2>1 DEF Owned
    <2>4. BatchOK' /\ SeenJobOK'
      BY <2>1, <2>2, <2>3 DEF BatchOK, SeenJobOK, Owned
    <2>5. Owned => batch.phase \notin {"", "Initializing"}
      BY <2>2 DEF SeenOK, Ahead, Phases
    <2>6. batch.phase \in Ahead(batch.phase)
      BY DEF Ahead, Phases
    <2>7. ctl'.pc = "idle"
      BY <2>1 DEF Idle
    <2>8. SeenOK'
      <3>1. batch.clusterUID <= batch.clusterUID
        OBVIOUS
      <3>2. batch.phase \notin {"", "Initializing"} => batch.clusterUID >= 1
        BY <2>2 DEF BatchOK
      <3>3. batch' = batch /\ seen'.batch = batch'
        BY <2>1
      <3> QED BY <3>1, <3>2, <3>3, <2>1, <2>2, <2>3, <2>5, <2>6, <2>7 DEF SeenOK
    <2> QED BY <2>1, <2>4, <2>8 DEF UnhurriedOK
  <1> QED
    BY <1>1, <1>2, <1>3, <1>4, <1>5, <1>6, <1>7 DEF Next, UserCreates, UserDeletes

\* Every step keeps what holds of a batch whose user was not in a hurry.
LEMMA UnhurriedStep ==
    ASSUME TypeOK, TypeOK', UidsCreated, ContextOK, Unhurried, Next
    PROVE  Unhurried'
  <1> USE Numbers
  <1> SUFFICES ASSUME hurry' = 0, batch' # None PROVE UnhurriedOK'
    BY DEF Unhurried, UnhurriedOK
  <1>1. CASE UserCreates
    <2>1. /\ batch'.uid = created + 1 /\ batch'.phase = "" /\ batch'.clusterUID = 0
          /\ seen.batch = None /\ ctl = Idle
          /\ UNCHANGED <<job, cluster, seen, ctl>>
      BY <1>1, CreatesEffect
    <2>2. created \in Nat /\ cluster.last \in Nat
      OBVIOUS
    <2>3. job # None => job.owner # created + 1
      BY <2>2 DEF UidsCreated
    <2>4. seen.job # None => seen.job.owner # created + 1
      BY <2>2 DEF UidsCreated
    <2>5. ~Owned'
      BY <2>1, <2>3 DEF Owned
    <2>6. 0 <= cluster.last
      BY <2>2
    <2> QED BY <2>1, <2>4, <2>5, <2>6 DEF UnhurriedOK, BatchOK, SeenJobOK, UnseenOK
  <1>2. CASE ~UserCreates
    <2>1. hurry = 0
      BY <1>2, ReconcileFrame, JobControllerType
      DEF Next, DeliverBatch, DeliverJob, Collect, UserDeletes, UserPauses, ClusterChanges, OperatorCrash, history
    <2>2. batch # None
      BY <1>2, UidKept, JobControllerType
      DEF Next, DeliverBatch, DeliverJob, Collect, UserDeletes, UserPauses, ClusterChanges, OperatorCrash
    <2>3. UnhurriedOK
      BY <2>1, <2>2 DEF Unhurried, UnhurriedOK
    <2> QED BY <2>2, <2>3, ReconcileUnhurried, OthersUnhurried
  <1> QED BY <1>1, <1>2

-----------------------------------------------------------------------------
(***************************************************************************)
(* The theorems.                                                           *)
(***************************************************************************)

\* The initial state satisfies the invariant.
LEMMA InitIInv == Init => IInv
  <1> SUFFICES ASSUME Init PROVE IInv
    OBVIOUS
  <1> USE BoundsAssumption DEF Init
  <1>1. TypeOK
    <2>2. cluster \in [uid: ClusterUid, stable: BOOLEAN, last: ClusterUid]
      <3>1. 1 \in ClusterUid
        BY DEF ClusterUid
      <3> QED BY <3>1
    <2>3. started \in [Uid -> 0..2] /\ configMap \in 0..MaxBatches /\ created \in 0..MaxBatches
      OBVIOUS
    <2>4. changes \in 0..MaxChanges /\ hurry \in 0..MaxHurry /\ crashes \in 0..MaxCrashes
      OBVIOUS
    <2>5. seen \in [batch: Batch \cup {None}, job: Job \cup {None}]
      OBVIOUS
    <2> QED BY IdleType, <2>2, <2>3, <2>4, <2>5 DEF TypeOK
  <1>2. UidsCreated /\ StartedOnce /\ Unhurried
    BY DEF UidsCreated, StartedOnce, Unhurried
  <1>3. ContextOK
    BY DEF ContextOK
  <1> QED BY <1>1, <1>2, <1>3 DEF IInv

\* Every step keeps the invariant.
LEMMA StepIInv == IInv /\ [Next]_vars => IInv'
  <1> SUFFICES ASSUME IInv, [Next]_vars PROVE IInv'
    OBVIOUS
  <1>1. TypeOK'
    BY TypeStep DEF IInv
  <1>2. CASE Next
    BY <1>1, <1>2, UidsStep, StartedStep, ContextStep, UnhurriedStep DEF IInv
  <1>3. CASE UNCHANGED vars
    <2>1. UNCHANGED <<batch, job, cluster, seen, ctl, ran, created, started, hurry>>
      BY <1>3 DEF vars
    <2>2. UidsCreated' /\ ContextOK'
      BY <2>1 DEF IInv, UidsCreated, ContextOK
    <2>3. StartedOnce' /\ (Owned' <=> Owned)
      BY <2>1 DEF IInv, StartedOnce, Owned
    <2>4. (BatchOK' <=> BatchOK) /\ (SeenJobOK' <=> SeenJobOK) /\ (UnseenOK' <=> UnseenOK)
      BY <2>1, <2>3 DEF BatchOK, SeenJobOK, UnseenOK
    <2>5. SeenOK' <=> SeenOK
      BY <2>1, <2>3 DEF SeenOK
    <2> QED BY <1>1, <2>1, <2>2, <2>3, <2>4, <2>5 DEF IInv, Unhurried
  <1> QED BY <1>2, <1>3

\* The script of a batch is started at most once, however often the
\* controller reaches the creation of its Job, crashes or works from a
\* cache that is behind.
THEOREM StartsOnce == Spec => []ExecutedOnce
  <1>1. IInv => ExecutedOnce
    BY DEF IInv, StartedOnce, ExecutedOnce
  <1> QED BY <1>1, InitIInv, StepIInv, PTL DEF Spec

\* The outcome a batch reports is that of its own Job on the cluster it was
\* meant for.
THEOREM Truthful == Spec => []OutcomeTruthful
  <1>1. IInv => OutcomeTruthful
    <2> SUFFICES ASSUME IInv, batch # None, hurry = 0
                 PROVE  /\ batch.phase = "Succeeded" =>
                              \E j \in ran : j.owner = batch.uid /\ j.cluster = batch.clusterUID /\ j.state = "succeeded"
                        /\ batch.phase = "Failed" =>
                              \/ \E j \in ran : j.owner = batch.uid /\ j.state = "failed"
                              \/ cluster.last > 1
      BY DEF OutcomeTruthful
    <2>1. BatchOK /\ ContextOK
      BY DEF IInv, Unhurried
    <2> QED BY <2>1 DEF BatchOK, ContextOK, Owned
  <1> QED BY <1>1, InitIInv, StepIInv, PTL DEF Spec

\* The phases a step may replace one by.
Follow == {<<"", "Initializing">>, <<"Initializing", "Initialized">>, <<"Initialized", "Running">>,
           <<"Initialized", "Failed">>, <<"Running", "Succeeded">>, <<"Running", "Failed">>}

\* Phases are ranked in the order in which they follow one another.
LEMMA RankValues ==
    /\ Rank[""] = 0 /\ Rank["Initializing"] = 1 /\ Rank["Initialized"] = 2
    /\ Rank["Running"] = 3 /\ Rank["Succeeded"] = 4 /\ Rank["Failed"] = 4
  BY DEF Rank, Phases

\* Replacing a phase by one that may follow it advances it.
LEMMA FollowAdvances ==
    ASSUME NEW p \in Phases, NEW q \in Phases, p = q \/ <<p, q>> \in Follow
    PROVE  Rank[p] <= Rank[q] /\ (p \in Terminal => q = p)
  <1>1. \/ p = q
        \/ p = "" /\ q = "Initializing"
        \/ p = "Initializing" /\ q = "Initialized"
        \/ p = "Initialized" /\ q \in {"Running", "Failed"}
        \/ p = "Running" /\ q \in {"Succeeded", "Failed"}
    BY DEF Follow
  <1>2. Rank[p] \in Nat
    BY DEF Rank
  <1>3. Rank[p] <= Rank[q]
    <2>1. CASE p = q
      BY <1>2, <2>1
    <2>2. CASE p = "" /\ q = "Initializing"
      <3>1. Rank[p] = 0 /\ Rank[q] = 1
        BY <2>2, RankValues
      <3> QED BY <3>1
    <2>3. CASE p = "Initializing" /\ q = "Initialized"
      <3>1. Rank[p] = 1 /\ Rank[q] = 2
        BY <2>3, RankValues
      <3> QED BY <3>1
    <2>4. CASE p = "Initialized" /\ q \in {"Running", "Failed"}
      <3>1. Rank[p] = 2 /\ Rank[q] \in {3, 4}
        BY <2>4, RankValues
      <3> QED BY <3>1
    <2>5. CASE p = "Running" /\ q \in {"Succeeded", "Failed"}
      <3>1. Rank[p] = 3 /\ Rank[q] = 4
        BY <2>5, RankValues
      <3> QED BY <3>1
    <2> QED BY <1>1, <2>1, <2>2, <2>3, <2>4, <2>5
  <1> QED BY <1>1, <1>3 DEF Terminal

\* Whatever copy of the batch a reconciliation works from, the phase it
\* stores is the stored one or one that follows it.
LEMMA ReconcileFollows ==
    ASSUME TypeOK, ContextOK, UnhurriedOK, batch # None, batch' # None, Reconcile
    PROVE  batch'.phase = batch.phase \/ <<batch.phase, batch'.phase>> \in Follow
  <1> USE Numbers
  <1>1. CASE Pause
    <2>1. CASE batch' = [batch EXCEPT !.pausedCond = batch.paused]
      BY <2>1 DEF TypeOK, Batch
    <2> QED BY <1>1, <2>1 DEF Pause
  <1>2. CASE UNCHANGED batch
    BY <1>2
  <1>3. CASE Accept
    <2>1. seen.batch # None /\ seen.batch.phase = ""
      BY <1>3 DEF Accept, InPhase
    <2>2. batch'.phase = "Initializing"
      BY <1>3, <2>1, UpdatePhaseEffect DEF Accept, Phases
    <2>3. batch.phase \in {"", "Initializing"}
      BY <2>1 DEF UnhurriedOK, SeenOK, Ahead
    <2> QED BY <2>2, <2>3 DEF Follow
  <1>4. CASE StoreInitialized
    <2>1. ctl.pc = "initialized" /\ ctl # Idle
      BY <1>4, NotIdle DEF StoreInitialized
    <2>2. seen.batch # None /\ ctl.to = "Initialized"
      BY <2>1 DEF UnhurriedOK, UnseenOK, ContextOK
    <2>3. batch.phase \in {"Initializing", "Initialized"}
      BY <2>1, <2>2 DEF UnhurriedOK, SeenOK
    <2>4. batch'.phase \in {batch.phase, "Initialized"}
      BY <1>4, <2>2, StoreInitializedEffect
    <2> QED BY <2>3, <2>4 DEF Follow
  <1>5. CASE ClusterReplaced
    <2>1. seen.batch # None /\ seen.batch.phase = "Initialized"
      BY <1>5 DEF ClusterReplaced, InPhase
    <2>2. batch'.phase = "Failed"
      BY <1>5, <2>1, UpdatePhaseEffect DEF ClusterReplaced, Phases
    <2>3. batch.phase \in {"Initialized", "Running", "Failed"}
      BY <2>1 DEF UnhurriedOK, SeenOK, Ahead
    <2> QED BY <2>2, <2>3 DEF Follow
  <1>6. CASE StoreRunning
    <2>1. ctl.pc = "running" /\ ctl # Idle
      BY <1>6, NotIdle DEF StoreRunning
    <2>2. seen.batch # None /\ ctl.to = "Running"
      BY <2>1 DEF UnhurriedOK, UnseenOK, ContextOK
    <2>3. batch.phase \in {"Initialized", "Running"}
      BY <2>1, <2>2 DEF UnhurriedOK, SeenOK
    <2>4. batch'.phase \in {batch.phase, "Running"}
      BY <1>6, <2>2, UpdatePhaseEffect DEF StoreRunning, Phases
    <2> QED BY <2>3, <2>4 DEF Follow
  <1>7. CASE WaitToComplete
    <2>1. seen.batch # None /\ seen.batch.phase = "Running"
      BY <1>7 DEF WaitToComplete, InPhase
    <2>2. SeenOK /\ BatchOK /\ SeenJobOK
      BY <2>1 DEF UnhurriedOK
    <2>3. batch.phase \in {"Running", "Succeeded", "Failed"} /\ Owned
      BY <2>1, <2>2 DEF SeenOK, BatchOK, Ahead
    <2>4. ASSUME NEW to \in {"Succeeded", "Failed"}, UpdatePhase(to), seen.job # None,
                 to = "Succeeded" => seen.job.state = "succeeded",
                 to = "Failed" => seen.job.state = "failed"
          PROVE  batch'.phase = batch.phase \/ <<batch.phase, batch'.phase>> \in Follow
      <3>1. batch'.phase = to
        BY <2>1, <2>4, UpdatePhaseEffect DEF Phases
      <3>2. job.state = seen.job.state
        BY <2>2, <2>3, <2>4 DEF SeenJobOK
      <3>3. batch.phase \in {"Running", to}
        BY <2>1, <2>2, <2>3, <2>4, <3>2 DEF BatchOK, SeenOK
      <3> QED BY <3>1, <3>3 DEF Follow
    <2> QED BY <1>7, <2>4 DEF WaitToComplete
  <1> QED
    BY <1>1, <1>2, <1>3, <1>4, <1>5, <1>6, <1>7
    DEF Reconcile, Ignore, AwaitCluster, InitializeResources, Execute

\* The stored phase of a batch only advances and its outcome is final, for
\* every copy of the batch the controller may work from.
THEOREM Advances == Spec => PhaseAdvances
  <1>1. IInv /\ IInv' /\ [Next]_vars =>
           [batch # None /\ batch' # None /\ batch'.uid = batch.uid /\ hurry = 0 =>
               /\ Rank[batch.phase] <= Rank[batch'.phase]
               /\ batch.phase \in Terminal => batch'.phase = batch.phase]_vars
    <2> SUFFICES ASSUME IInv, IInv', Next, batch # None, batch' # None, batch'.uid = batch.uid, hurry = 0
                 PROVE  /\ Rank[batch.phase] <= Rank[batch'.phase]
                        /\ batch.phase \in Terminal => batch'.phase = batch.phase
      OBVIOUS
    <2>1. batch.phase \in Phases /\ batch'.phase \in Phases
      BY DEF IInv, TypeOK, Batch
    <2>2. CASE Reconcile
      <3>1. TypeOK /\ ContextOK /\ UnhurriedOK
        BY DEF IInv, Unhurried, UnhurriedOK
      <3> QED BY <2>1, <2>2, <3>1, ReconcileFollows, FollowAdvances
    <2>3. CASE UserPauses
      <3>1. batch'.phase = batch.phase
        BY <2>3 DEF UserPauses, IInv, TypeOK, Batch
      <3> QED BY <2>1, <3>1, FollowAdvances
    <2>4. CASE ~Reconcile /\ ~UserPauses
      <3>1. batch' = batch
        BY <2>4, JobControllerType
        DEF IInv, Next, DeliverBatch, DeliverJob, Collect, UserCreates, UserDeletes, ClusterChanges, OperatorCrash
      <3> QED BY <2>1, <3>1, FollowAdvances
    <2> QED BY <2>2, <2>3, <2>4
  <1> QED BY <1>1, InitIInv, StepIInv, PTL DEF Spec, PhaseAdvances
=============================================================================
