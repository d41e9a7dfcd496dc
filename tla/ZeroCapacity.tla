---------------------------- MODULE ZeroCapacity ----------------------------
(***************************************************************************)
(* Backup and Restore resources.  Each is carried out by a pod of its own, *)
(* which joins the Infinispan cluster as a member without data (the        *)
(* "zero-capacity" pod), and by a controller that moves status.phase from  *)
(* Initializing to Succeeded or Failed.                                    *)
(*                                                                         *)
(* A reconcile of one resource is a pass of `pc' from "idle" back to       *)
(* "idle", one action per call to the API server or to the server in the   *)
(* pod.  The other actors are the user, the informer, the garbage          *)
(* collector, the kubelet, the Infinispan cluster and the faults.          *)
(***************************************************************************)
EXTENDS Naturals, Sequences, FiniteSets

LOCAL INSTANCE FiniteSetsExt

CONSTANTS
    Backups,     \* the names of Backup resources
    Restores,    \* the names of Restore resources
    Source,      \* the Backup that a Restore names in spec.backup
    MaxCreates,  \* bound on how many resources are created
    MaxChanges,  \* bound on deletions and on changes of the Infinispan cluster
    MaxFaults,   \* bound on the number of faults
    Faults       \* the faults that may occur, a subset of FaultKinds

(***************************************************************************)
(* "crash"  the operator process dies and a new one starts;                *)
(* "call"   a REST call to the server in the pod fails, or its answer is   *)
(*          lost;                                                          *)
(* "evict"  the pod is evicted from its node (its restart policy is Never).*)
(***************************************************************************)
FaultKinds == {"crash", "call", "evict"}

ASSUME NamesAssumption ==
    /\ Backups \cap Restores = {}
    /\ Source \in [Restores -> Backups]

ASSUME LimitsAssumption ==
    /\ MaxCreates \in Nat \ {0}
    /\ MaxChanges \in Nat /\ MaxFaults \in Nat
    /\ Faults \subseteq FaultKinds

VARIABLES
    res,      \* per name, the resource in the API server
    watch,    \* per name, its versions the informer has yet to deliver
    cache,    \* per name, the version in the informer's cache
    queued,   \* per name, whether a reconcile request is in the work queue
    pc,       \* per name, the next step of the running reconcile, or "idle"
    copy,     \* per name, the reconcile's copy of the resource
    claim,    \* per Backup, the instance that owns the volume claim, or 0
    pod,      \* per name, the zero-capacity pod
    task,     \* per name, the state of the operation on the pod's server
    archive,  \* the Backups whose archive is complete on its volume
    cluster,  \* the Infinispan cluster, as its conditions show it
    created,  \* per name, how often the user has created it (its instance)
    runs,     \* (history) per name and instance, the operations accepted
    done,     \* (history) per name, the instances with a completed operation
    changes,  \* changes of the cluster so far
    faults    \* the kinds of fault so far, each at most once

resVars  == <<res, watch>>
podVars  == <<claim, pod, task, archive, runs, done>>
envVars  == <<cluster, created, changes>>

vars == <<resVars, cache, queued, pc, copy, podVars, envVars, faults>>

-----------------------------------------------------------------------------
Names == Backups \cup Restores

Ended  == {"Succeeded", "Failed"}
Phases == {"", "Initializing", "Initialized", "Running"} \cup Ended

\* uid numbers the resources of one name that the user creates, 0 stands for
\* the absence that a deletion leaves.
Instance   == 0..MaxCreates
Resource   == [uid : Instance, phase : Phases]
NoResource == [uid |-> 0, phase |-> ""]
Exists(r)  == r.uid # 0

\* A pod is owned by the instance of the resource that created it.
ZeroPods == [state : {"none", "starting", "ready", "terminated"},
             owner : Instance]
NoPod    == [state |-> "none", owner |-> 0]

Steps == {"idle", "Accept", "Init", "CreatePod", "MarkInitialized", "Execute",
          "MarkRunning", "Wait", "MarkSucceeded", "MarkFailed", "Cleanup"}

TypeOK ==
    /\ res \in [Names -> Resource]
    /\ watch \in [Names -> Seq(Resource)]
    /\ cache \in [Names -> Resource]
    /\ queued \in [Names -> BOOLEAN]
    /\ pc \in [Names -> Steps]
    /\ copy \in [Names -> Resource]
    /\ claim \in [Backups -> Instance]
    /\ pod \in [Names -> ZeroPods]
    /\ task \in [Names -> {"none", "running", "done", "failed"}]
    /\ archive \in SUBSET Backups
    /\ cluster \in {"absent", "unstable", "stable"}
    /\ created \in [Names -> Instance]
    /\ runs \in [Names -> [Instance -> Nat]]
    /\ done \in [Names -> SUBSET Instance]
    /\ changes \in 0..MaxChanges
    /\ faults \subseteq Faults

Init ==
    /\ res = [n \in Names |-> NoResource]
    /\ watch = [n \in Names |-> <<>>]
    /\ cache = [n \in Names |-> NoResource]
    /\ queued = [n \in Names |-> FALSE]
    /\ pc = [n \in Names |-> "idle"]
    /\ copy = [n \in Names |-> NoResource]
    /\ claim = [b \in Backups |-> 0]
    /\ pod = [n \in Names |-> NoPod]
    /\ task = [n \in Names |-> "none"]
    /\ archive = {}
    /\ cluster \in {"unstable", "stable"}
    /\ created = [n \in Names |-> 0]
    /\ runs = [n \in Names |-> [i \in Instance |-> 0]]
    /\ done = [n \in Names |-> {}]
    /\ changes = 0 /\ faults = {}

-----------------------------------------------------------------------------
\* A write that changes nothing makes no new version and no event.
Store(n, new) ==
    /\ res' = [res EXCEPT ![n] = new]
    /\ watch' = [watch EXCEPT ![n] = IF new = res[n] THEN @ ELSE Append(@, new)]

Goto(n, step) ==
    /\ pc' = [pc EXCEPT ![n] = step]
    /\ UNCHANGED queued

End(n, retry) ==
    /\ pc' = [pc EXCEPT ![n] = "idle"]
    /\ queued' = [queued EXCEPT ![n] = @ \/ retry]

\* UpdatePhase reads the resource again from the informer's cache, into the
\* reconcile's copy, and patches the phase if it differs.  The patch names no
\* resource version and no instance.
UpdatePhase(n, phase) ==
    /\ copy' = [copy EXCEPT ![n] = IF Exists(cache[n])
                                   THEN [cache[n] EXCEPT !.phase = phase]
                                   ELSE @]
    /\ \/ /\ Exists(cache[n]) /\ Exists(res[n])
          /\ IF cache[n].phase = phase
             THEN UNCHANGED resVars
             ELSE Store(n, [res[n] EXCEPT !.phase = phase])
          /\ End(n, FALSE)
       \/ /\ ~(Exists(cache[n]) /\ Exists(res[n]))
          /\ End(n, TRUE)
          /\ UNCHANGED resVars

-----------------------------------------------------------------------------
(***************************************************************************)
(* The controller.  The Backup and the Restore controller have one worker  *)
(* each.                                                                   *)
(***************************************************************************)
SameController(m, n) == m \in Backups <=> n \in Backups

\* The step for the phase in the cache.  After Initializing the Infinispan
\* resource must exist; if it does not, an ended operation has nothing to
\* clean up and any other one is an error.
Reconcile(n) ==
    /\ queued[n]
    /\ \A m \in Names : SameController(m, n) => pc[m] = "idle"
    /\ copy' = [copy EXCEPT ![n] = cache[n]]
    /\ LET phase == cache[n].phase
           start(step) == /\ pc' = [pc EXCEPT ![n] = step]
                          /\ queued' = [queued EXCEPT ![n] = FALSE]
           found == Exists(cache[n])
       IN  \/ ~found /\ start("idle")
           \/ found /\ phase = "" /\ start("Accept")
           \/ found /\ phase = "Initializing" /\ start("Init")
           \/ found /\ phase \in Ended /\ cluster = "absent" /\ start("idle")
           \/ /\ found /\ phase \in {"Initialized", "Running"}
              /\ cluster = "absent"
              /\ UNCHANGED <<pc, queued>>
           \/ /\ found /\ phase = "Initialized" /\ cluster # "absent"
              /\ start("Execute")
           \/ /\ found /\ phase = "Running" /\ cluster # "absent"
              /\ start("Wait")
           \/ /\ found /\ phase \in Ended /\ cluster # "absent"
              /\ start("Cleanup")
    /\ UNCHANGED <<resVars, podVars, faults>>

Accept(n) ==
    /\ pc[n] = "Accept"
    /\ UpdatePhase(n, "Initializing")
    /\ UNCHANGED <<podVars, faults>>

\* A Backup creates its volume claim.  (The name of the claim, set in the copy,
\* is lost: UpdatePhase reads the resource into the copy before it patches.)
InitBackup(n) ==
    /\ claim' = [claim EXCEPT ![n] = IF @ = 0 THEN copy[n].uid ELSE @]
    /\ Goto(n, "CreatePod")

\* A Restore needs its Backup, in whatever phase that is.
InitRestore(n) ==
    /\ IF Exists(cache[Source[n]])
       THEN Goto(n, "CreatePod")
       ELSE End(n, TRUE)
    /\ UNCHANGED claim

InitResources(n) ==
    /\ pc[n] = "Init"
    /\ \/ /\ cluster # "stable"
          /\ End(n, TRUE)
          /\ UNCHANGED claim
       \/ cluster = "stable" /\ n \in Backups /\ InitBackup(n)
       \/ cluster = "stable" /\ n \in Restores /\ InitRestore(n)
    /\ UNCHANGED <<resVars, copy, pod, task, archive, runs, done, faults>>

\* A pod of this name is taken as it is, whoever owns it.
CreatePod(n) ==
    /\ pc[n] = "CreatePod"
    /\ pod' = [pod EXCEPT ![n] = IF @ = NoPod
                                 THEN [state |-> "starting", owner |-> copy[n].uid]
                                 ELSE @]
    /\ Goto(n, "MarkInitialized")
    /\ UNCHANGED <<resVars, copy, claim, task, archive, runs, done, faults>>

MarkInitialized(n) ==
    /\ pc[n] = "MarkInitialized"
    /\ UpdatePhase(n, "Initialized")
    /\ UNCHANGED <<podVars, faults>>

Fault(kind) ==
    /\ kind \in Faults \ faults /\ Cardinality(faults) < MaxFaults
    /\ faults' = faults \cup {kind}

CallFails == Fault("call")

\* (mutant) The operation is created without asking for its status.
ExecuteUnasked(n) ==
    /\ pc[n] = "Execute"
    /\ \/ /\ pod[n].state # "ready"
          /\ End(n, TRUE)
          /\ UNCHANGED <<task, runs, faults>>
       \/ /\ pod[n].state = "ready"
          /\ task' = [task EXCEPT ![n] = "running"]
          /\ runs' = [runs EXCEPT ![n][pod[n].owner] = @ + 1]
          /\ Goto(n, "MarkRunning")
          /\ UNCHANGED faults
    /\ UNCHANGED <<resVars, copy, claim, pod, archive, done>>

\* The operation is created unless the server knows it already.  A failed call
\* ends the resource; the server may have accepted the request nevertheless.
Execute(n) ==
    /\ pc[n] = "Execute"
    /\ \/ /\ pod[n].state # "ready"
          /\ End(n, TRUE)
          /\ UNCHANGED <<task, runs, faults>>
       \/ /\ pod[n].state = "ready" /\ task[n] = "none"
          /\ task' = [task EXCEPT ![n] = "running"]
          /\ runs' = [runs EXCEPT ![n][pod[n].owner] = @ + 1]
          /\ \/ Goto(n, "MarkRunning") /\ UNCHANGED faults
             \/ Goto(n, "MarkFailed") /\ CallFails
       \/ /\ pod[n].state = "ready" /\ task[n] \in {"running", "done"}
          /\ Goto(n, "MarkRunning")
          /\ UNCHANGED <<task, runs, faults>>
       \/ /\ pod[n].state = "ready" /\ task[n] = "failed"
          /\ Goto(n, "MarkFailed")
          /\ UNCHANGED <<task, runs, faults>>
       \/ /\ pod[n].state = "ready"
          /\ Goto(n, "MarkFailed") /\ CallFails
          /\ UNCHANGED <<task, runs>>
    /\ UNCHANGED <<resVars, copy, claim, pod, archive, done>>

MarkRunning(n) ==
    /\ pc[n] = "MarkRunning"
    /\ UpdatePhase(n, "Running")
    /\ UNCHANGED <<podVars, faults>>

\* (mutant) Any answer of the server counts as success.
WaitForAnyAnswer(n) ==
    /\ pc[n] = "Wait"
    /\ IF pod[n].state = "ready"
       THEN Goto(n, "MarkSucceeded")
       ELSE Goto(n, "MarkFailed")
    /\ UNCHANGED <<resVars, copy, podVars, faults>>

\* (mutant) An operation that still runs is not asked for again.
WaitOnce(n) ==
    /\ pc[n] = "Wait"
    /\ \/ /\ pod[n].state = "ready" /\ task[n] \in {"none", "running"}
          /\ End(n, FALSE)
       \/ /\ pod[n].state = "ready" /\ task[n] = "done"
          /\ Goto(n, "MarkSucceeded")
       \/ /\ pod[n].state # "ready" \/ task[n] = "failed"
          /\ Goto(n, "MarkFailed")
    /\ UNCHANGED <<resVars, copy, podVars, faults>>

\* Any error, also one of the communication, fails the resource; an operation
\* the server does not know is waited for.
Wait(n) ==
    /\ pc[n] = "Wait"
    /\ \/ /\ pod[n].state = "ready" /\ task[n] \in {"none", "running"}
          /\ End(n, TRUE)
          /\ UNCHANGED faults
       \/ /\ pod[n].state = "ready" /\ task[n] = "done"
          /\ Goto(n, "MarkSucceeded")
          /\ UNCHANGED faults
       \/ /\ pod[n].state # "ready" \/ task[n] = "failed"
          /\ Goto(n, "MarkFailed")
          /\ UNCHANGED faults
       \/ /\ pod[n].state = "ready"
          /\ Goto(n, "MarkFailed") /\ CallFails
    /\ UNCHANGED <<resVars, copy, podVars>>

MarkSucceeded(n) ==
    /\ pc[n] = "MarkSucceeded"
    /\ UpdatePhase(n, "Succeeded")
    /\ UNCHANGED <<podVars, faults>>

MarkFailed(n) ==
    /\ pc[n] = "MarkFailed"
    /\ UpdatePhase(n, "Failed")
    /\ UNCHANGED <<podVars, faults>>

\* The pod terminates; an operation that still runs ends with it.
Terminated(n) ==
    /\ pod' = [pod EXCEPT ![n].state = "terminated"]
    /\ task' = [task EXCEPT ![n] = IF @ = "running" THEN "failed" ELSE @]

\* (mutant) Only a successful operation is cleaned up.
CleanupSucceeded(n) ==
    /\ pc[n] = "Cleanup"
    /\ \/ /\ pod[n].state # "ready" \/ copy[n].phase = "Failed"
          /\ End(n, FALSE)
          /\ UNCHANGED <<pod, task, faults>>
       \/ /\ pod[n].state = "ready" /\ copy[n].phase = "Succeeded"
          /\ Terminated(n)
          /\ End(n, FALSE)
          /\ UNCHANGED faults
    /\ UNCHANGED <<resVars, copy, claim, archive, runs, done>>

Cleanup(n) ==
    /\ pc[n] = "Cleanup"
    /\ \/ /\ pod[n].state # "ready"
          /\ End(n, FALSE)
          /\ UNCHANGED <<pod, task, faults>>
       \/ /\ pod[n].state = "ready"
          /\ Terminated(n)
          /\ End(n, FALSE)
          /\ UNCHANGED faults
       \/ /\ pod[n].state = "ready"
          /\ End(n, TRUE) /\ CallFails
          /\ UNCHANGED <<pod, task>>
    /\ UNCHANGED <<resVars, copy, claim, archive, runs, done>>

Step(n) == \/ Accept(n) \/ InitResources(n) \/ CreatePod(n)
           \/ MarkInitialized(n) \/ Execute(n) \/ MarkRunning(n) \/ Wait(n)
           \/ MarkSucceeded(n) \/ MarkFailed(n) \/ Cleanup(n)

Controller(n) == (Reconcile(n) \/ Step(n)) /\ UNCHANGED <<cache, envVars>>

-----------------------------------------------------------------------------
(***************************************************************************)
(* The user, Kubernetes and the servers.                                   *)
(***************************************************************************)
\* At most MaxCreates resources, of one name or of several.
MayCreate(n) ==
    /\ created[n] < MaxCreates
    /\ MapThenSumSet(LAMBDA m : created[m], Names) < MaxCreates

UserCreates(n) ==
    /\ ~Exists(res[n]) /\ MayCreate(n)
    /\ created' = [created EXCEPT ![n] = @ + 1]
    /\ Store(n, [NoResource EXCEPT !.uid = created'[n]])
    /\ UNCHANGED <<cache, queued, pc, copy, podVars, cluster, changes, faults>>

UserDeletes(n) ==
    /\ Exists(res[n]) /\ changes < MaxChanges
    /\ changes' = changes + 1
    /\ Store(n, NoResource)
    /\ UNCHANGED <<cache, queued, pc, copy, podVars, cluster, created, faults>>

InformerDelivers(n) ==
    /\ watch[n] # <<>>
    /\ cache' = [cache EXCEPT ![n] = Head(watch[n])]
    /\ watch' = [watch EXCEPT ![n] = Tail(@)]
    /\ queued' = [queued EXCEPT ![n] = TRUE]
    /\ UNCHANGED <<res, pc, copy, podVars, envVars, faults>>

VolumeOf(n) == IF n \in Backups THEN n ELSE Source[n]

\* What a deleted instance owned goes some time after it: the pod, whose end is
\* an event, and the volume claim, once no pod that has not terminated uses it.
GarbageCollected(n) ==
    /\ \/ /\ pod[n] # NoPod /\ pod[n].owner # res[n].uid
          /\ pod' = [pod EXCEPT ![n] = NoPod]
          /\ task' = [task EXCEPT ![n] = "none"]
          /\ queued' = [queued EXCEPT ![n] = TRUE]
          /\ UNCHANGED <<claim, archive>>
       \/ /\ n \in Backups /\ claim[n] \notin {0, res[n].uid}
          /\ \A m \in Names : VolumeOf(m) = n =>
                               pod[m].state \in {"none", "terminated"}
          /\ claim' = [claim EXCEPT ![n] = 0]
          /\ archive' = archive \ {n}
          /\ UNCHANGED <<pod, task, queued>>
    /\ UNCHANGED <<resVars, cache, pc, copy, runs, done, envVars, faults>>

\* The volume must be there.
PodReady(n) ==
    /\ pod[n].state = "starting"
    /\ claim[VolumeOf(n)] # 0
    /\ pod' = [pod EXCEPT ![n].state = "ready"]
    /\ queued' = [queued EXCEPT ![n] = TRUE]
    /\ UNCHANGED <<resVars, cache, pc, copy, claim, task, archive, runs, done,
                   envVars, faults>>

\* A restore succeeds only from a complete archive.
TaskEnds(n) ==
    /\ task[n] = "running" /\ pod[n].state = "ready"
    /\ \/ /\ n \in Restores => Source[n] \in archive
          /\ task' = [task EXCEPT ![n] = "done"]
          /\ archive' = IF n \in Backups THEN archive \cup {n} ELSE archive
          /\ done' = [done EXCEPT ![n] = @ \cup {pod[n].owner}]
       \/ /\ task' = [task EXCEPT ![n] = "failed"]
          /\ UNCHANGED <<archive, done>>
    /\ UNCHANGED <<resVars, cache, queued, pc, copy, claim, pod, runs, envVars,
                   faults>>

ClusterChanges ==
    /\ changes < MaxChanges
    /\ changes' = changes + 1
    /\ cluster' \in {"absent", "unstable", "stable"} \ {cluster}
    /\ UNCHANGED <<resVars, cache, queued, pc, copy, podVars, created, faults>>

OperatorCrashes ==
    /\ Fault("crash")
    /\ pc' = [n \in Names |-> "idle"]
    /\ cache' = res /\ watch' = [n \in Names |-> <<>>]
    /\ queued' = [n \in Names |-> Exists(res[n])]
    /\ UNCHANGED <<res, copy, podVars, envVars>>

PodEvicted(n) ==
    /\ Fault("evict")
    /\ pod[n].state \in {"starting", "ready"}
    /\ Terminated(n)
    /\ queued' = [queued EXCEPT ![n] = TRUE]
    /\ UNCHANGED <<resVars, cache, pc, copy, claim, archive, runs, done, envVars>>

-----------------------------------------------------------------------------
Next ==
    \/ \E n \in Names :
         \/ Controller(n) \/ UserCreates(n) \/ UserDeletes(n)
         \/ InformerDelivers(n) \/ GarbageCollected(n) \/ PodReady(n)
         \/ TaskEnds(n) \/ PodEvicted(n)
    \/ ClusterChanges
    \/ OperatorCrashes

\* The work queue is first in, first out, so a queued name has its turn even
\* when others requeue for ever; Kubernetes and the servers act.
Fairness ==
    \A n \in Names :
        /\ SF_vars(Controller(n))
        /\ WF_vars(InformerDelivers(n))
        /\ WF_vars(GarbageCollected(n))
        /\ WF_vars(PodReady(n))
        /\ WF_vars(TaskEnds(n))

Spec == Init /\ [][Next]_vars /\ Fairness

-----------------------------------------------------------------------------
(***************************************************************************)
(* Properties.                                                             *)
(***************************************************************************)

\* An operation is a one-time event: however often the phase Initialized is
\* reconciled (a stale cache, a crash before Running is stored, a pod created
\* again for a resource that is gone), the servers accept one operation for the
\* first resource of a name.  Nothing is claimed of later resources of the name:
\* a reconcile of the deleted one may write its phases into them.  (With the
\* typing.)
ExecutedOnce == TypeOK /\ \A n \in Names : runs[n][1] <= 1

\* The phase an operation ends in is what became of it: Succeeded only when
\* a server completed it, Failed only when none did.  Excepted are a name used
\* a second time, whose resource may get the result of the first, and a
\* completed operation whose pod or answer was lost, which is Failed.
PhaseTruthful ==
    \A n \in Names : created[n] = 1 =>
        /\ res[n].phase = "Succeeded" => res[n].uid \in done[n]
        /\ res[n].phase = "Failed" /\ faults \subseteq {"crash"}
              => res[n].uid \notin done[n]

\* Nothing outside the controller keeps the operation from its end, and no
\* pod or phase of an earlier resource of the name gets in its way.
Undisturbed(n) ==
    /\ Exists(res[n]) /\ created[n] = 1 /\ cluster = "stable" /\ "evict" \notin faults
    /\ n \in Restores => Exists(res[Source[n]]) /\ claim[Source[n]] # 0

\* An operation that nothing keeps from its end reports an end.
OperationEnds ==
    \A n \in Names : <>[]Undisturbed(n) => []<>(res[n].phase \in Ended)

\* While the Infinispan resource exists, the pod of an ended operation leaves
\* its cluster, whose size the pod adds to.
PodLeaves ==
    [](cluster # "absent") =>
        \A n \in Names :
            <>[](res[n].phase \in Ended) => <>[](pod[n].state # "ready")
=============================================================================
