--------------------------- MODULE HotRodUpgrade ----------------------------
(***************************************************************************)
(* The Hot Rod rolling upgrade (spec.upgrades.type = HotRodRolling): a     *)
(* second cluster, the target, is created beside the source, connected to  *)
(* it by a remote store, given its data and the clients, and the source is *)
(* removed.  Setting spec.version back while this lasts removes the target *)
(* instead.                                                                *)
(*                                                                         *)
(* A cluster is one StatefulSet with all its pods.  As in ClusterLifecycle *)
(* a reconcile is a pass of `pc' through the handlers, one action per call *)
(* that another actor may see.  Entries are kept in memory, so they go     *)
(* with their cluster.  Replicas do not change here.                       *)
(***************************************************************************)
EXTENDS Integers, Sequences, FiniteSets

CONSTANTS
    MaxVersion,  \* operand versions are 1..MaxVersion, in release order
    MaxEdits,    \* bound on the number of user edits
    MaxWrites,   \* bound on the number of entries that clients store
    MaxFaults,   \* bound on the number of faults
    MaxLag,      \* bound on the versions the informer has yet to deliver
    Faults       \* the faults that may occur, a subset of FaultKinds

(***************************************************************************)
(* "crash"   the operator process dies and a new one starts;               *)
(* "server"  a REST call to a server fails.                                *)
(***************************************************************************)
FaultKinds == {"crash", "server"}

ASSUME LimitsAssumption ==
    /\ MaxVersion \in Nat \ {0}
    /\ MaxEdits \in Nat /\ MaxWrites \in Nat /\ MaxFaults \in Nat
    /\ MaxLag \in Nat \ {0}

ASSUME KindsAssumption == Faults \subseteq FaultKinds

VARIABLES
    cr,      \* the Infinispan custom resource in the API server
    watch,   \* versions of it the informer has yet to deliver, oldest first
    cache,   \* the version in the informer's cache, which the operator reads
    queued,  \* whether a reconcile request is in the work queue
    pc,      \* the next step of the running reconcile, or "idle"
    rc,      \* the reconcile's copy of the custom resource
    listed,  \* the cluster whose pods, all ready, the reconcile has listed
    again,   \* whether the reconcile has asked to be repeated when it ends
    clus,    \* per StatefulSet name, the cluster
    svc,     \* the StatefulSet whose pods the cluster Service selects, or Any
    writes,  \* entries stored so far, numbered from 1
    early,   \* (history) the entries stored while no upgrade was in progress
    crossed, \* (history) whether a rollback and an upgrade have crossed
    edits,   \* user edits so far
    faults   \* the kinds of fault so far, each at most once

crVars        == <<cr, watch>>
reconcileVars == <<pc, rc, listed, again>>
clientVars    == <<writes, early>>
budgetVars    == <<edits, faults>>

vars == <<crVars, cache, queued, reconcileVars, clus, svc, clientVars,
          crossed, budgetVars>>

-----------------------------------------------------------------------------
(***************************************************************************)
(* Data.                                                                   *)
(***************************************************************************)

Version == 1..MaxVersion
Entry   == 1..MaxWrites

\* The StatefulSet is named after the resource, later ones with the suffix
\* -1, -2, ...; a completed upgrade is to a newer version, which bounds them.
Names   == 0..MaxVersion
NoName  == -1
Any     == -2

Stages == {"None", "Start", "Prepare", "Redirect", "Sync", "Replace", "Cleanup"}

\* `stage', `source', `target' and `from' are hotRodRollingUpgradeStatus, which
\* is absent when the stage is "None"; `pods' is status.podStatus, the cluster
\* whose pods were last seen ready.
CustomResource ==
    [version : Version, sts : Names, operand : Version,
     phase : {"Pending", "Running"}, wellFormed : BOOLEAN,
     pods : Names \cup {NoName}, stage : Stages,
     source : Names \cup {NoName}, target : Names \cup {NoName},
     from : Version \cup {0}]

\* A cluster that ClusterLifecycle has brought to its requested state.
SettledCR ==
    [version |-> 1, sts |-> 0, operand |-> 1, phase |-> "Running",
     wellFormed |-> TRUE, pods |-> 0, stage |-> "None", source |-> NoName,
     target |-> NoName, from |-> 0]

\* The caches of a cluster are "absent", "connected" to the source cluster by
\* a remote store, or on their "own".
Clusters ==
    [state : {"absent", "starting", "ready"}, version : Version \cup {0},
     data : SUBSET Entry, caches : {"absent", "connected", "own"},
     source : Names \cup {NoName}]

NoCluster ==
    [state |-> "absent", version |-> 0, data |-> {}, caches |-> "absent",
     source |-> NoName]

Created(v, caches) ==
    [NoCluster EXCEPT !.state = "starting", !.version = v, !.caches = caches]

Exists(c) == clus[c].state # "absent"
Ready(c)  == clus[c].state = "ready"

Steps ==
    {"idle", "ClusterService", "Schedule", "ClusterStatefulSet", "PodStatus",
     "HotRodRollingUpgrade", "CreateTarget", "DisconnectSource", "UpdateStage",
     "RemoveSelector", "RemoveStatefulSet", "RemoveStatus",
     "AwaitWellFormedCondition"}

TypeOK ==
    /\ cr \in CustomResource
    /\ watch \in Seq(CustomResource)
    /\ cache \in CustomResource
    /\ queued \in BOOLEAN
    /\ pc \in Steps
    /\ rc \in CustomResource
    /\ listed \in Names \cup {NoName}
    /\ again \in BOOLEAN
    /\ clus \in [Names -> Clusters]
    /\ svc \in Names \cup {NoName, Any}
    /\ writes \in 0..MaxWrites
    /\ early \subseteq 1..writes
    /\ crossed \in BOOLEAN
    /\ edits \in 0..MaxEdits
    /\ faults \subseteq Faults

Init ==
    /\ cr = SettledCR /\ cache = SettledCR /\ watch = <<>>
    /\ queued = FALSE
    /\ pc = "idle" /\ rc = SettledCR
    /\ listed = NoName /\ again = FALSE
    /\ clus = [c \in Names |->
                  IF c = 0
                  THEN [Created(1, "own") EXCEPT !.state = "ready"]
                  ELSE NoCluster]
    /\ svc = Any
    /\ writes = 0 /\ early = {}
    /\ crossed = FALSE
    /\ edits = 0 /\ faults = {}

-----------------------------------------------------------------------------
(***************************************************************************)
(* Writing the custom resource, as in ClusterLifecycle.                    *)
(***************************************************************************)

Write(new) ==
    /\ Len(watch) < MaxLag
    /\ cr' = new
    /\ watch' = IF new = cr THEN watch ELSE Append(watch, new)

End(retry) ==
    /\ pc' = "idle" /\ rc' = SettledCR
    /\ listed' = NoName /\ again' = FALSE
    /\ queued' = (queued \/ retry)

Requeue == End(TRUE) /\ UNCHANGED crVars

\* The copy, read again from the informer's cache, is of another version: the
\* update is given up and the pipeline stops.
Conflict == cache # rc /\ Requeue

\* A merge patch of the fields that `after' changes, with no resource version.
Merged(after) ==
    IF after = rc
    THEN rc
    ELSE [f \in DOMAIN rc |-> IF after[f] = rc[f] THEN cr[f] ELSE after[f]]

Patch(after) == IF after = rc THEN UNCHANGED crVars ELSE Write(Merged(after))

Proceed(step) == pc' = step /\ UNCHANGED <<crVars, rc, listed, again, queued>>

UpdateThen(after, step) ==
    \/ Conflict
    \/ /\ cache = rc
       /\ Patch(after)
       /\ rc' = Merged(after)
       /\ pc' = step
       /\ UNCHANGED <<listed, again, queued>>

UpdateAndEnd(after, retry) ==
    \/ Conflict
    \/ cache = rc /\ Patch(after) /\ End(retry)

\* RequeueEventually: the handlers that follow still run.
RequeueEventually ==
    /\ pc' = "AwaitWellFormedCondition"
    /\ again' = TRUE
    /\ UNCHANGED <<crVars, rc, listed, queued>>

-----------------------------------------------------------------------------
(***************************************************************************)
(* The handlers.                                                           *)
(***************************************************************************)

Reconcile ==
    /\ pc = "idle" /\ queued
    /\ queued' = FALSE
    /\ rc' = cache
    /\ pc' = "ClusterService"
    /\ UNCHANGED <<crVars, listed, again, clus, svc>>

\* Every reconcile sets the selector of the Service to that of all pods of
\* the resource, of whichever StatefulSet.
ClusterService ==
    /\ pc = "ClusterService"
    /\ svc' = Any
    /\ Proceed("Schedule")
    /\ UNCHANGED clus

UpgradeRequired(i) == i.phase # "Pending" /\ i.operand # i.version

\* (mutant) The revision is not increased.
SameStatefulSetName(i) == i.sts

generateNewStatefulSetName(i) == i.sts + 1

getOrCreateTargetStatefulSetName(i) ==
    IF i.target = NoName THEN generateNewStatefulSetName(i) ELSE i.target

getSourceStatefulSetName(i) == IF i.source = NoName THEN i.sts ELSE i.source

\* The provision handlers are part of the pipeline only while no upgrade is
\* in progress.
ScheduleHotRodRollingUpgrade ==
    /\ pc = "Schedule"
    /\ \/ rc.stage # "None" /\ Proceed("PodStatus")
       \/ /\ rc.stage = "None" /\ ~UpgradeRequired(rc)
          /\ Proceed("ClusterStatefulSet")
       \/ /\ rc.stage = "None" /\ UpgradeRequired(rc)
          /\ rc.sts < MaxVersion
          /\ UpdateAndEnd([rc EXCEPT !.stage = "Start",
                                     !.source = rc.sts,
                                     !.from = rc.operand,
                                     !.target =
                                         getOrCreateTargetStatefulSetName(rc),
                                     !.operand = rc.version,
                                     !.phase = "Pending"], TRUE)
    /\ UNCHANGED <<clus, svc>>

\* A cluster created anew has its caches created by whoever uses them.
ClusterStatefulSet ==
    /\ pc = "ClusterStatefulSet"
    /\ clus' = IF Exists(rc.sts)
               THEN clus
               ELSE [clus EXCEPT ![rc.sts] = Created(rc.operand, "own")]
    /\ Proceed("PodStatus")
    /\ UNCHANGED svc

PodStatus ==
    /\ pc = "PodStatus"
    /\ LET ready == IF Ready(rc.sts) THEN rc.sts ELSE NoName
       IN  IF ~Exists(rc.sts) \/ cache # rc
           THEN Requeue
           ELSE /\ Patch([rc EXCEPT !.pods = ready])
                /\ rc' = Merged([rc EXCEPT !.pods = ready])
                /\ listed' = ready
                /\ pc' = "HotRodRollingUpgrade"
                /\ UNCHANGED <<again, queued>>
    /\ UNCHANGED <<clus, svc>>

Source == getSourceStatefulSetName(rc)
Target == getOrCreateTargetStatefulSetName(rc)

RollingBack == rc.version = rc.from

AtStage(stage) ==
    /\ pc = "HotRodRollingUpgrade"
    /\ rc.stage = stage /\ ~RollingBack

\* Without an upgrade, or with no pod in the list, the handler returns.  A
\* cluster that starts may have no pod yet.
NothingToUpgrade ==
    /\ pc = "HotRodRollingUpgrade"
    /\ rc.stage = "None" \/ clus[rc.sts].state = "starting"
    /\ Proceed("AwaitWellFormedCondition")
    /\ UNCHANGED <<clus, svc>>

\* (mutant) The clients are sent to the cluster about to be created.
RedirectToTarget ==
    /\ AtStage("Start")
    /\ svc' = rc.target
    /\ Proceed("CreateTarget")
    /\ UNCHANGED clus

\* The first half of createNewStatefulSet keeps the services on the source.
createNewStatefulSet ==
    /\ AtStage("Start")
    /\ svc' = rc.sts
    /\ Proceed("CreateTarget")
    /\ UNCHANGED clus

\* The second half creates the target, or waits until it is well formed.
CreateTarget ==
    /\ pc = "CreateTarget"
    /\ \/ /\ ~Exists(Target)
          /\ clus' = [clus EXCEPT ![Target] = Created(rc.operand, "absent")]
          /\ RequeueEventually
       \/ /\ Exists(Target) /\ ~Ready(Target)
          /\ RequeueEventually
          /\ UNCHANGED clus
       \/ /\ Ready(Target)
          /\ UpdateThen([rc EXCEPT !.stage = "Prepare"],
                        "AwaitWellFormedCondition")
          /\ UNCHANGED clus
    /\ UNCHANGED svc

BothReady == Ready(Source) /\ Ready(Target)

\* ConnectCaches creates the caches in the target and adds to each a remote
\* store that reads from and writes to the source.
prepare ==
    /\ AtStage("Prepare")
    /\ IF BothReady
       THEN /\ clus' = [clus EXCEPT ![Target].caches = "connected",
                                    ![Target].source = Source]
            /\ Proceed("UpdateStage")
       ELSE RequeueEventually /\ UNCHANGED clus
    /\ UNCHANGED svc

redirectService ==
    /\ AtStage("Redirect")
    /\ svc' = rc.target
    /\ Proceed("UpdateStage")
    /\ UNCHANGED clus

\* (mutant) The caches are disconnected and nothing is copied.
DisconnectOnly ==
    /\ AtStage("Sync")
    /\ BothReady
    /\ Proceed("DisconnectSource")
    /\ UNCHANGED <<clus, svc>>

\* SyncCaches copies what the source has and then disconnects.  Whether the
\* server accepts the request for a cache without a source is its own affair.
syncData ==
    /\ AtStage("Sync")
    /\ IF BothReady /\ clus[Target].caches = "connected"
       THEN /\ clus' = [clus EXCEPT ![Target].data =
                                        @ \cup clus[Source].data]
            /\ Proceed("DisconnectSource")
       ELSE /\ (BothReady /\ Proceed("DisconnectSource")) \/ RequeueEventually
            /\ UNCHANGED clus
    /\ UNCHANGED svc

DisconnectSource ==
    /\ pc = "DisconnectSource"
    /\ clus' = [clus EXCEPT ![Target].caches = "own",
                            ![Target].source = NoName]
    /\ Proceed("UpdateStage")
    /\ UNCHANGED svc

updateStage ==
    /\ pc = "UpdateStage"
    /\ UpdateThen([rc EXCEPT !.stage = CASE rc.stage = "Prepare" -> "Redirect"
                                         [] rc.stage = "Redirect" -> "Sync"
                                         [] rc.stage = "Sync" -> "Replace"],
                  "AwaitWellFormedCondition")
    /\ UNCHANGED <<clus, svc>>

replaceStatefulSet ==
    /\ AtStage("Replace")
    /\ UpdateThen([rc EXCEPT !.stage = "Cleanup", !.sts = Target,
                             !.phase = "Running"],
                  "AwaitWellFormedCondition")
    /\ UNCHANGED <<clus, svc>>

cleanup ==
    /\ AtStage("Cleanup")
    /\ \/ ~rc.wellFormed /\ RequeueEventually
       \/ rc.wellFormed /\ Proceed("RemoveSelector")
    /\ UNCHANGED <<clus, svc>>

\* Whether or not it succeeds, a rollback asks for another reconcile.
rollback ==
    /\ pc = "HotRodRollingUpgrade"
    /\ rc.stage # "None" /\ RollingBack
    /\ svc' = rc.source
    /\ pc' = "RemoveSelector"
    /\ again' = TRUE
    /\ UNCHANGED <<crVars, rc, listed, queued, clus>>

\* removeStatefulSetResources, of the source after an upgrade and of the
\* target in a rollback.
RemoveSelector ==
    /\ pc = "RemoveSelector"
    /\ svc' = Any
    /\ Proceed("RemoveStatefulSet")
    /\ UNCHANGED clus

\* (mutant) A rollback removes the source.
RemoveSource ==
    /\ pc = "RemoveStatefulSet"
    /\ clus' = [clus EXCEPT ![Source] = NoCluster]
    /\ Proceed("RemoveStatus")
    /\ UNCHANGED svc

RemoveStatefulSet ==
    /\ pc = "RemoveStatefulSet"
    /\ clus' = [clus EXCEPT ![IF RollingBack THEN Target ELSE Source] =
                                NoCluster]
    /\ Proceed("RemoveStatus")
    /\ UNCHANGED svc

NoUpgrade(i) ==
    [i EXCEPT !.stage = "None", !.source = NoName, !.target = NoName,
              !.from = 0]

RemoveStatus ==
    /\ pc = "RemoveStatus"
    /\ UpdateThen(IF RollingBack
                  THEN [NoUpgrade(rc) EXCEPT !.sts = rc.source,
                                             !.operand = rc.from,
                                             !.phase = "Running"]
                  ELSE NoUpgrade(rc),
                  "AwaitWellFormedCondition")
    /\ UNCHANGED <<clus, svc>>

\* The servers are asked for their view, the list of pods is not read again.
AwaitWellFormedCondition ==
    /\ pc = "AwaitWellFormedCondition"
    /\ LET formed == listed # NoName /\ Ready(listed)
       IN  UpdateAndEnd([rc EXCEPT !.wellFormed = formed,
                                   !.phase = IF formed THEN "Running" ELSE @],
                        again \/ ~formed)
    /\ UNCHANGED <<clus, svc>>

Fault(kind) ==
    /\ kind \in Faults \ faults /\ Cardinality(faults) < MaxFaults
    /\ faults' = faults \cup {kind}

\* A call of ConnectCaches or SyncCaches fails: the stage is retried.
ServerCallFails ==
    /\ Fault("server")
    /\ AtStage("Prepare") \/ AtStage("Sync") \/ pc = "DisconnectSource"
    /\ RequeueEventually
    /\ UNCHANGED <<clus, svc>>

\* A pass that has read the resource before its version was set back removes
\* the source or hands the resource over to the target; or one that has read it
\* before the upgrade was scheduled schedules it to another version.
Overtakes ==
    \/ /\ pc = "RemoveStatefulSet" /\ ~RollingBack
       /\ cr.version = cr.from
    \/ /\ AtStage("Replace") /\ cache = rc
       /\ cr.version = cr.from
    \/ /\ pc = "Schedule" /\ rc.stage = "None" /\ UpgradeRequired(rc)
       /\ cache = rc
       /\ cr.stage # "None" /\ cr.operand # rc.version

Operator ==
    /\ \/ /\ \/ Reconcile
             \/ ClusterService
             \/ ScheduleHotRodRollingUpgrade
             \/ ClusterStatefulSet
             \/ PodStatus
             \/ NothingToUpgrade
             \/ createNewStatefulSet
             \/ CreateTarget
             \/ prepare
             \/ redirectService
             \/ syncData
             \/ DisconnectSource
             \/ updateStage
             \/ replaceStatefulSet
             \/ cleanup
             \/ rollback
             \/ RemoveSelector
             \/ RemoveStatefulSet
             \/ RemoveStatus
             \/ AwaitWellFormedCondition
          /\ UNCHANGED faults
       \/ ServerCallFails
    /\ crossed' = (crossed \/ Overtakes)
    /\ UNCHANGED <<cache, clientVars, edits>>

-----------------------------------------------------------------------------
(***************************************************************************)
(* The other actors.                                                       *)
(***************************************************************************)

\* The validating webhook: an older version only during an upgrade, and only
\* the one it started from.
AdmitVersion(v) ==
    \/ v > cr.version
    \/ v < cr.version /\ cr.stage # "None" /\ v = cr.from

\* The upgrade is asked for again while its rollback may be removing the target.
Resumes(v) == v > cr.version /\ cr.stage # "None" /\ cr.version = cr.from

\* The documentation asks that, for a rollback, the original cluster be there.
UserSetsVersion == \E v \in Version :
    /\ edits < MaxEdits
    /\ AdmitVersion(v)
    /\ v < cr.version => Exists(cr.source)
    /\ crossed' = (crossed \/ Resumes(v))
    /\ Write([cr EXCEPT !.version = v])
    /\ edits' = edits + 1
    /\ UNCHANGED <<cache, queued, reconcileVars, clus, svc, clientVars, faults>>

InformerDelivers ==
    /\ watch # <<>>
    /\ cache' = Head(watch)
    /\ watch' = Tail(watch)
    /\ queued' = TRUE
    /\ UNCHANGED <<cr, reconcileVars, clus, svc, clientVars, crossed,
                   budgetVars>>

ClusterStarted == \E c \in Names :
    /\ clus[c].state = "starting"
    /\ clus' = [clus EXCEPT ![c].state = "ready"]
    /\ queued' = TRUE
    /\ UNCHANGED <<crVars, cache, reconcileVars, svc, clientVars, crossed,
                   budgetVars>>

Selected == {c \in Names : Ready(c) /\ svc \in {c, Any}}

\* A client stores an entry in the cluster that the Service leads it to.  A
\* connected cluster stores it in its source as well.
ClientStores == \E c \in Selected :
    /\ writes < MaxWrites
    /\ clus[c].caches # "absent"
    /\ clus[c].caches = "connected" => Ready(clus[c].source)
    /\ writes' = writes + 1
    /\ early' = IF cr.stage = "None" THEN early \cup {writes + 1} ELSE early
    /\ clus' = [d \in Names |->
                   IF d \in {c, clus[c].source}
                   THEN [clus[d] EXCEPT !.data = @ \cup {writes + 1}]
                   ELSE clus[d]]
    /\ UNCHANGED <<crVars, cache, queued, reconcileVars, svc, crossed,
                   budgetVars>>

OperatorCrashes ==
    /\ Fault("crash")
    /\ pc' = "idle" /\ rc' = SettledCR
    /\ listed' = NoName /\ again' = FALSE
    /\ cache' = cr /\ watch' = <<>>
    /\ queued' = TRUE
    /\ UNCHANGED <<cr, clus, svc, clientVars, crossed, edits>>

Next ==
    \/ Operator
    \/ UserSetsVersion
    \/ InformerDelivers
    \/ ClusterStarted
    \/ ClientStores
    \/ OperatorCrashes

\* As in ClusterLifecycle: neither the user nor the clients have to act.
Fairness ==
    /\ WF_vars(Operator)
    /\ WF_vars(InformerDelivers)
    /\ WF_vars(ClusterStarted)

Spec == Init /\ [][Next]_vars /\ Fairness

-----------------------------------------------------------------------------
(***************************************************************************)
(* Properties.                                                             *)
(***************************************************************************)

\* Without service downtime, unless a rollback and an upgrade have crossed: at
\* every moment the Service leads to a cluster that serves and has caches, and
\* to one without them only while the target is created and prepared, when every
\* reconcile makes the Service select the pods of both clusters.
Available ==
    \/ crossed
    \/ /\ \E c \in Selected : clus[c].caches # "absent"
       /\ \A c \in Selected :
              clus[c].caches = "absent" =>
                  cr.stage \in {"Start", "Prepare"} /\ c = cr.target

\* One of the clusters that the resource names has, at every moment, every
\* entry stored before the upgrade, unless a rollback and an upgrade have
\* crossed: neither the hand-over between the stages nor a rollback, at
\* whichever stage, leaves them only in a cluster that is removed.  (With the
\* typing of the state.)
EntriesHeld ==
    /\ TypeOK
    /\ \/ crossed
       \/ \E c \in {cr.sts, cr.source} \cap Names :
              Ready(c) /\ early \subseteq clus[c].data

\* The stages implement the abstract upgrade.  While one is in progress the
\* version is the one it started from.
Contract == INSTANCE LiveUpgrade WITH
    upgrading <- cr.stage # "None",
    version   <- IF cr.stage = "None" THEN clus[cr.sts].version ELSE cr.from,
    entries   <- IF cr.stage = "None" THEN early \cap clus[cr.sts].data ELSE early

\* Until a rollback and an upgrade have crossed, hotRodRollingUpgradeStatus
\* disappears only when the cluster of the resource runs the version of the
\* target, or of the source after a rollback, and has every entry stored before
\* the upgrade.
ImplementsLiveUpgrade ==
    Contract!Init /\ [][Contract!Next \/ crossed']_(Contract!vars)

\* A rollback from the last stage has removed the StatefulSet that the status
\* still names, whose pods every reconcile wants to list first.
TargetForgotten ==
    cr.stage = "Cleanup" /\ cr.version = cr.from /\ ~Exists(cr.target)

\* The target is disconnected while the stage is still the one that copies the
\* entries from its source.
DisconnectForgotten ==
    cr.stage = "Sync" /\ Exists(cr.target) /\ clus[cr.target].caches = "own"

\* Every upgrade and every rollback comes to an end, unless they have crossed or
\* a reconcile was interrupted in one of the two places above: the status of
\* the upgrade is removed, one cluster remains and it has the requested version.
Settles ==
    <>[](\/ crossed \/ TargetForgotten \/ DisconnectForgotten
         \/ /\ cr.stage = "None"
            /\ cr.operand = cr.version /\ cr.phase = "Running" /\ cr.wellFormed
            /\ clus[cr.sts].version = cr.version
            /\ \A c \in Names : Exists(c) <=> c = cr.sts)

\* "Removes the existing cluster when all data and client connections are
\* transferred to the new cluster": after an upgrade the cluster has every
\* entry a client has stored.
AllTransferred == cr.stage = "None" => 1..writes \subseteq clus[cr.sts].data
=============================================================================
