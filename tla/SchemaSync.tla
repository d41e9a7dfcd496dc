----------------------------- MODULE SchemaSync -----------------------------
(***************************************************************************)
(* Reconciliation of one Protobuf schema: the Schema controller, which     *)
(* carries Schema resources to the server and guards the schemas that      *)
(* Cache resources refer to (controllers/schema_controller.go, Reconcile), *)
(* and the SchemaListener, which carries the server's events back. Unlike  *)
(* that of caches the way back is optional: it needs a recent server and   *)
(* the config listener, both of which may come and go during the life of   *)
(* the cluster.                                                            *)
(*                                                                         *)
(* The text of a schema is a value; the server stores a text it cannot     *)
(* compile too, and reports the error. One schema name is modelled.        *)
(***************************************************************************)
EXTENDS SyncedResources, Sequences, FiniteSets

CONSTANTS
    Protos,       \* schema texts
    Invalid,      \* those the server cannot compile
    UserCR,       \* metadata.name of the Schema resource a user writes
    GeneratedCRs, \* names generateName gives to the listener's resources
    Changes,      \* the kinds of change users, clients and the cluster make
    MaxChanges,   \* bound: how many of them
    MaxHurry,     \* bound: how many changes come before the last one has settled
    Faults,       \* the kinds of fault that occur
    MaxFaults     \* bound: how many of them

NoProto == "noProto"
Slots == {UserCR} \cup GeneratedCRs

ASSUME ProtoAssumption ==
    /\ NoProto \notin Protos /\ Invalid \subseteq Protos
    /\ UserCR \notin GeneratedCRs
    /\ MaxChanges \in Nat /\ MaxHurry \in Nat /\ MaxFaults \in Nat

(* The API server always finds another name to generate.                   *)
ASSUME NamesAssumption == \E s, t \in GeneratedCRs : s # t

VARIABLES
    server,  \* the schema's text on the server, NoProto when it has none
    cluster, \* "formed", "forming" or "gone": the Infinispan resource
    bidi,    \* operand >= 16.1 and spec.configListener.enabled
    refs,    \* the names of Schema resources some Cache resource refers to
    ctl,     \* the reconciliation in progress: where it is, of which resource, its copy of it
    stream,  \* events sent to the listener's connection and not yet handled
    lst,     \* the listener: where it is and what it has read
    changes, faults,
    hurry,   \* how often a change was made before the last one had settled
    unseen,  \* a removal the listener was not told of (history), as in CacheSync
    guarded  \* resources referred to since before their deletion was asked for (history)

vars == <<crs, server, cluster, bidi, refs, queue, ctl, stream, lst, changes, faults, hurry, unseen, guarded>>
env == <<cluster, bidi, refs, changes, hurry, guarded>>

Readiness == {"Unknown", "True", "NoCluster", "Referenced", "CallFailed", "Invalid"}
CR == [spec: Protos, gen: Nat, listenerGen: Nat, marked: BOOLEAN, finalizer: BOOLEAN,
       deleted: {"no", "user", "operator"}, owned: BOOLEAN, paused: BOOLEAN, pausedCond: BOOLEAN,
       ready: Readiness, sync: {"Unknown", "True", "False"}]
Event == [kind: {"set", "remove"}, proto: Protos \cup {NoProto}]
CtlSteps == {"idle", "deleteCR", "oneWay", "refs", "erase", "unfinalize", "put", "status", "finish"}
LstSteps == {"sweep", "sweepList", "subscribe", "idle", "create", "get", "patch", "mark", "stopped"}

CtlIdle == [pc |-> "idle", s |-> UserCR, spec |-> NoProto, both |-> FALSE, deleted |-> FALSE]
LstIdle == [pc |-> "idle", s |-> UserCR, proto |-> NoProto, base |-> NoProto, gen |-> 0, fin |-> FALSE]

NewCR(proto, listener) ==
    [spec |-> proto, gen |-> 1, listenerGen |-> IF listener THEN 1 ELSE 0, marked |-> FALSE,
     finalizer |-> listener, deleted |-> "no", owned |-> listener, paused |-> FALSE,
     pausedCond |-> FALSE, ready |-> "Unknown", sync |-> "Unknown"]

(* The server tells the connected listener of every change (external).     *)
Connected == lst.pc \notin {"sweep", "sweepList", "subscribe", "stopped"}
Emit(kind, proto) ==
    /\ stream' = IF Connected THEN Append(stream, [kind |-> kind, proto |-> proto]) ELSE stream
    /\ unseen' = IF kind = "set" \/ Connected \/ unseen = "lost" THEN unseen
                 ELSE IF lst.pc = "sweep" THEN "swept" ELSE "lost"
RemovalPending == \E i \in DOMAIN stream : stream[i].kind = "remove"

Init ==
    /\ crs \in [{} -> CR] \cup [{UserCR} -> {NewCR(p, FALSE) : p \in Protos}]
    /\ server = NoProto
    /\ cluster = "formed" /\ bidi \in BOOLEAN
    /\ refs = {}
    /\ queue = DOMAIN crs
    /\ ctl = CtlIdle
    /\ stream = <<>> /\ lst = IF bidi THEN LstIdle ELSE [LstIdle EXCEPT !.pc = "stopped"]
    /\ changes = 0 /\ faults = 0 /\ hurry = 0 /\ unseen = "no" /\ guarded = {}

(***************************************************************************)
(* Reconcile: one step per call. r.schema is read at the start and again   *)
(* by every update.                                                        *)
(***************************************************************************)
Taken(s) == ctl.pc = "idle" /\ s \in queue
Quiet == UNCHANGED <<server, stream, lst, faults, unseen>> /\ UNCHANGED env

(* Mutant: changes of the status do not queue the resource.                *)
EndWithoutWaking(s, c, requeue) ==
    /\ Patch(s, c)
    /\ queue' = (IF ctl.pc = "idle" THEN queue \ {s} ELSE queue) \cup (IF requeue THEN {s} ELSE {})
    /\ ctl' = CtlIdle

EndWith(s, c, requeue) ==
    /\ Patch(s, c)
    /\ queue' = (IF ctl.pc = "idle" THEN queue \ {s} ELSE queue)
                \cup Woken(s) \cup (IF requeue THEN {s} ELSE {})
    /\ ctl' = CtlIdle
Goto(pc) == ctl' = [ctl EXCEPT !.pc = pc] /\ UNCHANGED <<crs, queue>>

Updated(c, new) == [f \in DOMAIN c |-> IF f \in DOMAIN new THEN new[f] ELSE c[f]]

(* updateSchema as the last call of a reconciliation: the fields of "new"  *)
(* replace those read again; not found is an error, and an error asks for  *)
(* the next attempt.                                                       *)
EndUpdating(new, requeue) ==
    IF ctl.s \in DOMAIN crs THEN EndWith(ctl.s, Updated(crs[ctl.s], new), requeue)
    ELSE ctl' = CtlIdle /\ queue' = queue \cup {ctl.s} /\ UNCHANGED crs

(* Mutant: the edit after the listener's own is taken for the listener's.  *)
reconcileOnServerLate(c) == c.listenerGen = 0 \/ c.listenerGen + 1 < c.gen

reconcileOnServer(c) == c.listenerGen = 0 \/ c.listenerGen < c.gen

Begun(s) == /\ Taken(s) /\ s \in DOMAIN crs /\ ~crs[s].marked
            /\ crs[s].deleted = "no" => ~crs[s].paused /\ ~crs[s].pausedCond

NotFound(s) ==
    /\ Taken(s) /\ s \notin DOMAIN crs
    /\ queue' = queue \ {s} /\ UNCHANGED <<crs, ctl>> /\ Quiet

RemoveMarked(s) ==
    /\ Taken(s) /\ s \in DOMAIN crs /\ crs[s].marked
    /\ Patch(s, [crs[s] EXCEPT !.finalizer = FALSE])
    /\ queue' = (queue \ {s}) \cup Woken(s)
    /\ ctl' = [CtlIdle EXCEPT !.pc = "deleteCR", !.s = s]
    /\ Quiet

DeleteMarked ==
    /\ ctl.pc = "deleteCR"
    /\ IF ctl.s \in DOMAIN crs
       THEN EndWith(ctl.s, [crs[ctl.s] EXCEPT !.deleted = IF @ = "no" THEN "operator" ELSE @], FALSE)
       ELSE ctl' = CtlIdle /\ UNCHANGED <<crs, queue>>
    /\ Quiet

(* HandleReconciliationPause, as in CacheSync.                             *)
Pause(s) ==
    /\ Taken(s) /\ s \in DOMAIN crs /\ ~crs[s].marked /\ crs[s].deleted = "no"
    /\ crs[s].paused \/ crs[s].pausedCond
    /\ EndWith(s, [crs[s] EXCEPT !.pausedCond = crs[s].paused], FALSE)
    /\ Quiet

ClusterMissing(s) ==
    /\ Begun(s) /\ cluster = "gone"
    /\ EndWith(s, IF crs[s].deleted = "no" THEN [crs[s] EXCEPT !.ready = "NoCluster"]
                  ELSE [crs[s] EXCEPT !.finalizer = FALSE], FALSE)
    /\ Quiet

ClusterNotFormed(s) ==
    /\ Begun(s) /\ cluster = "forming"
    /\ EndWith(s, crs[s], FALSE)
    /\ Quiet

(* Where the calls to the server begin, from the resource as last read.    *)
FirstCall(c, both, deleted) ==
    IF deleted THEN "refs" ELSE IF ~both \/ reconcileOnServer(c) THEN "put" ELSE "status"

Start(s) ==
    /\ Begun(s) /\ cluster = "formed"
    /\ LET deleted == crs[s].deleted # "no" IN
         ctl' = [pc |-> IF bidi THEN FirstCall(crs[s], TRUE, deleted) ELSE "oneWay",
                 s |-> s, spec |-> crs[s].spec, both |-> bidi, deleted |-> deleted]
    /\ queue' = queue \ {s} /\ UNCHANGED crs
    /\ Quiet

(* No way back: the condition says so first.                               *)
AnnounceOneWay ==
    /\ ctl.pc = "oneWay"
    /\ IF ctl.s \in DOMAIN crs
       THEN /\ Patch(ctl.s, [crs[ctl.s] EXCEPT !.sync = "False"])
            /\ queue' = queue \cup Woken(ctl.s)
            /\ ctl' = [ctl EXCEPT !.pc = FirstCall(crs[ctl.s], FALSE, ctl.deleted), !.spec = crs[ctl.s].spec]
       ELSE ctl' = CtlIdle /\ queue' = queue \cup {ctl.s} /\ UNCHANGED crs
    /\ Quiet

(* Mutant: references do not hold a deletion back.                         *)
FindReferencingCachesNot ==
    /\ ctl.pc = "refs"
    /\ Goto("erase")
    /\ Quiet

(* findReferencingCaches: what refers to the resource holds its deletion   *)
(* back until the watch on caches queues it again.                         *)
FindReferencingCaches ==
    /\ ctl.pc = "refs"
    /\ IF ctl.s \in refs
       THEN EndUpdating([ready |-> "Referenced"], FALSE)
       ELSE Goto("erase")
    /\ Quiet

DeleteOnServer ==
    /\ ctl.pc = "erase"
    /\ Goto("unfinalize")
    /\ server' = NoProto
    /\ IF server = NoProto THEN UNCHANGED <<stream, unseen>> ELSE Emit("remove", NoProto)
    /\ UNCHANGED <<lst, faults>> /\ UNCHANGED env

RemoveFinalizer ==
    /\ ctl.pc = "unfinalize"
    /\ EndUpdating([finalizer |-> FALSE], FALSE)
    /\ Quiet

(* createOrUpdate: the server stores any text; the answer carries the      *)
(* error it found in it.                                                   *)
Put ==
    /\ ctl.pc = "put"
    /\ server' = ctl.spec /\ Emit("set", ctl.spec)
    /\ IF ctl.spec \in Invalid THEN EndUpdating([ready |-> "Invalid"], FALSE)
       ELSE Goto("status")
    /\ UNCHANGED <<lst, faults>> /\ UNCHANGED env

(* checkSchemaStatus looks for an error, not for the schema.               *)
CheckStatus ==
    /\ ctl.pc = "status"
    /\ IF server \in Invalid
       THEN EndUpdating([ready |-> "Invalid", finalizer |-> TRUE], FALSE)
       ELSE Goto("finish")
    /\ Quiet

Finish ==
    /\ ctl.pc = "finish"
    /\ EndUpdating(IF ctl.both THEN [ready |-> "True", finalizer |-> TRUE, sync |-> "True"]
                   ELSE [ready |-> "True", finalizer |-> TRUE], FALSE)
    /\ Quiet

Reconcile ==
    \/ \E s \in Slots : \/ NotFound(s) \/ RemoveMarked(s) \/ Pause(s)
                        \/ ClusterMissing(s) \/ ClusterNotFormed(s) \/ Start(s)
    \/ DeleteMarked \/ AnnounceOneWay \/ FindReferencingCaches \/ DeleteOnServer \/ RemoveFinalizer
    \/ Put \/ CheckStatus \/ Finish

(***************************************************************************)
(* The listener.                                                           *)
(***************************************************************************)
Listener == UNCHANGED <<server, ctl, faults, unseen>> /\ UNCHANGED env
Handled == stream' = Tail(stream) /\ lst' = LstIdle

ReadNames ==
    /\ lst.pc = "sweep" /\ cluster = "formed"
    /\ lst' = [lst EXCEPT !.pc = "sweepList", !.proto = server]
    /\ UNCHANGED <<crs, queue, stream>> /\ Listener

RemoveStaleResources ==
    /\ lst.pc = "sweepList"
    /\ crs' = [s \in DOMAIN crs |-> [crs[s] EXCEPT !.marked = @ \/ (crs[s].owned /\ lst.proto = NoProto)]]
    /\ queue' = queue \cup {s \in DOMAIN crs : crs'[s] # crs[s]}
    /\ lst' = [LstIdle EXCEPT !.pc = "subscribe"]
    /\ UNCHANGED stream /\ Listener

Subscribe ==
    /\ lst.pc = "subscribe" /\ cluster = "formed"
    /\ lst' = LstIdle
    /\ stream' = IF server = NoProto THEN <<>> ELSE <<[kind |-> "set", proto |-> server]>>
    /\ UNCHANGED <<crs, queue>> /\ Listener

(* findExistingSchemaCR: every resource of the one schema; two are an error. *)
Received(kind) == lst.pc = "idle" /\ stream # <<>> /\ Head(stream).kind = kind
Existing == DOMAIN crs
TheExisting == CHOOSE s \in Existing : TRUE

IgnoreEvent ==
    /\ \/ Received("set") \/ Received("remove")
    /\ \/ Cardinality(Existing) > 1
       \/ Received("remove") /\ Existing = {}
       \/ Received("set") /\ Existing # {} /\ crs[TheExisting].spec = Head(stream).proto
    /\ Handled
    /\ UNCHANGED <<crs, queue>> /\ Listener

FindForSet ==
    /\ Received("set")
    /\ \/ Existing = {} /\ lst' = [LstIdle EXCEPT !.pc = "create", !.proto = Head(stream).proto]
       \/ /\ Cardinality(Existing) = 1 /\ crs[TheExisting].spec # Head(stream).proto
          /\ lst' = [LstIdle EXCEPT !.pc = "get", !.s = TheExisting, !.proto = Head(stream).proto]
    /\ UNCHANGED <<crs, queue, stream>> /\ Listener

(* ValidateCreate of the webhook: one resource for each schema name, be it *)
(* spec.name or derived from metadata.name, in the list it got. The        *)
(* resource is stored later: two creations may each miss the other.        *)
ValidateCreate(list) == list = {}

WebhookLists == InformerLists({s \in DOMAIN crs : crs[s] = NewCR(crs[s].spec, crs[s].owned)})

GeneratedName == CHOOSE s \in GeneratedCRs : s \notin DOMAIN crs \cup {ctl.s}

CreateCR ==
    /\ lst.pc = "create"
    /\ Handled
    /\ \E list \in WebhookLists :
          IF ValidateCreate(list)
          THEN crs' = With(GeneratedName, NewCR(lst.proto, TRUE)) /\ queue' = queue \cup {GeneratedName}
          ELSE UNCHANGED <<crs, queue>>
    /\ Listener

GetCR ==
    /\ lst.pc = "get"
    /\ IF lst.s \in DOMAIN crs
       THEN /\ lst' = [lst EXCEPT !.pc = "patch", !.base = crs[lst.s].spec,
                                  !.gen = crs[lst.s].gen, !.fin = crs[lst.s].finalizer]
            /\ UNCHANGED stream
       ELSE Handled
    /\ UNCHANGED <<crs, queue>> /\ Listener

PatchCR ==
    /\ lst.pc = "patch"
    /\ Handled
    /\ IF lst.s \in DOMAIN crs
       THEN LET c == crs[lst.s]
                spec == IF lst.proto = lst.base THEN c.spec ELSE lst.proto
            IN  /\ Patch(lst.s, [Respec(c, spec) EXCEPT !.listenerGen = lst.gen + 1,
                                                        !.finalizer = @ \/ ~lst.fin])
                /\ queue' = queue \cup Woken(lst.s)
       ELSE UNCHANGED <<crs, queue>>
    /\ Listener

FindForRemove ==
    /\ Received("remove") /\ Cardinality(Existing) = 1
    /\ lst' = [LstIdle EXCEPT !.pc = "mark", !.s = TheExisting]
    /\ UNCHANGED <<crs, queue, stream>> /\ Listener

MarkCR ==
    /\ lst.pc = "mark"
    /\ Handled
    /\ IF lst.s \in DOMAIN crs /\ crs[lst.s].deleted = "no"
       THEN /\ Patch(lst.s, [crs[lst.s] EXCEPT !.marked = TRUE])
            /\ queue' = queue \cup Woken(lst.s)
       ELSE UNCHANGED <<crs, queue>>
    /\ Listener

Listen ==
    \/ ReadNames \/ RemoveStaleResources \/ Subscribe
    \/ IgnoreEvent \/ FindForSet \/ CreateCR \/ GetCR \/ PatchCR \/ FindForRemove \/ MarkCR

(***************************************************************************)
(* Users, clients, caches and the cluster.                                 *)
(***************************************************************************)
Resting == queue = {} /\ ctl = CtlIdle /\ stream = <<>>
Settled == Resting /\ lst.pc \in {"idle", "stopped"}

ChangeIf(kind, calm) ==
    /\ kind \in Changes /\ changes < MaxChanges
    /\ changes' = changes + 1
    /\ calm \/ hurry < MaxHurry
    /\ hurry' = IF calm THEN hurry ELSE hurry + 1
    /\ UNCHANGED <<ctl, faults>>
Change(kind) == ChangeIf(kind, Settled)
ByUser == UNCHANGED <<server, cluster, bidi, stream, lst, unseen>>

UserCreates ==
    /\ Change("create") /\ ByUser /\ UNCHANGED <<refs, guarded>>
    /\ UserCR \notin DOMAIN crs
    /\ \E list \in WebhookLists : ValidateCreate(list)
    /\ \E p \in Protos : crs' = With(UserCR, NewCR(p, FALSE))
    /\ queue' = queue \cup {UserCR}

UserEdits(s) ==
    /\ Change("edit") /\ ByUser /\ UNCHANGED <<refs, guarded>>
    /\ s \in DOMAIN crs /\ crs[s].deleted = "no"
    /\ \E p \in Protos \ {crs[s].spec} : Patch(s, Respec(crs[s], p))
    /\ queue' = queue \cup {s}

UserDeletes(s) ==
    /\ s \in DOMAIN crs /\ crs[s].deleted = "no"
    /\ ChangeIf("delete", Settled /\ crs[s].finalizer) /\ ByUser /\ UNCHANGED refs
    /\ guarded' = guarded \cup ({s} \cap refs)
    /\ Patch(s, [crs[s] EXCEPT !.deleted = "user", !.gen = @ + 1])
    /\ queue' = queue \cup {s}

UserPauses(s) ==
    /\ Change("pause") /\ ByUser /\ UNCHANGED <<refs, guarded>>
    /\ s \in DOMAIN crs /\ crs[s].deleted = "no"
    /\ Patch(s, [crs[s] EXCEPT !.paused = ~@])
    /\ queue' = queue \cup {s}

(* Mutant: the watch sees the cache's new schemaRefs only.                 *)
ReferenceChangesOnNew(s) ==
    /\ Change("ref") /\ ByUser /\ UNCHANGED crs
    /\ refs' = IF s \in refs THEN refs \ {s} ELSE refs \cup {s}
    /\ guarded' = guarded \cap refs'
    /\ queue' = queue \cup ({s} \cap refs' \cap DOMAIN crs)

(* A Cache resource starts or stops to refer to s; the watch queues s for  *)
(* the references of the cache before and after (for a name that is no     *)
(* resource the reconciliation ends at once).                              *)
ReferenceChanges(s) ==
    /\ Change("ref") /\ ByUser /\ UNCHANGED crs
    /\ refs' = IF s \in refs THEN refs \ {s} ELSE refs \cup {s}
    /\ guarded' = guarded \cap refs'
    /\ queue' = queue \cup ({s} \cap DOMAIN crs)

ClientSets ==
    /\ Change("set") /\ cluster = "formed"
    /\ \E p \in Protos \ {server} : server' = p /\ Emit("set", p)
    /\ UNCHANGED <<crs, queue, cluster, bidi, refs, lst, guarded>>

ClientRemoves ==
    /\ ChangeIf("remove", Resting /\ lst.pc \in {"idle", "sweep", "stopped"}) /\ cluster = "formed" /\ server # NoProto
    /\ server' = NoProto /\ Emit("remove", NoProto)
    /\ UNCHANGED <<crs, queue, cluster, bidi, refs, lst, guarded>>

(* Every change of the Infinispan resource queues its schemas.             *)
ClusterChanges ==
    /\ Change("cluster") /\ cluster # "gone"
    /\ cluster' = IF cluster = "formed" THEN "forming" ELSE "formed"
    /\ queue' = queue \cup DOMAIN crs
    /\ UNCHANGED <<crs, server, bidi, refs, stream, lst, unseen, guarded>>

(* The listener's Deployment is created or removed.                        *)
ListenerToggled ==
    /\ Change("bidi") /\ cluster # "gone"
    /\ bidi' = ~bidi
    /\ lst' = [LstIdle EXCEPT !.pc = IF bidi THEN "stopped" ELSE "sweep"]
    /\ stream' = <<>>
    /\ unseen' = IF RemovalPending THEN "lost" ELSE unseen
    /\ queue' = queue \cup DOMAIN crs
    /\ UNCHANGED <<crs, server, cluster, refs, guarded>>

ClusterDeleted ==
    /\ Change("gone") /\ cluster # "gone"
    /\ cluster' = "gone" /\ server' = NoProto
    /\ stream' = <<>> /\ lst' = [LstIdle EXCEPT !.pc = "stopped"]
    /\ crs' = [s \in {t \in DOMAIN crs : ~crs[t].owned \/ crs[t].finalizer} |->
                 [crs[s] EXCEPT !.deleted = IF @ = "no" /\ crs[s].owned THEN "operator" ELSE @]]
    /\ queue' = queue \cup DOMAIN crs
    /\ UNCHANGED <<bidi, refs, unseen, guarded>>

Environment ==
    \/ UserCreates \/ ClientSets \/ ClientRemoves \/ ClusterChanges \/ ListenerToggled \/ ClusterDeleted
    \/ \E s \in Slots : UserEdits(s) \/ UserDeletes(s) \/ UserPauses(s) \/ ReferenceChanges(s)

(***************************************************************************)
(* Faults.                                                                 *)
(***************************************************************************)
Fault(kind) == kind \in Faults /\ faults < MaxFaults /\ faults' = faults + 1
                /\ UNCHANGED <<cluster, bidi, refs, changes, guarded>>

OperatorCrash ==
    /\ Fault("crash") /\ ctl.pc # "idle" /\ UNCHANGED hurry
    /\ ctl' = CtlIdle /\ queue' = DOMAIN crs
    /\ UNCHANGED <<crs, server, stream, lst, unseen>>

(* A failed PUT is stored and retried, a failed DELETE retried, a failed   *)
(* status check stored as an error of the schema and not retried.          *)
CallFails ==
    /\ Fault("call") /\ UNCHANGED hurry
    /\ \/ ctl.pc = "erase" /\ ctl' = CtlIdle /\ queue' = queue \cup {ctl.s} /\ UNCHANGED crs
       \/ ctl.pc = "put" /\ EndUpdating([ready |-> "CallFailed"], TRUE)
       \/ ctl.pc = "status" /\ EndUpdating([ready |-> "CallFailed", finalizer |-> TRUE], FALSE)
    /\ UNCHANGED <<server, stream, lst, unseen>>

ListenerCrash ==
    /\ Fault("listener") /\ Connected
    /\ hurry' = IF queue = {} /\ ctl = CtlIdle THEN hurry ELSE hurry + 1
    /\ hurry' <= MaxHurry
    /\ lst' = [LstIdle EXCEPT !.pc = "sweep"]
    /\ stream' = <<>>
    /\ unseen' = IF RemovalPending /\ unseen = "no" THEN "swept" ELSE unseen
    /\ UNCHANGED <<crs, server, queue, ctl>>

StreamBreaks ==
    /\ Fault("stream") /\ lst.pc = "idle" /\ UNCHANGED hurry
    /\ lst' = [LstIdle EXCEPT !.pc = "subscribe"]
    /\ stream' = <<>>
    /\ unseen' = IF RemovalPending THEN "lost" ELSE unseen
    /\ UNCHANGED <<crs, server, queue, ctl>>

Next == Reconcile \/ Listen \/ Environment \/ OperatorCrash \/ CallFails \/ ListenerCrash \/ StreamBreaks

Fairness == WF_vars(Reconcile) /\ WF_vars(Listen)

Spec == Init /\ [][Next]_vars /\ Fairness

(***************************************************************************)
(* Properties                                                              *)
(***************************************************************************)
TypeOK ==
    /\ DOMAIN crs \subseteq Slots /\ \A s \in DOMAIN crs : crs[s] \in CR
    /\ server \in Protos \cup {NoProto}
    /\ cluster \in {"formed", "forming", "gone"}
    /\ bidi \in BOOLEAN /\ refs \subseteq Slots /\ queue \subseteq Slots
    /\ ctl \in [pc: CtlSteps, s: Slots, spec: Protos \cup {NoProto}, both: BOOLEAN, deleted: BOOLEAN]
    /\ stream \in Seq(Event)
    /\ lst \in [pc: LstSteps, s: Slots, proto: Protos \cup {NoProto}, base: Protos \cup {NoProto},
                gen: Nat, fin: BOOLEAN]
    /\ changes \in 0..MaxChanges /\ faults \in 0..MaxFaults
    /\ hurry \in 0..MaxHurry /\ unseen \in {"no", "swept", "lost"}

(* The operator never removes from the server a schema that a Cache        *)
(* resource has been referring to since before the deletion was asked for, *)
(* through crashes, failed calls, pauses and changes of the cluster.       *)
ReferencedKept ==
    [][ctl' # ctl /\ server # NoProto /\ server' = NoProto => ctl.s \notin guarded]_vars

(* A deletion that was held back by a reference is carried out once the    *)
(* reference is gone, and no deletion is forgotten.                        *)
DeletedGoes ==
    <>[](\A s \in DOMAIN crs : crs[s].deleted # "no" => s \in refs \/ cluster = "forming")

(* A resource is paused or deleted, reports a failure, or has its schema.  *)
Agrees(c) ==
    \/ c.paused \/ c.deleted # "no"
    \/ c.ready \notin {"Unknown", "True"}
    \/ c.ready = "True" /\ server = c.spec
InSync ==
    /\ \A s \in DOMAIN crs : Agrees(crs[s]) \/ (unseen = "swept" /\ ~crs[s].owned)
    /\ server # NoProto => DOMAIN crs # {}

(* Once both processes are done and nobody hurried them, a resource that   *)
(* says Ready has the text the server has, and a schema has a resource as  *)
(* long as the listener runs, unless a removal escaped the listener and    *)
(* its sweep (unseen). With the typing of the state.                       *)
SettledInSync ==
    TypeOK /\ (Settled /\ cluster = "formed" /\ bidi /\ hurry = 0 /\ unseen # "lost" => InSync)

(* A failed call to the server leaves no lasting trace: the condition it   *)
(* wrote is replaced, although the failure of the status check asks for no *)
(* new attempt.                                                            *)
Recovers ==
    <>[](\A s \in DOMAIN crs : crs[s].ready = "CallFailed" => cluster # "formed" \/ crs[s].paused
                                                              \/ crs[s].deleted # "no")
=============================================================================
