------------------------------ MODULE CacheSync ------------------------------
(***************************************************************************)
(* Bidirectional reconciliation of one cache: the Cache controller, which  *)
(* carries Cache resources to the server (controllers/cache_controller.go, *)
(* Reconcile), and the config listener, a process of its own, which        *)
(* carries the server's events back to Cache resources (CacheListener and  *)
(* launcher/listener/listener.go). Both write the same resources with      *)
(* merge patches that carry no resourceVersion, so neither notices what    *)
(* the other wrote in between.                                             *)
(*                                                                         *)
(* A cache configuration is a value: two texts with the same meaning for   *)
(* the server's comparison are one value, and a conversion between markups *)
(* yields the same value. One cache name is modelled, names of internal    *)
(* caches ("___...") never reach the controller.                           *)
(***************************************************************************)
EXTENDS SyncedResources, Sequences, FiniteSets

CONSTANTS
    Configs,        \* cache configurations
    Family,         \* Family[c]: configurations the server changes into each other at runtime
    TemplateConfig, \* what the server's named template creates
    UserCR,         \* metadata.name of the Cache resource a user writes
    GeneratedCRs,   \* names generateName gives to the listener's resources
    SpecNamed,      \* does the user's resource give spec.name, or leave it to metadata.name?
    KebabName,      \* is the cache name its own kebab-case form?
    UserSpecs,      \* the specs users write (the webhook sets a missing strategy)
    Changes,        \* the kinds of change users, clients and the cluster make
    MaxChanges,     \* bound: how many of them
    MaxHurry,       \* bound: how many changes come before the last one has settled
    Faults,         \* the kinds of fault that occur
    MaxFaults       \* bound: how many of them

NoConfig == "noConfig"
Strategies == {"", "retain", "recreate"}
Slots == {UserCR} \cup GeneratedCRs

ASSUME ConfigAssumption ==
    /\ NoConfig \notin Configs
    /\ TemplateConfig \in Configs
    /\ DOMAIN Family = Configs
    /\ UserCR \notin GeneratedCRs
    /\ MaxChanges \in Nat /\ MaxHurry \in Nat /\ MaxFaults \in Nat

(* The API server always finds another name to generate.                   *)
ASSUME NamesAssumption == \E s, t \in GeneratedCRs : s # t

VARIABLES
    server,  \* the cache's configuration on the server, NoConfig when it has none
    cluster, \* "formed", "forming" or "gone": the Infinispan resource
    schema,  \* "ready", "pending", "foreign", "absent": the Schema the resource refers to
    ctl,     \* the reconciliation in progress: where it is, of which resource, its copy of the spec
    stream,  \* events sent to the listener's connection and not yet handled
    lst,     \* the listener: where it is and what it has read
    changes, faults,
    hurry,   \* how often a change was made before the last one had settled, a resource
             \* deleted that the controller had not taken on, or the listener restarted
             \* in the middle of a reconciliation
    unseen   \* a removal the listener was not told of (history): "no", "swept" when the
             \* next thing it did was RemoveStaleResources, "lost" otherwise; "lost" too
             \* when the removal was announced (controllerDelete outlives it)

vars == <<crs, server, cluster, schema, queue, ctl, stream, lst, changes, faults, hurry, unseen>>
env == <<cluster, schema, changes, hurry>>

(* The fields of a Cache resource the two processes read and write.        *)
CacheSpec == [template: Configs \cup {NoConfig}, named: BOOLEAN, strategy: Strategies, refs: BOOLEAN]

ASSUME SpecsAssumption == UserSpecs \subseteq CacheSpec

(* The Ready condition: unset, True, or False for a reason its message gives. *)
Readiness == {"Unknown", "True", "NoCluster", "NoSchema", "ExistsFailed", "CallFailed", "Refused"}
CR == [spec: CacheSpec, gen: Nat, listenerGen: Nat, marked: BOOLEAN, controllerDelete: BOOLEAN,
       finalizer: BOOLEAN, deleted: {"no", "user", "operator"}, owned: BOOLEAN, paused: BOOLEAN,
       pausedCond: BOOLEAN, ready: Readiness]
Event == [kind: {"set", "remove"}, config: Configs \cup {NoConfig}, by: {"deletion", "recreation", "update", "client"}]
CtlSteps == {"idle", "deleteCR", "unfinalize", "exists", "compare", "update", "annotate",
             "erase", "create", "recreate", "finish"}
LstSteps == {"sweep", "sweepList", "subscribe", "idle", "create", "get", "patch", "mark", "clear",
             "stopped"}

NoSpec == [template |-> NoConfig, named |-> FALSE, strategy |-> "", refs |-> FALSE]
CtlIdle == [pc |-> "idle", s |-> UserCR, spec |-> NoSpec]
LstIdle == [pc |-> "idle", s |-> UserCR, config |-> NoConfig, base |-> NoSpec, gen |-> 0, fin |-> FALSE]

NewCR(spec, listener) ==
    [spec |-> spec, gen |-> 1, listenerGen |-> IF listener THEN 1 ELSE 0, marked |-> FALSE,
     controllerDelete |-> FALSE, finalizer |-> listener, deleted |-> "no", owned |-> listener,
     paused |-> FALSE, pausedCond |-> FALSE, ready |-> "Unknown"]

(* The server tells the connected listener of every change (external).     *)
Connected == lst.pc \notin {"sweep", "sweepList", "subscribe", "stopped"}
Emit(kind, config, by) ==
    /\ stream' = IF Connected THEN Append(stream, [kind |-> kind, config |-> config, by |-> by]) ELSE stream
    /\ unseen' = IF kind = "set" \/ Connected \/ unseen = "lost" THEN unseen
                 ELSE IF lst.pc = "sweep" THEN "swept" ELSE "lost"
RemovalPending == \E i \in DOMAIN stream : stream[i].kind = "remove"
AnnouncedPending == \E i \in DOMAIN stream : stream[i].by = "recreation"

Init ==
    /\ crs \in [{} -> CR] \cup [{UserCR} -> {NewCR([NoSpec EXCEPT !.template = TemplateConfig], FALSE)}]
    /\ server = NoConfig
    /\ cluster = "formed" /\ schema = "ready"
    /\ queue = DOMAIN crs
    /\ ctl = CtlIdle
    /\ stream = <<>> /\ lst = LstIdle
    /\ changes = 0 /\ faults = 0
    /\ hurry = 0 /\ unseen = "no"

(***************************************************************************)
(* Reconcile. Each step is one call to the API server or to the Infinispan *)
(* server; r.cache is read when the reconciliation starts.                 *)
(***************************************************************************)
Taken(s) == /\ ctl.pc = "idle" /\ s \in queue
Quiet == UNCHANGED <<server, stream, lst, faults, unseen>> /\ UNCHANGED env

(* The reconciliation of s ends having patched s to c, in its first step   *)
(* (s leaves the queue) or later (s may be queued again meanwhile).        *)
EndWith(s, c, requeue) ==
    /\ Patch(s, c)
    /\ queue' = (IF ctl.pc = "idle" THEN queue \ {s} ELSE queue)
                \cup Woken(s) \cup (IF requeue THEN {s} ELSE {})
    /\ ctl' = CtlIdle

Proceed(s, pc) ==
    /\ ctl' = [pc |-> pc, s |-> s, spec |-> crs[s].spec]
    /\ queue' = queue \ {s}
    /\ UNCHANGED crs

NotReady(c, why) == [c EXCEPT !.ready = why]

(* Mutant: the edit after the listener's own is taken for the listener's.  *)
reconcileOnServerLate(c) == c.listenerGen = 0 \/ c.listenerGen + 1 < c.gen

reconcileOnServer(c) == c.listenerGen = 0 \/ c.listenerGen < c.gen

(* Mutant: a deleted resource is not checked for the listener's mark.      *)
BegunMarked(s) ==
    /\ Taken(s) /\ s \in DOMAIN crs
    /\ crs[s].deleted = "no" => /\ ~crs[s].marked /\ ~crs[s].paused /\ ~crs[s].pausedCond
                               /\ crs[s].spec.strategy # ""

(* What a resource that is neither marked nor paused nor too old waits for. *)
Begun(s) ==
    /\ Taken(s) /\ s \in DOMAIN crs /\ ~crs[s].marked
    /\ crs[s].deleted = "no" => ~crs[s].paused /\ ~crs[s].pausedCond /\ crs[s].spec.strategy # ""
Formed(s) == Begun(s) /\ cluster = "formed"
SchemasReady(s) == crs[s].deleted # "no" \/ ~crs[s].spec.refs \/ schema = "ready"

NotFound(s) ==
    /\ Taken(s) /\ s \notin DOMAIN crs
    /\ queue' = queue \ {s} /\ UNCHANGED <<crs, ctl>> /\ Quiet

(* Marked by the listener: the finalizer goes first, then the resource.    *)
RemoveMarked(s) ==
    /\ Taken(s) /\ s \in DOMAIN crs /\ crs[s].marked
    /\ Patch(s, [crs[s] EXCEPT !.finalizer = FALSE])
    /\ queue' = (queue \ {s}) \cup Woken(s)
    /\ ctl' = [CtlIdle EXCEPT !.pc = "deleteCR", !.s = s]
    /\ Quiet

DeleteMarked ==
    /\ ctl.pc = "deleteCR"
    /\ IF ctl.s \in DOMAIN crs
       THEN EndWith(ctl.s, [crs[ctl.s] EXCEPT !.deleted = IF @ = "no" THEN "operator" ELSE @], FALSE)
       ELSE ctl' = CtlIdle /\ UNCHANGED <<crs, queue>>
    /\ Quiet

(* HandleReconciliationPause. Clearing the condition lets the same         *)
(* reconciliation carry on; here its write starts it again.                *)
Pause(s) ==
    /\ Taken(s) /\ s \in DOMAIN crs /\ ~crs[s].marked /\ crs[s].deleted = "no"
    /\ crs[s].paused \/ crs[s].pausedCond
    /\ EndWith(s, [crs[s] EXCEPT !.pausedCond = crs[s].paused], FALSE)
    /\ Quiet

AddStrategy(s) ==
    /\ Taken(s) /\ s \in DOMAIN crs /\ ~crs[s].marked /\ crs[s].deleted = "no"
    /\ ~crs[s].paused /\ ~crs[s].pausedCond /\ crs[s].spec.strategy = ""
    /\ EndWith(s, Respec(crs[s], [crs[s].spec EXCEPT !.strategy = "retain"]), TRUE)
    /\ Quiet

ClusterMissing(s) ==
    /\ Begun(s) /\ cluster = "gone"
    /\ EndWith(s, IF crs[s].deleted = "no" THEN NotReady(crs[s], "NoCluster")
                  ELSE [crs[s] EXCEPT !.finalizer = FALSE], FALSE)
    /\ Quiet

(* No requeue: the watch on the Infinispan resource queues the caches.     *)
ClusterNotFormed(s) ==
    /\ Begun(s) /\ cluster = "forming"
    /\ EndWith(s, crs[s], FALSE)
    /\ Quiet

SchemaNotReady(s) ==
    /\ Formed(s) /\ ~SchemasReady(s)
    /\ EndWith(s, NotReady(crs[s], "NoSchema"), schema # "foreign")
    /\ Quiet

(* The resource was deleted: the cache goes, then the finalizer.           *)
DeleteOnServer(s) ==
    /\ Formed(s) /\ crs[s].deleted # "no"
    /\ Proceed(s, "unfinalize")
    /\ server' = NoConfig
    /\ IF server = NoConfig THEN UNCHANGED <<stream, unseen>> ELSE Emit("remove", NoConfig, "deletion")
    /\ UNCHANGED <<lst, faults>> /\ UNCHANGED env

RemoveFinalizer ==
    /\ ctl.pc = "unfinalize"
    /\ IF ctl.s \in DOMAIN crs
       THEN EndWith(ctl.s, [crs[ctl.s] EXCEPT !.finalizer = FALSE], FALSE)
       ELSE ctl' = CtlIdle /\ UNCHANGED <<crs, queue>>
    /\ Quiet

StartServerCalls(s) ==
    /\ Formed(s) /\ SchemasReady(s) /\ crs[s].deleted = "no"
    /\ Proceed(s, IF reconcileOnServer(crs[s]) THEN "exists" ELSE "finish")
    /\ Quiet

(* Every failure of ispnCreateOrUpdate is stored as Ready=False; all but   *)
(* that of Exists ask for another attempt.                                 *)
Fail(why) ==
    IF ctl.s \in DOMAIN crs
    THEN EndWith(ctl.s, NotReady(crs[ctl.s], why), why # "ExistsFailed")
    ELSE ctl' = CtlIdle /\ UNCHANGED <<crs, queue>>

Goto(pc) == ctl' = [ctl EXCEPT !.pc = pc] /\ UNCHANGED <<crs, queue>>

Exists ==
    /\ ctl.pc = "exists"
    /\ IF ctl.spec.template = NoConfig /\ ~ctl.spec.named THEN Fail("Refused")
       ELSE IF server = NoConfig THEN Goto("create")
       ELSE IF ctl.spec.template = NoConfig THEN Goto("finish")
       ELSE Goto("compare")
    /\ Quiet

(* cache.Config and configChanged.                                         *)
Compare ==
    /\ ctl.pc = "compare"
    /\ IF server = NoConfig THEN Fail("Refused")
       ELSE Goto(IF server = ctl.spec.template THEN "finish" ELSE "update")
    /\ Quiet

UpdateConfig ==
    /\ ctl.pc = "update"
    /\ IF server # NoConfig /\ Family[server] = Family[ctl.spec.template]
       THEN /\ Goto("finish")
            /\ server' = ctl.spec.template
            /\ Emit("set", ctl.spec.template, "update")
       ELSE /\ IF ctl.spec.strategy = "recreate" THEN Goto("annotate") ELSE Fail("Refused")
            /\ UNCHANGED <<server, stream, unseen>>
    /\ UNCHANGED <<lst, faults>> /\ UNCHANGED env

(* Mutant: the listener is not told of the removal.                        *)
AnnotateNothing ==
    /\ ctl.pc = "annotate"
    /\ Goto("erase")
    /\ Quiet

(* Recreate: tell the listener to expect the removal, remove, create.      *)
Annotate ==
    /\ ctl.pc = "annotate"
    /\ IF ctl.s \in DOMAIN crs
       THEN /\ Patch(ctl.s, [crs[ctl.s] EXCEPT !.controllerDelete = TRUE])
            /\ queue' = queue \cup Woken(ctl.s)
            /\ ctl' = [ctl EXCEPT !.pc = "erase"]
       ELSE Fail("Refused")
    /\ Quiet

Erase ==
    /\ ctl.pc = "erase"
    /\ Goto("recreate")
    /\ server' = NoConfig
    /\ IF server = NoConfig THEN UNCHANGED <<stream, unseen>> ELSE Emit("remove", NoConfig, "recreation")
    /\ UNCHANGED <<lst, faults>> /\ UNCHANGED env

CreateOnServer ==
    /\ ctl.pc \in {"create", "recreate"}
    /\ LET config == IF ctl.pc = "create" /\ ctl.spec.named THEN TemplateConfig ELSE ctl.spec.template
       IN  IF server = NoConfig
           THEN Goto("finish") /\ server' = config /\ Emit("set", config, "update")
           ELSE Fail("Refused") /\ UNCHANGED <<server, stream, unseen>>
    /\ UNCHANGED <<lst, faults>> /\ UNCHANGED env

(* Mutant: a reconciliation always asks for the next one.                  *)
FinishAndRequeue ==
    /\ ctl.pc = "finish"
    /\ IF ctl.s \in DOMAIN crs
       THEN EndWith(ctl.s, [crs[ctl.s] EXCEPT !.ready = "True", !.finalizer = TRUE], TRUE)
       ELSE ctl' = CtlIdle /\ UNCHANGED <<crs, queue>>
    /\ Quiet

Finish ==
    /\ ctl.pc = "finish"
    /\ IF ctl.s \in DOMAIN crs
       THEN EndWith(ctl.s, [crs[ctl.s] EXCEPT !.ready = "True", !.finalizer = TRUE], FALSE)
       ELSE ctl' = CtlIdle /\ UNCHANGED <<crs, queue>>
    /\ Quiet

Reconcile ==
    \/ \E s \in Slots : \/ NotFound(s) \/ RemoveMarked(s) \/ Pause(s) \/ AddStrategy(s)
                        \/ ClusterMissing(s) \/ ClusterNotFormed(s) \/ SchemaNotReady(s)
                        \/ DeleteOnServer(s) \/ StartServerCalls(s)
    \/ DeleteMarked \/ RemoveFinalizer \/ Exists \/ Compare \/ UpdateConfig \/ Annotate \/ Erase
    \/ CreateOnServer \/ Finish

(***************************************************************************)
(* The listener. At its start it marks the resources whose cache is gone,  *)
(* then subscribes, which brings the current state first, and handles one  *)
(* event at a time; an error only ends the handling of its event.          *)
(***************************************************************************)
Listener == UNCHANGED <<server, ctl, faults, unseen>> /\ UNCHANGED env
Handled == stream' = Tail(stream) /\ lst' = LstIdle

(* RemoveStaleResources reads the names on the server, keyed in kebab-case, *)
(* then compares them with the names the resources carry.                  *)
ReadNames ==
    /\ lst.pc = "sweep" /\ cluster = "formed"
    /\ lst' = [lst EXCEPT !.pc = "sweepList", !.config = server]
    /\ UNCHANGED <<crs, queue, stream>> /\ Listener

Stale(s) == crs[s].owned /\ (lst.config = NoConfig \/ ~KebabName)

RemoveStaleResources ==
    /\ lst.pc = "sweepList"
    /\ crs' = [s \in DOMAIN crs |-> [crs[s] EXCEPT !.marked = @ \/ Stale(s)]]
    /\ queue' = queue \cup {s \in DOMAIN crs : crs'[s] # crs[s]}
    /\ lst' = [LstIdle EXCEPT !.pc = "subscribe"]
    /\ UNCHANGED stream /\ Listener

Subscribe ==
    /\ lst.pc = "subscribe" /\ cluster = "formed"
    /\ lst' = LstIdle
    /\ stream' = IF server = NoConfig THEN <<>>
                 ELSE <<[kind |-> "set", config |-> server, by |-> "client"]>>
    /\ UNCHANGED <<crs, queue>> /\ Listener

Received(kind) == lst.pc = "idle" /\ stream # <<>> /\ Head(stream).kind = kind

(* findExistingCacheCR: every resource of the one cache; two are an error. *)
Existing == DOMAIN crs
TheExisting == CHOOSE s \in Existing : TRUE

(* CreateOrUpdate: an event that changes nothing, or finds two resources.  *)
IgnoreSet ==
    /\ Received("set")
    /\ \/ Cardinality(Existing) > 1
       \/ /\ Cardinality(Existing) = 1
          /\ crs[TheExisting].spec.template \in {NoConfig, Head(stream).config}
    /\ Handled
    /\ UNCHANGED <<crs, queue>> /\ Listener

FindForSet ==
    /\ Received("set")
    /\ \/ Existing = {} /\ lst' = [LstIdle EXCEPT !.pc = "create", !.config = Head(stream).config]
       \/ /\ Cardinality(Existing) = 1
          /\ crs[TheExisting].spec.template \notin {NoConfig, Head(stream).config}
          /\ lst' = [LstIdle EXCEPT !.pc = "get", !.s = TheExisting, !.config = Head(stream).config]
    /\ UNCHANGED <<crs, queue, stream>> /\ Listener

(* ValidateCreate of the webhook: no other resource with the same spec.name *)
(* (the field, not the name of the cache it stands for) in the list it got. *)
(* The resource is stored later: two creations may each miss the other.    *)
SpecName(s) == IF s = UserCR /\ ~SpecNamed THEN "" ELSE "cache"
ValidateCreate(s, list) == \A t \in list : SpecName(t) # SpecName(s)

WebhookLists == InformerLists({s \in DOMAIN crs : crs[s] = NewCR(crs[s].spec, crs[s].owned)})

(* generateName: a name nothing refers to.                                  *)
GeneratedName == CHOOSE s \in GeneratedCRs : s \notin DOMAIN crs \cup {ctl.s}

(* A refused creation only ends the handling of the event.                 *)
CreateCR ==
    /\ lst.pc = "create"
    /\ Handled
    /\ \E list \in WebhookLists :
          IF ValidateCreate(GeneratedName, list)
          THEN /\ crs' = With(GeneratedName,
                             NewCR([NoSpec EXCEPT !.template = lst.config, !.strategy = "retain"], TRUE))
               /\ queue' = queue \cup {GeneratedName}
          ELSE UNCHANGED <<crs, queue>>
    /\ Listener

(* CreateOrPatch: the resource is read again, and what the patch carries   *)
(* is the difference to what was read.                                     *)
GetCR ==
    /\ lst.pc = "get"
    /\ IF lst.s \in DOMAIN crs
       THEN /\ lst' = [lst EXCEPT !.pc = "patch", !.base = crs[lst.s].spec,
                                  !.gen = crs[lst.s].gen, !.fin = crs[lst.s].finalizer]
            /\ UNCHANGED stream
       ELSE Handled
    /\ UNCHANGED <<crs, queue>> /\ Listener

(* The spec the listener writes: the event's configuration unless the      *)
(* resource names a template, and no schemaRefs.                           *)
EventSpec(base, config) ==
    [template |-> IF base.template = NoConfig THEN NoConfig ELSE config,
     named    |-> base.named /\ base.template = NoConfig,
     strategy |-> base.strategy,
     refs     |-> FALSE]

(* Fields the patch leaves alone keep what the resource has by now.        *)
Merged(now, base, new) ==
    [f \in DOMAIN now |-> IF new[f] = base[f] THEN now[f] ELSE new[f]]

PatchCR ==
    /\ lst.pc = "patch"
    /\ Handled
    /\ IF lst.s \in DOMAIN crs
       THEN LET c == crs[lst.s]
                spec == Merged(c.spec, lst.base, EventSpec(lst.base, lst.config))
            IN  /\ Patch(lst.s, [Respec(c, spec) EXCEPT !.listenerGen = lst.gen + 1,
                                                        !.finalizer = @ \/ ~lst.fin])
                /\ queue' = queue \cup Woken(lst.s)
       ELSE UNCHANGED <<crs, queue>>
    /\ Listener

(* Delete.                                                                 *)
IgnoreRemove ==
    /\ Received("remove") /\ Cardinality(Existing) # 1
    /\ Handled
    /\ UNCHANGED <<crs, queue>> /\ Listener

FindForRemove ==
    /\ Received("remove") /\ Cardinality(Existing) = 1
    /\ lst' = [LstIdle EXCEPT !.pc = IF crs[TheExisting].controllerDelete THEN "clear" ELSE "mark",
                              !.s = TheExisting]
    /\ UNCHANGED <<crs, queue, stream>> /\ Listener

(* The removal the controller announced: the resource stays.               *)
RetainCR ==
    /\ lst.pc = "clear"
    /\ Handled
    /\ IF lst.s \in DOMAIN crs
       THEN /\ Patch(lst.s, [crs[lst.s] EXCEPT !.controllerDelete = FALSE])
            /\ queue' = queue \cup Woken(lst.s)
       ELSE UNCHANGED <<crs, queue>>
    /\ Listener

MarkCR ==
    /\ lst.pc = "mark"
    /\ Handled
    /\ IF lst.s \in DOMAIN crs /\ crs[lst.s].deleted = "no"
       THEN /\ Patch(lst.s, [crs[lst.s] EXCEPT !.marked = TRUE])
            /\ queue' = queue \cup Woken(lst.s)
       ELSE UNCHANGED <<crs, queue>>
    /\ Listener

Listen ==
    \/ ReadNames \/ RemoveStaleResources \/ Subscribe
    \/ IgnoreSet \/ FindForSet \/ CreateCR \/ GetCR \/ PatchCR
    \/ IgnoreRemove \/ FindForRemove \/ RetainCR \/ MarkCR

(***************************************************************************)
(* Users, clients of the server, and the cluster.                          *)
(***************************************************************************)
Resting == queue = {} /\ ctl = CtlIdle /\ stream = <<>>
Settled == Resting /\ lst.pc \in {"idle", "stopped"}

ChangeIf(kind, calm) ==
    /\ kind \in Changes /\ changes < MaxChanges
    /\ changes' = changes + 1
    /\ calm \/ hurry < MaxHurry
    /\ hurry' = IF calm THEN hurry ELSE hurry + 1
    /\ UNCHANGED <<ctl, faults>>
Change(kind) == ChangeIf(kind, Settled)
ByUser == UNCHANGED <<server, cluster, schema, stream, lst, unseen>>

UserCreates ==
    /\ Change("create") /\ ByUser
    /\ UserCR \notin DOMAIN crs
    /\ \E list \in WebhookLists : ValidateCreate(UserCR, list)
    /\ \E sp \in UserSpecs : crs' = With(UserCR, NewCR(sp, FALSE))
    /\ queue' = queue \cup {UserCR}

UserEdits(s) ==
    /\ Change("edit") /\ ByUser
    /\ s \in DOMAIN crs /\ crs[s].deleted = "no"
    /\ \E sp \in UserSpecs : sp # crs[s].spec /\ Patch(s, Respec(crs[s], sp))
    /\ queue' = queue \cup {s}

UserDeletes(s) ==
    /\ s \in DOMAIN crs /\ crs[s].deleted = "no"
    /\ ChangeIf("delete", Settled /\ crs[s].finalizer) /\ ByUser
    /\ Patch(s, [crs[s] EXCEPT !.deleted = "user", !.gen = @ + 1])
    /\ queue' = queue \cup {s}

UserPauses(s) ==
    /\ Change("pause") /\ ByUser
    /\ s \in DOMAIN crs /\ crs[s].deleted = "no"
    /\ Patch(s, [crs[s] EXCEPT !.paused = ~@])
    /\ queue' = queue \cup {s}

(* Console, CLI or Hot Rod clients.                                        *)
ClientSets ==
    /\ Change("set") /\ cluster = "formed"
    /\ \E c \in Configs :
          /\ c # server /\ (server # NoConfig => Family[c] = Family[server])
          /\ server' = c
          /\ Emit("set", c, "client")
    /\ UNCHANGED <<crs, queue, cluster, schema, lst>>

ClientRemoves ==
    /\ ChangeIf("remove", Resting /\ lst.pc \in {"idle", "sweep"}) /\ cluster = "formed" /\ server # NoConfig
    /\ server' = NoConfig
    /\ Emit("remove", NoConfig, "client")
    /\ UNCHANGED <<crs, queue, cluster, schema, lst>>

(* A Schema that becomes ready queues the caches that refer to it.         *)
SchemaChanges ==
    /\ Change("schema")
    /\ \E v \in {"ready", "pending", "foreign", "absent"} \ {schema} :
          /\ schema' = v
          /\ queue' = queue \cup {s \in DOMAIN crs : v = "ready" /\ crs[s].spec.refs}
    /\ UNCHANGED <<crs, server, cluster, stream, lst, unseen>>

(* Every change of the Infinispan resource queues its caches.              *)
ClusterChanges ==
    /\ Change("cluster") /\ cluster # "gone"
    /\ cluster' = IF cluster = "formed" THEN "forming" ELSE "formed"
    /\ queue' = queue \cup DOMAIN crs
    /\ UNCHANGED <<crs, server, schema, stream, lst, unseen>>

(* The Infinispan resource is deleted with its server and its listener,    *)
(* and with the resources that name it as their owner.                     *)
ClusterDeleted ==
    /\ Change("gone") /\ cluster # "gone"
    /\ cluster' = "gone" /\ server' = NoConfig
    /\ stream' = <<>> /\ lst' = [LstIdle EXCEPT !.pc = "stopped"]
    /\ crs' = [s \in {t \in DOMAIN crs : ~crs[t].owned \/ crs[t].finalizer} |->
                 [crs[s] EXCEPT !.deleted = IF @ = "no" /\ crs[s].owned THEN "operator" ELSE @]]
    /\ queue' = queue \cup DOMAIN crs
    /\ UNCHANGED <<schema, unseen>>

Environment ==
    \/ UserCreates \/ ClientSets \/ ClientRemoves
    \/ SchemaChanges \/ ClusterChanges \/ ClusterDeleted
    \/ \E s \in Slots : UserEdits(s) \/ UserDeletes(s) \/ UserPauses(s)

(***************************************************************************)
(* Faults.                                                                 *)
(***************************************************************************)
Fault(kind) == kind \in Faults /\ faults < MaxFaults /\ faults' = faults + 1
                /\ UNCHANGED <<cluster, schema, changes>>

(* A restarted operator lists, and so queues, every resource.              *)
OperatorCrash ==
    /\ Fault("crash") /\ ctl.pc # "idle" /\ UNCHANGED hurry
    /\ ctl' = CtlIdle /\ queue' = DOMAIN crs
    /\ UNCHANGED <<crs, server, stream, lst, unseen>>

(* A failed call to the server. UpdateConfig takes any failure for a       *)
(* refusal; the failure of Exists asks for no new attempt.                 *)
CallFails ==
    /\ Fault("call") /\ UNCHANGED hurry
    /\ ctl.pc \in {"exists", "compare", "update", "erase", "create", "recreate"}
    /\ IF ctl.pc = "update" /\ ctl.spec.strategy = "recreate" THEN Goto("annotate")
       ELSE Fail(IF ctl.pc = "exists" THEN "ExistsFailed" ELSE "CallFailed")
    /\ UNCHANGED <<server, stream, lst, unseen>>

ListenerCrash ==
    /\ Fault("listener") /\ Connected
    /\ hurry' = IF queue = {} /\ ctl = CtlIdle THEN hurry ELSE hurry + 1
    /\ hurry' <= MaxHurry
    /\ lst' = [LstIdle EXCEPT !.pc = "sweep"]
    /\ stream' = <<>>
    /\ unseen' = IF AnnouncedPending THEN "lost"
                 ELSE IF RemovalPending /\ unseen = "no" THEN "swept" ELSE unseen
    /\ UNCHANGED <<crs, server, queue, ctl>>

(* The connection breaks between two events; reconnecting does not sweep.  *)
StreamBreaks ==
    /\ Fault("stream") /\ lst.pc = "idle" /\ UNCHANGED hurry
    /\ lst' = [LstIdle EXCEPT !.pc = "subscribe"]
    /\ stream' = <<>>
    /\ unseen' = IF RemovalPending THEN "lost" ELSE unseen
    /\ UNCHANGED <<crs, server, queue, ctl>>

Next == Reconcile \/ Listen \/ Environment \/ OperatorCrash \/ CallFails \/ ListenerCrash \/ StreamBreaks

(* Both processes keep running; users, clients and faults are free.        *)
Fairness == WF_vars(Reconcile) /\ WF_vars(Listen)

Spec == Init /\ [][Next]_vars /\ Fairness

(***************************************************************************)
(* Properties                                                              *)
(***************************************************************************)
TypeOK ==
    /\ DOMAIN crs \subseteq Slots /\ \A s \in DOMAIN crs : crs[s] \in CR
    /\ server \in Configs \cup {NoConfig}
    /\ cluster \in {"formed", "forming", "gone"}
    /\ schema \in {"ready", "pending", "foreign", "absent"}
    /\ queue \subseteq Slots
    /\ ctl \in [pc: CtlSteps, s: Slots, spec: CacheSpec]
    /\ stream \in Seq(Event)
    /\ lst \in [pc: LstSteps, s: Slots, config: Configs \cup {NoConfig}, base: CacheSpec,
                gen: Nat, fin: BOOLEAN]
    /\ changes \in 0..MaxChanges /\ faults \in 0..MaxFaults
    /\ hurry \in 0..MaxHurry /\ unseen \in {"no", "swept", "lost"}

(* The operator removes a cache, and the data in it, only for the recreate *)
(* strategy or for a resource that was itself deleted: a resource that     *)
(* goes because its cache was removed elsewhere (the listener marked it,   *)
(* the operator deletes it) never takes a cache created again meanwhile    *)
(* with it, whatever the order of events, patches and deletions.           *)
DataKept ==
    [][ctl' # ctl /\ server # NoConfig /\ server' = NoConfig =>
          \/ ctl.spec.strategy = "recreate"
          \/ /\ ctl'.s \in DOMAIN crs
             /\ crs[ctl'.s].deleted = "user" \/ ~crs[ctl'.s].marked]_vars

(* Recreating a cache does not cost its resource: the listener marks no    *)
(* resource on account of a removal the controller made for the recreate   *)
(* strategy.                                                               *)
RecreateKeepsResource ==
    [][\A s \in DOMAIN crs \cap DOMAIN crs' :
          crs'[s].marked /\ ~crs[s].marked /\ stream # <<>> /\ hurry = 0 =>
              Head(stream).by # "recreation"]_vars

(* A resource is paused, reports a failure, or has its cache.              *)
Agrees(c) ==
    \/ c.paused
    \/ c.ready \notin {"Unknown", "True"}
    \/ c.ready = "True" /\ server # NoConfig /\ c.spec.template \in {NoConfig, server}
InSync ==
    /\ \A s \in DOMAIN crs : Agrees(crs[s]) \/ (unseen = "swept" /\ ~crs[s].owned)
    /\ server # NoConfig => DOMAIN crs # {}

(* Once both processes are done and nobody hurried them, a resource that   *)
(* says Ready has a cache with its configuration and a cache has a         *)
(* resource, unless a removal escaped the listener and its sweep (unseen). *)
(* With the typing.                                                        *)
SettledInSync ==
    TypeOK /\ (Settled /\ cluster = "formed" /\ hurry = 0 /\ unseen # "lost" => InSync)

(* Both processes come to rest, or the controller keeps retrying what it   *)
(* cannot do and says so.                                                  *)
Settles ==
    <>[](Settled \/ cluster = "forming"
         \/ \E s \in DOMAIN crs : crs[s].ready \in {"NoSchema", "Refused"})
=============================================================================
