--------------------------- MODULE CacheSyncProofs ---------------------------
(***************************************************************************)
(* Theorems about CacheSync, for every set of configurations, of user      *)
(* specs and of generated names and every number of changes and faults.    *)
(***************************************************************************)
EXTENDS CacheSync, FiniteSetTheorems, TLAPS

-----------------------------------------------------------------------------
(***************************************************************************)
(* The inductive invariant.                                                *)
(***************************************************************************)

CrsOK ==
    /\ DOMAIN crs \subseteq Slots
    /\ \A s \in DOMAIN crs : crs[s] \in CR

CtlType == [pc: CtlSteps, s: Slots, spec: CacheSpec]

(* A reconciliation gets as far as comparing configurations only with one  *)
(* to compare, and as far as recreating the cache only for the recreate    *)
(* strategy, which it keeps in its copy of the spec.                       *)
CtlOK ==
    /\ ctl \in CtlType
    /\ ctl.pc \in {"compare", "update", "annotate", "erase", "recreate"} => ctl.spec.template # NoConfig
    /\ ctl.pc \in {"annotate", "erase", "recreate"} => ctl.spec.strategy = "recreate"
    /\ ctl.pc = "create" => ctl.spec.template # NoConfig \/ ctl.spec.named

LstType == [pc: LstSteps, s: Slots, config: Configs \cup {NoConfig}, base: CacheSpec, gen: Nat, fin: BOOLEAN]

(* What the listener writes to a resource is a configuration, because the  *)
(* events it writes it for carry one; the event it works on is still in    *)
(* the stream.                                                             *)
ConfigEvent == {e \in Event : e.kind = "set" => e.config \in Configs}
ListenerOK ==
    /\ stream \in Seq(ConfigEvent)
    /\ lst \in LstType
    /\ lst.pc \in {"create", "get", "patch"} => lst.config \in Configs
    /\ lst.pc \in {"create", "get", "patch", "mark", "clear"} => stream # <<>>

EnvOK ==
    /\ server \in Configs \cup {NoConfig}
    /\ cluster \in {"formed", "forming", "gone"}
    /\ schema \in {"ready", "pending", "foreign", "absent"}
    /\ changes \in 0..MaxChanges /\ faults \in 0..MaxFaults
    /\ hurry \in 0..MaxHurry /\ unseen \in {"no", "swept", "lost"}

QueueOK == queue \subseteq Slots

IInv == CrsOK /\ CtlOK /\ ListenerOK /\ EnvOK /\ QueueOK

(* The listener creates a resource where it found none. A user's may have  *)
(* been created meanwhile, which the webhook may not see; where changes    *)
(* wait for the last one to settle, and every resource gives spec.name,    *)
(* there is never a second.                                                *)
OneCR ==
    /\ \A s, t \in DOMAIN crs : s = t
    /\ lst.pc = "create" => DOMAIN crs = {}
Lone ==
    /\ lst.pc = "create" => DOMAIN crs \subseteq {UserCR}
    /\ SpecNamed /\ hurry = 0 => OneCR

-----------------------------------------------------------------------------
(***************************************************************************)
(* Types, and what the helpers do.                                         *)
(***************************************************************************)

\* The user's resource has a name.
LEMMA UserSlot == UserCR \in Slots
  BY DEF Slots

\* The spec of nothing is well typed.
LEMMA NoSpecType == NoSpec \in CacheSpec /\ NoSpec.template = NoConfig
  BY DEF NoSpec, CacheSpec, Strategies

\* The controller at rest, and the listener at rest, are well typed.
LEMMA IdleTypes == CtlIdle \in CtlType /\ CtlIdle.pc = "idle" /\ LstIdle \in LstType /\ LstIdle.pc = "idle"
  BY UserSlot, NoSpecType DEF CtlIdle, LstIdle, CtlType, LstType, CtlSteps, LstSteps

\* The controller at rest satisfies what is asked of it.
LEMMA IdleOK == ASSUME ctl' = CtlIdle PROVE CtlOK'
  BY IdleTypes DEF CtlOK

\* A new resource is well typed.
LEMMA NewCRType ==
    ASSUME NEW p \in CacheSpec, NEW b \in BOOLEAN
    PROVE  NewCR(p, b) \in CR
  BY DEF NewCR, CR, Readiness

\* The spec of a resource may change to any other.
LEMMA RespecType ==
    ASSUME NEW c \in CR, NEW p \in CacheSpec
    PROVE  Respec(c, p) \in CR
  <1>1. c.gen \in Nat /\ c.gen + 1 \in Nat
    BY DEF CR
  <1> DEFINE g == IF p = c.spec THEN c.gen ELSE c.gen + 1
  <1>2. g \in Nat
    BY <1>1
  <1>3. Respec(c, p) = [c EXCEPT !.spec = p, !.gen = g]
    BY DEF Respec
  <1> HIDE DEF g
  <1> QED BY <1>2, <1>3 DEF CR

\* What the listener writes is a spec, whatever the resource has by then.
LEMMA MergedType ==
    ASSUME NEW now \in CacheSpec, NEW base \in CacheSpec, NEW config \in Configs
    PROVE  Merged(now, base, EventSpec(base, config)) \in CacheSpec
  <1> DEFINE new == EventSpec(base, config)
  <1>1. new \in CacheSpec
    BY DEF EventSpec, CacheSpec
  <1>2. DOMAIN now = {"template", "named", "strategy", "refs"}
    BY DEF CacheSpec
  <1> HIDE DEF new
  <1>3. Merged(now, base, new) \in CacheSpec
    BY <1>1, <1>2 DEF Merged, CacheSpec
  <1> QED BY <1>3 DEF new

\* A write of a resource that exists keeps the resources well typed, and
\* creates none.
LEMMA PatchOK ==
    ASSUME CrsOK, NEW s \in DOMAIN crs, NEW c \in CR, Patch(s, c)
    PROVE  CrsOK'
  <1>1. CASE c.deleted # "no" /\ ~c.finalizer
    BY <1>1 DEF Patch, Stored, Without, CrsOK
  <1>2. CASE ~(c.deleted # "no" /\ ~c.finalizer)
    <2>1. crs' = With(s, c)
      BY <1>2 DEF Patch, Stored
    <2> QED BY <2>1 DEF With, CrsOK
  <1> QED BY <1>1, <1>2

\* A written resource is queued, if any is.
LEMMA WokenSlots ==
    ASSUME NEW s \in Slots
    PROVE  Woken(s) \subseteq Slots
  BY DEF Woken

\* The end of a reconciliation.
LEMMA EndWithOK ==
    ASSUME IInv, NEW s \in DOMAIN crs, NEW c \in CR, NEW requeue, EndWith(s, c, requeue)
    PROVE  CrsOK' /\ CtlOK' /\ QueueOK'
  <1>1. s \in Slots
    BY DEF IInv, CrsOK
  <1>2. Patch(s, c) /\ ctl' = CtlIdle
    BY DEF EndWith
  <1>3. CrsOK' /\ CtlOK'
    BY <1>2, PatchOK, IdleOK DEF IInv
  <1>4. QueueOK'
    BY <1>1, WokenSlots DEF EndWith, QueueOK, IInv
  <1> QED BY <1>3, <1>4

\* A failed call is stored in the resource, if it is still there.
LEMMA FailOK ==
    ASSUME IInv, NEW why \in Readiness, Fail(why)
    PROVE  CrsOK' /\ CtlOK' /\ QueueOK'
  <1>1. CASE ctl.s \in DOMAIN crs
    <2>1. NotReady(crs[ctl.s], why) \in CR
      BY <1>1 DEF IInv, CrsOK, CR, NotReady
    <2>2. EndWith(ctl.s, NotReady(crs[ctl.s], why), why # "ExistsFailed")
      BY <1>1 DEF Fail
    <2> HIDE DEF NotReady
    <2> QED BY <1>1, <2>1, <2>2, EndWithOK
  <1>2. CASE ctl.s \notin DOMAIN crs
    <2>1. ctl' = CtlIdle /\ UNCHANGED <<crs, queue>>
      BY <1>2 DEF Fail
    <2> QED BY <2>1, IdleOK DEF IInv, CrsOK, QueueOK
  <1> QED BY <1>1, <1>2

\* A reconciliation goes on without any write.
LEMMA GotoOK ==
    ASSUME IInv, NEW pc \in CtlSteps, Goto(pc),
           pc \in {"compare", "update", "annotate", "erase", "recreate"} => ctl.spec.template # NoConfig,
           pc \in {"annotate", "erase", "recreate"} => ctl.spec.strategy = "recreate",
           pc = "create" => ctl.spec.template # NoConfig \/ ctl.spec.named
    PROVE  CrsOK' /\ QueueOK' /\ CtlOK'
  <1>1. ctl' = [ctl EXCEPT !.pc = pc] /\ UNCHANGED <<crs, queue>> /\ ctl \in CtlType
    BY DEF Goto, IInv, CtlOK
  <1>2. ctl' \in CtlType /\ ctl'.pc = pc /\ ctl'.spec = ctl.spec
    BY <1>1 DEF CtlType
  <1>3. CtlOK'
    BY <1>2 DEF CtlOK
  <1> QED BY <1>1, <1>3 DEF IInv, CrsOK, QueueOK

\* What an event changes: the stream gets a configuration or a removal.
LEMMA EmitOK ==
    ASSUME ListenerOK, NEW kind \in {"set", "remove"}, NEW p \in Configs \cup {NoConfig},
           NEW by \in {"deletion", "recreation", "update", "client"},
           kind = "set" => p \in Configs, Emit(kind, p, by), UNCHANGED lst,
           unseen \in {"no", "swept", "lost"}
    PROVE  ListenerOK' /\ unseen' \in {"no", "swept", "lost"}
  <1>1. [kind |-> kind, config |-> p, by |-> by] \in ConfigEvent
    BY DEF ConfigEvent, Event
  <1>2. stream' \in Seq(ConfigEvent)
    BY <1>1 DEF Emit, ListenerOK
  <1>3. unseen' \in {"no", "swept", "lost"}
    BY DEF Emit
  <1>4. stream # <<>> => stream' # <<>>
    BY DEF Emit, ListenerOK
  <1> QED BY <1>2, <1>3, <1>4 DEF ListenerOK

\* A reconciliation that leaves the server alone.
LEMMA QuietOK ==
    ASSUME IInv, Quiet
    PROVE  ListenerOK' /\ EnvOK'
  BY DEF IInv, Quiet, env, ListenerOK, EnvOK

\* A call that changes the server.
LEMMA CallOK ==
    ASSUME IInv, UNCHANGED <<lst, faults>>, UNCHANGED env, server' \in Configs \cup {NoConfig},
           \/ UNCHANGED <<stream, unseen>>
           \/ \E kind \in {"set", "remove"}, p \in Configs \cup {NoConfig},
                 by \in {"deletion", "recreation", "update", "client"} :
                    Emit(kind, p, by) /\ (kind = "set" => p \in Configs)
    PROVE  ListenerOK' /\ EnvOK'
  <1>1. ListenerOK' /\ unseen' \in {"no", "swept", "lost"}
    <2>1. CASE UNCHANGED <<stream, unseen>>
      BY <2>1 DEF IInv, ListenerOK, EnvOK
    <2>2. CASE \E kind \in {"set", "remove"}, p \in Configs \cup {NoConfig},
                 by \in {"deletion", "recreation", "update", "client"} :
                    Emit(kind, p, by) /\ (kind = "set" => p \in Configs)
      <3>1. PICK kind \in {"set", "remove"}, p \in Configs \cup {NoConfig},
                 by \in {"deletion", "recreation", "update", "client"} :
                    Emit(kind, p, by) /\ (kind = "set" => p \in Configs)
        BY <2>2
      <3> QED BY <3>1, EmitOK DEF IInv, EnvOK
    <2> QED BY <2>1, <2>2
  <1> QED BY <1>1 DEF IInv, EnvOK, env

\* The event at the head of the stream.
LEMMA HeadEvent ==
    ASSUME ListenerOK, stream # <<>>
    PROVE  Head(stream) \in ConfigEvent /\ Tail(stream) \in Seq(ConfigEvent)
  BY DEF ListenerOK

\* The end of the handling of an event.
LEMMA HandledOK ==
    ASSUME ListenerOK, stream # <<>>, Handled
    PROVE  ListenerOK'
  BY HeadEvent, IdleTypes DEF Handled, ListenerOK

-----------------------------------------------------------------------------
(***************************************************************************)
(* The steps of a reconciliation.                                          *)
(***************************************************************************)

\* The steps of Reconcile that end with a write of the resource.
LEMMA EndsInv ==
    ASSUME IInv, Quiet, NEW s \in DOMAIN crs, NEW c \in CR, NEW requeue, EndWith(s, c, requeue)
    PROVE  IInv'
  BY QuietOK, EndWithOK DEF IInv

\* Nothing is found.
LEMMA NotFoundInv == ASSUME IInv, NEW s \in Slots, NotFound(s) PROVE IInv'
  <1>1. Quiet /\ UNCHANGED <<crs, ctl>> /\ queue' \subseteq queue
    BY DEF NotFound
  <1>2. CrsOK' /\ CtlOK' /\ QueueOK'
    BY <1>1 DEF IInv, CrsOK, CtlOK, QueueOK
  <1> QED BY <1>1, <1>2, QuietOK DEF IInv

\* The finalizer of a marked resource goes.
LEMMA RemoveMarkedInv == ASSUME IInv, NEW s \in Slots, RemoveMarked(s) PROVE IInv'
  <1>1. s \in DOMAIN crs /\ crs[s] \in CR /\ Quiet
    BY DEF RemoveMarked, IInv, CrsOK
  <1>2. [crs[s] EXCEPT !.finalizer = FALSE] \in CR
    BY <1>1 DEF CR
  <1>3. Patch(s, [crs[s] EXCEPT !.finalizer = FALSE])
    BY DEF RemoveMarked
  <1>4. CrsOK'
    BY <1>1, <1>2, <1>3, PatchOK DEF IInv
  <1>5. QueueOK'
    BY WokenSlots DEF RemoveMarked, IInv, QueueOK
  <1>6. ctl' \in CtlType /\ ctl'.pc = "deleteCR"
    BY IdleTypes DEF RemoveMarked, CtlType, CtlSteps
  <1>7. CtlOK'
    BY <1>6 DEF CtlOK
  <1> QED BY <1>1, <1>4, <1>5, <1>7, QuietOK DEF IInv

\* The steps that end a reconciliation with a write of its resource, if it
\* is still there.
LEMMA LastWriteInv == ASSUME IInv, DeleteMarked \/ RemoveFinalizer \/ Finish PROVE IInv'
  <1>1. Quiet
    BY DEF DeleteMarked, RemoveFinalizer, Finish
  <1>2. CASE ctl.s \in DOMAIN crs
    <2>1. crs[ctl.s] \in CR
      BY <1>2 DEF IInv, CrsOK
    <2>2. \E c \in CR : EndWith(ctl.s, c, FALSE)
      <3>1. CASE DeleteMarked
        <4>1. [crs[ctl.s] EXCEPT !.deleted = IF @ = "no" THEN "operator" ELSE @] \in CR
          BY <2>1 DEF CR
        <4> QED BY <1>2, <3>1, <4>1 DEF DeleteMarked
      <3>2. CASE RemoveFinalizer
        <4>1. [crs[ctl.s] EXCEPT !.finalizer = FALSE] \in CR
          BY <2>1 DEF CR
        <4> QED BY <1>2, <3>2, <4>1 DEF RemoveFinalizer
      <3>3. CASE Finish
        <4>1. [crs[ctl.s] EXCEPT !.ready = "True", !.finalizer = TRUE] \in CR
          BY <2>1 DEF CR, Readiness
        <4> QED BY <1>2, <3>3, <4>1 DEF Finish
      <3> QED BY <3>1, <3>2, <3>3
    <2> QED BY <1>1, <1>2, <2>2, EndsInv
  <1>3. CASE ctl.s \notin DOMAIN crs
    <2>1. ctl' = CtlIdle /\ UNCHANGED <<crs, queue>>
      BY <1>3 DEF DeleteMarked, RemoveFinalizer, Finish
    <2> QED BY <1>1, <2>1, IdleOK, QuietOK DEF IInv, CrsOK, QueueOK
  <1> QED BY <1>2, <1>3

\* The ways in which a reconciliation ends with its first write.
LEMMA FirstWriteInv ==
    ASSUME IInv, NEW s \in Slots,
           Pause(s) \/ AddStrategy(s) \/ ClusterMissing(s) \/ ClusterNotFormed(s) \/ SchemaNotReady(s)
    PROVE  IInv'
  <1>1. s \in DOMAIN crs /\ crs[s] \in CR /\ Quiet
    BY DEF Pause, AddStrategy, ClusterMissing, ClusterNotFormed, SchemaNotReady, Formed, Begun, IInv, CrsOK
  <1>2. \E c \in CR : \E requeue : EndWith(s, c, requeue)
    <2>1. CASE Pause(s)
      <3>1. [crs[s] EXCEPT !.pausedCond = crs[s].paused] \in CR
        BY <1>1 DEF CR
      <3> QED BY <2>1, <3>1 DEF Pause
    <2>2. CASE AddStrategy(s)
      <3>1. [crs[s].spec EXCEPT !.strategy = "retain"] \in CacheSpec
        BY <1>1 DEF CR, CacheSpec, Strategies
      <3>2. Respec(crs[s], [crs[s].spec EXCEPT !.strategy = "retain"]) \in CR
        BY <1>1, <3>1, RespecType
      <3> QED BY <2>2, <3>2 DEF AddStrategy
    <2>3. CASE ClusterMissing(s)
      <3> DEFINE c == IF crs[s].deleted = "no" THEN NotReady(crs[s], "NoCluster")
                      ELSE [crs[s] EXCEPT !.finalizer = FALSE]
      <3>1. c \in CR
        BY <1>1 DEF CR, Readiness, NotReady
      <3>2. EndWith(s, c, FALSE)
        BY <2>3 DEF ClusterMissing
      <3> HIDE DEF c
      <3> QED BY <3>1, <3>2
    <2>4. CASE ClusterNotFormed(s)
      BY <1>1, <2>4 DEF ClusterNotFormed
    <2>5. CASE SchemaNotReady(s)
      <3>1. NotReady(crs[s], "NoSchema") \in CR
        BY <1>1 DEF CR, Readiness, NotReady
      <3> QED BY <2>5, <3>1 DEF SchemaNotReady
    <2> QED BY <2>1, <2>2, <2>3, <2>4, <2>5
  <1> QED BY <1>1, <1>2, EndsInv

\* The resource was deleted: the cache goes from the server.
LEMMA DeleteOnServerInv == ASSUME IInv, NEW s \in Slots, DeleteOnServer(s) PROVE IInv'
  <1>1. /\ s \in DOMAIN crs /\ crs[s] \in CR
        /\ ctl' = [pc |-> "unfinalize", s |-> s, spec |-> crs[s].spec]
        /\ queue' = queue \ {s} /\ UNCHANGED crs
        /\ server' = NoConfig /\ UNCHANGED <<lst, faults>> /\ UNCHANGED env
    BY DEF DeleteOnServer, Proceed, Formed, Begun, IInv, CrsOK
  <1>2. UNCHANGED <<stream, unseen>> \/ Emit("remove", NoConfig, "deletion")
    BY DEF DeleteOnServer
  <1>3. ListenerOK' /\ EnvOK'
    BY <1>1, <1>2, CallOK
  <1>4. crs[s].spec \in CacheSpec /\ "unfinalize" \in CtlSteps
    BY <1>1 DEF CR, CtlSteps
  <1>5. CtlOK'
    BY <1>1, <1>4 DEF CtlOK, CtlType
  <1> QED BY <1>1, <1>3, <1>5 DEF IInv, CrsOK, QueueOK

\* The calls to the server begin.
LEMMA StartServerCallsInv == ASSUME IInv, NEW s \in Slots, StartServerCalls(s) PROVE IInv'
  <1>1. s \in DOMAIN crs /\ crs[s] \in CR /\ Quiet /\ queue' = queue \ {s} /\ UNCHANGED crs
    BY DEF StartServerCalls, Proceed, Formed, Begun, IInv, CrsOK
  <1>2. PICK pc \in {"exists", "finish"} : ctl' = [pc |-> pc, s |-> s, spec |-> crs[s].spec]
    BY DEF StartServerCalls, Proceed
  <1>3. crs[s].spec \in CacheSpec /\ pc \in CtlSteps
    BY <1>1 DEF CR, CtlSteps
  <1>4. CtlOK'
    BY <1>2, <1>3 DEF CtlOK, CtlType
  <1> QED BY <1>1, <1>4, QuietOK DEF IInv, CrsOK, QueueOK

\* Exists and Compare find out what is to be done.
LEMMA ReadServerInv == ASSUME IInv, Exists \/ Compare PROVE IInv'
  <1>1. Quiet
    BY DEF Exists, Compare
  <1>2. "Refused" \in Readiness /\ {"create", "finish", "compare", "update"} \subseteq CtlSteps
    BY DEF Readiness, CtlSteps
  <1>3. CrsOK' /\ QueueOK' /\ CtlOK'
    <2>1. CASE Fail("Refused")
      BY <1>2, <2>1, FailOK
    <2>2. CASE Goto("finish")
      BY <1>2, <2>2, GotoOK
    <2>3. CASE Goto("create") /\ (ctl.spec.template # NoConfig \/ ctl.spec.named)
      BY <1>2, <2>3, GotoOK
    <2>4. CASE ctl.spec.template # NoConfig /\ (Goto("compare") \/ Goto("update"))
      BY <1>2, <2>4, GotoOK
    <2>5. CASE Exists
      BY <2>1, <2>2, <2>3, <2>4, <2>5 DEF Exists
    <2>6. CASE Compare
      <3>1. ctl.spec.template # NoConfig
        BY <2>6 DEF Compare, IInv, CtlOK
      <3> QED BY <2>1, <2>2, <2>4, <2>6, <3>1 DEF Compare
    <2> QED BY <2>5, <2>6
  <1> QED BY <1>1, <1>3, QuietOK DEF IInv

\* The configuration is changed, or the cache is to be recreated.
LEMMA UpdateConfigInv == ASSUME IInv, UpdateConfig PROVE IInv'
  <1>1. ctl.spec.template \in Configs /\ ctl.pc = "update" /\ UNCHANGED <<lst, faults>> /\ UNCHANGED env
    BY DEF UpdateConfig, IInv, CtlOK, CtlType, CacheSpec
  <1>2. ctl.spec.template # NoConfig
    BY <1>1, ConfigAssumption
  <1>3. "Refused" \in Readiness /\ "finish" \in CtlSteps /\ "annotate" \in CtlSteps
    BY DEF Readiness, CtlSteps
  <1>4. CASE server # NoConfig /\ Family[server] = Family[ctl.spec.template]
    <2>1. Goto("finish") /\ server' = ctl.spec.template /\ Emit("set", ctl.spec.template, "update")
      BY <1>4 DEF UpdateConfig
    <2>2. CrsOK' /\ QueueOK' /\ CtlOK'
      BY <1>3, <2>1, GotoOK
    <2>3. ListenerOK' /\ EnvOK'
      BY <1>1, <2>1, CallOK
    <2> QED BY <2>2, <2>3 DEF IInv
  <1>5. CASE ~(server # NoConfig /\ Family[server] = Family[ctl.spec.template])
    <2>1. UNCHANGED <<server, stream, unseen>>
      BY <1>5 DEF UpdateConfig
    <2>2. ListenerOK' /\ EnvOK'
      BY <1>1, <2>1, CallOK DEF IInv, EnvOK
    <2>3. CrsOK' /\ QueueOK' /\ CtlOK'
      <3>1. CASE ctl.spec.strategy = "recreate"
        <4>1. Goto("annotate")
          BY <1>5, <3>1 DEF UpdateConfig
        <4> QED BY <1>2, <1>3, <3>1, <4>1, GotoOK
      <3>2. CASE ctl.spec.strategy # "recreate"
        <4>1. Fail("Refused")
          BY <1>5, <3>2 DEF UpdateConfig
        <4> QED BY <1>3, <4>1, FailOK
      <3> QED BY <3>1, <3>2
    <2> QED BY <2>2, <2>3 DEF IInv
  <1> QED BY <1>4, <1>5

\* The listener is told of the removal to come.
LEMMA AnnotateInv == ASSUME IInv, Annotate PROVE IInv'
  <1>1. Quiet /\ ctl.pc = "annotate"
    BY DEF Annotate
  <1>2. ctl \in CtlType /\ ctl.spec.template # NoConfig /\ ctl.spec.strategy = "recreate"
    BY <1>1 DEF IInv, CtlOK
  <1>3. CASE ctl.s \in DOMAIN crs
    <2> DEFINE s == ctl.s
               c == [crs[s] EXCEPT !.controllerDelete = TRUE]
    <2>1. crs[s] \in CR /\ s \in Slots
      BY <1>3 DEF IInv, CrsOK
    <2>2. c \in CR
      BY <2>1 DEF CR
    <2>3. Patch(s, c) /\ queue' = queue \cup Woken(s) /\ ctl' = [ctl EXCEPT !.pc = "erase"]
      BY <1>3 DEF Annotate
    <2> HIDE DEF c
    <2>4. CrsOK' /\ QueueOK'
      BY <1>3, <2>1, <2>2, <2>3, PatchOK, WokenSlots DEF IInv, QueueOK
    <2>5. ctl' \in CtlType /\ ctl'.pc = "erase" /\ ctl'.spec = ctl.spec
      BY <1>2, <2>3 DEF CtlType, CtlSteps
    <2>6. CtlOK'
      BY <1>2, <2>5 DEF CtlOK
    <2> QED BY <1>1, <2>4, <2>6, QuietOK DEF IInv
  <1>4. CASE ctl.s \notin DOMAIN crs
    <2>1. Fail("Refused") /\ "Refused" \in Readiness
      BY <1>4 DEF Annotate, Readiness
    <2> QED BY <1>1, <2>1, FailOK, QuietOK DEF IInv
  <1> QED BY <1>3, <1>4

\* The cache is removed to be recreated.
LEMMA EraseInv == ASSUME IInv, Erase PROVE IInv'
  <1>1. /\ ctl.pc = "erase" /\ Goto("recreate") /\ server' = NoConfig
        /\ UNCHANGED <<lst, faults>> /\ UNCHANGED env
    BY DEF Erase
  <1>2. ctl.spec.template # NoConfig /\ ctl.spec.strategy = "recreate" /\ "recreate" \in CtlSteps
    BY <1>1 DEF IInv, CtlOK, CtlSteps
  <1>3. UNCHANGED <<stream, unseen>> \/ Emit("remove", NoConfig, "recreation")
    BY DEF Erase
  <1>4. ListenerOK' /\ EnvOK'
    BY <1>1, <1>3, CallOK
  <1>5. CrsOK' /\ QueueOK' /\ CtlOK'
    BY <1>1, <1>2, GotoOK
  <1> QED BY <1>4, <1>5 DEF IInv

\* The configuration of a cache to be created.
CreatedConfig == IF ctl.pc = "create" /\ ctl.spec.named THEN TemplateConfig ELSE ctl.spec.template

\* There is one.
LEMMA CreatedConfigType ==
    ASSUME IInv, ctl.pc \in {"create", "recreate"}
    PROVE  CreatedConfig \in Configs
  <1>1. ctl.spec.template \in Configs \cup {NoConfig}
    BY DEF IInv, CtlOK, CtlType, CacheSpec
  <1>2. ~(ctl.pc = "create" /\ ctl.spec.named) => ctl.spec.template # NoConfig
    BY DEF IInv, CtlOK
  <1> QED BY <1>1, <1>2, ConfigAssumption DEF CreatedConfig

\* The cache is created.
LEMMA CreateOnServerInv == ASSUME IInv, CreateOnServer PROVE IInv'
  <1>1. ctl.pc \in {"create", "recreate"} /\ UNCHANGED <<lst, faults>> /\ UNCHANGED env
    BY DEF CreateOnServer
  <1>2. CreatedConfig \in Configs
    BY <1>1, CreatedConfigType
  <1>3. "Refused" \in Readiness /\ "finish" \in CtlSteps
    BY DEF Readiness, CtlSteps
  <1>4. CASE server = NoConfig
    <2>1. Goto("finish") /\ server' = CreatedConfig /\ Emit("set", CreatedConfig, "update")
      BY <1>4 DEF CreateOnServer, CreatedConfig
    <2>2. ListenerOK' /\ EnvOK'
      BY <1>1, <1>2, <2>1, CallOK
    <2>3. CrsOK' /\ QueueOK' /\ CtlOK'
      BY <1>3, <2>1, GotoOK
    <2> QED BY <2>2, <2>3 DEF IInv
  <1>5. CASE server # NoConfig
    <2>1. Fail("Refused") /\ UNCHANGED <<server, stream, unseen>>
      BY <1>5 DEF CreateOnServer
    <2>2. ListenerOK' /\ EnvOK'
      BY <1>1, <2>1, CallOK DEF IInv, EnvOK
    <2> QED BY <1>3, <2>1, <2>2, FailOK DEF IInv
  <1> QED BY <1>4, <1>5

\* A step of the controller.
LEMMA ReconcileInv == ASSUME IInv, Reconcile PROVE IInv'
  BY NotFoundInv, RemoveMarkedInv, FirstWriteInv, DeleteOnServerInv, StartServerCallsInv, LastWriteInv,
     ReadServerInv, UpdateConfigInv, AnnotateInv, EraseInv, CreateOnServerInv
  DEF Reconcile

-----------------------------------------------------------------------------
(***************************************************************************)
(* The steps of the listener.                                              *)
(***************************************************************************)

\* A step of the listener that writes no resource.
LEMMA ReadsInv ==
    ASSUME IInv, Listener, UNCHANGED <<crs, queue>>, ListenerOK'
    PROVE  IInv'
  BY DEF IInv, Listener, env, EnvOK, CtlOK, CrsOK, QueueOK

\* A step of the listener that writes one resource.
LEMMA WritesInv ==
    ASSUME IInv, Listener, NEW s \in DOMAIN crs, NEW c \in CR, Patch(s, c), queue' = queue \cup Woken(s),
           ListenerOK'
    PROVE  IInv'
  <1>1. EnvOK' /\ CtlOK'
    BY DEF IInv, Listener, env, EnvOK, CtlOK
  <1>2. s \in Slots
    BY DEF IInv, CrsOK
  <1>3. CrsOK' /\ QueueOK'
    BY <1>2, PatchOK, WokenSlots DEF IInv, QueueOK
  <1> QED BY <1>1, <1>3 DEF IInv

\* The listener reads the names on the server and subscribes.
LEMMA ReadNamesInv == ASSUME IInv, ReadNames \/ Subscribe PROVE IInv'
  <1>1. Listener /\ UNCHANGED <<crs, queue>>
    BY DEF ReadNames, Subscribe
  <1>2. server \in Configs \cup {NoConfig} /\ lst \in LstType /\ stream \in Seq(ConfigEvent)
    BY DEF IInv, EnvOK, ListenerOK
  <1>3. CASE ReadNames
    <2>1. lst' = [lst EXCEPT !.pc = "sweepList", !.config = server] /\ UNCHANGED stream
      BY <1>3 DEF ReadNames
    <2>2. lst' \in LstType /\ lst'.pc = "sweepList"
      BY <1>2, <2>1 DEF LstType, LstSteps
    <2>3. ListenerOK'
      BY <1>2, <2>1, <2>2 DEF ListenerOK
    <2> QED BY <1>1, <2>3, ReadsInv
  <1>4. CASE Subscribe
    <2> DEFINE e == [kind |-> "set", config |-> server, by |-> "client"]
    <2>1. lst' = LstIdle /\ stream' = IF server = NoConfig THEN <<>> ELSE <<e>>
      BY <1>4 DEF Subscribe
    <2>2. server # NoConfig => e \in ConfigEvent
      BY <1>2 DEF ConfigEvent, Event
    <2> HIDE DEF e
    <2>3. stream' \in Seq(ConfigEvent)
      BY <2>1, <2>2
    <2>4. ListenerOK'
      BY <2>1, <2>3, IdleTypes DEF ListenerOK
    <2> QED BY <1>1, <2>4, ReadsInv
  <1> QED BY <1>3, <1>4

\* The sweep marks resources and does nothing else to them.
LEMMA RemoveStaleResourcesInv == ASSUME IInv, RemoveStaleResources PROVE IInv'
  <1> DEFINE c(s) == [crs[s] EXCEPT !.marked = @ \/ Stale(s)]
  <1>1. /\ Listener /\ UNCHANGED stream
        /\ crs' = [s \in DOMAIN crs |-> c(s)]
        /\ queue' = queue \cup {s \in DOMAIN crs : crs'[s] # crs[s]}
        /\ lst' = [LstIdle EXCEPT !.pc = "subscribe"]
    BY DEF RemoveStaleResources
  <1>2. ASSUME NEW s \in DOMAIN crs PROVE c(s) \in CR
    <2>1. Stale(s) \in BOOLEAN
      BY Zenon DEF Stale
    <2> QED BY <2>1 DEF IInv, CrsOK, CR
  <1>3. EnvOK' /\ CtlOK'
    BY <1>1 DEF IInv, Listener, env, EnvOK, CtlOK
  <1> HIDE DEF c
  <1>4. CrsOK' /\ QueueOK'
    BY <1>1, <1>2 DEF IInv, CrsOK, QueueOK
  <1>5. lst' \in LstType /\ lst'.pc = "subscribe"
    BY <1>1, IdleTypes DEF LstType, LstSteps
  <1>6. ListenerOK'
    BY <1>1, <1>5 DEF IInv, ListenerOK
  <1> QED BY <1>3, <1>4, <1>6 DEF IInv

\* The one resource an event is about.
LEMMA TheExistingSlot ==
    ASSUME CrsOK, Cardinality(Existing) = 1
    PROVE  TheExisting \in DOMAIN crs /\ TheExisting \in Slots
  <1>1. Existing # {}
    BY FS_EmptySet
  <1>2. TheExisting \in Existing
    BY <1>1 DEF TheExisting
  <1> QED BY <1>2 DEF Existing, CrsOK

\* The listener ignores an event.
LEMMA IgnoresInv == ASSUME IInv, IgnoreSet \/ IgnoreRemove PROVE IInv'
  <1>1. Listener /\ UNCHANGED <<crs, queue>> /\ Handled /\ stream # <<>>
    BY DEF IgnoreSet, IgnoreRemove, Received
  <1> QED BY <1>1, HandledOK, ReadsInv DEF IInv

\* The listener finds the resource of an event.
LEMMA FindForSetInv == ASSUME IInv, FindForSet PROVE IInv'
  <1>1. Listener /\ UNCHANGED <<crs, queue, stream>> /\ stream # <<>> /\ Head(stream).kind = "set"
    BY DEF FindForSet, Received
  <1>2. Head(stream) \in ConfigEvent /\ stream \in Seq(ConfigEvent)
    BY <1>1, HeadEvent DEF IInv, ListenerOK
  <1>3. Head(stream).config \in Configs
    BY <1>1, <1>2 DEF ConfigEvent
  <1>4. PICK p \in Configs :
           \/ lst' = [LstIdle EXCEPT !.pc = "create", !.config = p]
           \/ \E s \in Slots : lst' = [LstIdle EXCEPT !.pc = "get", !.s = s, !.config = p]
    <2>1. Cardinality(Existing) = 1 => TheExisting \in Slots
      BY TheExistingSlot DEF IInv
    <2> QED BY <1>3, <2>1 DEF FindForSet
  <1>5. lst' \in LstType /\ lst'.config = p
    BY <1>4, IdleTypes DEF LstType, LstSteps
  <1>6. ListenerOK'
    BY <1>1, <1>2, <1>5 DEF ListenerOK
  <1> QED BY <1>1, <1>6, ReadsInv

\* The same for a removal.
LEMMA FindForRemoveInv == ASSUME IInv, FindForRemove PROVE IInv'
  <1>1. Listener /\ UNCHANGED <<crs, queue, stream>> /\ stream # <<>>
    BY DEF FindForRemove, Received
  <1>2. TheExisting \in Slots
    BY TheExistingSlot DEF FindForRemove, IInv
  <1>3. PICK pc \in {"clear", "mark"}, s \in Slots : lst' = [LstIdle EXCEPT !.pc = pc, !.s = s]
    BY <1>2 DEF FindForRemove
  <1>4. lst' \in LstType /\ lst'.pc = pc
    BY <1>3, IdleTypes DEF LstType, LstSteps
  <1>5. ListenerOK'
    BY <1>1, <1>4 DEF IInv, ListenerOK
  <1> QED BY <1>1, <1>5, ReadsInv

\* The name generateName gives is one of the generated names.
LEMMA GeneratedSlot ==
    ASSUME DOMAIN crs \subseteq {UserCR}
    PROVE  /\ GeneratedName \in GeneratedCRs /\ GeneratedName \in Slots
           /\ GeneratedName \notin DOMAIN crs /\ GeneratedName # ctl.s
  <1>1. PICK t \in GeneratedCRs : t # ctl.s
    BY NamesAssumption
  <1>2. t \notin DOMAIN crs \cup {ctl.s}
    BY <1>1, ConfigAssumption
  <1>3. GeneratedName \in GeneratedCRs /\ GeneratedName \notin DOMAIN crs \cup {ctl.s}
    BY <1>2 DEF GeneratedName
  <1> QED BY <1>3 DEF Slots

\* A resource is created.
LEMMA CreatedOK ==
    ASSUME IInv, NEW s \in Slots, NEW c \in CR, crs' = With(s, c), queue' = queue \cup {s}
    PROVE  CrsOK' /\ QueueOK'
  BY DEF With, IInv, CrsOK, QueueOK

\* What the listener creates, unless the webhook refuses it.
LEMMA CreateCRShape ==
    ASSUME CreateCR, ~UNCHANGED <<crs, queue>>
    PROVE  /\ crs' = With(GeneratedName,
                         NewCR([NoSpec EXCEPT !.template = lst.config, !.strategy = "retain"], TRUE))
           /\ queue' = queue \cup {GeneratedName}
  BY DEF CreateCR

\* The listener creates a resource.
LEMMA CreateCRInv == ASSUME IInv, Lone, CreateCR PROVE IInv'
  <1>1. Listener /\ lst.pc = "create" /\ Handled
    BY DEF CreateCR
  <1>2. lst.config \in Configs /\ stream # <<>>
    BY <1>1 DEF IInv, ListenerOK
  <1>3. ListenerOK'
    BY <1>1, <1>2, HandledOK DEF IInv
  <1>4. CASE ~UNCHANGED <<crs, queue>>
    <2> DEFINE s == GeneratedName
               sp == [NoSpec EXCEPT !.template = lst.config, !.strategy = "retain"]
               c == NewCR(sp, TRUE)
    <2>1. crs' = With(s, c) /\ queue' = queue \cup {s}
      BY <1>4, CreateCRShape
    <2>2. sp \in CacheSpec
      BY <1>2, NoSpecType DEF CacheSpec, Strategies
    <2>3. s \in Slots
      BY <1>1, GeneratedSlot DEF Lone
    <2> HIDE DEF sp
    <2>4. c \in CR
      BY <2>2, NewCRType
    <2> HIDE DEF s, c
    <2>5. CrsOK' /\ QueueOK'
      BY <2>1, <2>3, <2>4, CreatedOK
    <2>6. EnvOK' /\ CtlOK'
      BY <1>1 DEF IInv, Listener, env, EnvOK, CtlOK
    <2> QED BY <1>3, <2>5, <2>6 DEF IInv
  <1>5. CASE UNCHANGED <<crs, queue>>
    BY <1>1, <1>3, <1>5, ReadsInv
  <1> QED BY <1>4, <1>5

\* CreateOrPatch reads the resource.
LEMMA GetCRInv == ASSUME IInv, GetCR PROVE IInv'
  <1>1. Listener /\ lst.pc = "get" /\ UNCHANGED <<crs, queue>>
    BY DEF GetCR
  <1>2. lst.config \in Configs /\ stream # <<>> /\ lst \in LstType
    BY <1>1 DEF IInv, ListenerOK
  <1>3. CASE lst.s \in DOMAIN crs
    <2> DEFINE b == crs[lst.s].spec
               g == crs[lst.s].gen
               f == crs[lst.s].finalizer
    <2>1. b \in CacheSpec /\ g \in Nat /\ f \in BOOLEAN
      BY <1>3 DEF IInv, CrsOK, CR
    <2>2. lst' = [lst EXCEPT !.pc = "patch", !.base = b, !.gen = g, !.fin = f] /\ UNCHANGED stream
      BY <1>3 DEF GetCR
    <2> HIDE DEF b, g, f
    <2>3. lst' \in LstType /\ lst'.config = lst.config
      BY <1>2, <2>1, <2>2 DEF LstType, LstSteps
    <2>4. ListenerOK'
      BY <1>2, <2>2, <2>3 DEF IInv, ListenerOK
    <2> QED BY <1>1, <2>4, ReadsInv
  <1>4. CASE lst.s \notin DOMAIN crs
    BY <1>1, <1>2, <1>4, HandledOK, ReadsInv DEF GetCR, IInv
  <1> QED BY <1>3, <1>4

\* The patch of the listener changes the spec and sets the finalizer at most.
LEMMA PatchCRInv == ASSUME IInv, PatchCR PROVE IInv'
  <1>1. Listener /\ lst.pc = "patch" /\ Handled
    BY DEF PatchCR
  <1>2. /\ lst.config \in Configs /\ stream # <<>> /\ lst.gen \in Nat /\ lst.fin \in BOOLEAN
        /\ lst.base \in CacheSpec
    BY <1>1 DEF IInv, ListenerOK, LstType
  <1>3. ListenerOK'
    BY <1>1, <1>2, HandledOK DEF IInv
  <1>4. CASE lst.s \in DOMAIN crs
    <2> DEFINE s == lst.s
               spec == Merged(crs[s].spec, lst.base, EventSpec(lst.base, lst.config))
               r == Respec(crs[s], spec)
               c == [r EXCEPT !.listenerGen = lst.gen + 1, !.finalizer = @ \/ ~lst.fin]
    <2>1. crs[s] \in CR
      BY <1>4 DEF IInv, CrsOK
    <2>2. crs[s].spec \in CacheSpec
      BY <2>1 DEF CR
    <2>3. spec \in CacheSpec
      BY <1>2, <2>2, MergedType
    <2>4. Patch(s, c) /\ queue' = queue \cup Woken(s)
      BY <1>4 DEF PatchCR
    <2> HIDE DEF spec
    <2>5. r \in CR
      BY <2>1, <2>3, RespecType
    <2>6. lst.gen + 1 \in Nat
      BY <1>2
    <2> HIDE DEF r
    <2>7. c \in CR
      BY <1>2, <2>5, <2>6 DEF CR
    <2> HIDE DEF c
    <2> QED BY <1>1, <1>3, <1>4, <2>4, <2>7, WritesInv
  <1>5. CASE lst.s \notin DOMAIN crs
    <2>1. UNCHANGED <<crs, queue>>
      BY <1>5 DEF PatchCR
    <2> QED BY <1>1, <1>3, <2>1, ReadsInv
  <1> QED BY <1>4, <1>5

\* A resource is marked, or kept because its removal was announced.
LEMMA RemoveEventInv == ASSUME IInv, RetainCR \/ MarkCR PROVE IInv'
  <1>1. Listener /\ lst.pc \in {"clear", "mark"} /\ Handled
    BY DEF RetainCR, MarkCR
  <1>2. stream # <<>>
    BY <1>1 DEF IInv, ListenerOK
  <1>3. ListenerOK'
    BY <1>1, <1>2, HandledOK DEF IInv
  <1>4. CASE UNCHANGED <<crs, queue>>
    BY <1>1, <1>3, <1>4, ReadsInv
  <1>5. CASE /\ lst.s \in DOMAIN crs /\ queue' = queue \cup Woken(lst.s)
             /\ \/ Patch(lst.s, [crs[lst.s] EXCEPT !.controllerDelete = FALSE])
                \/ Patch(lst.s, [crs[lst.s] EXCEPT !.marked = TRUE])
    <2>1. crs[lst.s] \in CR
      BY <1>5 DEF IInv, CrsOK
    <2>2. /\ [crs[lst.s] EXCEPT !.controllerDelete = FALSE] \in CR
          /\ [crs[lst.s] EXCEPT !.marked = TRUE] \in CR
      BY <2>1 DEF CR
    <2> QED BY <1>1, <1>3, <1>5, <2>2, WritesInv
  <1> QED BY <1>4, <1>5 DEF RetainCR, MarkCR

\* A step of the listener.
LEMMA ListenInv == ASSUME IInv, Lone, Listen PROVE IInv'
  BY ReadNamesInv, RemoveStaleResourcesInv, IgnoresInv, FindForSetInv, CreateCRInv, GetCRInv, PatchCRInv,
     FindForRemoveInv, RemoveEventInv
  DEF Listen

-----------------------------------------------------------------------------
(***************************************************************************)
(* Users, clients and the cluster.                                         *)
(***************************************************************************)

\* The counters of changes.
LEMMA ChangeCounts ==
    ASSUME EnvOK, NEW kind, NEW calm, ChangeIf(kind, calm)
    PROVE  changes' \in 0..MaxChanges /\ hurry' \in 0..MaxHurry /\ UNCHANGED <<ctl, faults>>
  <1>1. changes \in 0..MaxChanges /\ hurry \in 0..MaxHurry /\ MaxChanges \in Nat /\ MaxHurry \in Nat
    BY ConfigAssumption DEF EnvOK
  <1>2. changes < MaxChanges /\ changes' = changes + 1 /\ UNCHANGED <<ctl, faults>>
    BY DEF ChangeIf
  <1>3. hurry' = hurry \/ (hurry < MaxHurry /\ hurry' = hurry + 1)
    BY DEF ChangeIf
  <1> QED BY <1>1, <1>2, <1>3

\* What a user's change of the resources leaves.
LEMMA ByUserOK ==
    ASSUME IInv, NEW kind, NEW calm, ChangeIf(kind, calm), ByUser
    PROVE  EnvOK' /\ ListenerOK' /\ CtlOK'
  <1>1. changes' \in 0..MaxChanges /\ hurry' \in 0..MaxHurry /\ UNCHANGED <<ctl, faults>>
    BY ChangeCounts DEF IInv
  <1>2. UNCHANGED <<server, cluster, schema, stream, lst, unseen>>
    BY DEF ByUser
  <1> QED BY <1>1, <1>2 DEF IInv, EnvOK, ListenerOK, CtlOK

\* A user creates the resource.
LEMMA UserCreatesInv == ASSUME IInv, UserCreates PROVE IInv'
  <1>1. /\ ChangeIf("create", Settled) /\ ByUser
        /\ queue' = queue \cup {UserCR}
    BY DEF UserCreates, Change
  <1>2. PICK sp \in UserSpecs : crs' = With(UserCR, NewCR(sp, FALSE))
    BY DEF UserCreates
  <1>3. NewCR(sp, FALSE) \in CR
    BY SpecsAssumption, NewCRType
  <1>4. CrsOK' /\ QueueOK'
    BY <1>1, <1>2, <1>3, UserSlot, CreatedOK
  <1> QED BY <1>1, <1>4, ByUserOK DEF IInv

\* A user edits, deletes or pauses a resource.
LEMMA UserWritesInv ==
    ASSUME IInv, NEW s \in Slots, UserEdits(s) \/ UserDeletes(s) \/ UserPauses(s)
    PROVE  IInv'
  <1>1. s \in DOMAIN crs /\ ByUser /\ queue' = queue \cup {s} /\ \E kind, calm : ChangeIf(kind, calm)
    BY DEF UserEdits, UserDeletes, UserPauses, Change
  <1>2. crs[s] \in CR
    BY <1>1 DEF IInv, CrsOK
  <1>3. \E c \in CR : Patch(s, c)
    <2>1. CASE UserEdits(s)
      <3>1. PICK sp \in UserSpecs : Patch(s, Respec(crs[s], sp))
        BY <2>1 DEF UserEdits
      <3> QED BY <1>2, <3>1, RespecType, SpecsAssumption
    <2>2. CASE UserDeletes(s)
      <3> DEFINE c == [crs[s] EXCEPT !.deleted = "user", !.gen = crs[s].gen + 1]
      <3>1. Patch(s, c)
        BY <2>2 DEF UserDeletes
      <3>2. crs[s].gen + 1 \in Nat
        BY <1>2 DEF CR
      <3>3. c \in CR
        BY <1>2, <3>2 DEF CR
      <3> QED BY <3>1, <3>3
    <2>3. CASE UserPauses(s)
      <3>1. Patch(s, [crs[s] EXCEPT !.paused = ~@])
        BY <2>3 DEF UserPauses
      <3>2. [crs[s] EXCEPT !.paused = ~@] \in CR
        BY <1>2 DEF CR
      <3> QED BY <3>1, <3>2
    <2> QED BY <2>1, <2>2, <2>3
  <1>4. CrsOK' /\ QueueOK'
    BY <1>1, <1>3, PatchOK DEF IInv, QueueOK
  <1> QED BY <1>1, <1>4, ByUserOK DEF IInv

\* A client changes or removes the cache on the server.
LEMMA ClientInv == ASSUME IInv, ClientSets \/ ClientRemoves PROVE IInv'
  <1>1. UNCHANGED <<crs, queue, cluster, schema, lst>>
    BY DEF ClientSets, ClientRemoves
  <1>2. \E kind, calm : ChangeIf(kind, calm)
    BY DEF ClientSets, ClientRemoves, Change
  <1>3. changes' \in 0..MaxChanges /\ hurry' \in 0..MaxHurry /\ UNCHANGED <<ctl, faults>>
    BY <1>2, ChangeCounts DEF IInv
  <1>4. server' \in Configs \cup {NoConfig} /\ ListenerOK' /\ unseen' \in {"no", "swept", "lost"}
    <2>1. CASE ClientSets
      <3>1. PICK p \in Configs : server' = p /\ Emit("set", p, "client")
        BY <2>1 DEF ClientSets
      <3> QED BY <1>1, <3>1, EmitOK DEF IInv, EnvOK
    <2>2. CASE ClientRemoves
      <3>1. server' = NoConfig /\ Emit("remove", NoConfig, "client")
        BY <2>2 DEF ClientRemoves
      <3> QED BY <1>1, <3>1, EmitOK DEF IInv, EnvOK
    <2> QED BY <2>1, <2>2
  <1>5. EnvOK'
    BY <1>1, <1>3, <1>4 DEF IInv, EnvOK
  <1> QED BY <1>1, <1>3, <1>4, <1>5 DEF IInv, CrsOK, CtlOK, QueueOK

\* The schema the resources refer to, or the cluster, changes.
LEMMA ClusterChangesInv == ASSUME IInv, SchemaChanges \/ ClusterChanges PROVE IInv'
  <1>1. UNCHANGED <<crs, server, stream, lst, unseen>> /\ queue' \subseteq queue \cup DOMAIN crs
    BY DEF SchemaChanges, ClusterChanges
  <1>2. \E kind, calm : ChangeIf(kind, calm)
    BY DEF SchemaChanges, ClusterChanges, Change
  <1>3. changes' \in 0..MaxChanges /\ hurry' \in 0..MaxHurry /\ UNCHANGED <<ctl, faults>>
    BY <1>2, ChangeCounts DEF IInv
  <1>4. cluster' \in {"formed", "forming", "gone"} /\ schema' \in {"ready", "pending", "foreign", "absent"}
    BY DEF SchemaChanges, ClusterChanges, IInv, EnvOK
  <1>5. EnvOK'
    BY <1>1, <1>3, <1>4 DEF IInv, EnvOK
  <1> QED BY <1>1, <1>3, <1>5 DEF IInv, CrsOK, CtlOK, ListenerOK, QueueOK

\* The listener out of its connection, at the step "pc".
LEMMA DisconnectedOK ==
    ASSUME NEW pc \in {"sweep", "subscribe", "stopped"}, lst' = [LstIdle EXCEPT !.pc = pc], stream' = <<>>
    PROVE  ListenerOK'
  <1>1. lst' \in LstType /\ lst'.pc = pc
    BY IdleTypes DEF LstType, LstSteps
  <1>2. stream' \in Seq(ConfigEvent)
    OBVIOUS
  <1> QED BY <1>1, <1>2 DEF ListenerOK

\* With the cluster go the resources it owns, those with a finalizer not yet.
LEMMA ClusterDeletedInv == ASSUME IInv, ClusterDeleted PROVE IInv'
  <1> DEFINE D == {t \in DOMAIN crs : ~crs[t].owned \/ crs[t].finalizer}
             c(s) == [crs[s] EXCEPT !.deleted = IF @ = "no" /\ crs[s].owned THEN "operator" ELSE @]
  <1>1. /\ crs' = [s \in D |-> c(s)] /\ cluster' = "gone" /\ server' = NoConfig
        /\ stream' = <<>> /\ lst' = [LstIdle EXCEPT !.pc = "stopped"]
        /\ queue' = queue \cup DOMAIN crs /\ UNCHANGED <<schema, unseen>>
        /\ ChangeIf("gone", Settled)
    BY DEF ClusterDeleted, Change
  <1>2. changes' \in 0..MaxChanges /\ hurry' \in 0..MaxHurry /\ UNCHANGED <<ctl, faults>>
    BY <1>1, ChangeCounts DEF IInv
  <1>3. ASSUME NEW s \in D PROVE s \in DOMAIN crs /\ c(s) \in CR
    BY DEF IInv, CrsOK, CR
  <1>4. ListenerOK'
    BY <1>1, DisconnectedOK
  <1>5. EnvOK'
    BY <1>1, <1>2 DEF IInv, EnvOK
  <1> HIDE DEF D, c
  <1>6. CrsOK' /\ QueueOK'
    BY <1>1, <1>3 DEF IInv, CrsOK, QueueOK
  <1>7. CtlOK'
    BY <1>2 DEF IInv, CtlOK
  <1> QED BY <1>4, <1>5, <1>6, <1>7 DEF IInv

\* A step of users, clients or the cluster.
LEMMA EnvironmentInv == ASSUME IInv, Environment PROVE IInv'
  BY UserCreatesInv, ClientInv, ClusterChangesInv, ClusterDeletedInv, UserWritesInv
  DEF Environment

-----------------------------------------------------------------------------
(***************************************************************************)
(* Faults.                                                                 *)
(***************************************************************************)

\* The counter of faults.
LEMMA FaultCounts ==
    ASSUME EnvOK, NEW kind, Fault(kind)
    PROVE  faults' \in 0..MaxFaults /\ UNCHANGED <<cluster, schema, changes>>
  <1>1. faults \in 0..MaxFaults /\ MaxFaults \in Nat
    BY ConfigAssumption DEF EnvOK
  <1>2. faults < MaxFaults /\ faults' = faults + 1
    BY DEF Fault
  <1>3. faults' \in 0..MaxFaults
    BY <1>1, <1>2
  <1> QED BY <1>3 DEF Fault

\* A restarted operator has no reconciliation in progress.
LEMMA OperatorCrashInv == ASSUME IInv, OperatorCrash PROVE IInv'
  <1>1. faults' \in 0..MaxFaults /\ UNCHANGED <<cluster, schema, changes>>
    BY FaultCounts DEF IInv, OperatorCrash
  <1>2. UNCHANGED <<crs, server, stream, lst, unseen, hurry>> /\ ctl' = CtlIdle /\ queue' = DOMAIN crs
    BY DEF OperatorCrash
  <1>3. EnvOK' /\ ListenerOK'
    BY <1>1, <1>2 DEF IInv, EnvOK, ListenerOK
  <1> QED BY <1>2, <1>3, IdleOK DEF IInv, CrsOK, QueueOK

\* A failed call ends the reconciliation, or is taken for a refusal.
LEMMA CallFailsInv == ASSUME IInv, CallFails PROVE IInv'
  <1>1. faults' \in 0..MaxFaults /\ UNCHANGED <<cluster, schema, changes>>
    BY FaultCounts DEF IInv, CallFails
  <1>2. UNCHANGED <<server, stream, lst, unseen, hurry>>
    BY DEF CallFails
  <1>3. EnvOK' /\ ListenerOK'
    BY <1>1, <1>2 DEF IInv, EnvOK, ListenerOK
  <1>4. "annotate" \in CtlSteps /\ {"ExistsFailed", "CallFailed"} \subseteq Readiness
    BY DEF CtlSteps, Readiness
  <1>5. CrsOK' /\ CtlOK' /\ QueueOK'
    <2>1. CASE ctl.pc = "update" /\ ctl.spec.strategy = "recreate"
      <3>1. Goto("annotate")
        BY <2>1 DEF CallFails
      <3>2. ctl.spec.template # NoConfig
        BY <2>1 DEF IInv, CtlOK
      <3> QED BY <1>4, <2>1, <3>1, <3>2, GotoOK
    <2>2. CASE ~(ctl.pc = "update" /\ ctl.spec.strategy = "recreate")
      <3>1. PICK why \in {"ExistsFailed", "CallFailed"} : Fail(why)
        BY <2>2 DEF CallFails
      <3> QED BY <1>4, <3>1, FailOK
    <2> QED BY <2>1, <2>2
  <1> QED BY <1>3, <1>5 DEF IInv

\* The listener restarts, or loses its connection.
LEMMA ListenerFaultsInv == ASSUME IInv, ListenerCrash \/ StreamBreaks PROVE IInv'
  <1>1. faults' \in 0..MaxFaults /\ UNCHANGED <<cluster, schema, changes>>
    BY FaultCounts DEF IInv, ListenerCrash, StreamBreaks
  <1>2. UNCHANGED <<crs, server, queue, ctl>> /\ stream' = <<>>
    BY DEF ListenerCrash, StreamBreaks
  <1>3. hurry' \in 0..MaxHurry
    <2>1. hurry \in 0..MaxHurry /\ MaxHurry \in Nat
      BY ConfigAssumption DEF IInv, EnvOK
    <2>2. hurry' = hurry \/ (hurry' = hurry + 1 /\ hurry' <= MaxHurry)
      BY DEF ListenerCrash, StreamBreaks
    <2> QED BY <2>1, <2>2
  <1>4. unseen' \in {"no", "swept", "lost"}
    BY DEF ListenerCrash, StreamBreaks, IInv, EnvOK
  <1>5. ListenerOK'
    BY <1>2, DisconnectedOK DEF ListenerCrash, StreamBreaks
  <1>6. EnvOK'
    BY <1>1, <1>2, <1>3, <1>4 DEF IInv, EnvOK
  <1> QED BY <1>2, <1>5, <1>6 DEF IInv, CrsOK, CtlOK, QueueOK

-----------------------------------------------------------------------------
(***************************************************************************)
(* The theorems.                                                           *)
(***************************************************************************)

\* The invariant holds at the start.
LEMMA InitInv == ASSUME Init PROVE IInv
  <1>1. CrsOK
    <2>1. CASE crs \in [{} -> CR]
      BY <2>1 DEF CrsOK
    <2>2. CASE crs \in [{UserCR} -> {NewCR([NoSpec EXCEPT !.template = TemplateConfig], FALSE)}]
      <3> DEFINE sp == [NoSpec EXCEPT !.template = TemplateConfig]
      <3>1. crs[UserCR] = NewCR(sp, FALSE) /\ DOMAIN crs = {UserCR}
        BY <2>2
      <3>2. sp \in CacheSpec
        BY NoSpecType, ConfigAssumption DEF CacheSpec
      <3> HIDE DEF sp
      <3>3. crs[UserCR] \in CR
        BY <3>1, <3>2, NewCRType
      <3> QED BY <3>1, <3>3, UserSlot DEF CrsOK
    <2> QED BY <2>1, <2>2 DEF Init
  <1>2. CtlOK
    BY IdleTypes DEF Init, CtlOK
  <1>3. ListenerOK
    BY IdleTypes DEF Init, ListenerOK
  <1>4. EnvOK
    BY ConfigAssumption DEF Init, EnvOK
  <1>5. QueueOK
    BY <1>1 DEF Init, QueueOK, CrsOK
  <1> QED BY <1>1, <1>2, <1>3, <1>4, <1>5 DEF IInv

\* Every step keeps the invariant.
LEMMA NextInv == ASSUME IInv, Lone, [Next]_vars PROVE IInv'
  <1>1. CASE Next
    BY <1>1, ReconcileInv, ListenInv, EnvironmentInv, OperatorCrashInv, CallFailsInv, ListenerFaultsInv
    DEF Next
  <1>2. CASE UNCHANGED vars
    BY <1>2 DEF vars, IInv, CrsOK, CtlOK, ListenerOK, EnvOK, QueueOK
  <1> QED BY <1>1, <1>2

\* A change that hurries nobody is made at rest.
LEMMA CalmChange ==
    ASSUME IInv, NEW kind, NEW calm, ChangeIf(kind, calm), hurry' = 0
    PROVE  calm /\ hurry = 0 /\ UNCHANGED ctl
  <1>1. hurry \in Nat
    BY ConfigAssumption DEF IInv, EnvOK
  <1> QED BY <1>1 DEF ChangeIf

\* Nothing makes up for a hurry.
LEMMA HurryStays == ASSUME IInv, Next, hurry' = 0 PROVE hurry = 0
  <1>1. hurry \in Nat
    BY ConfigAssumption DEF IInv, EnvOK
  <1>2. CASE Environment
    <2>1. PICK kind, calm : ChangeIf(kind, calm)
      BY <1>2 DEF Environment, UserCreates, ClientSets, ClientRemoves, SchemaChanges, ClusterChanges,
                  ClusterDeleted, UserEdits, UserDeletes, UserPauses, Change
    <2> QED BY <2>1, CalmChange
  <1>3. CASE Reconcile
    <2>1. UNCHANGED env
      BY <1>3 DEF Reconcile, NotFound, RemoveMarked, Pause, AddStrategy, ClusterMissing,
                  ClusterNotFormed, SchemaNotReady, DeleteOnServer, StartServerCalls, DeleteMarked,
                  RemoveFinalizer, Exists, Compare, UpdateConfig, Annotate, Erase, CreateOnServer,
                  Finish, Quiet
    <2> QED BY <2>1 DEF env
  <1>4. CASE Listen
    <2>1. Listener
      BY <1>4 DEF Listen, ReadNames, RemoveStaleResources, Subscribe, IgnoreSet, FindForSet, CreateCR,
                  GetCR, PatchCR, IgnoreRemove, FindForRemove, RetainCR, MarkCR
    <2> QED BY <2>1 DEF Listener, env
  <1> QED
    BY <1>1, <1>2, <1>3, <1>4 DEF Next, OperatorCrash, CallFails, ListenerCrash, StreamBreaks

\* A write adds no resource.
LEMMA PatchAdds ==
    ASSUME NEW s \in DOMAIN crs, NEW c, Patch(s, c)
    PROVE  DOMAIN crs' \subseteq DOMAIN crs
  BY DEF Patch, Stored, With, Without

\* Resources are only created by users and by the listener.
LEMMA OnlyCreations ==
    ASSUME IInv, Next, ~UserCreates, ~CreateCR
    PROVE  DOMAIN crs' \subseteq DOMAIN crs
  <1>1. ASSUME NEW s \in DOMAIN crs, NEW c, NEW r, EndWith(s, c, r) PROVE DOMAIN crs' \subseteq DOMAIN crs
    BY <1>1, PatchAdds DEF EndWith
  <1>2. ASSUME NEW why, Fail(why) PROVE DOMAIN crs' \subseteq DOMAIN crs
    BY <1>1, <1>2 DEF Fail
  <1>3. CASE Reconcile
    <2>1. CASE UNCHANGED crs \/ \E why : Fail(why)
      BY <1>2, <2>1
    <2>2. CASE \E s \in DOMAIN crs : \E c : Patch(s, c)
      BY <2>2, PatchAdds
    <2>3. CASE \E s \in DOMAIN crs : \E c, r : EndWith(s, c, r)
      BY <1>1, <2>3
    <2>4. ASSUME NEW s \in Slots, \/ NotFound(s) \/ RemoveMarked(s) \/ Pause(s) \/ AddStrategy(s)
                                  \/ ClusterMissing(s) \/ ClusterNotFormed(s) \/ SchemaNotReady(s)
                                  \/ DeleteOnServer(s) \/ StartServerCalls(s)
          PROVE  DOMAIN crs' \subseteq DOMAIN crs
      BY <2>1, <2>2, <2>3, <2>4
      DEF NotFound, RemoveMarked, Pause, AddStrategy, ClusterMissing, ClusterNotFormed,
          SchemaNotReady, Begun, Formed, DeleteOnServer, StartServerCalls, Proceed
    <2> QED
      BY <1>3, <2>1, <2>2, <2>3, <2>4
      DEF Reconcile, DeleteMarked, RemoveFinalizer, Exists, Compare, UpdateConfig, Annotate, Erase,
          CreateOnServer, Finish, Goto
  <1>4. CASE Listen
    <2>1. CASE UNCHANGED crs
      BY <2>1
    <2>2. CASE RemoveStaleResources
      BY <2>2 DEF RemoveStaleResources
    <2>3. CASE PatchCR \/ RetainCR \/ MarkCR
      BY <2>1, <2>3, PatchAdds DEF PatchCR, RetainCR, MarkCR
    <2> QED
      BY <1>4, <2>1, <2>2, <2>3
      DEF Listen, ReadNames, Subscribe, IgnoreSet, FindForSet, GetCR, IgnoreRemove, FindForRemove
  <1>5. CASE Environment
    <2>1. CASE UNCHANGED crs
      BY <2>1
    <2>2. ASSUME NEW s \in Slots, UserEdits(s) \/ UserDeletes(s) \/ UserPauses(s)
          PROVE  DOMAIN crs' \subseteq DOMAIN crs
      BY <2>2, PatchAdds DEF UserEdits, UserDeletes, UserPauses
    <2>3. CASE ClusterDeleted
      BY <2>3 DEF ClusterDeleted
    <2> QED
      BY <1>5, <2>1, <2>2, <2>3
      DEF Environment, ClientSets, ClientRemoves, SchemaChanges, ClusterChanges
  <1>6. CASE CallFails
    BY <1>2, <1>6 DEF CallFails, Goto
  <1>7. CASE OperatorCrash \/ ListenerCrash \/ StreamBreaks
    BY <1>7 DEF OperatorCrash, ListenerCrash, StreamBreaks
  <1> QED BY <1>3, <1>4, <1>5, <1>6, <1>7 DEF Next

\* The listener decides to create a resource only where it finds none.
LEMMA OnlyDecision ==
    ASSUME IInv, Next, lst'.pc = "create", lst.pc # "create"
    PROVE  FindForSet /\ DOMAIN crs = {}
  <1>1. lst' # lst /\ lst \in LstType
    BY DEF IInv, ListenerOK
  <1>2. ~Handled /\ LstIdle.pc = "idle"
    BY IdleTypes DEF Handled
  <1>3. ~Reconcile
    BY <1>1 DEF Reconcile, NotFound, RemoveMarked, Pause, AddStrategy, ClusterMissing,
                ClusterNotFormed, SchemaNotReady, DeleteOnServer, StartServerCalls, DeleteMarked,
                RemoveFinalizer, Exists, Compare, UpdateConfig, Annotate, Erase, CreateOnServer,
                Finish, Quiet
  <1>4. ~Environment
    BY <1>1, IdleTypes
    DEF Environment, UserCreates, UserEdits, UserDeletes, UserPauses, ByUser, ClientSets, ClientRemoves,
        SchemaChanges, ClusterChanges, ClusterDeleted, LstType
  <1>5. ~(OperatorCrash \/ CallFails \/ ListenerCrash \/ StreamBreaks)
    BY <1>1, IdleTypes DEF OperatorCrash, CallFails, ListenerCrash, StreamBreaks, LstType
  <1>6. ~(ReadNames \/ RemoveStaleResources \/ Subscribe \/ GetCR \/ FindForRemove)
    BY <1>1, <1>2, IdleTypes
    DEF ReadNames, RemoveStaleResources, Subscribe, GetCR, FindForRemove, LstType
  <1>7. FindForSet
    BY <1>2, <1>3, <1>4, <1>5, <1>6
    DEF Next, Listen, IgnoreSet, CreateCR, PatchCR, IgnoreRemove, RetainCR, MarkCR
  <1>8. DOMAIN crs = {}
    BY <1>1, <1>7, IdleTypes DEF FindForSet, LstType, Existing
  <1> QED BY <1>7, <1>8

\* What a user creates while nothing is on its way is validated against all
\* the resources there are.
LEMMA CalmCreation ==
    ASSUME IInv, SpecNamed, UserCreates, hurry' = 0
    PROVE  DOMAIN crs = {} /\ lst.pc # "create"
  <1>1. hurry \in Nat /\ ChangeIf("create", Settled)
    BY ConfigAssumption DEF IInv, EnvOK, UserCreates, Change
  <1>2. Settled
    BY <1>1 DEF ChangeIf
  <1>3. queue = {} /\ lst.pc \in {"idle", "stopped"}
    BY <1>2 DEF Settled, Resting
  <1>4. PICK list \in WebhookLists : ValidateCreate(UserCR, list)
    BY DEF UserCreates
  <1>5. list = DOMAIN crs
    BY <1>3, <1>4 DEF WebhookLists, InformerLists, Behind
  <1>6. DOMAIN crs = {}
    BY <1>4, <1>5 DEF ValidateCreate, SpecName
  <1> QED BY <1>3, <1>6

\* Resources stay alone as far as they are.
LEMMA NextLone == ASSUME IInv, Lone, [Next]_vars PROVE Lone'
  <1>1. CASE UNCHANGED vars
    BY <1>1 DEF vars, Lone, OneCR
  <1>2. CASE UserCreates
    <2>1. DOMAIN crs' = DOMAIN crs \cup {UserCR} /\ lst' = lst
      BY <1>2 DEF UserCreates, ByUser, With
    <2>2. SpecNamed /\ hurry' = 0 => DOMAIN crs = {} /\ lst.pc # "create"
      BY <1>2, CalmCreation
    <2> QED BY <2>1, <2>2 DEF Lone, OneCR
  <1>3. CASE CreateCR
    <2>1. lst'.pc = "idle" /\ lst.pc = "create" /\ hurry' = hurry
      BY <1>3, IdleTypes DEF CreateCR, Handled, Listener, env
    <2>2. UNCHANGED crs \/ DOMAIN crs' = DOMAIN crs \cup {GeneratedName}
      BY <1>3, CreateCRShape DEF With
    <2> QED BY <2>1, <2>2 DEF Lone, OneCR
  <1>4. CASE Next /\ ~UserCreates /\ ~CreateCR
    <2>1. DOMAIN crs' \subseteq DOMAIN crs
      BY <1>4, OnlyCreations
    <2>2. lst'.pc = "create" => lst.pc = "create" \/ DOMAIN crs = {}
      BY <1>4, OnlyDecision
    <2>3. hurry' = 0 => hurry = 0
      BY <1>4, HurryStays
    <2> QED BY <2>1, <2>2, <2>3 DEF Lone, OneCR
  <1> QED BY <1>1, <1>2, <1>3, <1>4

\* The invariants hold in every reachable state.
LEMMA LoneInvariance == Spec => [](IInv /\ Lone)
  <1>1. Init => IInv /\ Lone
    <2>1. ASSUME Init PROVE DOMAIN crs \subseteq {UserCR} /\ lst.pc = "idle"
      BY <2>1, IdleTypes DEF Init
    <2> QED BY <2>1, InitInv DEF Lone, OneCR
  <1>2. IInv /\ Lone /\ [Next]_vars => (IInv /\ Lone)'
    BY NextInv, NextLone
  <1> QED BY <1>1, <1>2, PTL DEF Spec

\* The type part of it.
LEMMA Invariance == Spec => []IInv
  BY LoneInvariance, PTL

\* The state of the cache synchronization keeps its types: a resource the
\* listener writes has a configuration, and the name generateName gave it.
THEOREM TypeCorrect == Spec => []TypeOK
  <1>1. IInv => TypeOK
    <2>1. ConfigEvent \subseteq Event
      BY DEF ConfigEvent
    <2>2. stream \in Seq(ConfigEvent) => stream \in Seq(Event)
      BY <2>1
    <2> QED BY <2>2 DEF IInv, TypeOK, CrsOK, CtlOK, ListenerOK, EnvOK, QueueOK, CtlType, LstType
  <1> QED BY <1>1, Invariance, PTL

\* The steps of the controller that take a cache from the server.
LEMMA OnlyRemovals ==
    ASSUME IInv, Next, ctl' # ctl, server # NoConfig, server' = NoConfig
    PROVE  Erase \/ \E s \in Slots : DeleteOnServer(s)
  <1>1. Quiet => server' = server
    BY DEF Quiet
  <1>2. Listener => ctl' = ctl
    BY DEF Listener
  <1>3. ASSUME NEW kind, NEW calm, ChangeIf(kind, calm) PROVE ctl' = ctl
    BY <1>3 DEF ChangeIf
  <1>4. ~UpdateConfig
    BY DEF UpdateConfig, IInv, CtlOK
  <1>5. ~CreateOnServer
    BY DEF CreateOnServer
  <1>6. ~Listen
    BY <1>2 DEF Listen, ReadNames, RemoveStaleResources, Subscribe, IgnoreSet, FindForSet, CreateCR,
                GetCR, PatchCR, IgnoreRemove, FindForRemove, RetainCR, MarkCR
  <1>7. ~Environment
    BY <1>3 DEF Environment, UserCreates, ClientSets, ClientRemoves, SchemaChanges, ClusterChanges,
                ClusterDeleted, UserEdits, UserDeletes, UserPauses, Change
  <1>8. ~(OperatorCrash \/ CallFails \/ ListenerCrash \/ StreamBreaks)
    BY DEF OperatorCrash, CallFails, ListenerCrash, StreamBreaks
  <1>9. Reconcile => Erase \/ \E s \in Slots : DeleteOnServer(s)
    BY <1>1, <1>4, <1>5 DEF Reconcile, NotFound, RemoveMarked, Pause, AddStrategy, ClusterMissing,
                            ClusterNotFormed, SchemaNotReady, StartServerCalls, DeleteMarked,
                            RemoveFinalizer, Exists, Compare, Annotate, Finish
  <1> QED BY <1>6, <1>7, <1>8, <1>9 DEF Next

\* The operator removes a cache, and its data, only for the recreate strategy
\* or for a resource that was itself deleted: a marked resource, which goes
\* because its cache is gone, never takes the cache's successor with it.
THEOREM DataNotTaken == Spec => DataKept
  <1> DEFINE A == ctl' # ctl /\ server # NoConfig /\ server' = NoConfig
             B == \/ ctl.spec.strategy = "recreate"
                  \/ /\ ctl'.s \in DOMAIN crs
                     /\ crs[ctl'.s].deleted = "user" \/ ~crs[ctl'.s].marked
  <1>1. ASSUME IInv, Next, A PROVE B
    <2>1. CASE Erase
      BY <1>1, <2>1 DEF Erase, IInv, CtlOK
    <2>2. CASE \E s \in Slots : DeleteOnServer(s)
      <3>1. PICK s \in Slots : DeleteOnServer(s)
        BY <2>2
      <3>2. s \in DOMAIN crs /\ ~crs[s].marked /\ ctl'.s = s
        BY <3>1 DEF DeleteOnServer, Formed, Begun, Proceed
      <3> QED BY <3>2
    <2> QED BY <1>1, <2>1, <2>2, OnlyRemovals
  <1>2. IInv /\ [Next]_vars => [A => B]_vars
    BY <1>1 DEF vars
  <1> QED BY <1>2, Invariance, PTL DEF Spec, DataKept
-----------------------------------------------------------------------------
(***************************************************************************)
(* A recreation keeps its resource. Where each change waits for the last   *)
(* one to settle, the controller and the listener take turns: Unhurried is *)
(* the inductive invariant of that.                                        *)
(***************************************************************************)

(* The events of one kind come from one end, a listener that is not        *)
(* connected has none, and what the listener works on is the event at the  *)
(* head of the stream.                                                     *)
EventsOK ==
    /\ \A i \in DOMAIN stream :
          /\ stream[i].by \in {"deletion", "recreation"} => stream[i].kind = "remove"
          /\ stream[i].by = "update" => stream[i].kind = "set"
    /\ ~Connected => stream = <<>>
    /\ lst.pc \in {"create", "get", "patch"} => Head(stream).kind = "set"
    /\ lst.pc \in {"mark", "clear"} => Head(stream).kind = "remove"

By(who) == \E i \in DOMAIN stream : stream[i].by = who

(* The listener has something to carry over that the controller does not   *)
(* know of: what a client did, or what a new listener finds.               *)
ListenerDue == By("client") \/ lst.pc \in {"sweep", "sweepList", "subscribe"}

ServerSteps == {"exists", "compare", "update", "annotate", "erase", "create", "recreate", "finish"}

(* Then the controller only removes what is marked; and the listener       *)
(* writes a spec only for what a client did, to a resource it has read.    *)
ListenerFirst ==
    /\ ListenerDue => /\ ctl.pc \in {"idle", "deleteCR"}
                      /\ \A s \in queue \cap DOMAIN crs : crs[s].marked
                      /\ ctl.pc = "deleteCR" => \A s \in DOMAIN crs : s = ctl.s
    /\ By("client") => Len(stream) = 1
    /\ lst.pc \in {"create", "get", "patch"} => Head(stream).by = "client"
    /\ lst.pc = "patch" /\ lst.s \in DOMAIN crs => crs[lst.s].spec = lst.base

(* The removal of the cache of a deleted resource is the last that happens *)
(* to it, and only a marked resource is deleted by the controller.         *)
DeletedLast ==
    /\ By("deletion") => /\ ctl.pc \in {"idle", "deleteCR", "unfinalize"}
                         /\ \A i \in DOMAIN stream : stream[i].by = "deletion"
                         /\ \A s \in DOMAIN crs : crs[s].deleted # "no"
    /\ ctl.pc = "deleteCR" /\ ctl.s \in DOMAIN crs => crs[ctl.s].marked

Kept(c) == c.deleted = "no" /\ ~c.marked

(* The copy of the spec that a reconciliation works with is the resource's. *)
CopyFresh ==
    ctl.pc \in ServerSteps =>
       ctl.s \in DOMAIN crs /\ Kept(crs[ctl.s]) /\ ctl.spec = crs[ctl.s].spec

(* What the controller did to the cache agrees with the resource.          *)
Agreed ==
    /\ By("update") \/ By("recreation") => DOMAIN crs # {} /\ \A s \in DOMAIN crs : Kept(crs[s])
    /\ \A i \in DOMAIN stream : stream[i].by = "update" =>
          \A s \in DOMAIN crs : crs[s].spec.template \in {NoConfig, stream[i].config}

(* A spec that names a template has no configuration of its own.           *)
Plain(p) == p.named => p.template = NoConfig

(* A removal the listener is to expect is announced, it is the only one on *)
(* its way, and nothing leads to a second one before it arrived.           *)
Announced ==
    /\ \A i, j \in DOMAIN stream : stream[i].by = "recreation" /\ stream[j].by = "recreation" => i = j
    /\ By("recreation") =>
          /\ \A s \in DOMAIN crs : /\ crs[s].controllerDelete
                                   /\ crs[s].spec.template # NoConfig
                                   /\ server \in {NoConfig, crs[s].spec.template}
          /\ ctl.pc \notin {"update", "annotate", "erase"}
    /\ ctl.pc = "erase" => crs[ctl.s].controllerDelete
    /\ lst.pc = "mark" => Head(stream).by # "recreation"
    /\ \A s \in DOMAIN crs : Plain(crs[s].spec)

Unhurried == ListenerFirst /\ DeletedLast /\ CopyFresh /\ Agreed /\ Announced

-----------------------------------------------------------------------------
\* The head of the stream is one of its events.
LEMMA HeadIndex ==
    ASSUME ListenerOK, stream # <<>>
    PROVE  1 \in DOMAIN stream /\ Head(stream) = stream[1]
  BY DEF ListenerOK

\* Handling an event takes it from the stream and leaves the others.
LEMMA HandledEvents ==
    ASSUME ListenerOK, stream # <<>>, Handled
    PROVE  /\ \A i \in DOMAIN stream' : i + 1 \in DOMAIN stream /\ stream'[i] = stream[i + 1]
           /\ Len(stream) = 1 => stream' = <<>>
           /\ \A w : By(w)' => By(w)
           /\ 1 \in DOMAIN stream /\ Head(stream) = stream[1]
           /\ lst' = LstIdle /\ lst'.pc = "idle"
  <1>1. stream' = Tail(stream) /\ stream \in Seq(ConfigEvent)
    BY DEF Handled, ListenerOK
  <1>2. \A i \in DOMAIN stream' : i + 1 \in DOMAIN stream /\ stream'[i] = stream[i + 1]
    BY <1>1
  <1>3. Len(stream) = 1 => stream' = <<>>
    BY <1>1
  <1>4. ASSUME NEW w, By(w)' PROVE By(w)
    BY <1>2, <1>4 DEF By
  <1> QED BY <1>2, <1>3, <1>4, HeadIndex, IdleTypes DEF Handled

\* An event that is sent comes last.
LEMMA EmitEvents ==
    ASSUME ListenerOK, NEW kind \in {"set", "remove"}, NEW p \in Configs \cup {NoConfig},
           NEW by \in {"deletion", "recreation", "update", "client"},
           kind = "set" => p \in Configs, Emit(kind, p, by)
    PROVE  /\ \A i \in DOMAIN stream' :
                 \/ i \in DOMAIN stream /\ stream'[i] = stream[i]
                 \/ i = Len(stream) + 1 /\ stream'[i] = [kind |-> kind, config |-> p, by |-> by]
           /\ \A w : By(w)' => By(w) \/ w = by
           /\ stream # <<>> => stream' # <<>> /\ Head(stream') = Head(stream)
           /\ ~Connected => stream' = stream
           /\ Len(stream) + 1 \notin DOMAIN stream
  <1> DEFINE e == [kind |-> kind, config |-> p, by |-> by]
  <1>1. stream \in Seq(ConfigEvent) /\ e \in ConfigEvent
    BY DEF ListenerOK, ConfigEvent, Event
  <1>2. stream' = (IF Connected THEN Append(stream, e) ELSE stream)
    BY DEF Emit
  <1>3. e.by = by
    OBVIOUS
  <1> HIDE DEF e
  <1>4. \A i \in DOMAIN stream' : \/ i \in DOMAIN stream /\ stream'[i] = stream[i]
                                  \/ i = Len(stream) + 1 /\ stream'[i] = e
    BY <1>1, <1>2
  <1>5. ASSUME NEW w, By(w)' PROVE By(w) \/ w = by
    BY <1>3, <1>4, <1>5 DEF By
  <1>6. stream # <<>> => stream' # <<>> /\ Head(stream') = Head(stream)
    BY <1>1, <1>2
  <1>7. ~Connected => stream' = stream
    BY <1>2
  <1>8. Len(stream) + 1 \notin DOMAIN stream
    BY <1>1
  <1> QED BY <1>4, <1>5, <1>6, <1>7, <1>8 DEF e

-----------------------------------------------------------------------------
\* An event that is sent keeps what holds of the events.
LEMMA EmitEventsOK ==
    ASSUME ListenerOK, EventsOK, NEW kind \in {"set", "remove"}, NEW p \in Configs \cup {NoConfig},
           NEW by \in {"deletion", "recreation", "update", "client"},
           kind = "set" => p \in Configs, Emit(kind, p, by), UNCHANGED lst,
           by \in {"deletion", "recreation"} => kind = "remove", by = "update" => kind = "set"
    PROVE  EventsOK'
  <1>1. \A i \in DOMAIN stream' :
           /\ stream'[i].by \in {"deletion", "recreation"} => stream'[i].kind = "remove"
           /\ stream'[i].by = "update" => stream'[i].kind = "set"
    BY EmitEvents DEF EventsOK
  <1>2. Connected' = Connected
    BY DEF Connected
  <1>3. lst.pc \in {"create", "get", "patch", "mark", "clear"} => Head(stream') = Head(stream)
    BY EmitEvents DEF ListenerOK
  <1> QED BY <1>1, <1>2, <1>3, EmitEvents DEF EventsOK

\* A handled event leaves what holds of the others.
LEMMA HandledEventsOK ==
    ASSUME ListenerOK, EventsOK, stream # <<>>, Handled
    PROVE  EventsOK'
  BY HandledEvents DEF EventsOK, Connected

\* A step that leaves the stream and the listener leaves what holds of them.
LEMMA SameEventsOK ==
    ASSUME EventsOK, UNCHANGED <<stream, lst>>
    PROVE  EventsOK'
  BY DEF EventsOK, Connected

\* A step of the controller keeps what holds of the events.
LEMMA ReconcileEvents == ASSUME IInv, EventsOK, Reconcile PROVE EventsOK'
  <1>1. CASE Quiet
    BY <1>1, SameEventsOK DEF Quiet
  <1>2. CASE UNCHANGED <<stream, lst>>
    BY <1>2, SameEventsOK
  <1>3. CASE UpdateConfig
    <2>1. CASE Emit("set", ctl.spec.template, "update") /\ ctl.pc = "update" /\ UNCHANGED lst
      <3>1. ctl.spec.template \in Configs
        BY <2>1 DEF IInv, CtlOK, CtlType, CacheSpec
      <3> QED BY <2>1, <3>1, EmitEventsOK DEF IInv
    <2> QED BY <1>2, <1>3, <2>1 DEF UpdateConfig
  <1>4. CASE Erase \/ \E s \in Slots : DeleteOnServer(s)
    <2>1. CASE UNCHANGED lst /\ \E by \in {"deletion", "recreation"} : Emit("remove", NoConfig, by)
      BY <2>1, EmitEventsOK DEF IInv
    <2> QED BY <1>2, <1>4, <2>1 DEF Erase, DeleteOnServer
  <1>5. CASE CreateOnServer
    <2>1. CASE UNCHANGED lst /\ Emit("set", CreatedConfig, "update")
      <3>1. CreatedConfig \in Configs
        BY <1>5, CreatedConfigType DEF CreateOnServer, IInv
      <3> QED BY <2>1, <3>1, EmitEventsOK DEF IInv
    <2> QED BY <1>2, <1>5, <2>1 DEF CreateOnServer, CreatedConfig
  <1> QED
    BY <1>1, <1>3, <1>4, <1>5
    DEF Reconcile, NotFound, RemoveMarked, Pause, AddStrategy, ClusterMissing, ClusterNotFormed,
        SchemaNotReady, StartServerCalls, DeleteMarked, RemoveFinalizer, Exists, Compare, Annotate, Finish

\* A step of the listener keeps what holds of the events.
LEMMA ListenEvents == ASSUME IInv, EventsOK, Listen PROVE EventsOK'
  <1>0. LstIdle.pc = "idle" /\ lst \in LstType /\ LstIdle \in LstType
    BY IdleTypes DEF IInv, ListenerOK
  <1>1. CASE ReadNames
    <2>1. lst'.pc = "sweepList" /\ UNCHANGED stream /\ lst.pc = "sweep"
      BY <1>0, <1>1 DEF ReadNames, LstType
    <2> QED BY <2>1 DEF EventsOK, Connected
  <1>2. CASE RemoveStaleResources
    <2>1. lst'.pc = "subscribe" /\ UNCHANGED stream /\ lst.pc = "sweepList"
      BY <1>0, <1>2 DEF RemoveStaleResources, LstType
    <2> QED BY <2>1 DEF EventsOK, Connected
  <1>3. CASE Subscribe
    <2>1. lst'.pc = "idle" /\ \A i \in DOMAIN stream' : stream'[i].by = "client"
      BY <1>0, <1>3 DEF Subscribe
    <2> QED BY <2>1 DEF EventsOK, Connected
  <1>4. CASE Handled /\ stream # <<>>
    BY <1>4, HandledEventsOK DEF IInv
  <1>5. CASE FindForSet \/ FindForRemove
    <2>1. /\ UNCHANGED stream
          /\ \/ lst'.pc \in {"create", "get"} /\ Head(stream).kind = "set"
             \/ lst'.pc \in {"clear", "mark"} /\ Head(stream).kind = "remove"
          /\ lst.pc = "idle"
      BY <1>0, <1>5 DEF FindForSet, FindForRemove, Received, LstType
    <2> QED BY <2>1 DEF EventsOK, Connected
  <1>6. CASE GetCR /\ ~Handled
    <2>1. UNCHANGED stream /\ lst'.pc = "patch" /\ lst.pc = "get"
      BY <1>0, <1>6 DEF GetCR, LstType
    <2> QED BY <2>1 DEF EventsOK, Connected
  <1>7. lst.pc \in {"create", "get", "patch", "mark", "clear"} => stream # <<>>
    BY DEF IInv, ListenerOK
  <1> QED
    BY <1>1, <1>2, <1>3, <1>4, <1>5, <1>6, <1>7
    DEF Listen, IgnoreSet, IgnoreRemove, CreateCR, GetCR, PatchCR, RetainCR, MarkCR, Received

\* Users, clients, the cluster and the faults keep what holds of the events.
LEMMA OthersEvents ==
    ASSUME IInv, EventsOK, Environment \/ OperatorCrash \/ CallFails \/ ListenerCrash \/ StreamBreaks
    PROVE  EventsOK'
  <1>1. CASE UNCHANGED <<stream, lst>>
    BY <1>1, SameEventsOK
  <1>2. CASE ClientSets \/ ClientRemoves
    <2>1. \/ \E c \in Configs : Emit("set", c, "client")
          \/ Emit("remove", NoConfig, "client")
      BY <1>2 DEF ClientSets, ClientRemoves
    <2>2. UNCHANGED lst
      BY <1>2 DEF ClientSets, ClientRemoves
    <2> QED BY <2>1, <2>2, EmitEventsOK DEF IInv
  <1>3. CASE stream' = <<>> /\ lst'.pc \in {"stopped", "sweep", "subscribe"}
    BY <1>3 DEF EventsOK, Connected
  <1>4. CASE ClusterDeleted \/ ListenerCrash \/ StreamBreaks
    <2>1. stream' = <<>> /\ lst'.pc \in {"stopped", "sweep", "subscribe"}
      BY <1>4, IdleTypes DEF ClusterDeleted, ListenerCrash, StreamBreaks, LstType
    <2> QED BY <1>3, <2>1
  <1> QED
    BY <1>1, <1>2, <1>4
    DEF Environment, UserCreates, UserEdits, UserDeletes, UserPauses, ByUser, SchemaChanges,
        ClusterChanges, OperatorCrash, CallFails

\* What holds of the events holds in every reachable state.
LEMMA EventsInvariance == Spec => []EventsOK
  <1>1. Init => EventsOK
    BY IdleTypes DEF Init, EventsOK, Connected
  <1>2. IInv /\ EventsOK /\ [Next]_vars => EventsOK'
    <2>1. ASSUME IInv, EventsOK, Next PROVE EventsOK'
      BY <2>1, ReconcileEvents, ListenEvents, OthersEvents DEF Next
    <2>2. ASSUME EventsOK, UNCHANGED vars PROVE EventsOK'
      BY <2>2, SameEventsOK DEF vars
    <2> QED BY <2>1, <2>2
  <1> QED BY <1>1, <1>2, Invariance, PTL DEF Spec

\* A stream that does not change has the same events.
LEMMA SameBy == ASSUME UNCHANGED stream PROVE \A w : By(w)' <=> By(w)
  BY DEF By

\* A resource that exists is the only one.
LEMMA Alone ==
    ASSUME OneCR, IInv, NEW s \in DOMAIN crs
    PROVE  DOMAIN crs = {s}
  BY DEF OneCR

\* A write changes one resource, and removes it only if it is deleted.
LEMMA PatchShape ==
    ASSUME NEW s \in DOMAIN crs, NEW c, Patch(s, c)
    PROVE  /\ DOMAIN crs' \subseteq DOMAIN crs
           /\ \A t \in DOMAIN crs' : crs'[t] = IF t = s THEN c ELSE crs[t]
           /\ c.deleted = "no" \/ c.finalizer => DOMAIN crs' = DOMAIN crs
  BY DEF Patch, Stored, With, Without

\* While a reconciliation works on the server, the listener has nothing that
\* the controller does not know of.
LEMMA NoneDue ==
    ASSUME Unhurried, ctl.pc \notin {"idle", "deleteCR"}
    PROVE  /\ ~ListenerDue /\ ~By("client") /\ lst.pc \notin {"sweep", "sweepList", "subscribe"}
           /\ ctl.pc \in ServerSteps => ~By("deletion")
  BY DEF Unhurried, ListenerFirst, DeletedLast, ListenerDue, ServerSteps

\* What a write of the controller leaves of a resource.
SameRole(c, d) ==
    /\ d.marked = c.marked /\ d.controllerDelete = c.controllerDelete
    /\ d.spec.template = c.spec.template /\ d.spec.named = c.spec.named
    /\ c.deleted # "no" => d.deleted # "no"
    /\ ~c.marked => d.deleted = c.deleted
    /\ c.marked => d.spec = c.spec

\* A write that ends a reconciliation.
LEMMA EndUnhurried ==
    ASSUME OneCR, IInv, Unhurried, NEW s \in DOMAIN crs, NEW c, NEW requeue,
           EndWith(s, c, requeue), SameRole(crs[s], c), ListenerDue => crs[s].marked,
           UNCHANGED <<server, stream, lst>>
    PROVE  Unhurried'
  <1>1. DOMAIN crs = {s}
    BY Alone
  <1>2. DOMAIN crs' \subseteq {s} /\ (\A t \in DOMAIN crs' : t = s /\ crs'[t] = c)
        /\ (c.deleted = "no" => DOMAIN crs' = {s})
    BY <1>1, PatchShape DEF EndWith
  <1>3. ctl' = CtlIdle /\ ctl'.pc = "idle"
    BY IdleTypes DEF EndWith
  <1>4. \A w : By(w)' <=> By(w)
    BY SameBy
  <1>5. ListenerDue' <=> ListenerDue
    BY <1>4 DEF ListenerDue
  <1>6. lst.pc = "patch" => By("client")
    BY HeadIndex DEF Unhurried, ListenerFirst, By, IInv, ListenerOK
  <1>7. ListenerFirst'
    <2>1. lst.pc = "patch" /\ lst.s \in DOMAIN crs' => crs'[lst.s].spec = lst.base
      BY <1>1, <1>2, <1>6 DEF Unhurried, ListenerFirst, SameRole, ListenerDue
    <2>2. ListenerDue => \A t \in queue' \cap DOMAIN crs' : crs'[t].marked
      BY <1>2 DEF SameRole
    <2> QED BY <1>3, <1>4, <1>5, <2>1, <2>2 DEF Unhurried, ListenerFirst
  <1>8. DeletedLast'
    BY <1>1, <1>2, <1>3, <1>4 DEF Unhurried, DeletedLast, SameRole
  <1>9. CopyFresh'
    BY <1>3 DEF CopyFresh, ServerSteps
  <1>10. Agreed'
    BY <1>1, <1>2, <1>4 DEF Unhurried, Agreed, SameRole, Kept
  <1>11. Announced'
    BY <1>1, <1>2, <1>3, <1>4 DEF Unhurried, Announced, SameRole, Plain
  <1> QED BY <1>7, <1>8, <1>9, <1>10, <1>11 DEF Unhurried

\* A reconciliation that ends without a write.
LEMMA IdleUnhurried ==
    ASSUME Unhurried, ctl' = CtlIdle, UNCHANGED <<crs, server, stream, lst>>, queue' \subseteq queue
    PROVE  Unhurried'
  <1>1. ctl'.pc = "idle"
    BY IdleTypes
  <1>2. \A w : By(w)' <=> By(w)
    BY SameBy
  <1>3. ListenerDue' <=> ListenerDue
    BY <1>2 DEF ListenerDue
  <1> QED
    BY <1>1, <1>2, <1>3
    DEF Unhurried, ListenerFirst, DeletedLast, CopyFresh, ServerSteps, Agreed, Announced

\* The end of a step of one of the later calls.
LEMMA LastWriteUnhurried ==
    ASSUME OneCR, IInv, Unhurried, DeleteMarked \/ RemoveFinalizer \/ Finish
    PROVE  Unhurried'
  <1>0. UNCHANGED <<server, stream, lst>>
    BY DEF DeleteMarked, RemoveFinalizer, Finish, Quiet
  <1>1. CASE ctl.s \notin DOMAIN crs
    BY <1>0, <1>1, IdleUnhurried DEF DeleteMarked, RemoveFinalizer, Finish
  <1>2. CASE ctl.s \in DOMAIN crs
    <2> DEFINE s == ctl.s
    <2>1. crs[s] \in CR
      BY <1>2 DEF IInv, CrsOK
    <2>2. CASE DeleteMarked
      <3>1. crs[s].marked
        BY <1>2, <2>2 DEF DeleteMarked, Unhurried, DeletedLast
      <3>2. SameRole(crs[s], [crs[s] EXCEPT !.deleted = IF @ = "no" THEN "operator" ELSE @])
        BY <2>1, <3>1 DEF SameRole, CR
      <3> QED BY <1>0, <1>2, <2>2, <3>1, <3>2, EndUnhurried DEF DeleteMarked
    <2>3. CASE RemoveFinalizer
      <3>1. SameRole(crs[s], [crs[s] EXCEPT !.finalizer = FALSE])
        BY <2>1 DEF SameRole, CR
      <3>2. ~ListenerDue
        BY <2>3, NoneDue DEF RemoveFinalizer
      <3> QED BY <1>0, <1>2, <2>3, <3>1, <3>2, EndUnhurried DEF RemoveFinalizer
    <2>4. CASE Finish
      <3>1. SameRole(crs[s], [crs[s] EXCEPT !.ready = "True", !.finalizer = TRUE])
        BY <2>1 DEF SameRole, CR
      <3>2. ~ListenerDue
        BY <2>4, NoneDue DEF Finish
      <3> QED BY <1>0, <1>2, <2>4, <3>1, <3>2, EndUnhurried DEF Finish
    <2> QED BY <2>2, <2>3, <2>4
  <1> QED BY <1>1, <1>2

\* A failed call.
LEMMA FailUnhurried ==
    ASSUME OneCR, IInv, Unhurried, NEW why, Fail(why), ctl.pc \in ServerSteps,
           UNCHANGED <<server, stream, lst>>
    PROVE  Unhurried'
  <1>1. ctl.s \in DOMAIN crs /\ crs[ctl.s] \in CR
    BY DEF Unhurried, CopyFresh, IInv, CrsOK
  <1>2. SameRole(crs[ctl.s], NotReady(crs[ctl.s], why))
    BY <1>1 DEF SameRole, CR, NotReady
  <1>3. ~ListenerDue
    BY NoneDue DEF ServerSteps
  <1>4. EndWith(ctl.s, NotReady(crs[ctl.s], why), why # "ExistsFailed")
    BY <1>1 DEF Fail
  <1> QED BY <1>1, <1>2, <1>3, <1>4, EndUnhurried

\* The steps that end with the write they begin with.
LEMMA FirstWriteUnhurried ==
    ASSUME OneCR, IInv, Unhurried, NEW s \in Slots,
           \/ Pause(s) \/ AddStrategy(s) \/ ClusterMissing(s) \/ ClusterNotFormed(s) \/ SchemaNotReady(s)
    PROVE  Unhurried'
  <1>1. s \in DOMAIN crs /\ s \in queue /\ ~crs[s].marked /\ UNCHANGED <<server, stream, lst>>
    BY DEF Pause, AddStrategy, ClusterMissing, ClusterNotFormed, SchemaNotReady, Formed, Begun, Taken, Quiet
  <1>2. crs[s] \in CR /\ crs[s].spec \in CacheSpec
    BY <1>1 DEF IInv, CrsOK, CR
  <1>3. ~ListenerDue
    BY <1>1 DEF Unhurried, ListenerFirst
  <1>4. CASE Pause(s)
    <2>1. SameRole(crs[s], [crs[s] EXCEPT !.pausedCond = crs[s].paused])
      BY <1>2 DEF SameRole, CR
    <2> QED BY <1>1, <1>3, <1>4, <2>1, EndUnhurried DEF Pause
  <1>5. CASE AddStrategy(s)
    <2> DEFINE sp == [crs[s].spec EXCEPT !.strategy = "retain"]
    <2>1. sp.template = crs[s].spec.template /\ sp.named = crs[s].spec.named
      BY <1>2 DEF CacheSpec
    <2> HIDE DEF sp
    <2>2. SameRole(crs[s], Respec(crs[s], sp))
      BY <1>1, <1>2, <2>1 DEF SameRole, CR, Respec
    <2>3. EndWith(s, Respec(crs[s], sp), TRUE)
      BY <1>5 DEF AddStrategy, sp
    <2> QED BY <1>1, <1>3, <2>2, <2>3, EndUnhurried
  <1>6. CASE ClusterMissing(s)
    <2> DEFINE c == IF crs[s].deleted = "no" THEN NotReady(crs[s], "NoCluster")
                    ELSE [crs[s] EXCEPT !.finalizer = FALSE]
    <2>1. SameRole(crs[s], c)
      BY <1>2 DEF SameRole, CR, NotReady
    <2>2. EndWith(s, c, FALSE)
      BY <1>6 DEF ClusterMissing
    <2> HIDE DEF c
    <2> QED BY <1>1, <1>3, <2>1, <2>2, EndUnhurried
  <1>7. CASE ClusterNotFormed(s)
    <2>1. SameRole(crs[s], crs[s])
      BY DEF SameRole
    <2> QED BY <1>1, <1>3, <1>7, <2>1, EndUnhurried DEF ClusterNotFormed
  <1>8. CASE SchemaNotReady(s)
    <2>1. SameRole(crs[s], NotReady(crs[s], "NoSchema"))
      BY <1>2 DEF SameRole, CR, NotReady
    <2> QED BY <1>1, <1>3, <1>8, <2>1, EndUnhurried DEF SchemaNotReady
  <1> QED BY <1>4, <1>5, <1>6, <1>7, <1>8

\* Nothing is found.
LEMMA NotFoundUnhurried == ASSUME Unhurried, NEW s \in Slots, NotFound(s) PROVE Unhurried'
  <1>1. UNCHANGED <<crs, ctl, server, stream, lst>> /\ queue' \subseteq queue
    BY DEF NotFound, Quiet
  <1>2. \A w : By(w)' <=> By(w)
    BY <1>1, SameBy
  <1>3. ListenerDue' <=> ListenerDue
    BY <1>1, <1>2 DEF ListenerDue
  <1> QED
    BY <1>1, <1>2, <1>3 DEF Unhurried, ListenerFirst, DeletedLast, CopyFresh, Agreed, Announced

\* The finalizer of a marked resource goes.
LEMMA RemoveMarkedUnhurried ==
    ASSUME OneCR, IInv, Unhurried, NEW s \in Slots, RemoveMarked(s)
    PROVE  Unhurried'
  <1> DEFINE c == [crs[s] EXCEPT !.finalizer = FALSE]
  <1>1. s \in DOMAIN crs /\ crs[s].marked /\ Patch(s, c) /\ UNCHANGED <<server, stream, lst>>
    BY DEF RemoveMarked, Quiet
  <1>2. DOMAIN crs = {s} /\ crs[s] \in CR
    BY <1>1, Alone DEF IInv, CrsOK
  <1>3. SameRole(crs[s], c) /\ c.spec = crs[s].spec /\ c.deleted = crs[s].deleted
    BY <1>2 DEF SameRole, CR
  <1> HIDE DEF c
  <1>4. DOMAIN crs' \subseteq {s} /\ \A t \in DOMAIN crs' : t = s /\ crs'[t] = c
    BY <1>1, <1>2, PatchShape
  <1>5. ctl'.pc = "deleteCR" /\ ctl'.s = s
    BY IdleTypes DEF RemoveMarked, CtlType
  <1>6. \A w : By(w)' <=> By(w)
    BY <1>1, SameBy
  <1>7. ListenerDue' <=> ListenerDue
    BY <1>1, <1>6 DEF ListenerDue
  <1>8. ListenerFirst'
    BY <1>1, <1>2, <1>3, <1>4, <1>5, <1>6, <1>7 DEF Unhurried, ListenerFirst, SameRole
  <1>9. DeletedLast'
    BY <1>1, <1>2, <1>3, <1>4, <1>5, <1>6 DEF Unhurried, DeletedLast, SameRole
  <1>10. ~By("update") /\ ~By("recreation")
    BY <1>1 DEF Unhurried, Agreed, Kept
  <1>11. CopyFresh' /\ Agreed'
    BY <1>5, <1>6, <1>10 DEF CopyFresh, Agreed, ServerSteps, By
  <1>12. Announced'
    BY <1>1, <1>2, <1>3, <1>4, <1>5, <1>6, <1>10 DEF Unhurried, Announced, SameRole, Plain
  <1> QED BY <1>8, <1>9, <1>11, <1>12 DEF Unhurried

\* Every event is of one of four ends.
LEMMA EventEnds ==
    ASSUME ListenerOK, NEW i \in DOMAIN stream
    PROVE  stream[i].by \in {"deletion", "recreation", "update", "client"} /\ By(stream[i].by)
  <1>1. stream[i] \in ConfigEvent
    BY DEF ListenerOK
  <1> QED BY <1>1 DEF ConfigEvent, Event, By

\* While the listener has nothing the controller does not know of, it writes
\* no spec.
LEMMA NoWriteDue ==
    ASSUME IInv, Unhurried, ~By("client")
    PROVE  lst.pc \notin {"create", "get", "patch"}
  BY HeadIndex DEF Unhurried, ListenerFirst, By, IInv, ListenerOK

\* A deleted resource's cache goes.
LEMMA DeleteOnServerUnhurried ==
    ASSUME OneCR, IInv, Unhurried, NEW s \in Slots, DeleteOnServer(s)
    PROVE  Unhurried'
  <1>1. /\ s \in DOMAIN crs /\ s \in queue /\ ~crs[s].marked /\ crs[s].deleted # "no"
        /\ UNCHANGED <<crs, lst>> /\ ctl' = [pc |-> "unfinalize", s |-> s, spec |-> crs[s].spec]
    BY DEF DeleteOnServer, Formed, Begun, Taken, Proceed
  <1>2. DOMAIN crs = {s}
    BY <1>1, Alone
  <1>3. ~ListenerDue /\ ~By("client") /\ ~By("update") /\ ~By("recreation")
    BY <1>1 DEF Unhurried, ListenerFirst, ListenerDue, Agreed, Kept
  <1>4. \A i \in DOMAIN stream : stream[i].by = "deletion"
    BY <1>3, EventEnds DEF IInv
  <1>5. /\ \A i \in DOMAIN stream' : stream'[i].by = "deletion"
        /\ stream # <<>> => Head(stream') = Head(stream)
    <2>1. CASE UNCHANGED stream
      BY <1>4, <2>1
    <2>2. CASE Emit("remove", NoConfig, "deletion")
      <3>1. \A i \in DOMAIN stream' :
               \/ i \in DOMAIN stream /\ stream'[i] = stream[i]
               \/ stream'[i] = [kind |-> "remove", config |-> NoConfig, by |-> "deletion"]
        BY <2>2, EmitEvents DEF IInv
      <3>2. stream # <<>> => Head(stream') = Head(stream)
        BY <2>2, EmitEvents DEF IInv
      <3> QED BY <1>4, <3>1, <3>2
    <2> QED BY <2>1, <2>2 DEF DeleteOnServer
  <1>6. ~By("client")' /\ ~By("update")' /\ ~By("recreation")'
    BY <1>5 DEF By
  <1>7. lst.pc \notin {"create", "get", "patch"}
    BY <1>3, NoWriteDue
  <1>8. lst.pc = "mark" => stream # <<>>
    BY DEF IInv, ListenerOK
  <1>9. ListenerFirst'
    BY <1>1, <1>3, <1>6, <1>7 DEF ListenerFirst, ListenerDue
  <1>10. DeletedLast'
    BY <1>1, <1>2, <1>5 DEF DeletedLast
  <1>11. CopyFresh' /\ Agreed'
    BY <1>1, <1>6 DEF CopyFresh, ServerSteps, Agreed, By
  <1>12. Announced'
    BY <1>1, <1>5, <1>6, <1>8 DEF Unhurried, Announced, By
  <1> QED BY <1>9, <1>10, <1>11, <1>12 DEF Unhurried

\* A reconciliation that begins copies the spec.
LEMMA StartUnhurried ==
    ASSUME OneCR, IInv, Unhurried, NEW s \in Slots, StartServerCalls(s)
    PROVE  Unhurried'
  <1>1. /\ s \in DOMAIN crs /\ s \in queue /\ Kept(crs[s]) /\ queue' \subseteq queue
        /\ UNCHANGED <<crs, server, stream, lst>>
        /\ \E pc \in {"exists", "finish"} : ctl' = [pc |-> pc, s |-> s, spec |-> crs[s].spec]
    BY DEF StartServerCalls, Formed, Begun, Taken, Proceed, Quiet, Kept
  <1>2. ctl'.pc \in {"exists", "finish"} /\ ctl'.s = s /\ ctl'.spec = crs[s].spec
    BY <1>1
  <1>3. ~ListenerDue /\ ~By("client") /\ ~By("deletion")
    BY <1>1 DEF Unhurried, ListenerFirst, DeletedLast, ListenerDue, Kept
  <1>4. \A w : By(w)' <=> By(w)
    BY <1>1, SameBy
  <1>5. ListenerFirst'
    BY <1>1, <1>3, <1>4 DEF Unhurried, ListenerFirst, ListenerDue
  <1>6. DeletedLast' /\ CopyFresh'
    BY <1>1, <1>2, <1>3, <1>4 DEF DeletedLast, CopyFresh
  <1>7. Agreed' /\ Announced'
    BY <1>1, <1>2, <1>4 DEF Unhurried, Agreed, Announced
  <1> QED BY <1>5, <1>6, <1>7 DEF Unhurried

\* A reconciliation goes on to its next call.
LEMMA GotoUnhurried ==
    ASSUME IInv, Unhurried, ctl.pc \in ServerSteps, NEW pc \in ServerSteps, Goto(pc),
           UNCHANGED <<server, stream, lst>>,
           pc \in {"update", "annotate", "erase"} => ~By("recreation"),
           pc = "erase" => crs[ctl.s].controllerDelete
    PROVE  Unhurried'
  <1>1. UNCHANGED <<crs, queue>> /\ ctl'.pc = pc /\ ctl'.s = ctl.s /\ ctl'.spec = ctl.spec
    BY DEF Goto, IInv, CtlOK, CtlType
  <1>2. ~ListenerDue /\ ~By("client") /\ ~By("deletion")
    BY NoneDue DEF ServerSteps
  <1>3. \A w : By(w)' <=> By(w)
    BY SameBy
  <1>4. ListenerFirst'
    BY <1>1, <1>2, <1>3 DEF Unhurried, ListenerFirst, ListenerDue
  <1>5. DeletedLast' /\ CopyFresh'
    BY <1>1, <1>2, <1>3 DEF Unhurried, DeletedLast, CopyFresh, ServerSteps
  <1>6. Agreed' /\ Announced'
    BY <1>1, <1>3 DEF Unhurried, Agreed, Announced
  <1> QED BY <1>4, <1>5, <1>6 DEF Unhurried

\* The calls that read the server: a cache that was created for the resource
\* is found to agree with it.
LEMMA ReadServerUnhurried ==
    ASSUME OneCR, IInv, Unhurried, Exists \/ Compare
    PROVE  Unhurried'
  <1>1. ctl.pc \in ServerSteps /\ UNCHANGED <<server, stream, lst>>
    BY DEF Exists, Compare, Quiet, ServerSteps
  <1>2. CASE \E why : Fail(why)
    BY <1>1, <1>2, FailUnhurried
  <1>3. CASE \E pc \in {"create", "finish", "compare"} : Goto(pc)
    BY <1>1, <1>3, GotoUnhurried DEF ServerSteps
  <1>4. CASE Compare /\ Goto("update") /\ server # NoConfig /\ server # ctl.spec.template
    <2>1. ~By("recreation")
      BY <1>1, <1>4 DEF Unhurried, Announced, CopyFresh
    <2> QED BY <1>1, <1>4, <2>1, GotoUnhurried DEF ServerSteps
  <1> QED BY <1>2, <1>3, <1>4 DEF Exists, Compare

\* A cache the controller sets agrees with the resource.
LEMMA SetUnhurried ==
    ASSUME OneCR, IInv, Unhurried, ctl.pc \in {"update", "create", "recreate"}, NEW c \in Configs,
           Goto("finish"), server' = c, Emit("set", c, "update"), UNCHANGED lst,
           ctl.spec.template \in {NoConfig, c}
    PROVE  Unhurried'
  <1>1. UNCHANGED <<crs, queue>> /\ ctl'.pc = "finish" /\ ctl'.s = ctl.s /\ ctl'.spec = ctl.spec
    BY DEF Goto, IInv, CtlOK, CtlType
  <1>2. ~ListenerDue /\ ~By("client") /\ ~By("deletion")
    BY NoneDue DEF ServerSteps
  <1>3. /\ ctl.s \in DOMAIN crs /\ Kept(crs[ctl.s]) /\ crs[ctl.s].spec = ctl.spec
        /\ DOMAIN crs = {ctl.s}
    BY Alone DEF Unhurried, CopyFresh, ServerSteps
  <1>4. /\ \A i \in DOMAIN stream' :
              \/ i \in DOMAIN stream /\ stream'[i] = stream[i]
              \/ i = Len(stream) + 1 /\ stream'[i] = [kind |-> "set", config |-> c, by |-> "update"]
        /\ \A w : By(w)' => By(w) \/ w = "update"
        /\ stream # <<>> => stream' # <<>> /\ Head(stream') = Head(stream)
    BY EmitEvents DEF IInv
  <1>5. lst.pc \notin {"create", "get", "patch"} /\ (lst.pc = "mark" => stream # <<>>)
    BY <1>2, NoWriteDue DEF IInv, ListenerOK
  <1>6. ListenerFirst'
    BY <1>1, <1>2, <1>4, <1>5 DEF ListenerFirst, ListenerDue
  <1>7. DeletedLast' /\ CopyFresh'
    BY <1>1, <1>2, <1>3, <1>4 DEF DeletedLast, CopyFresh
  <1>8. Agreed'
    BY <1>1, <1>3, <1>4 DEF Unhurried, Agreed
  <1>9. Announced'
    <2>1. By("recreation")' => By("recreation")
      BY <1>4
    <2>2. \A i, j \in DOMAIN stream' :
             stream'[i].by = "recreation" /\ stream'[j].by = "recreation" => i = j
      BY <1>4 DEF Unhurried, Announced
    <2> QED BY <1>1, <1>3, <1>4, <1>5, <2>1, <2>2 DEF Unhurried, Announced
  <1> QED BY <1>6, <1>7, <1>8, <1>9 DEF Unhurried

\* The cache is changed at runtime, or is to be recreated.
LEMMA UpdateConfigUnhurried ==
    ASSUME OneCR, IInv, Unhurried, UpdateConfig
    PROVE  Unhurried'
  <1>1. ctl.pc = "update" /\ UNCHANGED lst
    BY DEF UpdateConfig
  <1>2. ctl.spec.template \in Configs
    BY <1>1 DEF IInv, CtlOK, CtlType, CacheSpec
  <1>3. CASE Goto("finish") /\ server' = ctl.spec.template /\ Emit("set", ctl.spec.template, "update")
    BY <1>1, <1>2, <1>3, SetUnhurried
  <1>4. CASE UNCHANGED <<server, stream>> /\ Goto("annotate")
    <2>1. ~By("recreation")
      BY <1>1 DEF Unhurried, Announced
    <2> QED BY <1>1, <1>4, <2>1, GotoUnhurried DEF ServerSteps
  <1>5. CASE UNCHANGED <<server, stream>> /\ Fail("Refused")
    BY <1>1, <1>5, FailUnhurried DEF ServerSteps
  <1> QED BY <1>3, <1>4, <1>5 DEF UpdateConfig

\* The cache is created.
LEMMA CreateOnServerUnhurried ==
    ASSUME OneCR, IInv, Unhurried, CreateOnServer
    PROVE  Unhurried'
  <1>1. ctl.pc \in {"create", "recreate"} /\ UNCHANGED lst
    BY DEF CreateOnServer
  <1>2. CASE UNCHANGED <<server, stream>> /\ Fail("Refused")
    BY <1>1, <1>2, FailUnhurried DEF ServerSteps
  <1>3. CASE Goto("finish") /\ server' = CreatedConfig /\ Emit("set", CreatedConfig, "update")
    <2>1. CreatedConfig \in Configs
      BY <1>1, CreatedConfigType DEF IInv
    <2>2. Plain(ctl.spec)
      BY <1>1 DEF Unhurried, CopyFresh, Announced, ServerSteps
    <2>3. ctl.spec.template \in {NoConfig, CreatedConfig}
      BY <2>2 DEF CreatedConfig, Plain
    <2> HIDE DEF CreatedConfig
    <2> QED BY <1>1, <1>3, <2>1, <2>3, SetUnhurried
  <1> QED BY <1>2, <1>3 DEF CreateOnServer, CreatedConfig

\* The removal is announced.
LEMMA AnnotateUnhurried ==
    ASSUME OneCR, IInv, Unhurried, Annotate
    PROVE  Unhurried'
  <1> DEFINE s == ctl.s
             c == [crs[s] EXCEPT !.controllerDelete = TRUE]
  <1>1. ctl.pc = "annotate" /\ UNCHANGED <<server, stream, lst>>
    BY DEF Annotate, Quiet
  <1>2. s \in DOMAIN crs /\ Kept(crs[s]) /\ ctl.spec = crs[s].spec /\ crs[s] \in CR /\ DOMAIN crs = {s}
    BY <1>1, Alone DEF Unhurried, CopyFresh, ServerSteps, IInv, CrsOK
  <1>3. Patch(s, c) /\ ctl' = [ctl EXCEPT !.pc = "erase"]
    BY <1>2 DEF Annotate
  <1>4. Kept(c) /\ c.spec = crs[s].spec /\ c.controllerDelete
    BY <1>2 DEF Kept, CR
  <1> HIDE DEF c
  <1>5. DOMAIN crs' = {s} /\ crs'[s] = c
    BY <1>2, <1>3, <1>4, PatchShape DEF Kept
  <1>6. ctl'.pc = "erase" /\ ctl'.s = s /\ ctl'.spec = ctl.spec
    BY <1>3 DEF IInv, CtlOK, CtlType
  <1>7. ~ListenerDue /\ ~By("client") /\ ~By("deletion") /\ ~By("recreation")
    BY <1>1, NoneDue DEF ServerSteps, Unhurried, Announced
  <1>8. \A w : By(w)' <=> By(w)
    BY <1>1, SameBy
  <1>9. ListenerFirst'
    BY <1>1, <1>7, <1>8, NoWriteDue DEF ListenerFirst, ListenerDue
  <1>10. DeletedLast' /\ CopyFresh'
    BY <1>2, <1>4, <1>5, <1>6, <1>7, <1>8 DEF DeletedLast, CopyFresh
  <1>11. Agreed'
    BY <1>1, <1>2, <1>4, <1>5, <1>8 DEF Unhurried, Agreed
  <1>12. Announced'
    BY <1>1, <1>2, <1>4, <1>5, <1>6, <1>7, <1>8 DEF Unhurried, Announced
  <1> QED BY <1>9, <1>10, <1>11, <1>12 DEF Unhurried

\* The cache goes, and the announced removal is on its way.
LEMMA EraseUnhurried ==
    ASSUME OneCR, IInv, Unhurried, Erase
    PROVE  Unhurried'
  <1>1. ctl.pc = "erase" /\ Goto("recreate") /\ server' = NoConfig /\ UNCHANGED lst
    BY DEF Erase
  <1>2. UNCHANGED <<crs, queue>> /\ ctl'.pc = "recreate" /\ ctl'.s = ctl.s /\ ctl'.spec = ctl.spec
    BY <1>1 DEF Goto, IInv, CtlOK, CtlType
  <1>3. ~ListenerDue /\ ~By("client") /\ ~By("deletion") /\ ~By("recreation")
    BY <1>1, NoneDue DEF ServerSteps, Unhurried, Announced
  <1>4. /\ ctl.s \in DOMAIN crs /\ Kept(crs[ctl.s]) /\ crs[ctl.s].spec = ctl.spec
        /\ DOMAIN crs = {ctl.s} /\ crs[ctl.s].controllerDelete /\ ctl.spec.template # NoConfig
    BY <1>1, Alone DEF Unhurried, CopyFresh, ServerSteps, Announced, IInv, CtlOK
  <1>5. /\ \A i \in DOMAIN stream' :
              \/ i \in DOMAIN stream /\ stream'[i] = stream[i]
              \/ i = Len(stream) + 1 /\ stream'[i] = [kind |-> "remove", config |-> NoConfig, by |-> "recreation"]
        /\ \A w : By(w)' => By(w) \/ w = "recreation"
        /\ stream # <<>> => stream' # <<>> /\ Head(stream') = Head(stream)
    <2>1. CASE UNCHANGED stream
      BY <2>1, SameBy
    <2>2. CASE Emit("remove", NoConfig, "recreation")
      BY <2>2, EmitEvents DEF IInv
    <2> QED BY <2>1, <2>2 DEF Erase
  <1>6. lst.pc \notin {"create", "get", "patch"} /\ (lst.pc = "mark" => stream # <<>>)
    BY <1>3, NoWriteDue DEF IInv, ListenerOK
  <1>7. ListenerFirst'
    BY <1>1, <1>2, <1>3, <1>5, <1>6 DEF ListenerFirst, ListenerDue
  <1>8. DeletedLast' /\ CopyFresh'
    BY <1>2, <1>3, <1>4, <1>5 DEF DeletedLast, CopyFresh
  <1>9. Agreed'
    BY <1>2, <1>4, <1>5 DEF Unhurried, Agreed
  <1>10. Announced'
    <2>1. \A i \in DOMAIN stream' : stream'[i].by = "recreation" => i = Len(stream) + 1
      BY <1>3, <1>5 DEF By
    <2> QED BY <1>1, <1>2, <1>4, <1>5, <1>6, <2>1 DEF Unhurried, Announced
  <1> QED BY <1>7, <1>8, <1>9, <1>10 DEF Unhurried

\* A step of the controller.
LEMMA ReconcileUnhurried == ASSUME OneCR, IInv, Unhurried, Reconcile PROVE Unhurried'
  BY NotFoundUnhurried, RemoveMarkedUnhurried, FirstWriteUnhurried, DeleteOnServerUnhurried,
     StartUnhurried, LastWriteUnhurried, ReadServerUnhurried, UpdateConfigUnhurried,
     AnnotateUnhurried, EraseUnhurried, CreateOnServerUnhurried
  DEF Reconcile

\* A failed call ends the reconciliation, or is taken for a refusal.
LEMMA CallFailsUnhurried == ASSUME OneCR, IInv, Unhurried, CallFails PROVE Unhurried'
  <1>1. UNCHANGED <<server, stream, lst>> /\ ctl.pc \in ServerSteps
    BY DEF CallFails, ServerSteps
  <1>2. CASE ctl.pc = "update" /\ Goto("annotate")
    <2>1. ~By("recreation")
      BY <1>2 DEF Unhurried, Announced
    <2> QED BY <1>1, <1>2, <2>1, GotoUnhurried DEF ServerSteps
  <1>3. CASE \E why : Fail(why)
    BY <1>1, <1>3, FailUnhurried
  <1> QED BY <1>2, <1>3 DEF CallFails

\* A restarted operator queues every resource: while the listener has
\* something to carry over, that is the marked one it was about to delete.
LEMMA OperatorCrashUnhurried == ASSUME IInv, Unhurried, OperatorCrash PROVE Unhurried'
  <1>1. ctl.pc # "idle" /\ ctl'.pc = "idle" /\ queue' = DOMAIN crs /\ UNCHANGED <<crs, server, stream, lst>>
    BY IdleTypes DEF OperatorCrash
  <1>2. \A w : By(w)' <=> By(w)
    BY <1>1, SameBy
  <1>3. ListenerDue' <=> ListenerDue
    BY <1>1, <1>2 DEF ListenerDue
  <1>4. ListenerDue => \A s \in DOMAIN crs : crs[s].marked
    BY <1>1 DEF Unhurried, ListenerFirst, DeletedLast
  <1> QED
    BY <1>1, <1>2, <1>3, <1>4
    DEF Unhurried, ListenerFirst, DeletedLast, CopyFresh, ServerSteps, Agreed, Announced

\* The handling of an event that changes nothing.
LEMMA IgnoredUnhurried ==
    ASSUME IInv, Unhurried, stream # <<>>, Handled, UNCHANGED <<crs, queue, ctl, server>>
    PROVE  Unhurried'
  <1>1. /\ \A i \in DOMAIN stream' : i + 1 \in DOMAIN stream /\ stream'[i] = stream[i + 1]
        /\ Len(stream) = 1 => stream' = <<>>
        /\ \A w : By(w)' => By(w)
        /\ lst'.pc = "idle"
    BY HandledEvents DEF IInv
  <1>2. ~ListenerDue' /\ ~By("client")'
    BY <1>1 DEF Unhurried, ListenerFirst, ListenerDue, By
  <1>3. ListenerFirst' /\ DeletedLast' /\ CopyFresh' /\ Agreed'
    BY <1>1, <1>2 DEF Unhurried, ListenerFirst, DeletedLast, CopyFresh, Agreed
  <1>4. \A i, j \in DOMAIN stream' :
           stream'[i].by = "recreation" /\ stream'[j].by = "recreation" => i = j
    <2> SUFFICES ASSUME NEW i \in DOMAIN stream', NEW j \in DOMAIN stream',
                        stream'[i].by = "recreation", stream'[j].by = "recreation"
                 PROVE  i = j
      OBVIOUS
    <2>1. i + 1 = j + 1
      BY <1>1 DEF Unhurried, Announced
    <2>2. i \in Nat /\ j \in Nat
      BY HandledOK DEF IInv, ListenerOK
    <2> QED BY <2>1, <2>2
  <1>5. Announced'
    BY <1>1, <1>4 DEF Unhurried, Announced
  <1> QED BY <1>3, <1>5 DEF Unhurried

\* What a client did is carried over: nothing else is on its way.
LEMMA CarriedUnhurried ==
    ASSUME IInv, Unhurried, stream # <<>>, Head(stream).by = "client", Handled, UNCHANGED ctl,
           \A s \in DOMAIN crs' : Plain(crs'[s].spec),
           ctl.pc = "deleteCR" /\ ctl.s \in DOMAIN crs' => crs'[ctl.s].marked
    PROVE  Unhurried'
  <1>1. By("client")
    BY HeadIndex DEF By, IInv
  <1>2. stream' = <<>> /\ lst'.pc = "idle"
    BY <1>1, HandledEvents DEF Unhurried, ListenerFirst, IInv
  <1>3. ctl.pc \in {"idle", "deleteCR"}
    BY <1>1 DEF Unhurried, ListenerFirst, ListenerDue
  <1>4. \A w : ~By(w)'
    BY <1>2 DEF By
  <1> QED
    BY <1>2, <1>3, <1>4
    DEF Unhurried, ListenerFirst, ListenerDue, DeletedLast, CopyFresh, ServerSteps, Agreed, Announced

\* A new listener reads the names, marks the stale resources, and subscribes.
LEMMA SweepUnhurried ==
    ASSUME OneCR, IInv, EventsOK, Unhurried, ReadNames \/ RemoveStaleResources \/ Subscribe
    PROVE  Unhurried'
  <1>1. lst.pc \in {"sweep", "sweepList", "subscribe"} /\ ListenerDue /\ UNCHANGED <<ctl, server>>
    BY DEF ReadNames, RemoveStaleResources, Subscribe, ListenerDue, Listener
  <1>2. stream = <<>>
    BY <1>1 DEF EventsOK, Connected
  <1>3. /\ ctl.pc \in {"idle", "deleteCR"}
        /\ \A s \in queue \cap DOMAIN crs : crs[s].marked
        /\ ctl.pc = "deleteCR" => \A s \in DOMAIN crs : s = ctl.s /\ crs[s].marked
    BY <1>1 DEF Unhurried, ListenerFirst, DeletedLast
  <1>4. \A s \in DOMAIN crs : Plain(crs[s].spec) /\ crs[s] \in CR
    BY DEF Unhurried, Announced, IInv, CrsOK
  <1>5. /\ lst'.pc \in {"sweepList", "subscribe", "idle"}
        /\ \A i \in DOMAIN stream' : stream'[i].by = "client"
        /\ stream' # <<>> => Len(stream') = 1
    <2>1. CASE ReadNames
      BY <1>2, <2>1 DEF ReadNames, IInv, ListenerOK, LstType
    <2>2. CASE RemoveStaleResources
      BY <1>2, <2>2, IdleTypes DEF RemoveStaleResources, LstType
    <2>3. CASE Subscribe
      BY <2>3, IdleTypes DEF Subscribe
    <2> QED BY <2>1, <2>2, <2>3
  <1>6. \A w : w # "client" => ~By(w)'
    BY <1>5 DEF By
  <1>7. /\ DOMAIN crs' = DOMAIN crs
        /\ \A s \in DOMAIN crs : crs'[s].spec = crs[s].spec /\ (crs[s].marked => crs'[s].marked)
        /\ \A s \in queue' \cap DOMAIN crs : crs'[s].marked
    <2>1. CASE UNCHANGED <<crs, queue>>
      BY <1>3, <2>1
    <2>2. CASE RemoveStaleResources
      <3>1. crs' = [s \in DOMAIN crs |-> [crs[s] EXCEPT !.marked = @ \/ Stale(s)]]
            /\ queue' = queue \cup {s \in DOMAIN crs : crs'[s] # crs[s]}
        BY <2>2 DEF RemoveStaleResources
      <3>2. ASSUME NEW s \in DOMAIN crs
            PROVE  /\ crs'[s].spec = crs[s].spec /\ (crs[s].marked => crs'[s].marked)
                   /\ crs'[s] # crs[s] => crs'[s].marked
        <4> DEFINE m == crs[s].marked \/ Stale(s)
        <4>1. crs'[s] = [crs[s] EXCEPT !.marked = m] /\ m \in BOOLEAN
          BY <3>1
        <4>2. crs[s] \in CR /\ (crs[s].marked => m)
          BY <1>4
        <4> HIDE DEF m
        <4>3. ~m => crs'[s] = crs[s]
          BY <4>1, <4>2 DEF CR
        <4> QED BY <4>1, <4>2, <4>3 DEF CR
      <3> QED BY <1>3, <3>1, <3>2
    <2> QED BY <2>1, <2>2 DEF ReadNames, Subscribe
  <1>8. ListenerFirst'
    <2>1. By("client")' => Len(stream') = 1
      BY <1>5 DEF By
    <2> QED BY <1>1, <1>3, <1>5, <1>7, <2>1 DEF ListenerFirst
  <1>9. DeletedLast' /\ CopyFresh' /\ Agreed'
    BY <1>1, <1>3, <1>5, <1>6, <1>7 DEF DeletedLast, CopyFresh, ServerSteps, Agreed
  <1>10. Announced'
    BY <1>1, <1>3, <1>4, <1>5, <1>6, <1>7 DEF Announced
  <1> QED BY <1>8, <1>9, <1>10 DEF Unhurried

\* The listener turns to an event: it writes only for what a client did, and
\* takes a removal it was told to expect for what it is.
LEMMA FindUnhurried ==
    ASSUME OneCR, IInv, EventsOK, Unhurried, FindForSet \/ FindForRemove
    PROVE  Unhurried'
  <1>1. UNCHANGED <<crs, queue, stream, ctl, server>> /\ lst.pc = "idle" /\ stream # <<>>
    BY DEF FindForSet, FindForRemove, Received, Listener
  <1>2. 1 \in DOMAIN stream /\ Head(stream) = stream[1]
        /\ stream[1].by \in {"deletion", "recreation", "update", "client"} /\ By(stream[1].by)
    BY <1>1, HeadIndex, EventEnds DEF IInv
  <1>3. \A w : By(w)' <=> By(w)
    BY <1>1, SameBy
  <1>4. CASE FindForSet
    <2>1. Head(stream).kind = "set"
      BY <1>4 DEF FindForSet, Received
    <2>2. lst'.pc \in {"create", "get"}
      BY <1>4, IdleTypes DEF FindForSet, LstType
    <2>3. Head(stream).by # "update"
      <3> SUFFICES ASSUME Head(stream).by = "update" PROVE FALSE
        OBVIOUS
      <3>1. DOMAIN crs # {} /\ \A s \in DOMAIN crs : crs[s].spec.template \in {NoConfig, Head(stream).config}
        BY <1>2 DEF Unhurried, Agreed
      <3>2. Cardinality(Existing) = 1 => TheExisting \in DOMAIN crs
        BY TheExistingSlot DEF IInv
      <3> QED BY <1>4, <3>1, <3>2 DEF FindForSet, Existing
    <2>4. Head(stream).by = "client"
      BY <1>2, <2>1, <2>3 DEF EventsOK
    <2>5. ListenerDue
      BY <1>2, <2>4 DEF ListenerDue
    <2> QED
      BY <1>1, <1>3, <2>2, <2>4, <2>5
      DEF Unhurried, ListenerFirst, ListenerDue, DeletedLast, CopyFresh, Agreed, Announced
  <1>5. CASE FindForRemove
    <2>1. TheExisting \in DOMAIN crs
      BY <1>5, TheExistingSlot DEF FindForRemove, IInv
    <2>2. /\ lst'.pc \in {"clear", "mark"}
          /\ lst'.pc = "mark" => ~crs[TheExisting].controllerDelete
      BY <1>5, IdleTypes DEF FindForRemove, LstType
    <2>3. lst'.pc = "mark" => Head(stream).by # "recreation"
      BY <1>2, <2>1, <2>2 DEF Unhurried, Announced
    <2>4. ListenerDue' <=> ListenerDue
      BY <1>1, <1>3, <2>2 DEF ListenerDue
    <2> QED
      BY <1>1, <1>3, <2>2, <2>3, <2>4
      DEF Unhurried, ListenerFirst, DeletedLast, CopyFresh, Agreed, Announced
  <1> QED BY <1>4, <1>5

\* The listener reads the resource again, writes it, or creates it.
LEMMA CarryUnhurried ==
    ASSUME OneCR, IInv, Unhurried, GetCR \/ PatchCR \/ CreateCR
    PROVE  Unhurried'
  <1>1. /\ UNCHANGED <<ctl, server>> /\ lst.pc \in {"get", "patch", "create"} /\ stream # <<>>
        /\ Head(stream).by = "client" /\ lst.config \in Configs
    BY DEF GetCR, PatchCR, CreateCR, Listener, IInv, ListenerOK, Unhurried, ListenerFirst
  <1>2. ListenerDue
    BY <1>1, HeadIndex DEF ListenerDue, By, IInv
  <1>3. \A s \in DOMAIN crs : Plain(crs[s].spec) /\ crs[s] \in CR /\ crs[s].spec \in CacheSpec
    BY DEF Unhurried, Announced, IInv, CrsOK, CR
  <1>4. ctl.pc = "deleteCR" /\ ctl.s \in DOMAIN crs => crs[ctl.s].marked
    BY DEF Unhurried, DeletedLast
  <1>5. CASE Handled /\ UNCHANGED <<crs, queue>>
    BY <1>1, <1>5, IgnoredUnhurried
  <1>6. CASE GetCR /\ lst.s \in DOMAIN crs
    <2>1. /\ lst'.pc = "patch" /\ lst'.s = lst.s /\ lst'.base = crs[lst.s].spec
          /\ UNCHANGED <<crs, queue, stream>>
      BY <1>6 DEF GetCR, IInv, ListenerOK, LstType
    <2>2. \A w : By(w)' <=> By(w)
      BY <2>1, SameBy
    <2>3. ListenerDue' <=> ListenerDue
      BY <1>1, <1>2, <2>2, HeadIndex DEF ListenerDue, By, IInv
    <2> QED
      BY <1>1, <2>1, <2>2, <2>3
      DEF Unhurried, ListenerFirst, DeletedLast, CopyFresh, Agreed, Announced
  <1>7. CASE PatchCR /\ lst.s \in DOMAIN crs
    <2> DEFINE s == lst.s
               sp == EventSpec(lst.base, lst.config)
               spec == Merged(crs[s].spec, lst.base, sp)
               c == [Respec(crs[s], spec) EXCEPT !.listenerGen = lst.gen + 1, !.finalizer = @ \/ ~lst.fin]
    <2>1. Handled /\ Patch(s, c) /\ crs[s].spec = lst.base
      BY <1>7 DEF PatchCR, Unhurried, ListenerFirst
    <2>2. spec \in CacheSpec /\ Plain(spec)
      <3>1. lst.base \in CacheSpec
        BY <1>3, <1>7, <2>1
      <3>2. spec \in CacheSpec
        BY <1>1, <2>1, <3>1, MergedType
      <3>3. DOMAIN lst.base = {"template", "named", "strategy", "refs"}
        BY <3>1 DEF CacheSpec
      <3>4. Plain(sp)
        BY DEF EventSpec, Plain
      <3>5. spec.template = sp.template /\ spec.named = sp.named
        BY <2>1, <3>3 DEF Merged
      <3> QED BY <3>2, <3>4, <3>5 DEF Plain
    <2> HIDE DEF spec
    <2>3. c.spec = spec /\ c.marked = crs[s].marked
      BY <1>3, <1>7 DEF Respec, CR
    <2> HIDE DEF c
    <2>4. \A t \in DOMAIN crs' : t \in DOMAIN crs /\ crs'[t] = IF t = s THEN c ELSE crs[t]
      BY <1>7, <2>1, PatchShape
    <2>5. \A t \in DOMAIN crs' : Plain(crs'[t].spec)
      BY <1>3, <2>2, <2>3, <2>4
    <2>6. ctl.pc = "deleteCR" /\ ctl.s \in DOMAIN crs' => crs'[ctl.s].marked
      BY <1>4, <2>3, <2>4
    <2> QED BY <1>1, <2>1, <2>5, <2>6, CarriedUnhurried
  <1>8. CASE CreateCR /\ ~UNCHANGED <<crs, queue>>
    <2> DEFINE s == GeneratedName
               sp == [NoSpec EXCEPT !.template = lst.config, !.strategy = "retain"]
    <2>1. Handled /\ crs' = With(s, NewCR(sp, TRUE)) /\ DOMAIN crs = {}
      BY <1>8, CreateCRShape DEF CreateCR, OneCR
    <2>2. s # ctl.s
      BY <2>1, GeneratedSlot
    <2> HIDE DEF s
    <2>3. ~sp.named
      BY DEF NoSpec
    <2> HIDE DEF sp
    <2>4. DOMAIN crs' = {s} /\ crs'[s].spec = sp
      BY <2>1 DEF With, NewCR
    <2>5. \A t \in DOMAIN crs' : Plain(crs'[t].spec)
      BY <2>3, <2>4 DEF Plain
    <2> QED BY <1>1, <2>1, <2>2, <2>4, <2>5, CarriedUnhurried
  <1> QED
    BY <1>5, <1>6, <1>7, <1>8 DEF GetCR, PatchCR, CreateCR

\* A removal is carried over: the resource is marked for one of a client, and
\* kept for the one that was announced.
LEMMA RemovalUnhurried ==
    ASSUME OneCR, IInv, EventsOK, Unhurried, RetainCR \/ MarkCR
    PROVE  Unhurried'
  <1>1. UNCHANGED <<ctl, server>> /\ lst.pc \in {"clear", "mark"} /\ stream # <<>> /\ Handled
    BY DEF RetainCR, MarkCR, Listener, IInv, ListenerOK
  <1>2. 1 \in DOMAIN stream /\ Head(stream) = stream[1]
        /\ stream[1].by \in {"deletion", "recreation", "update", "client"} /\ By(stream[1].by)
    BY <1>1, HeadIndex, EventEnds DEF IInv
  <1>3. Head(stream).by \in {"deletion", "recreation", "client"}
    BY <1>1, <1>2 DEF EventsOK
  <1>4. CASE UNCHANGED <<crs, queue>>
    BY <1>1, <1>4, IgnoredUnhurried
  <1>5. ASSUME lst.s \in DOMAIN crs PROVE crs[lst.s] \in CR
    BY <1>5 DEF IInv, CrsOK
  <1>6. CASE Head(stream).by = "client" /\ ~UNCHANGED <<crs, queue>>
    <2>1. PICK c : /\ lst.s \in DOMAIN crs /\ Patch(lst.s, c) /\ c.spec = crs[lst.s].spec
                   /\ crs[lst.s].marked => c.marked
      BY <1>5, <1>6 DEF RetainCR, MarkCR, CR
    <2>2. \A t \in DOMAIN crs' : t \in DOMAIN crs /\ crs'[t] = IF t = lst.s THEN c ELSE crs[t]
      BY <2>1, PatchShape
    <2>3. \A t \in DOMAIN crs' : Plain(crs'[t].spec)
      BY <2>1, <2>2 DEF Unhurried, Announced
    <2>4. ctl.pc = "deleteCR" /\ ctl.s \in DOMAIN crs' => crs'[ctl.s].marked
      BY <2>1, <2>2 DEF Unhurried, DeletedLast
    <2> QED BY <1>1, <1>6, <2>3, <2>4, CarriedUnhurried
  <1>7. CASE MarkCR /\ Head(stream).by # "client" /\ ~UNCHANGED <<crs, queue>>
    <2>1. Head(stream).by = "deletion"
      BY <1>3, <1>7 DEF MarkCR, Unhurried, Announced
    <2>2. lst.s \in DOMAIN crs /\ crs[lst.s].deleted = "no"
      BY <1>7 DEF MarkCR
    <2> QED BY <1>2, <2>1, <2>2 DEF Unhurried, DeletedLast
  <1>8. CASE RetainCR /\ Head(stream).by # "client" /\ ~UNCHANGED <<crs, queue>>
    <2> DEFINE s == lst.s
               c == [crs[s] EXCEPT !.controllerDelete = FALSE]
    <2>1. s \in DOMAIN crs /\ Patch(s, c) /\ DOMAIN crs = {s}
      BY <1>8, Alone DEF RetainCR
    <2>2. c.spec = crs[s].spec /\ c.marked = crs[s].marked /\ c.deleted = crs[s].deleted
      BY <1>5, <2>1 DEF CR
    <2> HIDE DEF c
    <2>3. DOMAIN crs' \subseteq {s} /\ (\A t \in DOMAIN crs' : t = s /\ crs'[t] = c)
          /\ (c.deleted = "no" => DOMAIN crs' = {s})
      BY <2>1, PatchShape
    <2>4. /\ \A i \in DOMAIN stream' : i + 1 \in DOMAIN stream /\ stream'[i] = stream[i + 1]
          /\ \A w : By(w)' => By(w)
          /\ lst'.pc = "idle"
      BY <1>1, HandledEvents DEF IInv
    <2>5. ~By("client")
      <3>1. stream \in Seq(ConfigEvent)
        BY DEF IInv, ListenerOK
      <3>2. By("client") => DOMAIN stream = {1}
        BY <3>1 DEF Unhurried, ListenerFirst
      <3> QED BY <1>2, <1>8, <3>2 DEF By
    <2>6. ~By("client")' /\ ~ListenerDue'
      BY <2>4, <2>5 DEF ListenerDue
    <2>7. \A i \in DOMAIN stream' : stream'[i].by # "recreation"
      <3> SUFFICES ASSUME NEW i \in DOMAIN stream', stream'[i].by = "recreation" PROVE FALSE
        OBVIOUS
      <3>1. i + 1 \in DOMAIN stream /\ stream[i + 1].by = "recreation" /\ i \in Nat \ {0}
        BY <2>4, <1>1, HandledOK DEF IInv, ListenerOK
      <3>2. CASE Head(stream).by = "recreation"
        BY <1>2, <3>1, <3>2 DEF Unhurried, Announced
      <3>3. CASE Head(stream).by = "deletion"
        BY <1>2, <3>1, <3>3 DEF Unhurried, DeletedLast
      <3> QED BY <1>3, <1>8, <3>2, <3>3
    <2>8. ctl.pc # "erase"
      BY <1>2, <1>3, <1>8 DEF Unhurried, Announced, DeletedLast
    <2>9. ListenerFirst' /\ DeletedLast'
      BY <1>1, <2>1, <2>2, <2>3, <2>4, <2>6 DEF Unhurried, ListenerFirst, DeletedLast
    <2>10. CopyFresh' /\ Agreed'
      BY <1>1, <2>1, <2>2, <2>3, <2>4 DEF Unhurried, CopyFresh, Agreed, Kept
    <2>11. Announced'
      BY <1>1, <2>1, <2>2, <2>3, <2>4, <2>7, <2>8 DEF Unhurried, Announced, By
    <2> QED BY <2>9, <2>10, <2>11 DEF Unhurried
  <1> QED BY <1>4, <1>6, <1>7, <1>8

\* A step of the listener.
LEMMA ListenUnhurried == ASSUME OneCR, IInv, EventsOK, Unhurried, Listen PROVE Unhurried'
  <1>1. CASE IgnoreSet \/ IgnoreRemove
    BY <1>1, IgnoredUnhurried DEF IgnoreSet, IgnoreRemove, Received, Listener
  <1> QED
    BY <1>1, SweepUnhurried, FindUnhurried, CarryUnhurried, RemovalUnhurried DEF Listen

\* Nothing is going on but what the listener has to carry over.
LEMMA RestUnhurried ==
    ASSUME ctl' = CtlIdle, lst'.pc \in {"idle", "stopped", "sweep"},
           \A i \in DOMAIN stream' : stream'[i].by = "client" /\ Len(stream') = 1,
           queue' = {} \/ (stream' = <<>> /\ lst'.pc # "sweep"),
           \A s \in DOMAIN crs' : Plain(crs'[s].spec)
    PROVE  Unhurried'
  <1>1. ctl'.pc = "idle"
    BY IdleTypes
  <1>2. \A w : By(w)' => w = "client" /\ Len(stream') = 1
    BY DEF By
  <1>3. stream' = <<>> => \A w : ~By(w)'
    BY DEF By
  <1>4. ListenerDue' => queue' = {}
    BY <1>3 DEF ListenerDue
  <1> QED
    BY <1>1, <1>2, <1>4
    DEF Unhurried, ListenerFirst, DeletedLast, CopyFresh, ServerSteps, Agreed, Announced

\* The user's specs name a template or give a configuration.
OneTemplate == \A p \in UserSpecs : Plain(p)

\* A user writes a resource.
LEMMA UserUnhurried ==
    ASSUME OneTemplate, IInv, Unhurried, hurry' = 0,
           UserCreates \/ \E s \in Slots : UserEdits(s) \/ UserDeletes(s) \/ UserPauses(s)
    PROVE  Unhurried'
  <1>1. Settled /\ UNCHANGED <<stream, lst, ctl>>
    <2>1. CASE UserCreates
      BY <2>1, CalmChange DEF UserCreates, ByUser, Change
    <2>2. ASSUME NEW s \in Slots, UserEdits(s) \/ UserDeletes(s) \/ UserPauses(s)
          PROVE  Settled /\ UNCHANGED <<stream, lst, ctl>>
      <3>1. UNCHANGED <<stream, lst>>
        BY <2>2 DEF UserEdits, UserDeletes, UserPauses, ByUser
      <3>2. PICK kind : ChangeIf(kind, Settled) \/ ChangeIf(kind, Settled /\ crs[s].finalizer)
        BY <2>2 DEF UserEdits, UserDeletes, UserPauses, Change
      <3>3. Settled /\ UNCHANGED ctl
        <4>1. CASE ChangeIf(kind, Settled)
          BY <4>1, CalmChange
        <4>2. CASE ChangeIf(kind, Settled /\ crs[s].finalizer)
          BY <4>2, CalmChange
        <4> QED BY <3>2, <4>1, <4>2
      <3> QED BY <3>1, <3>3
    <2> QED BY <2>1, <2>2
  <1>2. \A s \in DOMAIN crs : crs[s] \in CR /\ Plain(crs[s].spec)
    BY DEF IInv, CrsOK, Unhurried, Announced
  <1>3. CASE UserCreates
    <2>1. PICK p \in UserSpecs : crs' = With(UserCR, NewCR(p, FALSE))
      BY <1>3 DEF UserCreates
    <2>2. \A s \in DOMAIN crs' : IF s = UserCR THEN crs'[s].spec = p ELSE s \in DOMAIN crs /\ crs'[s] = crs[s]
      BY <2>1 DEF With, NewCR
    <2>3. \A s \in DOMAIN crs' : Plain(crs'[s].spec)
      BY <1>2, <2>2 DEF OneTemplate
    <2> QED BY <1>1, <2>3, RestUnhurried DEF Settled, Resting
  <1>4. CASE \E s \in Slots : UserEdits(s) \/ UserDeletes(s) \/ UserPauses(s)
    <2>1. PICK s, c : s \in DOMAIN crs /\ Patch(s, c) /\ Plain(c.spec)
      <3>1. PICK s \in Slots : UserEdits(s) \/ UserDeletes(s) \/ UserPauses(s)
        BY <1>4
      <3>2. s \in DOMAIN crs
        BY <3>1 DEF UserEdits, UserDeletes, UserPauses
      <3>3. CASE UserEdits(s)
        <4>1. PICK p \in UserSpecs : Patch(s, Respec(crs[s], p))
          BY <3>3 DEF UserEdits
        <4>2. Respec(crs[s], p).spec = p
          BY <1>2, <3>2 DEF Respec, CR
        <4> QED BY <3>2, <4>1, <4>2 DEF OneTemplate
      <3>4. CASE UserDeletes(s)
        <4> DEFINE c == [crs[s] EXCEPT !.deleted = "user", !.gen = @ + 1]
        <4>1. Patch(s, c)
          BY <3>4 DEF UserDeletes
        <4>2. c.spec = crs[s].spec
          BY <1>2, <3>2 DEF CR
        <4> QED BY <1>2, <3>2, <4>1, <4>2
      <3>5. CASE UserPauses(s)
        <4> DEFINE c == [crs[s] EXCEPT !.paused = ~@]
        <4>1. Patch(s, c)
          BY <3>5 DEF UserPauses
        <4>2. c.spec = crs[s].spec
          BY <1>2, <3>2 DEF CR
        <4> QED BY <1>2, <3>2, <4>1, <4>2
      <3> QED BY <3>1, <3>3, <3>4, <3>5
    <2>2. \A t \in DOMAIN crs' : t \in DOMAIN crs /\ crs'[t] = IF t = s THEN c ELSE crs[t]
      BY <2>1, PatchShape
    <2>3. \A t \in DOMAIN crs' : Plain(crs'[t].spec)
      BY <1>2, <2>1, <2>2
    <2> QED BY <1>1, <2>3, RestUnhurried DEF Settled, Resting
  <1> QED BY <1>3, <1>4

\* A client changes the cache, while nothing else is on its way.
LEMMA ClientUnhurried ==
    ASSUME IInv, Unhurried, hurry' = 0, ClientSets \/ ClientRemoves
    PROVE  Unhurried'
  <1>1. Resting /\ lst.pc \in {"idle", "stopped", "sweep"} /\ UNCHANGED <<crs, queue, lst, ctl>>
    BY CalmChange DEF ClientSets, ClientRemoves, Change, Settled
  <1>2. stream = <<>> /\ queue = {} /\ ctl = CtlIdle
    BY <1>1 DEF Resting
  <1>3. PICK e : e.by = "client" /\ stream' = IF Connected THEN Append(stream, e) ELSE stream
    BY DEF ClientSets, ClientRemoves, Emit
  <1>4. stream' = <<>> \/ stream' = <<e>>
    BY <1>2, <1>3
  <1>5. \A i \in DOMAIN stream' : stream'[i].by = "client" /\ Len(stream') = 1
    BY <1>3, <1>4
  <1>6. \A s \in DOMAIN crs' : Plain(crs'[s].spec)
    BY <1>1 DEF Unhurried, Announced
  <1> QED BY <1>1, <1>2, <1>5, <1>6, RestUnhurried

\* The cluster or the schema changes, or the cluster goes.
LEMMA ClusterUnhurried ==
    ASSUME IInv, Unhurried, hurry' = 0, SchemaChanges \/ ClusterChanges \/ ClusterDeleted
    PROVE  Unhurried'
  <1>1. Settled /\ UNCHANGED ctl
    BY CalmChange DEF SchemaChanges, ClusterChanges, ClusterDeleted, Change
  <1>2. stream' = <<>> /\ lst'.pc \in {"idle", "stopped"}
    BY <1>1, IdleTypes DEF SchemaChanges, ClusterChanges, ClusterDeleted, Settled, Resting, LstType
  <1>3. \A s \in DOMAIN crs : crs[s] \in CR /\ Plain(crs[s].spec)
    BY DEF IInv, CrsOK, Unhurried, Announced
  <1>4. \A s \in DOMAIN crs' : s \in DOMAIN crs /\ crs'[s].spec = crs[s].spec
    <2>1. CASE UNCHANGED crs
      BY <2>1
    <2>2. CASE ClusterDeleted
      BY <1>3, <2>2 DEF ClusterDeleted, CR
    <2> QED BY <2>1, <2>2 DEF SchemaChanges, ClusterChanges
  <1>5. \A s \in DOMAIN crs' : Plain(crs'[s].spec)
    BY <1>3, <1>4
  <1> QED BY <1>1, <1>2, <1>5, RestUnhurried DEF Settled, Resting

\* A listener that restarts between two reconciliations.
LEMMA ListenerCrashUnhurried ==
    ASSUME IInv, Unhurried, hurry' = 0, ListenerCrash
    PROVE  Unhurried' /\ hurry = 0
  <1>1. hurry \in Nat
    BY ConfigAssumption DEF IInv, EnvOK
  <1>2. queue = {} /\ ctl = CtlIdle /\ hurry = 0
    BY <1>1 DEF ListenerCrash
  <1>3. stream' = <<>> /\ lst'.pc = "sweep" /\ UNCHANGED <<crs, queue, ctl>>
    BY IdleTypes DEF ListenerCrash, LstType
  <1>4. \A s \in DOMAIN crs' : Plain(crs'[s].spec)
    BY <1>3 DEF Unhurried, Announced
  <1> QED BY <1>2, <1>3, <1>4, RestUnhurried

-----------------------------------------------------------------------------
\* While nobody is hurried, every step keeps the two processes in turn.
LEMMA NextUnhurried ==
    ASSUME SpecNamed, OneTemplate, "stream" \notin Faults, IInv, Lone, EventsOK,
           hurry = 0 => Unhurried, [Next]_vars
    PROVE  (hurry = 0 => Unhurried)'
  <1>1. ASSUME Next, hurry' = 0 PROVE Unhurried'
    <2>1. Unhurried /\ OneCR
      BY <1>1, HurryStays DEF Lone
    <2>2. ~StreamBreaks
      BY DEF StreamBreaks, Fault
    <2> QED
      BY <1>1, <2>1, <2>2, ReconcileUnhurried, ListenUnhurried, UserUnhurried, ClientUnhurried,
         ClusterUnhurried, CallFailsUnhurried, OperatorCrashUnhurried, ListenerCrashUnhurried
      DEF Next, Environment
  <1>2. ASSUME UNCHANGED vars PROVE (hurry = 0 => Unhurried)'
    <2>1. UNCHANGED <<crs, server, queue, ctl, stream, lst, hurry>>
      BY <1>2 DEF vars
    <2>2. \A w : By(w)' <=> By(w)
      BY <2>1, SameBy
    <2>3. ListenerDue' <=> ListenerDue
      BY <2>1, <2>2 DEF ListenerDue
    <2> QED
      BY <2>1, <2>2, <2>3
      DEF Unhurried, ListenerFirst, DeletedLast, CopyFresh, Agreed, Announced
  <1> QED BY <1>1, <1>2

\* Nobody is hurried at the start.
LEMMA InitUnhurried == ASSUME Init PROVE Unhurried
  <1>1. stream = <<>> /\ ctl.pc = "idle" /\ lst.pc = "idle"
    BY IdleTypes DEF Init
  <1>2. \A s \in DOMAIN crs : Plain(crs[s].spec)
    <2>1. CASE crs \in [{} -> CR]
      BY <2>1
    <2>2. CASE crs \in [{UserCR} -> {NewCR([NoSpec EXCEPT !.template = TemplateConfig], FALSE)}]
      <3>1. ~NewCR([NoSpec EXCEPT !.template = TemplateConfig], FALSE).spec.named
        BY DEF NewCR, NoSpec
      <3> QED BY <2>2, <3>1 DEF Plain
    <2> QED BY <2>1, <2>2 DEF Init
  <1>3. \A w : ~By(w)
    BY <1>1 DEF By
  <1> QED
    BY <1>1, <1>2, <1>3
    DEF Unhurried, ListenerFirst, ListenerDue, DeletedLast, CopyFresh, ServerSteps, Agreed, Announced

-----------------------------------------------------------------------------
\* What the other writes leave of a resource.
LEMMA MarkStays ==
    ASSUME NEW c \in CR, NEW x
    PROVE  /\ Respec(c, x).marked = c.marked
           /\ NotReady(c, x).marked = c.marked
           /\ [c EXCEPT !.finalizer = x].marked = c.marked
           /\ [c EXCEPT !.pausedCond = x].marked = c.marked
           /\ [c EXCEPT !.controllerDelete = x].marked = c.marked
  BY DEF Respec, NotReady, CR

\* Only the sweep and a removal mark a resource.
LEMMA OnlyMarks ==
    ASSUME IInv, Next, NEW s \in DOMAIN crs \cap DOMAIN crs', crs'[s].marked, ~crs[s].marked
    PROVE  RemoveStaleResources \/ MarkCR
  <1>1. crs # crs' /\ \A t \in DOMAIN crs : crs[t] \in CR
    BY DEF IInv, CrsOK
  <1>2. ASSUME NEW t \in DOMAIN crs, NEW c, Patch(t, c), c.marked = crs[t].marked PROVE FALSE
    <2>1. crs'[s] = IF s = t THEN c ELSE crs[s]
      BY <1>2, PatchShape
    <2> QED BY <1>2, <2>1
  <1>3. ASSUME NEW t \in DOMAIN crs, NEW c, NEW r, EndWith(t, c, r), c.marked = crs[t].marked PROVE FALSE
    BY <1>2, <1>3 DEF EndWith
  <1>4. ASSUME NEW why, Fail(why) PROVE FALSE
    <2>1. ctl.s \in DOMAIN crs /\ EndWith(ctl.s, NotReady(crs[ctl.s], why), why # "ExistsFailed")
      BY <1>1, <1>4 DEF Fail
    <2>2. NotReady(crs[ctl.s], why).marked = crs[ctl.s].marked
      BY <1>1, <2>1 DEF NotReady, CR
    <2> QED BY <1>3, <2>1, <2>2
  <1>5. ASSUME Reconcile PROVE FALSE
    <2>1. CASE UNCHANGED crs
      BY <1>1, <2>1
    <2>2. CASE \E why : Fail(why)
      BY <1>4, <2>2
    <2>3. CASE DeleteMarked \/ RemoveFinalizer \/ Finish
      <3>1. PICK c, r : EndWith(ctl.s, c, r) /\ c.marked = crs[ctl.s].marked /\ ctl.s \in DOMAIN crs
        BY <1>1, <2>3 DEF DeleteMarked, RemoveFinalizer, Finish, CR
      <3> QED BY <1>3, <3>1
    <2>4. CASE Annotate
      <3>1. ctl.s \in DOMAIN crs /\ Patch(ctl.s, [crs[ctl.s] EXCEPT !.controllerDelete = TRUE])
        BY <1>4, <2>4 DEF Annotate
      <3>2. [crs[ctl.s] EXCEPT !.controllerDelete = TRUE].marked = crs[ctl.s].marked
        BY <1>1, <3>1 DEF CR
      <3> QED BY <1>2, <3>1, <3>2
    <2>5. ASSUME NEW t \in Slots, RemoveMarked(t) PROVE FALSE
      <3>1. t \in DOMAIN crs /\ Patch(t, [crs[t] EXCEPT !.finalizer = FALSE])
        BY <2>5 DEF RemoveMarked
      <3>2. [crs[t] EXCEPT !.finalizer = FALSE].marked = crs[t].marked
        BY <1>1, <3>1 DEF CR
      <3> QED BY <1>2, <3>1, <3>2
    <2>6. ASSUME NEW t \in Slots, Pause(t) \/ AddStrategy(t) \/ ClusterMissing(t)
                                  \/ ClusterNotFormed(t) \/ SchemaNotReady(t)
          PROVE  FALSE
      <3>1. t \in DOMAIN crs /\ crs[t] \in CR
        BY <1>1, <2>6 DEF Pause, AddStrategy, ClusterMissing, ClusterNotFormed, SchemaNotReady,
                          Begun, Formed
      <3>2. CASE Pause(t)
        BY <1>3, <3>1, <3>2, MarkStays DEF Pause
      <3>3. CASE AddStrategy(t)
        BY <1>3, <3>1, <3>3, MarkStays DEF AddStrategy
      <3>4. CASE ClusterMissing(t)
        BY <1>3, <3>1, <3>4, MarkStays DEF ClusterMissing
      <3>5. CASE ClusterNotFormed(t) \/ SchemaNotReady(t)
        BY <1>3, <3>1, <3>5, MarkStays DEF ClusterNotFormed, SchemaNotReady
      <3> QED BY <2>6, <3>2, <3>3, <3>4, <3>5
    <2> QED
      BY <1>5, <2>1, <2>2, <2>3, <2>4, <2>5, <2>6
      DEF Reconcile, NotFound, DeleteOnServer, StartServerCalls, Proceed, Exists, Compare,
          UpdateConfig, Erase, CreateOnServer, Goto
  <1>6. ASSUME Listen PROVE RemoveStaleResources \/ MarkCR
    <2>1. ~(CreateCR /\ ~UNCHANGED crs)
      BY CreateCRShape DEF With, NewCR
    <2>2. CASE PatchCR \/ RetainCR
      <3>1. lst.s \in DOMAIN crs /\ crs[lst.s] \in CR
        BY <1>1, <2>2 DEF PatchCR, RetainCR
      <3>2. CASE PatchCR
        <4>1. PICK sp, fin : Patch(lst.s, [Respec(crs[lst.s], sp) EXCEPT !.listenerGen = lst.gen + 1,
                                                                        !.finalizer = fin])
          BY <3>1, <3>2 DEF PatchCR
        <4>2. [Respec(crs[lst.s], sp) EXCEPT !.listenerGen = lst.gen + 1,
                                             !.finalizer = fin].marked = crs[lst.s].marked
          BY <3>1 DEF Respec, CR
        <4> QED BY <1>2, <3>1, <4>1, <4>2
      <3>3. CASE RetainCR
        BY <1>2, <3>1, <3>3, MarkStays DEF RetainCR
      <3> QED BY <2>2, <3>2, <3>3
    <2> QED
      BY <1>1, <1>6, <2>1, <2>2
      DEF Listen, ReadNames, Subscribe, IgnoreSet, FindForSet, GetCR, IgnoreRemove, FindForRemove
  <1>7. ASSUME Environment PROVE FALSE
    <2>1. ~UserCreates
      BY DEF UserCreates, With
    <2>2. ASSUME NEW t \in Slots, UserEdits(t) \/ UserDeletes(t) \/ UserPauses(t) PROVE FALSE
      <3>1. t \in DOMAIN crs /\ crs[t] \in CR
        BY <1>1, <2>2 DEF UserEdits, UserDeletes, UserPauses
      <3>2. CASE UserEdits(t)
        BY <1>2, <3>1, <3>2, MarkStays DEF UserEdits
      <3>3. CASE UserDeletes(t)
        <4>1. [crs[t] EXCEPT !.deleted = "user", !.gen = @ + 1].marked = crs[t].marked
          BY <3>1 DEF CR
        <4> QED BY <1>2, <3>1, <3>3, <4>1 DEF UserDeletes
      <3>4. CASE UserPauses(t)
        <4>1. [crs[t] EXCEPT !.paused = ~@].marked = crs[t].marked
          BY <3>1 DEF CR
        <4> QED BY <1>2, <3>1, <3>4, <4>1 DEF UserPauses
      <3> QED BY <2>2, <3>2, <3>3, <3>4
    <2>3. ~ClusterDeleted
      BY <1>1 DEF ClusterDeleted, CR
    <2> QED
      BY <1>1, <1>7, <2>1, <2>2, <2>3
      DEF Environment, ClientSets, ClientRemoves, SchemaChanges, ClusterChanges
  <1>8. ~(OperatorCrash \/ ListenerCrash \/ StreamBreaks)
    BY <1>1 DEF OperatorCrash, ListenerCrash, StreamBreaks
  <1>9. ~CallFails
    BY <1>1, <1>4 DEF CallFails, Goto
  <1> QED BY <1>5, <1>6, <1>7, <1>8, <1>9 DEF Next

\* Where nobody hurries the two processes, no resource is marked on account of
\* a removal that the controller made for the recreate strategy: the listener
\* finds controllerDelete set when the removal reaches it, in every order of the
\* two processes, across their restarts and failed calls.
THEOREM RecreationKept ==
    SpecNamed /\ OneTemplate /\ "stream" \notin Faults => (Spec => RecreateKeepsResource)
  <1> SUFFICES ASSUME SpecNamed, OneTemplate, "stream" \notin Faults
               PROVE  Spec => RecreateKeepsResource
    OBVIOUS
  <1> DEFINE I == IInv /\ EventsOK /\ (hurry = 0 => Unhurried)
             A == \A s \in DOMAIN crs \cap DOMAIN crs' :
                     crs'[s].marked /\ ~crs[s].marked /\ stream # <<>> /\ hurry = 0 =>
                         Head(stream).by # "recreation"
  <1>1. Init => (hurry = 0 => Unhurried)
    BY InitUnhurried
  <1>2. IInv /\ Lone /\ EventsOK /\ (hurry = 0 => Unhurried) /\ [Next]_vars
           => (hurry = 0 => Unhurried)'
    BY NextUnhurried
  <1>3. Spec => [](hurry = 0 => Unhurried)
    BY <1>1, <1>2, LoneInvariance, EventsInvariance, PTL DEF Spec
  <1>4. IInv /\ EventsOK /\ (hurry = 0 => Unhurried) /\ [Next]_vars => [A]_vars
    <2> SUFFICES ASSUME IInv, EventsOK, hurry = 0 => Unhurried, Next PROVE A
      BY DEF vars
    <2> SUFFICES ASSUME NEW s \in DOMAIN crs \cap DOMAIN crs', crs'[s].marked, ~crs[s].marked,
                        stream # <<>>, hurry = 0
                 PROVE  Head(stream).by # "recreation"
      OBVIOUS
    <2>1. ~RemoveStaleResources
      BY DEF RemoveStaleResources, EventsOK, Connected
    <2>2. MarkCR
      BY <2>1, OnlyMarks
    <2> QED BY <2>2 DEF MarkCR, Unhurried, Announced
  <1> QED BY <1>3, <1>4, Invariance, EventsInvariance, PTL DEF Spec, RecreateKeepsResource
=============================================================================
