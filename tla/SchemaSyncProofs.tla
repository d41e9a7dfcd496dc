-------------------------- MODULE SchemaSyncProofs --------------------------
(***************************************************************************)
(* Theorems about SchemaSync, for every set of texts and of generated      *)
(* names and every number of changes and faults.                           *)
(***************************************************************************)
EXTENDS SchemaSync, FiniteSetTheorems, TLAPS

-----------------------------------------------------------------------------
(***************************************************************************)
(* The inductive invariant.                                                *)
(***************************************************************************)

(* A resource under deletion exists as long as it has its finalizer.       *)
CrsOK ==
    /\ DOMAIN crs \subseteq Slots
    /\ \A s \in DOMAIN crs : crs[s] \in CR /\ (crs[s].deleted # "no" => crs[s].finalizer)

CtlType == [pc: CtlSteps, s: Slots, spec: Protos \cup {NoProto}, both: BOOLEAN, deleted: BOOLEAN]

(* What is put on the server is a text.                                    *)
CtlOK == ctl \in CtlType /\ (ctl.pc = "put" => ctl.spec \in Protos)

LstType == [pc: LstSteps, s: Slots, proto: Protos \cup {NoProto}, base: Protos \cup {NoProto},
            gen: Nat, fin: BOOLEAN]

(* What the listener writes to a resource is a text, because the events it *)
(* writes it for carry one; the event it works on is still in the stream.  *)
TextEvent == {e \in Event : e.kind = "set" => e.proto \in Protos}
ListenerOK ==
    /\ stream \in Seq(TextEvent)
    /\ lst \in LstType
    /\ lst.pc \in {"create", "get", "patch"} => lst.proto \in Protos
    /\ lst.pc \in {"create", "get", "patch", "mark"} => stream # <<>>

EnvOK ==
    /\ server \in Protos \cup {NoProto}
    /\ cluster \in {"formed", "forming", "gone"}
    /\ bidi \in BOOLEAN /\ refs \subseteq Slots
    /\ changes \in 0..MaxChanges /\ faults \in 0..MaxFaults
    /\ hurry \in 0..MaxHurry /\ unseen \in {"no", "swept", "lost"}

(* The reconciliation in progress is that of a resource under deletion.    *)
Removing == ctl.pc \in {"refs", "erase"} \/ (ctl.pc = "oneWay" /\ ctl.deleted)

(* The resource of such a reconciliation stays, under deletion, until the  *)
(* reconciliation is done with it: nobody can ask for its deletion again,  *)
(* and what found no reference to it stays true of the references that     *)
(* were there before.                                                      *)
GuardOK ==
    /\ guarded \subseteq refs
    /\ Removing => ctl.s \in DOMAIN crs /\ crs[ctl.s].deleted # "no"
    /\ ctl.pc = "erase" => ctl.s \notin guarded

QueueOK == queue \subseteq Slots

IInv == CrsOK /\ CtlOK /\ ListenerOK /\ EnvOK /\ QueueOK /\ GuardOK

(* The listener creates a resource where it found none; only a user's may  *)
(* have been created meanwhile.                                            *)
Lone == lst.pc = "create" => DOMAIN crs \subseteq {UserCR}

-----------------------------------------------------------------------------
(***************************************************************************)
(* Types, and what the helpers do.                                         *)
(***************************************************************************)

\* The user's resource has a name.
LEMMA UserSlot == UserCR \in Slots
  BY DEF Slots

\* The controller at rest, and the listener at rest, are well typed.
LEMMA IdleTypes == CtlIdle \in CtlType /\ CtlIdle.pc = "idle" /\ LstIdle \in LstType
  BY UserSlot DEF CtlIdle, LstIdle, CtlType, LstType, CtlSteps, LstSteps

\* The state of the listener at any of its steps, and with what it has found.
LEMMA LstSteppedType ==
    ASSUME NEW pc \in LstSteps, NEW s \in Slots, NEW p \in Protos \cup {NoProto}
    PROVE  /\ [LstIdle EXCEPT !.pc = pc] \in LstType
           /\ [LstIdle EXCEPT !.pc = pc].pc = pc
           /\ [LstIdle EXCEPT !.pc = pc, !.proto = p] \in LstType
           /\ [LstIdle EXCEPT !.pc = pc, !.proto = p].proto = p
           /\ [LstIdle EXCEPT !.pc = pc, !.s = s] \in LstType
           /\ [LstIdle EXCEPT !.pc = pc, !.s = s].pc = pc
           /\ [LstIdle EXCEPT !.pc = pc, !.s = s, !.proto = p] \in LstType
           /\ [LstIdle EXCEPT !.pc = pc, !.s = s, !.proto = p].proto = p
  BY UserSlot DEF LstIdle, LstType

\* A new resource is well typed.
LEMMA NewCRType ==
    ASSUME NEW p \in Protos, NEW b \in BOOLEAN
    PROVE  NewCR(p, b) \in CR /\ NewCR(p, b).deleted = "no"
  BY DEF NewCR, CR, Readiness

\* The fields updateSchema writes.
StatusFields == {"ready", "finalizer", "sync"}

\* updateSchema changes a resource in the fields it writes and nowhere else.
LEMMA UpdatedFields ==
    ASSUME NEW c \in CR, NEW new, DOMAIN new \subseteq StatusFields,
           "ready" \in DOMAIN new => new.ready \in Readiness,
           "finalizer" \in DOMAIN new => new.finalizer \in BOOLEAN,
           "sync" \in DOMAIN new => new.sync \in {"Unknown", "True", "False"}
    PROVE  Updated(c, new) \in CR
  <1>1. DOMAIN c = {"spec", "gen", "listenerGen", "marked", "finalizer", "deleted", "owned",
                    "paused", "pausedCond", "ready", "sync"}
    BY DEF CR
  <1> QED BY <1>1 DEF CR, Updated, StatusFields

\* The spec of a resource may change to any text.
LEMMA RespecType ==
    ASSUME NEW c \in CR, NEW p \in Protos
    PROVE  /\ Respec(c, p) \in CR
           /\ Respec(c, p).deleted = c.deleted /\ Respec(c, p).finalizer = c.finalizer
  <1>1. c.gen \in Nat /\ c.gen + 1 \in Nat
    BY DEF CR
  <1> DEFINE g == IF p = c.spec THEN c.gen ELSE c.gen + 1
  <1>2. g \in Nat
    BY <1>1
  <1>3. Respec(c, p) = [c EXCEPT !.spec = p, !.gen = g]
    BY DEF Respec
  <1> HIDE DEF g
  <1> QED BY <1>2, <1>3 DEF CR

\* What the API server has after a resource was written.
LEMMA StoredFacts ==
    ASSUME CrsOK, NEW s \in Slots, NEW c \in CR
    PROVE  /\ DOMAIN Stored(s, c) \subseteq Slots
           /\ \A t \in DOMAIN Stored(s, c) :
                 /\ Stored(s, c)[t] \in CR
                 /\ Stored(s, c)[t].deleted # "no" => Stored(s, c)[t].finalizer
           /\ \A t \in DOMAIN crs \ {s} : t \in DOMAIN Stored(s, c) /\ Stored(s, c)[t] = crs[t]
           /\ c.deleted = "no" \/ c.finalizer => s \in DOMAIN Stored(s, c) /\ Stored(s, c)[s] = c
  <1>1. CASE c.deleted # "no" /\ ~c.finalizer
    BY <1>1 DEF Stored, Without, CrsOK
  <1>2. CASE ~(c.deleted # "no" /\ ~c.finalizer)
    <2>1. Stored(s, c) = With(s, c)
      BY <1>2 DEF Stored
    <2>2. c.deleted # "no" => c.finalizer
      BY <1>2 DEF CR
    <2> QED BY <2>1, <2>2 DEF With, CrsOK
  <1> QED BY <1>1, <1>2

\* A write keeps the resources well typed.
LEMMA PatchOK ==
    ASSUME CrsOK, NEW s \in Slots, NEW c \in CR, Patch(s, c)
    PROVE  CrsOK'
  BY StoredFacts DEF Patch, CrsOK

\* A write that ends no deletion of the resource leaves the reconciliation of
\* a resource under deletion with that resource.
LEMMA PatchGuard ==
    ASSUME CrsOK, GuardOK, NEW s \in DOMAIN crs, NEW c \in CR, Patch(s, c),
           crs[s].deleted # "no" => c.deleted # "no" /\ c.finalizer,
           UNCHANGED <<ctl, refs, guarded>>
    PROVE  GuardOK'
  <1>1. s \in Slots
    BY DEF CrsOK
  <1>2. ASSUME NEW t \in DOMAIN crs, crs[t].deleted # "no"
        PROVE  t \in DOMAIN crs' /\ crs'[t].deleted # "no"
    <2>1. CASE t = s
      BY <1>1, <1>2, <2>1, StoredFacts DEF Patch
    <2>2. CASE t # s
      BY <1>1, <1>2, <2>2, StoredFacts DEF Patch
    <2> QED BY <2>1, <2>2
  <1> QED BY <1>2 DEF GuardOK, Removing

\* Between two reconciliations nothing is held to a resource.
LEMMA IdleGuard ==
    ASSUME GuardOK, ctl' = CtlIdle, UNCHANGED <<refs, guarded>>
    PROVE  CtlOK' /\ GuardOK'
  BY IdleTypes DEF CtlOK, GuardOK, Removing

\* Where nothing of a reconciliation and of the resources changes.
LEMMA GuardUnchanged ==
    ASSUME GuardOK, UNCHANGED <<crs, ctl, refs, guarded>>
    PROVE  GuardOK'
  BY DEF GuardOK, Removing

\* A written resource is queued, if any is.
LEMMA WokenSlots ==
    ASSUME NEW s \in Slots
    PROVE  Woken(s) \subseteq Slots
  BY DEF Woken

\* The end of a reconciliation.
LEMMA EndWithOK ==
    ASSUME IInv, NEW s \in DOMAIN crs, NEW c \in CR, NEW requeue, EndWith(s, c, requeue),
           UNCHANGED <<refs, guarded>>
    PROVE  CrsOK' /\ CtlOK' /\ QueueOK' /\ GuardOK'
  <1>1. s \in Slots
    BY DEF IInv, CrsOK
  <1>2. Patch(s, c) /\ ctl' = CtlIdle
    BY DEF EndWith
  <1>3. CrsOK' /\ CtlOK' /\ GuardOK'
    BY <1>1, <1>2, PatchOK, IdleGuard DEF IInv
  <1>4. QueueOK'
    BY <1>1, WokenSlots DEF EndWith, QueueOK, IInv
  <1> QED BY <1>3, <1>4

\* The same through updateSchema.
LEMMA EndUpdatingOK ==
    ASSUME IInv, NEW new, DOMAIN new \subseteq StatusFields,
           "ready" \in DOMAIN new => new.ready \in Readiness,
           "finalizer" \in DOMAIN new => new.finalizer \in BOOLEAN,
           "sync" \in DOMAIN new => new.sync \in {"Unknown", "True", "False"},
           NEW requeue, EndUpdating(new, requeue), UNCHANGED <<refs, guarded>>
    PROVE  CrsOK' /\ CtlOK' /\ QueueOK' /\ GuardOK'
  <1>1. CASE ctl.s \in DOMAIN crs
    <2>1. crs[ctl.s] \in CR
      BY <1>1 DEF IInv, CrsOK
    <2>2. Updated(crs[ctl.s], new) \in CR
      BY <2>1, UpdatedFields
    <2>3. EndWith(ctl.s, Updated(crs[ctl.s], new), requeue)
      BY <1>1 DEF EndUpdating
    <2> QED BY <1>1, <2>2, <2>3, EndWithOK
  <1>2. CASE ctl.s \notin DOMAIN crs
    <2>1. ctl' = CtlIdle /\ queue' = queue \cup {ctl.s} /\ UNCHANGED crs
      BY <1>2 DEF EndUpdating
    <2>2. CtlOK' /\ GuardOK'
      BY <2>1, IdleGuard DEF IInv
    <2>3. CrsOK' /\ QueueOK'
      BY <2>1 DEF IInv, CrsOK, QueueOK, CtlOK, CtlType
    <2> QED BY <2>2, <2>3
  <1> QED BY <1>1, <1>2

\* What an event changes: the stream gets a text or a removal.
LEMMA EmitOK ==
    ASSUME ListenerOK, NEW kind \in {"set", "remove"}, NEW p \in Protos \cup {NoProto},
           kind = "set" => p \in Protos, Emit(kind, p), UNCHANGED lst,
           unseen \in {"no", "swept", "lost"}
    PROVE  ListenerOK' /\ unseen' \in {"no", "swept", "lost"}
  <1>1. [kind |-> kind, proto |-> p] \in TextEvent
    BY DEF TextEvent, Event
  <1>2. stream' \in Seq(TextEvent)
    BY <1>1 DEF Emit, ListenerOK
  <1>3. unseen' \in {"no", "swept", "lost"}
    BY DEF Emit
  <1>4. stream # <<>> => stream' # <<>>
    BY DEF Emit, ListenerOK
  <1> QED BY <1>2, <1>3, <1>4 DEF ListenerOK

\* A reconciliation that leaves the server alone.
LEMMA QuietOK ==
    ASSUME IInv, Quiet
    PROVE  ListenerOK' /\ EnvOK' /\ UNCHANGED <<refs, guarded>>
  BY DEF IInv, Quiet, env, ListenerOK, EnvOK

\* A step of the listener that leaves the resources alone.
LEMMA ListenerFrame ==
    ASSUME IInv, Listener
    PROVE  EnvOK' /\ CtlOK' /\ UNCHANGED <<ctl, refs, guarded>>
  BY DEF IInv, Listener, env, EnvOK, CtlOK

\* The event at the head of the stream.
LEMMA HeadEvent ==
    ASSUME ListenerOK, stream # <<>>
    PROVE  Head(stream) \in TextEvent /\ Tail(stream) \in Seq(TextEvent)
  BY DEF ListenerOK

\* The end of the handling of an event.
LEMMA HandledOK ==
    ASSUME ListenerOK, stream # <<>>, Handled
    PROVE  ListenerOK'
  BY HeadEvent, IdleTypes DEF Handled, ListenerOK, LstIdle

-----------------------------------------------------------------------------
(***************************************************************************)
(* The steps of a reconciliation.                                          *)
(***************************************************************************)

\* Everything that the steps of Reconcile that only write the resource have
\* in common.
LEMMA EndsInv ==
    ASSUME IInv, Quiet, NEW s \in DOMAIN crs, NEW c \in CR, NEW requeue, EndWith(s, c, requeue)
    PROVE  IInv'
  <1>1. ListenerOK' /\ EnvOK' /\ UNCHANGED <<refs, guarded>>
    BY QuietOK
  <1>2. CrsOK' /\ CtlOK' /\ QueueOK' /\ GuardOK'
    BY <1>1, EndWithOK
  <1> QED BY <1>1, <1>2 DEF IInv

\* Nothing is found.
LEMMA NotFoundInv == ASSUME IInv, NEW s \in Slots, NotFound(s) PROVE IInv'
  <1>1. Quiet /\ UNCHANGED <<crs, ctl>> /\ queue' \subseteq queue
    BY DEF NotFound
  <1>2. ListenerOK' /\ EnvOK' /\ UNCHANGED <<refs, guarded>>
    BY <1>1, QuietOK
  <1>3. CrsOK' /\ CtlOK' /\ QueueOK'
    BY <1>1 DEF IInv, CrsOK, CtlOK, QueueOK
  <1>4. GuardOK'
    BY <1>1, <1>2, GuardUnchanged DEF IInv
  <1> QED BY <1>2, <1>3, <1>4 DEF IInv

\* The finalizer of a marked resource goes.
LEMMA RemoveMarkedInv == ASSUME IInv, NEW s \in Slots, RemoveMarked(s) PROVE IInv'
  <1>1. s \in DOMAIN crs /\ crs[s] \in CR /\ Quiet
    BY DEF RemoveMarked, IInv, CrsOK
  <1>2. [crs[s] EXCEPT !.finalizer = FALSE] \in CR
    BY <1>1 DEF CR
  <1>3. Patch(s, [crs[s] EXCEPT !.finalizer = FALSE])
    BY DEF RemoveMarked
  <1>4. CrsOK'
    BY <1>2, <1>3, PatchOK DEF IInv
  <1>5. ListenerOK' /\ EnvOK' /\ UNCHANGED <<refs, guarded>>
    BY <1>1, QuietOK
  <1>6. QueueOK'
    BY WokenSlots DEF RemoveMarked, IInv, QueueOK
  <1>7. ctl' \in CtlType /\ ctl'.pc = "deleteCR"
    BY UserSlot DEF RemoveMarked, CtlIdle, CtlType, CtlSteps
  <1>8. CtlOK' /\ GuardOK'
    BY <1>5, <1>7 DEF CtlOK, GuardOK, Removing, IInv
  <1> QED BY <1>4, <1>5, <1>6, <1>8 DEF IInv

\* A marked resource goes.
LEMMA DeleteMarkedInv == ASSUME IInv, DeleteMarked PROVE IInv'
  <1>1. Quiet
    BY DEF DeleteMarked
  <1>2. CASE ctl.s \in DOMAIN crs
    <2> DEFINE c == [crs[ctl.s] EXCEPT !.deleted = IF @ = "no" THEN "operator" ELSE @]
    <2>1. crs[ctl.s] \in CR
      BY <1>2 DEF IInv, CrsOK
    <2>2. c \in CR
      BY <2>1 DEF CR
    <2>3. EndWith(ctl.s, c, FALSE)
      BY <1>2 DEF DeleteMarked
    <2> HIDE DEF c
    <2> QED BY <1>1, <1>2, <2>2, <2>3, EndsInv
  <1>3. CASE ctl.s \notin DOMAIN crs
    <2>1. ctl' = CtlIdle /\ UNCHANGED <<crs, queue>>
      BY <1>3 DEF DeleteMarked
    <2>2. ListenerOK' /\ EnvOK' /\ UNCHANGED <<refs, guarded>>
      BY <1>1, QuietOK
    <2>3. CtlOK' /\ GuardOK'
      BY <2>1, <2>2, IdleGuard DEF IInv
    <2> QED BY <2>1, <2>2, <2>3 DEF IInv, CrsOK, QueueOK
  <1> QED BY <1>2, <1>3

\* The three ways in which a reconciliation ends with its first write.
LEMMA FirstWriteInv ==
    ASSUME IInv, NEW s \in Slots, Pause(s) \/ ClusterMissing(s) \/ ClusterNotFormed(s)
    PROVE  IInv'
  <1>1. s \in DOMAIN crs /\ crs[s] \in CR /\ Quiet
    BY DEF Pause, ClusterMissing, ClusterNotFormed, Begun, IInv, CrsOK
  <1>2. CASE Pause(s)
    <2>1. [crs[s] EXCEPT !.pausedCond = crs[s].paused] \in CR
      BY <1>1 DEF CR
    <2>2. EndWith(s, [crs[s] EXCEPT !.pausedCond = crs[s].paused], FALSE)
      BY <1>2 DEF Pause
    <2> QED BY <1>1, <2>1, <2>2, EndsInv
  <1>3. CASE ClusterMissing(s)
    <2> DEFINE c == IF crs[s].deleted = "no" THEN [crs[s] EXCEPT !.ready = "NoCluster"]
                    ELSE [crs[s] EXCEPT !.finalizer = FALSE]
    <2>1. c \in CR
      BY <1>1 DEF CR, Readiness
    <2>2. EndWith(s, c, FALSE)
      BY <1>3 DEF ClusterMissing
    <2> HIDE DEF c
    <2> QED BY <1>1, <2>1, <2>2, EndsInv
  <1>4. CASE ClusterNotFormed(s)
    BY <1>1, <1>4, EndsInv DEF ClusterNotFormed
  <1> QED BY <1>2, <1>3, <1>4

\* The server's calls begin with what was read of the resource.
LEMMA StartInv == ASSUME IInv, NEW s \in Slots, Start(s) PROVE IInv'
  <1>1. s \in DOMAIN crs /\ crs[s] \in CR /\ Quiet /\ UNCHANGED crs /\ queue' \subseteq queue
    BY DEF Start, Begun, IInv, CrsOK
  <1>2. ListenerOK' /\ EnvOK' /\ UNCHANGED <<refs, guarded>>
    BY <1>1, QuietOK
  <1> DEFINE deleted == crs[s].deleted # "no"
             pc == IF bidi THEN FirstCall(crs[s], TRUE, deleted) ELSE "oneWay"
  <1>3. pc \in CtlSteps /\ (pc = "refs" => deleted) /\ pc # "erase"
    BY DEF FirstCall, CtlSteps
  <1>4. ctl' = [pc |-> pc, s |-> s, spec |-> crs[s].spec, both |-> bidi, deleted |-> deleted]
    BY DEF Start
  <1>5. crs[s].spec \in Protos /\ bidi \in BOOLEAN /\ deleted \in BOOLEAN
    BY <1>1 DEF CR, IInv, EnvOK
  <1> HIDE DEF pc
  <1>6. CtlOK'
    BY <1>3, <1>4, <1>5 DEF CtlOK, CtlType
  <1>7. GuardOK'
    BY <1>1, <1>2, <1>3, <1>4 DEF GuardOK, Removing, IInv
  <1> QED BY <1>1, <1>2, <1>6, <1>7 DEF IInv, CrsOK, QueueOK

\* The condition is written and the resource read again: one under deletion
\* is still there, and still under deletion.
LEMMA AnnounceOneWayInv == ASSUME IInv, AnnounceOneWay PROVE IInv'
  <1>1. Quiet /\ ctl.pc = "oneWay"
    BY DEF AnnounceOneWay
  <1>2. ListenerOK' /\ EnvOK' /\ UNCHANGED <<refs, guarded>>
    BY <1>1, QuietOK
  <1>3. ctl.s \in Slots /\ ctl.deleted \in BOOLEAN /\ ctl \in CtlType
    BY DEF IInv, CtlOK, CtlType
  <1>4. CASE ctl.s \in DOMAIN crs
    <2> DEFINE s == ctl.s
               c == [crs[s] EXCEPT !.sync = "False"]
               pc == FirstCall(crs[s], FALSE, ctl.deleted)
    <2>1. crs[s] \in CR
      BY <1>4 DEF IInv, CrsOK
    <2>2. c \in CR /\ c.deleted = crs[s].deleted /\ c.finalizer = crs[s].finalizer
      BY <2>1 DEF CR
    <2>3. Patch(s, c) /\ ctl' = [ctl EXCEPT !.pc = pc, !.spec = crs[s].spec]
          /\ queue' = queue \cup Woken(s)
      BY <1>4 DEF AnnounceOneWay
    <2>4. CrsOK' /\ QueueOK'
      BY <1>3, <2>2, <2>3, PatchOK, WokenSlots DEF IInv, QueueOK
    <2>5. pc \in CtlSteps /\ pc \notin {"erase", "oneWay"} /\ (pc = "refs" => ctl.deleted)
      BY DEF FirstCall, CtlSteps
    <2>6. crs[s].spec \in Protos
      BY <2>1 DEF CR
    <2> HIDE DEF pc
    <2>7. ctl' \in CtlType /\ ctl'.pc = pc /\ ctl'.s = s /\ ctl'.spec = crs[s].spec
      BY <1>3, <2>3, <2>5, <2>6 DEF CtlType
    <2>8. CtlOK'
      BY <2>6, <2>7 DEF CtlOK
    <2>9. ctl.deleted => c.deleted # "no" /\ c.finalizer
      BY <1>1, <1>4, <2>2 DEF IInv, GuardOK, Removing, CrsOK
    <2>10. ctl.deleted => s \in DOMAIN crs' /\ crs'[s].deleted # "no"
      BY <1>3, <2>2, <2>3, <2>9, StoredFacts DEF Patch, IInv
    <2>11. GuardOK'
      BY <1>2, <2>5, <2>7, <2>10 DEF GuardOK, Removing, IInv
    <2> QED BY <1>2, <2>4, <2>8, <2>11 DEF IInv
  <1>5. CASE ctl.s \notin DOMAIN crs
    <2>1. ctl' = CtlIdle /\ queue' = queue \cup {ctl.s} /\ UNCHANGED crs
      BY <1>5 DEF AnnounceOneWay
    <2>2. CtlOK' /\ GuardOK'
      BY <1>2, <2>1, IdleGuard DEF IInv
    <2> QED BY <1>2, <1>3, <2>1, <2>2 DEF IInv, CrsOK, QueueOK
  <1> QED BY <1>4, <1>5

\* What a call that only updates the resource at its end leaves.
LEMMA UpdatesInv ==
    ASSUME IInv, Quiet, NEW new, DOMAIN new \subseteq StatusFields,
           "ready" \in DOMAIN new => new.ready \in Readiness,
           "finalizer" \in DOMAIN new => new.finalizer \in BOOLEAN,
           "sync" \in DOMAIN new => new.sync \in {"Unknown", "True", "False"},
           NEW requeue, EndUpdating(new, requeue)
    PROVE  IInv'
  <1>1. ListenerOK' /\ EnvOK' /\ UNCHANGED <<refs, guarded>>
    BY QuietOK
  <1>2. CrsOK' /\ CtlOK' /\ QueueOK' /\ GuardOK'
    BY <1>1, EndUpdatingOK
  <1> QED BY <1>1, <1>2 DEF IInv

\* A reconciliation that goes on without any write.
LEMMA GotoOK ==
    ASSUME IInv, NEW pc \in CtlSteps \ {"put", "refs", "oneWay"}, Goto(pc), UNCHANGED <<refs, guarded>>,
           pc = "erase" => ctl.pc = "refs" /\ ctl.s \notin guarded
    PROVE  CrsOK' /\ QueueOK' /\ CtlOK' /\ GuardOK'
  <1>1. ctl' = [ctl EXCEPT !.pc = pc] /\ UNCHANGED <<crs, queue>> /\ ctl \in CtlType
    BY DEF Goto, IInv, CtlOK
  <1>2. ctl' \in CtlType /\ ctl'.pc = pc /\ ctl'.s = ctl.s
    BY <1>1 DEF CtlType
  <1>3. CtlOK'
    BY <1>2 DEF CtlOK
  <1>4. GuardOK'
    BY <1>1, <1>2 DEF GuardOK, Removing, IInv
  <1> QED BY <1>1, <1>3, <1>4 DEF IInv, CrsOK, QueueOK

\* The references are looked for: none means that none guards the resource.
LEMMA FindReferencingCachesInv == ASSUME IInv, FindReferencingCaches PROVE IInv'
  <1>1. Quiet
    BY DEF FindReferencingCaches
  <1>2. CASE ctl.s \in refs
    <2>1. EndUpdating([ready |-> "Referenced"], FALSE)
      BY <1>2 DEF FindReferencingCaches
    <2> DEFINE new == [ready |-> "Referenced"]
    <2>2. /\ DOMAIN new \subseteq StatusFields /\ new.ready \in Readiness
          /\ "finalizer" \notin DOMAIN new /\ "sync" \notin DOMAIN new
      BY DEF StatusFields, Readiness
    <2> HIDE DEF new
    <2> QED BY <1>1, <2>1, <2>2, UpdatesInv DEF new
  <1>3. CASE ctl.s \notin refs
    <2>1. Goto("erase") /\ ctl.pc = "refs"
      BY <1>3 DEF FindReferencingCaches
    <2>2. ctl.s \notin guarded
      BY <1>3 DEF IInv, GuardOK
    <2>3. ListenerOK' /\ EnvOK' /\ UNCHANGED <<refs, guarded>>
      BY <1>1, QuietOK
    <2>4. "erase" \in CtlSteps \ {"put", "refs", "oneWay"}
      BY DEF CtlSteps
    <2> QED BY <2>1, <2>2, <2>3, <2>4, GotoOK DEF IInv
  <1> QED BY <1>2, <1>3

\* The schema goes from the server; its resource is still there.
LEMMA DeleteOnServerInv == ASSUME IInv, DeleteOnServer PROVE IInv'
  <1>1. /\ Goto("unfinalize") /\ server' = NoProto
        /\ UNCHANGED <<lst, faults, cluster, bidi, refs, changes, hurry, guarded>>
    BY DEF DeleteOnServer, env
  <1>2. "unfinalize" \in CtlSteps \ {"put", "refs", "oneWay"}
    BY DEF CtlSteps
  <1>3. CrsOK' /\ QueueOK' /\ CtlOK' /\ GuardOK'
    BY <1>1, <1>2, GotoOK
  <1>4. ListenerOK' /\ unseen' \in {"no", "swept", "lost"}
    <2>1. CASE server = NoProto
      BY <1>1, <2>1 DEF DeleteOnServer, IInv, ListenerOK, EnvOK
    <2>2. CASE server # NoProto
      <3>1. Emit("remove", NoProto)
        BY <2>2 DEF DeleteOnServer
      <3> QED BY <1>1, <3>1, EmitOK DEF IInv, EnvOK
    <2> QED BY <2>1, <2>2
  <1>5. EnvOK'
    BY <1>1, <1>4 DEF EnvOK, IInv
  <1> QED BY <1>3, <1>4, <1>5 DEF IInv

\* The finalizer goes.
LEMMA RemoveFinalizerInv == ASSUME IInv, RemoveFinalizer PROVE IInv'
  <1> DEFINE new == [finalizer |-> FALSE]
  <1>1. Quiet /\ EndUpdating(new, FALSE)
    BY DEF RemoveFinalizer
  <1>2. /\ DOMAIN new \subseteq StatusFields /\ new.finalizer \in BOOLEAN
        /\ "ready" \notin DOMAIN new /\ "sync" \notin DOMAIN new
    BY DEF StatusFields
  <1> HIDE DEF new
  <1> QED BY <1>1, <1>2, UpdatesInv

\* The text is put on the server.
LEMMA PutInv == ASSUME IInv, Put PROVE IInv'
  <1>1. /\ server' = ctl.spec /\ Emit("set", ctl.spec) /\ ctl.spec \in Protos
        /\ UNCHANGED <<lst, faults, cluster, bidi, refs, changes, hurry, guarded>>
    BY DEF Put, env, IInv, CtlOK
  <1>2. ListenerOK' /\ unseen' \in {"no", "swept", "lost"}
    BY <1>1, EmitOK DEF IInv, EnvOK
  <1>3. EnvOK'
    BY <1>1, <1>2 DEF EnvOK, IInv
  <1>4. CrsOK' /\ QueueOK' /\ CtlOK' /\ GuardOK'
    <2>1. CASE ctl.spec \in Invalid
      <3> DEFINE new == [ready |-> "Invalid"]
      <3>1. EndUpdating(new, FALSE)
        BY <2>1 DEF Put
      <3>2. /\ DOMAIN new \subseteq StatusFields /\ new.ready \in Readiness
            /\ "finalizer" \notin DOMAIN new /\ "sync" \notin DOMAIN new
        BY DEF StatusFields, Readiness
      <3> HIDE DEF new
      <3> QED BY <1>1, <3>1, <3>2, EndUpdatingOK
    <2>2. CASE ctl.spec \notin Invalid
      <3>1. Goto("status")
        BY <2>2 DEF Put
      <3>2. "status" \in CtlSteps \ {"put", "refs", "oneWay"}
        BY DEF CtlSteps
      <3> QED BY <1>1, <3>1, <3>2, GotoOK
    <2> QED BY <2>1, <2>2
  <1> QED BY <1>2, <1>3, <1>4 DEF IInv

\* The status is looked at.
LEMMA CheckStatusInv == ASSUME IInv, CheckStatus PROVE IInv'
  <1>1. Quiet
    BY DEF CheckStatus
  <1>2. CASE server \in Invalid
    <2> DEFINE new == [ready |-> "Invalid", finalizer |-> TRUE]
    <2>1. EndUpdating(new, FALSE)
      BY <1>2 DEF CheckStatus
    <2>2. /\ DOMAIN new \subseteq StatusFields /\ new.ready \in Readiness
          /\ new.finalizer \in BOOLEAN /\ "sync" \notin DOMAIN new
      BY DEF StatusFields, Readiness
    <2> HIDE DEF new
    <2> QED BY <1>1, <2>1, <2>2, UpdatesInv
  <1>3. CASE server \notin Invalid
    <2>1. Goto("finish")
      BY <1>3 DEF CheckStatus
    <2>2. ListenerOK' /\ EnvOK' /\ UNCHANGED <<refs, guarded>>
      BY <1>1, QuietOK
    <2>3. "finish" \in CtlSteps \ {"put", "refs", "oneWay"}
      BY DEF CtlSteps
    <2> QED BY <2>1, <2>2, <2>3, GotoOK DEF IInv
  <1> QED BY <1>2, <1>3

\* The resource is ready.
LEMMA FinishInv == ASSUME IInv, Finish PROVE IInv'
  <1> DEFINE new == IF ctl.both THEN [ready |-> "True", finalizer |-> TRUE, sync |-> "True"]
                    ELSE [ready |-> "True", finalizer |-> TRUE]
  <1>1. Quiet /\ EndUpdating(new, FALSE)
    BY DEF Finish
  <1>2. /\ DOMAIN new \subseteq StatusFields /\ new.ready \in Readiness /\ new.finalizer \in BOOLEAN
        /\ "sync" \in DOMAIN new => new.sync \in {"Unknown", "True", "False"}
    BY DEF StatusFields, Readiness
  <1> HIDE DEF new
  <1> QED BY <1>1, <1>2, UpdatesInv

\* A step of the controller.
LEMMA ReconcileInv == ASSUME IInv, Reconcile PROVE IInv'
  BY NotFoundInv, RemoveMarkedInv, FirstWriteInv, StartInv, DeleteMarkedInv, AnnounceOneWayInv,
     FindReferencingCachesInv, DeleteOnServerInv, RemoveFinalizerInv, PutInv, CheckStatusInv, FinishInv
  DEF Reconcile

-----------------------------------------------------------------------------
(***************************************************************************)
(* The steps of the listener.                                              *)
(***************************************************************************)

\* A step of the listener that writes no resource.
LEMMA ReadsInv ==
    ASSUME IInv, Listener, UNCHANGED <<crs, queue>>, ListenerOK'
    PROVE  IInv'
  <1>1. EnvOK' /\ CtlOK' /\ UNCHANGED <<ctl, refs, guarded>>
    BY ListenerFrame
  <1>2. GuardOK'
    BY <1>1, GuardUnchanged DEF IInv
  <1> QED BY <1>1, <1>2 DEF IInv, CrsOK, QueueOK

\* A step of the listener that writes one resource, and ends no deletion of it.
LEMMA WritesInv ==
    ASSUME IInv, Listener, NEW s \in DOMAIN crs, NEW c \in CR, Patch(s, c), queue' = queue \cup Woken(s),
           crs[s].deleted # "no" => c.deleted # "no" /\ c.finalizer, ListenerOK'
    PROVE  IInv'
  <1>1. EnvOK' /\ CtlOK' /\ UNCHANGED <<ctl, refs, guarded>>
    BY ListenerFrame
  <1>2. s \in Slots
    BY DEF IInv, CrsOK
  <1>3. CrsOK' /\ QueueOK'
    BY <1>2, PatchOK, WokenSlots DEF IInv, QueueOK
  <1>4. GuardOK'
    BY <1>1, PatchGuard DEF IInv
  <1> QED BY <1>1, <1>3, <1>4 DEF IInv

\* The listener reads the names on the server and subscribes.
LEMMA ReadNamesInv == ASSUME IInv, ReadNames \/ Subscribe PROVE IInv'
  <1>1. Listener /\ UNCHANGED <<crs, queue>>
    BY DEF ReadNames, Subscribe
  <1>2. server \in Protos \cup {NoProto} /\ lst \in LstType /\ stream \in Seq(TextEvent)
    BY DEF IInv, EnvOK, ListenerOK
  <1>3. CASE ReadNames
    <2>1. lst' = [lst EXCEPT !.pc = "sweepList", !.proto = server] /\ UNCHANGED stream
      BY <1>3 DEF ReadNames
    <2>2. lst' \in LstType /\ lst'.pc = "sweepList"
      BY <1>2, <2>1 DEF LstType, LstSteps
    <2>3. ListenerOK'
      BY <1>2, <2>1, <2>2 DEF ListenerOK
    <2> QED BY <1>1, <2>3, ReadsInv
  <1>4. CASE Subscribe
    <2>1. lst' = LstIdle /\ stream' = IF server = NoProto THEN <<>>
                                       ELSE <<[kind |-> "set", proto |-> server]>>
      BY <1>4 DEF Subscribe
    <2>2. server # NoProto => [kind |-> "set", proto |-> server] \in TextEvent
      BY <1>2 DEF TextEvent, Event
    <2>3. stream' \in Seq(TextEvent)
      BY <2>1, <2>2
    <2>4. ListenerOK'
      BY <2>1, <2>3, IdleTypes DEF ListenerOK, LstIdle
    <2> QED BY <1>1, <2>4, ReadsInv
  <1> QED BY <1>3, <1>4

\* The sweep marks resources and does nothing else to them.
LEMMA RemoveStaleResourcesInv == ASSUME IInv, RemoveStaleResources PROVE IInv'
  <1> DEFINE c(s) == [crs[s] EXCEPT !.marked = @ \/ (crs[s].owned /\ lst.proto = NoProto)]
  <1>1. /\ Listener /\ UNCHANGED stream
        /\ crs' = [s \in DOMAIN crs |-> c(s)]
        /\ queue' = queue \cup {s \in DOMAIN crs : crs'[s] # crs[s]}
        /\ lst' = [LstIdle EXCEPT !.pc = "subscribe"]
    BY DEF RemoveStaleResources
  <1>2. ASSUME NEW s \in DOMAIN crs
        PROVE  c(s) \in CR /\ c(s).deleted = crs[s].deleted /\ c(s).finalizer = crs[s].finalizer
    BY DEF IInv, CrsOK, CR
  <1>3. EnvOK' /\ CtlOK' /\ UNCHANGED <<ctl, refs, guarded>>
    BY <1>1, ListenerFrame
  <1> HIDE DEF c
  <1>4. CrsOK'
    BY <1>1, <1>2 DEF IInv, CrsOK
  <1>5. QueueOK'
    BY <1>1 DEF IInv, CrsOK, QueueOK
  <1>6. GuardOK'
    BY <1>1, <1>2, <1>3 DEF IInv, GuardOK, Removing
  <1>7. "subscribe" \in LstSteps
    BY DEF LstSteps
  <1>8. lst' \in LstType /\ lst'.pc = "subscribe"
    BY <1>1, <1>7, UserSlot, LstSteppedType
  <1>9. ListenerOK'
    BY <1>1, <1>8 DEF IInv, ListenerOK
  <1> QED BY <1>3, <1>4, <1>5, <1>6, <1>9 DEF IInv

\* The one resource an event is about.
LEMMA TheExistingSlot ==
    ASSUME CrsOK, Cardinality(Existing) = 1
    PROVE  TheExisting \in DOMAIN crs /\ TheExisting \in Slots
  <1>1. Existing # {}
    BY FS_EmptySet
  <1>2. TheExisting \in Existing
    BY <1>1 DEF TheExisting
  <1> QED BY <1>2 DEF Existing, CrsOK

\* The listener finds the resource of an event, or ignores the event.
LEMMA FindsInv == ASSUME IInv, IgnoreEvent \/ FindForSet \/ FindForRemove PROVE IInv'
  <1>1. Listener /\ UNCHANGED <<crs, queue>>
    BY DEF IgnoreEvent, FindForSet, FindForRemove
  <1>2. stream # <<>>
    BY DEF IgnoreEvent, FindForSet, FindForRemove, Received
  <1>3. Head(stream) \in TextEvent /\ stream \in Seq(TextEvent)
    BY <1>2, HeadEvent DEF IInv, ListenerOK
  <1>4. CASE IgnoreEvent
    BY <1>1, <1>2, <1>4, HandledOK, ReadsInv DEF IgnoreEvent, IInv
  <1>5. CASE FindForSet
    <2>1. Head(stream).proto \in Protos /\ UNCHANGED stream
      BY <1>3, <1>5 DEF FindForSet, Received, TextEvent
    <2> DEFINE p == Head(stream).proto
    <2>2. "create" \in LstSteps /\ "get" \in LstSteps /\ p \in Protos \cup {NoProto}
      BY <2>1 DEF LstSteps
    <2> HIDE DEF p
    <2>3. lst' \in LstType /\ lst'.proto = p
      <3>1. CASE lst' = [LstIdle EXCEPT !.pc = "create", !.proto = p]
        BY <3>1, <2>2, UserSlot, LstSteppedType
      <3>2. CASE /\ Cardinality(Existing) = 1
                 /\ lst' = [LstIdle EXCEPT !.pc = "get", !.s = TheExisting, !.proto = p]
        <4>1. TheExisting \in Slots
          BY <3>2, TheExistingSlot DEF IInv
        <4>2. PICK s \in Slots : lst' = [LstIdle EXCEPT !.pc = "get", !.s = s, !.proto = p]
          BY <3>2, <4>1
        <4> QED BY <4>2, <2>2, UserSlot DEF LstIdle, LstType
      <3> QED BY <1>5, <3>1, <3>2 DEF FindForSet, p
    <2>4. ListenerOK'
      BY <1>2, <1>3, <2>1, <2>3 DEF ListenerOK, p
    <2> QED BY <1>1, <2>4, ReadsInv
  <1>6. CASE FindForRemove
    <2>1. TheExisting \in Slots
      BY <1>6, TheExistingSlot DEF FindForRemove, IInv
    <2>2. lst' = [LstIdle EXCEPT !.pc = "mark", !.s = TheExisting] /\ UNCHANGED stream
      BY <1>6 DEF FindForRemove
    <2>3. "mark" \in LstSteps
      BY DEF LstSteps
    <2>4. lst' \in LstType /\ lst'.pc = "mark"
      BY <2>1, <2>2, <2>3, LstSteppedType
    <2>5. ListenerOK'
      BY <1>2, <1>3, <2>2, <2>4 DEF ListenerOK
    <2> QED BY <1>1, <2>5, ReadsInv
  <1> QED BY <1>4, <1>5, <1>6

\* The name generateName gives is one of the generated names, and new.
LEMMA GeneratedSlot ==
    ASSUME DOMAIN crs \subseteq {UserCR}
    PROVE  GeneratedName \in Slots /\ GeneratedName \notin DOMAIN crs /\ GeneratedName # ctl.s
  <1>1. PICK t \in GeneratedCRs : t # ctl.s
    BY NamesAssumption
  <1>2. t \notin DOMAIN crs \cup {ctl.s}
    BY <1>1, ProtoAssumption
  <1>3. GeneratedName \in GeneratedCRs /\ GeneratedName \notin DOMAIN crs \cup {ctl.s}
    BY <1>2 DEF GeneratedName
  <1> QED BY <1>3 DEF Slots

\* A resource is created under a new name: a reconciliation of a resource under
\* deletion is that of another.
LEMMA CreatedOK ==
    ASSUME IInv, NEW s \in Slots, s \notin DOMAIN crs, NEW c \in CR, c.deleted = "no", crs' = With(s, c),
           queue' = queue \cup {s}, UNCHANGED <<ctl, refs, guarded>>
    PROVE  CrsOK' /\ QueueOK' /\ GuardOK'
  <1>1. CrsOK' /\ QueueOK'
    BY DEF IInv, CrsOK, QueueOK, With
  <1>2. \A t \in DOMAIN crs : t \in DOMAIN crs' /\ crs'[t] = crs[t]
    BY DEF With
  <1>3. GuardOK'
    BY <1>2 DEF IInv, GuardOK, Removing
  <1> QED BY <1>1, <1>3

\* What the listener creates, unless the webhook refuses it.
LEMMA CreateCRShape ==
    ASSUME CreateCR, ~UNCHANGED <<crs, queue>>
    PROVE  crs' = With(GeneratedName, NewCR(lst.proto, TRUE)) /\ queue' = queue \cup {GeneratedName}
  BY DEF CreateCR

\* The listener creates a resource.
LEMMA CreateCRInv == ASSUME IInv, Lone, CreateCR PROVE IInv'
  <1>1. Listener /\ lst.pc = "create" /\ Handled
    BY DEF CreateCR
  <1>2. lst.proto \in Protos /\ stream # <<>>
    BY <1>1 DEF IInv, ListenerOK
  <1>3. ListenerOK'
    BY <1>1, <1>2, HandledOK DEF IInv
  <1>4. CASE ~UNCHANGED <<crs, queue>>
    <2> DEFINE s == GeneratedName
               c == NewCR(lst.proto, TRUE)
    <2>1. crs' = With(s, c) /\ queue' = queue \cup {s}
      BY <1>4, CreateCRShape
    <2>2. s \in Slots /\ s \notin DOMAIN crs /\ c \in CR /\ c.deleted = "no"
      BY <1>1, <1>2, GeneratedSlot, NewCRType DEF Lone
    <2>3. EnvOK' /\ CtlOK' /\ UNCHANGED <<ctl, refs, guarded>>
      BY <1>1, ListenerFrame
    <2> HIDE DEF s, c
    <2>4. CrsOK' /\ QueueOK' /\ GuardOK'
      BY <2>1, <2>2, <2>3, CreatedOK
    <2> QED BY <1>3, <2>3, <2>4 DEF IInv
  <1>5. CASE UNCHANGED <<crs, queue>>
    BY <1>1, <1>3, <1>5, ReadsInv
  <1> QED BY <1>4, <1>5

\* CreateOrPatch reads the resource.
LEMMA GetCRInv == ASSUME IInv, GetCR PROVE IInv'
  <1>1. Listener /\ lst.pc = "get" /\ UNCHANGED <<crs, queue>>
    BY DEF GetCR
  <1>2. lst.proto \in Protos /\ stream # <<>> /\ lst \in LstType
    BY <1>1 DEF IInv, ListenerOK
  <1>3. CASE lst.s \in DOMAIN crs
    <2> DEFINE b == crs[lst.s].spec
               g == crs[lst.s].gen
               f == crs[lst.s].finalizer
    <2>1. b \in Protos /\ g \in Nat /\ f \in BOOLEAN
      BY <1>3 DEF IInv, CrsOK, CR
    <2>2. lst' = [lst EXCEPT !.pc = "patch", !.base = b, !.gen = g, !.fin = f] /\ UNCHANGED stream
      BY <1>3 DEF GetCR
    <2> HIDE DEF b, g, f
    <2>3. lst' \in LstType /\ lst'.proto = lst.proto
      BY <1>2, <2>1, <2>2 DEF LstType, LstSteps
    <2>4. ListenerOK'
      BY <1>2, <2>2, <2>3 DEF IInv, ListenerOK
    <2> QED BY <1>1, <2>4, ReadsInv
  <1>4. CASE lst.s \notin DOMAIN crs
    BY <1>1, <1>2, <1>4, HandledOK, ReadsInv DEF GetCR, IInv
  <1> QED BY <1>3, <1>4

\* The patch of the listener changes the spec and sets the finalizer at most.
LEMMA PatchCRInv == ASSUME IInv, PatchCR PROVE IInv'
  <1>1. Listener /\ lst.pc = "patch" /\ Handled
    BY DEF PatchCR
  <1>2. lst.proto \in Protos /\ stream # <<>> /\ lst.gen \in Nat /\ lst.fin \in BOOLEAN
    BY <1>1 DEF IInv, ListenerOK, LstType
  <1>3. ListenerOK'
    BY <1>1, <1>2, HandledOK DEF IInv
  <1>4. CASE lst.s \in DOMAIN crs
    <2> DEFINE s == lst.s
               spec == IF lst.proto = lst.base THEN crs[s].spec ELSE lst.proto
               r == Respec(crs[s], spec)
               c == [r EXCEPT !.listenerGen = lst.gen + 1, !.finalizer = @ \/ ~lst.fin]
    <2>1. crs[s] \in CR /\ (crs[s].deleted # "no" => crs[s].finalizer)
      BY <1>4 DEF IInv, CrsOK
    <2>2. spec \in Protos
      BY <1>2, <2>1 DEF CR
    <2>3. r \in CR /\ r.deleted = crs[s].deleted /\ r.finalizer = crs[s].finalizer
      BY <2>1, <2>2, RespecType
    <2>4. Patch(s, c) /\ queue' = queue \cup Woken(s)
      BY <1>4 DEF PatchCR
    <2>5. lst.gen + 1 \in Nat
      BY <1>2
    <2> HIDE DEF r
    <2>6. c \in CR /\ c.deleted = r.deleted /\ (r.finalizer => c.finalizer)
      BY <1>2, <2>3, <2>5 DEF CR
    <2> HIDE DEF c
    <2> QED BY <1>1, <1>3, <1>4, <2>1, <2>3, <2>4, <2>6, WritesInv
  <1>5. CASE lst.s \notin DOMAIN crs
    <2>1. UNCHANGED <<crs, queue>>
      BY <1>5 DEF PatchCR
    <2> QED BY <1>1, <1>3, <2>1, ReadsInv
  <1> QED BY <1>4, <1>5

\* A resource that is not under deletion is marked.
LEMMA MarkCRInv == ASSUME IInv, MarkCR PROVE IInv'
  <1>1. Listener /\ lst.pc = "mark" /\ Handled
    BY DEF MarkCR
  <1>2. stream # <<>>
    BY <1>1 DEF IInv, ListenerOK
  <1>3. ListenerOK'
    BY <1>1, <1>2, HandledOK DEF IInv
  <1>4. CASE lst.s \in DOMAIN crs /\ crs[lst.s].deleted = "no"
    <2>1. [crs[lst.s] EXCEPT !.marked = TRUE] \in CR
      BY <1>4 DEF IInv, CrsOK, CR
    <2>2. Patch(lst.s, [crs[lst.s] EXCEPT !.marked = TRUE]) /\ queue' = queue \cup Woken(lst.s)
      BY <1>4 DEF MarkCR
    <2> QED BY <1>1, <1>3, <1>4, <2>1, <2>2, WritesInv
  <1>5. CASE ~(lst.s \in DOMAIN crs /\ crs[lst.s].deleted = "no")
    <2>1. UNCHANGED <<crs, queue>>
      BY <1>5 DEF MarkCR
    <2> QED BY <1>1, <1>3, <2>1, ReadsInv
  <1> QED BY <1>4, <1>5

\* A step of the listener.
LEMMA ListenInv == ASSUME IInv, Lone, Listen PROVE IInv'
  BY ReadNamesInv, RemoveStaleResourcesInv, FindsInv, CreateCRInv, GetCRInv, PatchCRInv, MarkCRInv
  DEF Listen

-----------------------------------------------------------------------------
(***************************************************************************)
(* Users, clients, caches and the cluster.                                 *)
(***************************************************************************)

\* The counters of changes.
LEMMA ChangeCounts ==
    ASSUME EnvOK, NEW kind, NEW calm, ChangeIf(kind, calm)
    PROVE  changes' \in 0..MaxChanges /\ hurry' \in 0..MaxHurry /\ UNCHANGED <<ctl, faults>>
  <1>1. changes \in 0..MaxChanges /\ hurry \in 0..MaxHurry /\ MaxChanges \in Nat /\ MaxHurry \in Nat
    BY ProtoAssumption DEF EnvOK
  <1>2. changes < MaxChanges /\ changes' = changes + 1 /\ UNCHANGED <<ctl, faults>>
    BY DEF ChangeIf
  <1>3. hurry' = hurry \/ (hurry < MaxHurry /\ hurry' = hurry + 1)
    BY DEF ChangeIf
  <1> QED BY <1>1, <1>2, <1>3

\* What a user's change of the resources leaves.
LEMMA ByUserOK ==
    ASSUME IInv, NEW kind, NEW calm, ChangeIf(kind, calm), ByUser, refs' \subseteq Slots
    PROVE  EnvOK' /\ ListenerOK' /\ CtlOK' /\ UNCHANGED ctl
  <1>1. changes' \in 0..MaxChanges /\ hurry' \in 0..MaxHurry /\ UNCHANGED <<ctl, faults>>
    BY ChangeCounts DEF IInv
  <1>2. UNCHANGED <<server, cluster, bidi, stream, lst, unseen>>
    BY DEF ByUser
  <1> QED BY <1>1, <1>2 DEF IInv, EnvOK, ListenerOK, CtlOK

\* A user creates the resource.
LEMMA UserCreatesInv == ASSUME IInv, UserCreates PROVE IInv'
  <1>1. /\ ChangeIf("create", Settled) /\ ByUser /\ UNCHANGED <<refs, guarded>>
        /\ UserCR \notin DOMAIN crs /\ queue' = queue \cup {UserCR}
    BY DEF UserCreates, Change
  <1>2. PICK p \in Protos : crs' = With(UserCR, NewCR(p, FALSE))
    BY DEF UserCreates
  <1>3. refs' \subseteq Slots
    BY <1>1 DEF IInv, EnvOK
  <1>4. EnvOK' /\ ListenerOK' /\ CtlOK' /\ UNCHANGED ctl
    BY <1>1, <1>3, ByUserOK
  <1>5. NewCR(p, FALSE) \in CR /\ NewCR(p, FALSE).deleted = "no"
    BY NewCRType
  <1>6. CrsOK' /\ QueueOK' /\ GuardOK'
    BY <1>1, <1>2, <1>4, <1>5, UserSlot, CreatedOK
  <1> QED BY <1>4, <1>6 DEF IInv

\* A user edits or pauses a resource that is not under deletion.
LEMMA UserWritesOK ==
    ASSUME IInv, NEW s \in Slots, s \in DOMAIN crs, crs[s].deleted = "no", NEW c \in CR, Patch(s, c),
           queue' = queue \cup {s}, UNCHANGED <<ctl, refs, guarded>>
    PROVE  CrsOK' /\ QueueOK' /\ GuardOK'
  BY PatchOK, PatchGuard DEF IInv, QueueOK

\* A user edits or pauses a resource.
LEMMA UserEditsInv == ASSUME IInv, NEW s \in Slots, UserEdits(s) \/ UserPauses(s) PROVE IInv'
  <1>1. /\ ChangeIf("edit", Settled) \/ ChangeIf("pause", Settled)
        /\ ByUser /\ UNCHANGED <<refs, guarded>>
        /\ s \in DOMAIN crs /\ crs[s].deleted = "no" /\ queue' = queue \cup {s}
    BY DEF UserEdits, UserPauses, Change
  <1>2. refs' \subseteq Slots /\ crs[s] \in CR
    BY <1>1 DEF IInv, EnvOK, CrsOK
  <1>3. EnvOK' /\ ListenerOK' /\ CtlOK' /\ UNCHANGED ctl
    BY <1>1, <1>2, ByUserOK
  <1>4. \E c \in CR : Patch(s, c)
    <2>1. CASE UserEdits(s)
      <3>1. PICK p \in Protos : Patch(s, Respec(crs[s], p))
        BY <2>1 DEF UserEdits
      <3> QED BY <1>2, <3>1, RespecType
    <2>2. CASE UserPauses(s)
      <3>1. Patch(s, [crs[s] EXCEPT !.paused = ~@])
        BY <2>2 DEF UserPauses
      <3>2. [crs[s] EXCEPT !.paused = ~@] \in CR
        BY <1>2 DEF CR
      <3> QED BY <3>1, <3>2
    <2> QED BY <2>1, <2>2
  <1>5. CrsOK' /\ QueueOK' /\ GuardOK'
    BY <1>1, <1>3, <1>4, UserWritesOK
  <1> QED BY <1>3, <1>5 DEF IInv

\* A user asks for the deletion of a resource: no reconciliation of a deletion
\* of it is in progress.
LEMMA UserDeletesInv == ASSUME IInv, NEW s \in Slots, UserDeletes(s) PROVE IInv'
  <1> DEFINE c == [crs[s] EXCEPT !.deleted = "user", !.gen = @ + 1]
  <1>1. /\ s \in DOMAIN crs /\ crs[s].deleted = "no"
        /\ ChangeIf("delete", Settled /\ crs[s].finalizer) /\ ByUser /\ UNCHANGED refs
        /\ guarded' = guarded \cup ({s} \cap refs)
        /\ Patch(s, c) /\ queue' = queue \cup {s}
    BY DEF UserDeletes
  <1>2. refs' \subseteq Slots /\ crs[s] \in CR
    BY <1>1 DEF IInv, EnvOK, CrsOK
  <1>3. EnvOK' /\ ListenerOK' /\ CtlOK' /\ UNCHANGED ctl
    BY <1>1, <1>2, ByUserOK
  <1>4. c \in CR
    <2>1. crs[s].gen + 1 \in Nat
      BY <1>2 DEF CR
    <2>2. c = [crs[s] EXCEPT !.deleted = "user", !.gen = crs[s].gen + 1]
      OBVIOUS
    <2> HIDE DEF c
    <2> QED BY <1>2, <2>1, <2>2 DEF CR
  <1> HIDE DEF c
  <1>5. CrsOK' /\ QueueOK'
    BY <1>1, <1>4, PatchOK DEF IInv, QueueOK
  <1>6. Removing => ctl.s # s
    BY <1>1 DEF IInv, GuardOK
  <1>7. Removing => ctl.s \in DOMAIN crs' /\ crs'[ctl.s] = crs[ctl.s]
    BY <1>1, <1>4, <1>6, StoredFacts DEF IInv, GuardOK, Patch
  <1>8. GuardOK'
    BY <1>1, <1>3, <1>6, <1>7 DEF IInv, GuardOK, Removing
  <1> QED BY <1>3, <1>5, <1>8 DEF IInv

\* A reference comes or goes; one that goes guards no more.
LEMMA ReferenceChangesInv == ASSUME IInv, NEW s \in Slots, ReferenceChanges(s) PROVE IInv'
  <1>1. /\ ChangeIf("ref", Settled) /\ ByUser /\ UNCHANGED crs
        /\ guarded' = guarded \cap refs' /\ queue' \subseteq queue \cup {s}
    BY DEF ReferenceChanges, Change
  <1>2. refs' \subseteq Slots
    BY DEF ReferenceChanges, IInv, EnvOK
  <1>3. EnvOK' /\ ListenerOK' /\ CtlOK' /\ UNCHANGED ctl
    BY <1>1, <1>2, ByUserOK
  <1>4. GuardOK'
    BY <1>1, <1>3 DEF IInv, GuardOK, Removing
  <1> QED BY <1>1, <1>3, <1>4 DEF IInv, CrsOK, QueueOK

\* A client changes or removes the schema on the server.
LEMMA ClientInv == ASSUME IInv, ClientSets \/ ClientRemoves PROVE IInv'
  <1>1. UNCHANGED <<crs, queue, cluster, bidi, refs, lst, guarded>>
    BY DEF ClientSets, ClientRemoves
  <1>2. \E kind, calm : ChangeIf(kind, calm)
    BY DEF ClientSets, ClientRemoves, Change
  <1>3. changes' \in 0..MaxChanges /\ hurry' \in 0..MaxHurry /\ UNCHANGED <<ctl, faults>>
    BY <1>2, ChangeCounts DEF IInv
  <1>4. server' \in Protos \cup {NoProto} /\ ListenerOK' /\ unseen' \in {"no", "swept", "lost"}
    <2>1. CASE ClientSets
      <3>1. PICK p \in Protos : server' = p /\ Emit("set", p)
        BY <2>1 DEF ClientSets
      <3> QED BY <1>1, <3>1, EmitOK DEF IInv, EnvOK
    <2>2. CASE ClientRemoves
      <3>1. server' = NoProto /\ Emit("remove", NoProto)
        BY <2>2 DEF ClientRemoves
      <3> QED BY <1>1, <3>1, EmitOK DEF IInv, EnvOK
    <2> QED BY <2>1, <2>2
  <1>5. EnvOK'
    BY <1>1, <1>3, <1>4 DEF IInv, EnvOK
  <1>6. GuardOK'
    BY <1>1, <1>3, GuardUnchanged DEF IInv
  <1> QED BY <1>1, <1>3, <1>4, <1>5, <1>6 DEF IInv, CrsOK, CtlOK, QueueOK

\* The listener out of its connection, at the step "pc".
LEMMA DisconnectedOK ==
    ASSUME NEW pc \in {"sweep", "subscribe", "stopped"}, lst' = [LstIdle EXCEPT !.pc = pc], stream' = <<>>
    PROVE  ListenerOK'
  <1>1. pc \in LstSteps
    BY DEF LstSteps
  <1>2. lst' \in LstType /\ lst'.pc = pc
    BY <1>1, UserSlot, LstSteppedType
  <1>3. stream' \in Seq(TextEvent)
    OBVIOUS
  <1> QED BY <1>2, <1>3 DEF ListenerOK

\* The cluster stops and forms, and the listener comes and goes.
LEMMA ClusterChangesInv == ASSUME IInv, ClusterChanges \/ ListenerToggled PROVE IInv'
  <1>1. UNCHANGED <<crs, server, refs, guarded>> /\ queue' = queue \cup DOMAIN crs
    BY DEF ClusterChanges, ListenerToggled
  <1>2. \E kind, calm : ChangeIf(kind, calm)
    BY DEF ClusterChanges, ListenerToggled, Change
  <1>3. changes' \in 0..MaxChanges /\ hurry' \in 0..MaxHurry /\ UNCHANGED <<ctl, faults>>
    BY <1>2, ChangeCounts DEF IInv
  <1>4. /\ cluster' \in {"formed", "forming", "gone"} /\ bidi' \in BOOLEAN
        /\ unseen' \in {"no", "swept", "lost"}
    BY DEF ClusterChanges, ListenerToggled, IInv, EnvOK
  <1>5. ListenerOK'
    <2>1. CASE ClusterChanges
      BY <2>1 DEF ClusterChanges, IInv, ListenerOK
    <2>2. CASE ListenerToggled
      <3>1. PICK pc \in {"sweep", "subscribe", "stopped"} : lst' = [LstIdle EXCEPT !.pc = pc]
        BY <2>2 DEF ListenerToggled
      <3> QED BY <2>2, <3>1, DisconnectedOK DEF ListenerToggled
    <2> QED BY <2>1, <2>2
  <1>6. EnvOK'
    BY <1>1, <1>3, <1>4 DEF IInv, EnvOK
  <1>7. GuardOK'
    BY <1>1, <1>3, GuardUnchanged DEF IInv
  <1> QED BY <1>1, <1>3, <1>5, <1>6, <1>7 DEF IInv, CrsOK, CtlOK, QueueOK

\* With the cluster go the resources it owns, those with a finalizer not yet.
LEMMA ClusterDeletedInv == ASSUME IInv, ClusterDeleted PROVE IInv'
  <1> DEFINE D == {t \in DOMAIN crs : ~crs[t].owned \/ crs[t].finalizer}
             c(s) == [crs[s] EXCEPT !.deleted = IF @ = "no" /\ crs[s].owned THEN "operator" ELSE @]
  <1>1. /\ crs' = [s \in D |-> c(s)] /\ cluster' = "gone" /\ server' = NoProto
        /\ stream' = <<>> /\ lst' = [LstIdle EXCEPT !.pc = "stopped"]
        /\ queue' = queue \cup DOMAIN crs /\ UNCHANGED <<bidi, refs, unseen, guarded>>
        /\ ChangeIf("gone", Settled)
    BY DEF ClusterDeleted, Change
  <1>2. changes' \in 0..MaxChanges /\ hurry' \in 0..MaxHurry /\ UNCHANGED <<ctl, faults>>
    BY <1>1, ChangeCounts DEF IInv
  <1>3. ASSUME NEW s \in D
        PROVE  /\ s \in DOMAIN crs /\ c(s) \in CR
               /\ c(s).deleted # "no" => c(s).finalizer
               /\ crs[s].deleted # "no" => c(s).deleted # "no"
    <2>1. s \in DOMAIN crs /\ crs[s] \in CR /\ (crs[s].deleted # "no" => crs[s].finalizer)
      BY DEF IInv, CrsOK
    <2>2. c(s) \in CR /\ c(s).finalizer = crs[s].finalizer
      BY <2>1 DEF CR
    <2>3. c(s).deleted = IF crs[s].deleted = "no" /\ crs[s].owned THEN "operator" ELSE crs[s].deleted
      BY <2>1 DEF CR
    <2> QED BY <2>1, <2>2, <2>3
  <1>4. \A s \in DOMAIN crs : crs[s].deleted # "no" => s \in D
    BY DEF IInv, CrsOK
  <1>5. ListenerOK'
    BY <1>1, DisconnectedOK
  <1>6. EnvOK'
    BY <1>1, <1>2 DEF IInv, EnvOK
  <1> HIDE DEF D, c
  <1>7. CrsOK' /\ QueueOK'
    BY <1>1, <1>3 DEF IInv, CrsOK, QueueOK
  <1>8. GuardOK'
    BY <1>1, <1>2, <1>3, <1>4 DEF IInv, GuardOK, Removing
  <1>9. CtlOK'
    BY <1>2 DEF IInv, CtlOK
  <1> QED BY <1>5, <1>6, <1>7, <1>8, <1>9 DEF IInv

\* A step of users, clients, caches or the cluster.
LEMMA EnvironmentInv == ASSUME IInv, Environment PROVE IInv'
  BY UserCreatesInv, ClientInv, ClusterChangesInv, ClusterDeletedInv, UserEditsInv, UserDeletesInv,
     ReferenceChangesInv
  DEF Environment

-----------------------------------------------------------------------------
(***************************************************************************)
(* Faults.                                                                 *)
(***************************************************************************)

\* The counter of faults.
LEMMA FaultCounts ==
    ASSUME EnvOK, NEW kind, Fault(kind)
    PROVE  faults' \in 0..MaxFaults /\ UNCHANGED <<cluster, bidi, refs, changes, guarded>>
  <1>1. faults \in 0..MaxFaults /\ MaxFaults \in Nat
    BY ProtoAssumption DEF EnvOK
  <1>2. faults < MaxFaults /\ faults' = faults + 1
    BY DEF Fault
  <1>3. faults' \in 0..MaxFaults
    BY <1>1, <1>2
  <1> QED BY <1>3 DEF Fault

\* A restarted operator has no reconciliation in progress.
LEMMA OperatorCrashInv == ASSUME IInv, OperatorCrash PROVE IInv'
  <1>1. faults' \in 0..MaxFaults /\ UNCHANGED <<cluster, bidi, refs, changes, guarded>>
    BY FaultCounts DEF IInv, OperatorCrash
  <1>2. UNCHANGED <<crs, server, stream, lst, unseen, hurry>> /\ ctl' = CtlIdle /\ queue' = DOMAIN crs
    BY DEF OperatorCrash
  <1>3. CtlOK' /\ GuardOK'
    BY <1>1, <1>2, IdleGuard DEF IInv
  <1>4. EnvOK' /\ ListenerOK'
    BY <1>1, <1>2 DEF IInv, EnvOK, ListenerOK
  <1> QED BY <1>2, <1>3, <1>4 DEF IInv, CrsOK, QueueOK

\* A failed call ends the reconciliation.
LEMMA CallFailsInv == ASSUME IInv, CallFails PROVE IInv'
  <1>1. faults' \in 0..MaxFaults /\ UNCHANGED <<cluster, bidi, refs, changes, guarded>>
    BY FaultCounts DEF IInv, CallFails
  <1>2. UNCHANGED <<server, stream, lst, unseen, hurry>>
    BY DEF CallFails
  <1>3. EnvOK' /\ ListenerOK'
    BY <1>1, <1>2 DEF IInv, EnvOK, ListenerOK
  <1>4. CrsOK' /\ CtlOK' /\ QueueOK' /\ GuardOK'
    <2>1. CASE ctl' = CtlIdle /\ queue' = queue \cup {ctl.s} /\ UNCHANGED crs
      <3>1. CtlOK' /\ GuardOK'
        BY <1>1, <2>1, IdleGuard DEF IInv
      <3> QED BY <2>1, <3>1 DEF IInv, CrsOK, QueueOK, CtlOK, CtlType
    <2>2. CASE EndUpdating([ready |-> "CallFailed"], TRUE)
      <3> DEFINE new == [ready |-> "CallFailed"]
      <3>1. /\ DOMAIN new \subseteq StatusFields /\ new.ready \in Readiness
            /\ "finalizer" \notin DOMAIN new /\ "sync" \notin DOMAIN new
        BY DEF StatusFields, Readiness
      <3>2. EndUpdating(new, TRUE)
        BY <2>2
      <3> HIDE DEF new
      <3> QED BY <1>1, <3>1, <3>2, EndUpdatingOK
    <2>3. CASE EndUpdating([ready |-> "CallFailed", finalizer |-> TRUE], FALSE)
      <3> DEFINE new == [ready |-> "CallFailed", finalizer |-> TRUE]
      <3>1. /\ DOMAIN new \subseteq StatusFields /\ new.ready \in Readiness
            /\ new.finalizer \in BOOLEAN /\ "sync" \notin DOMAIN new
        BY DEF StatusFields, Readiness
      <3>2. EndUpdating(new, FALSE)
        BY <2>3
      <3> HIDE DEF new
      <3> QED BY <1>1, <3>1, <3>2, EndUpdatingOK
    <2> QED BY <2>1, <2>2, <2>3 DEF CallFails
  <1> QED BY <1>3, <1>4 DEF IInv

\* The listener restarts, or loses its connection.
LEMMA ListenerFaultsInv == ASSUME IInv, ListenerCrash \/ StreamBreaks PROVE IInv'
  <1>1. faults' \in 0..MaxFaults /\ UNCHANGED <<cluster, bidi, refs, changes, guarded>>
    BY FaultCounts DEF IInv, ListenerCrash, StreamBreaks
  <1>2. UNCHANGED <<crs, server, queue, ctl>> /\ stream' = <<>>
    BY DEF ListenerCrash, StreamBreaks
  <1>3. hurry' \in 0..MaxHurry
    <2>1. hurry \in 0..MaxHurry /\ MaxHurry \in Nat
      BY ProtoAssumption DEF IInv, EnvOK
    <2>2. hurry' = hurry \/ (hurry' = hurry + 1 /\ hurry' <= MaxHurry)
      BY DEF ListenerCrash, StreamBreaks
    <2> QED BY <2>1, <2>2
  <1>4. unseen' \in {"no", "swept", "lost"}
    BY DEF ListenerCrash, StreamBreaks, IInv, EnvOK
  <1>5. ListenerOK'
    BY <1>2, DisconnectedOK DEF ListenerCrash, StreamBreaks
  <1>6. EnvOK'
    BY <1>1, <1>2, <1>3, <1>4 DEF IInv, EnvOK
  <1>7. GuardOK'
    BY <1>1, <1>2, GuardUnchanged DEF IInv
  <1> QED BY <1>2, <1>5, <1>6, <1>7 DEF IInv, CrsOK, CtlOK, QueueOK

-----------------------------------------------------------------------------
(***************************************************************************)
(* The theorems.                                                           *)
(***************************************************************************)

\* The invariant holds at the start.
LEMMA InitInv == ASSUME Init PROVE IInv
  <1>1. CrsOK
    <2>1. CASE crs \in [{} -> CR]
      BY <2>1 DEF CrsOK
    <2>2. CASE crs \in [{UserCR} -> {NewCR(p, FALSE) : p \in Protos}]
      <3>1. PICK p \in Protos : crs[UserCR] = NewCR(p, FALSE)
        BY <2>2
      <3>2. crs[UserCR] \in CR /\ crs[UserCR].deleted = "no"
        BY <3>1, NewCRType
      <3> QED BY <2>2, <3>2, UserSlot DEF CrsOK
    <2> QED BY <2>1, <2>2 DEF Init
  <1>2. CtlOK /\ GuardOK
    BY IdleTypes DEF Init, CtlOK, GuardOK, Removing
  <1>3. ListenerOK
    <2>1. "stopped" \in LstSteps
      BY DEF LstSteps
    <2>2. CASE bidi
      BY <2>2, IdleTypes DEF Init, ListenerOK, LstIdle
    <2>3. CASE ~bidi
      <3>1. lst \in LstType /\ lst.pc = "stopped"
        BY <2>1, <2>3, UserSlot, LstSteppedType DEF Init
      <3> QED BY <3>1 DEF Init, ListenerOK
    <2> QED BY <2>2, <2>3
  <1>4. EnvOK
    BY ProtoAssumption DEF Init, EnvOK
  <1>5. QueueOK
    BY <1>1 DEF Init, QueueOK, CrsOK
  <1> QED BY <1>1, <1>2, <1>3, <1>4, <1>5 DEF IInv

\* Every step keeps the invariant.
LEMMA NextInv == ASSUME IInv, Lone, [Next]_vars PROVE IInv'
  <1>1. CASE Next
    BY <1>1, ReconcileInv, ListenInv, EnvironmentInv, OperatorCrashInv, CallFailsInv, ListenerFaultsInv
    DEF Next
  <1>2. CASE UNCHANGED vars
    BY <1>2 DEF vars, IInv, CrsOK, CtlOK, ListenerOK, EnvOK, QueueOK, GuardOK, Removing
  <1> QED BY <1>1, <1>2

\* A write adds no resource, and removes none that is not under deletion.
LEMMA PatchAdds ==
    ASSUME NEW s \in DOMAIN crs, NEW c, Patch(s, c)
    PROVE  /\ DOMAIN crs' \subseteq DOMAIN crs
           /\ c.deleted = "no" \/ c.finalizer => DOMAIN crs' = DOMAIN crs
  BY DEF Patch, Stored, With, Without

\* Resources are only created by users and by the listener.
LEMMA OnlyCreations ==
    ASSUME IInv, Next, ~UserCreates, ~CreateCR
    PROVE  DOMAIN crs' \subseteq DOMAIN crs
  <1>1. ASSUME NEW s \in DOMAIN crs, NEW c, NEW r, EndWith(s, c, r) PROVE DOMAIN crs' \subseteq DOMAIN crs
    BY <1>1, PatchAdds DEF EndWith
  <1>2. ASSUME NEW new, NEW r, EndUpdating(new, r) PROVE DOMAIN crs' \subseteq DOMAIN crs
    BY <1>1, <1>2 DEF EndUpdating
  <1>3. CASE Reconcile
    <2>1. CASE UNCHANGED crs
      BY <2>1
    <2>2. CASE \E new, r : EndUpdating(new, r)
      BY <1>2, <2>2
    <2>3. CASE \E s \in DOMAIN crs : \E c : Patch(s, c)
      BY <2>3, PatchAdds
    <2>4. CASE \E s \in DOMAIN crs : \E c, r : EndWith(s, c, r)
      BY <1>1, <2>4
    <2>5. ASSUME NEW s \in Slots, NotFound(s) \/ RemoveMarked(s) \/ Pause(s) \/ ClusterMissing(s)
                                  \/ ClusterNotFormed(s) \/ Start(s)
          PROVE  DOMAIN crs' \subseteq DOMAIN crs
      BY <2>1, <2>3, <2>4, <2>5
      DEF NotFound, RemoveMarked, Pause, ClusterMissing, ClusterNotFormed, Begun, Start
    <2> QED
      BY <1>3, <2>1, <2>2, <2>3, <2>4, <2>5
      DEF Reconcile, DeleteMarked, AnnounceOneWay, FindReferencingCaches, DeleteOnServer,
          RemoveFinalizer, Put, CheckStatus, Finish, Goto
  <1>4. CASE Listen
    <2>1. CASE UNCHANGED crs
      BY <2>1
    <2>2. CASE RemoveStaleResources
      BY <2>2 DEF RemoveStaleResources
    <2>3. CASE PatchCR \/ MarkCR
      BY <2>1, <2>3, PatchAdds DEF PatchCR, MarkCR
    <2> QED
      BY <1>4, <2>1, <2>2, <2>3
      DEF Listen, ReadNames, Subscribe, IgnoreEvent, FindForSet, GetCR, FindForRemove
  <1>5. CASE Environment
    <2>1. CASE UNCHANGED crs
      BY <2>1
    <2>2. ASSUME NEW s \in Slots, UserEdits(s) \/ UserDeletes(s) \/ UserPauses(s)
          PROVE  DOMAIN crs' \subseteq DOMAIN crs
      BY <2>2, PatchAdds DEF UserEdits, UserDeletes, UserPauses
    <2>3. CASE ClusterDeleted
      BY <2>3 DEF ClusterDeleted
    <2> QED
      BY <1>5, <2>1, <2>2, <2>3
      DEF Environment, ClientSets, ClientRemoves, ClusterChanges, ListenerToggled, ReferenceChanges
  <1>6. CASE CallFails
    BY <1>2, <1>6 DEF CallFails
  <1>7. CASE OperatorCrash \/ ListenerCrash \/ StreamBreaks
    BY <1>7 DEF OperatorCrash, ListenerCrash, StreamBreaks
  <1> QED BY <1>3, <1>4, <1>5, <1>6, <1>7 DEF Next

\* The listener decides to create a resource only where it finds none.
LEMMA OnlyDecision ==
    ASSUME IInv, Next, lst'.pc = "create", lst.pc # "create"
    PROVE  DOMAIN crs = {}
  <1>1. lst' # lst /\ lst \in LstType
    BY DEF IInv, ListenerOK
  <1>2. ~Handled /\ LstIdle.pc = "idle"
    BY DEF Handled, LstIdle
  <1>3. ~Reconcile
    BY <1>1 DEF Reconcile, NotFound, RemoveMarked, Pause, ClusterMissing, ClusterNotFormed, Start,
                DeleteMarked, AnnounceOneWay, FindReferencingCaches, DeleteOnServer, RemoveFinalizer,
                Put, CheckStatus, Finish, Quiet
  <1>4. ~Environment
    BY <1>1
    DEF Environment, UserCreates, UserEdits, UserDeletes, UserPauses, ReferenceChanges, ByUser, ClientSets,
        ClientRemoves, ClusterChanges, ListenerToggled, ClusterDeleted, LstIdle
  <1>5. ~(OperatorCrash \/ CallFails \/ ListenerCrash \/ StreamBreaks)
    BY <1>1 DEF OperatorCrash, CallFails, ListenerCrash, StreamBreaks, LstIdle
  <1>6. ~(ReadNames \/ RemoveStaleResources \/ Subscribe \/ GetCR \/ FindForRemove)
    BY <1>1, <1>2, IdleTypes
    DEF ReadNames, RemoveStaleResources, Subscribe, GetCR, FindForRemove, LstType
  <1>7. FindForSet
    BY <1>2, <1>3, <1>4, <1>5, <1>6 DEF Next, Listen, IgnoreEvent, CreateCR, PatchCR, MarkCR
  <1> QED BY <1>1, <1>7, IdleTypes DEF FindForSet, LstType, Existing

\* Between its decision and the creation only a user's resource comes up.
LEMMA NextLone == ASSUME IInv, Lone, [Next]_vars PROVE Lone'
  <1>1. CASE UNCHANGED vars
    BY <1>1 DEF vars, Lone
  <1>2. CASE UserCreates
    BY <1>2 DEF UserCreates, ByUser, With, Lone
  <1>3. CASE CreateCR
    BY <1>3 DEF CreateCR, Handled, LstIdle, Lone
  <1>4. CASE Next /\ ~UserCreates /\ ~CreateCR
    BY <1>4, OnlyCreations, OnlyDecision DEF Lone
  <1> QED BY <1>1, <1>2, <1>3, <1>4

\* The invariants hold in every reachable state.
LEMMA LoneInvariance == Spec => [](IInv /\ Lone)
  <1>1. Init => IInv /\ Lone
    <2>1. ASSUME Init PROVE lst.pc # "create"
      BY <2>1 DEF Init, LstIdle
    <2> QED BY <2>1, InitInv DEF Lone
  <1>2. IInv /\ Lone /\ [Next]_vars => (IInv /\ Lone)'
    BY NextInv, NextLone
  <1> QED BY <1>1, <1>2, PTL DEF Spec

\* The type part of it.
LEMMA Invariance == Spec => []IInv
  BY LoneInvariance, PTL

\* The state of the schema synchronization keeps its types: a resource the
\* listener writes has a text for a spec, and the name generateName gave it.
THEOREM TypeCorrect == Spec => []TypeOK
  <1>1. IInv => TypeOK
    <2>1. TextEvent \subseteq Event
      BY DEF TextEvent
    <2>2. stream \in Seq(TextEvent) => stream \in Seq(Event)
      BY <2>1
    <2> QED BY <2>2 DEF IInv, TypeOK, CrsOK, CtlOK, ListenerOK, EnvOK, QueueOK, CtlType, LstType
  <1> QED BY <1>1, Invariance, PTL

\* Only the call of DeleteOnServer takes a schema from the server in a step
\* of the controller.
LEMMA OnlyErased ==
    ASSUME IInv, Next, ctl' # ctl, server # NoProto, server' = NoProto
    PROVE  DeleteOnServer
  <1>1. Quiet => server' = server
    BY DEF Quiet
  <1>2. Listener => ctl' = ctl
    BY DEF Listener
  <1>3. ASSUME NEW kind, NEW calm, ChangeIf(kind, calm) PROVE ctl' = ctl
    BY <1>3 DEF ChangeIf
  <1>4. ~Put
    BY ProtoAssumption DEF Put, IInv, CtlOK
  <1>5. ~Listen
    BY <1>2 DEF Listen, ReadNames, RemoveStaleResources, Subscribe, IgnoreEvent, FindForSet, CreateCR,
                GetCR, PatchCR, FindForRemove, MarkCR
  <1>6. ~Environment
    BY <1>3 DEF Environment, UserCreates, ClientSets, ClientRemoves, ClusterChanges, ListenerToggled,
                ClusterDeleted, UserEdits, UserDeletes, UserPauses, ReferenceChanges, Change
  <1>7. ~(OperatorCrash \/ CallFails \/ ListenerCrash \/ StreamBreaks)
    BY DEF OperatorCrash, CallFails, ListenerCrash, StreamBreaks
  <1>8. Reconcile => DeleteOnServer
    BY <1>1, <1>4 DEF Reconcile, NotFound, RemoveMarked, Pause, ClusterMissing, ClusterNotFormed, Start,
                      DeleteMarked, AnnounceOneWay, FindReferencingCaches, RemoveFinalizer, CheckStatus, Finish
  <1> QED BY <1>5, <1>6, <1>7, <1>8 DEF Next

\* The operator never removes from the server a schema that a Cache resource
\* has been referring to since before the deletion was asked for: what
\* findReferencingCaches read cannot be made stale by a reference that was
\* there before, nor the resource be deleted a second time in between.
THEOREM Guarded == Spec => ReferencedKept
  <1>1. ASSUME IInv, Next, ctl' # ctl, server # NoProto, server' = NoProto
        PROVE  ctl.s \notin guarded
    <2>1. DeleteOnServer
      BY <1>1, OnlyErased
    <2>2. ctl.pc = "erase"
      BY <2>1 DEF DeleteOnServer
    <2> QED BY <1>1, <2>2 DEF IInv, GuardOK
  <1>2. IInv /\ [Next]_vars =>
          [ctl' # ctl /\ server # NoProto /\ server' = NoProto => ctl.s \notin guarded]_vars
    BY <1>1 DEF vars
  <1> QED BY <1>2, Invariance, PTL DEF Spec, ReferencedKept

-----------------------------------------------------------------------------
(***************************************************************************)
(* What the two processes agree on while nobody hurries them.              *)
(***************************************************************************)

Calm == hurry = 0 /\ unseen # "lost" /\ cluster # "gone"

\* Neither under deletion nor about to be.
Live(c) == c.deleted = "no" /\ ~c.marked

\* The server announces its own state.
Announcement(p) == [kind |-> IF p = NoProto THEN "remove" ELSE "set", proto |-> p]

\* A removal the listener has yet to handle.
Withdrawn == server = NoProto /\ stream # <<>>

\* A removal the sweep was to find, of a resource the sweep leaves alone.
Forgiven(c) == unseen = "swept" /\ ~c.owned

(* The last event of the stream says what the server has, and nothing      *)
(* follows a removal.                                                      *)
LinkOK ==
    /\ lst.pc = "stopped" <=> ~bidi
    /\ ~Connected => stream = <<>>
    /\ stream # <<>> => stream[Len(stream)] = Announcement(server)
    /\ \A i \in 1..Len(stream) : stream[i].kind = "remove" => i = Len(stream)

(* Created one after the other, the webhook admits no second resource, and *)
(* the listener creates none.                                              *)
OneCR == \A s, t \in DOMAIN crs : s = t

(* The listener notes the generation its own write gives, never a later.   *)
GenOK == \A s \in DOMAIN crs : crs[s].listenerGen <= crs[s].gen

(* What the listener has read of the resource is still so.                 *)
WorkOK ==
    /\ lst.pc \in {"create", "get", "patch"} =>
          Head(stream).kind = "set" /\ Head(stream).proto = lst.proto
    /\ lst.pc = "mark" => Head(stream).kind = "remove"
    /\ lst.pc = "create" => DOMAIN crs = {}
    /\ lst.pc \in {"get", "patch", "mark"} /\ lst.s \notin DOMAIN crs =>
          DOMAIN crs = {} /\ server = NoProto
    /\ lst.pc \in {"get", "patch"} /\ lst.s \in DOMAIN crs => crs[lst.s].spec # lst.proto
    /\ lst.pc = "patch" /\ lst.s \in DOMAIN crs =>
          lst.base = crs[lst.s].spec /\ lst.gen = crs[lst.s].gen
    /\ lst.pc = "sweepList" /\ lst.proto = NoProto =>
          \A s \in DOMAIN crs : crs[s].owned => server = NoProto

(* A schema without a resource has an event that will create one.          *)
ShownOK == Connected /\ server # NoProto /\ DOMAIN crs = {} => stream # <<>>

(* A marked resource is about to go, and nothing sets its schema again.    *)
MarkedOK ==
    \A s \in DOMAIN crs : crs[s].marked =>
        server = NoProto /\ stream = <<>> /\ (s \in queue \/ (ctl.pc = "deleteCR" /\ ctl.s = s))

(* What the controller has read of the resource is still so.               *)
StepOK ==
    /\ ctl.pc = "put" => /\ ctl.s \in DOMAIN crs /\ Live(crs[ctl.s])
                         /\ reconcileOnServer(crs[ctl.s]) => ctl.spec = crs[ctl.s].spec
    /\ ctl.pc = "oneWay" => ~bidi
    /\ ctl.pc = "oneWay" /\ ~ctl.deleted => ctl.s \in DOMAIN crs /\ Live(crs[ctl.s])
    /\ ctl.pc = "unfinalize" =>
          server = NoProto /\ (ctl.s \in DOMAIN crs => crs[ctl.s].deleted # "no")
    /\ ctl.pc = "deleteCR" /\ ctl.s \in DOMAIN crs => crs[ctl.s].marked /\ ~crs[ctl.s].finalizer

(* Nothing puts the schema on the server again before the listener has     *)
(* handled its removal.                                                    *)
WithdrawnOK ==
    Withdrawn =>
        /\ ctl.pc # "put"
        /\ \A s \in DOMAIN crs : Live(crs[s]) /\ reconcileOnServer(crs[s]) =>
               s \notin queue /\ ctl.pc = "idle"

(* A sweep is to find the listener's resource of the missing schema.       *)
Sweeping ==
    /\ queue = {} /\ ctl.pc = "idle"
    /\ lst.pc = "sweep" \/ (lst.pc = "sweepList" /\ lst.proto = NoProto)

(* Where the schema is missing, its resource will be marked or the         *)
(* controller puts the schema.                                             *)
AbsentOK ==
    \A s \in DOMAIN crs :
        Live(crs[s]) /\ server = NoProto /\ (crs[s].owned \/ ~reconcileOnServer(crs[s])) =>
            Withdrawn \/ (crs[s].owned /\ Sweeping) \/ Forgiven(crs[s])

(* The text of the resource is to be put on the server.                    *)
Coming(s) ==
    /\ reconcileOnServer(crs[s])
    /\ \/ crs[s].paused \/ cluster # "formed" \/ s \in queue
       \/ ctl.s = s /\ ctl.pc \in {"oneWay", "put"}

(* With no event left to handle, what differs is on its way to the server. *)
CarriedOK ==
    \A s \in DOMAIN crs :
        Live(crs[s]) /\ stream = <<>> /\ (Connected \/ (server = NoProto /\ ~crs[s].owned)) =>
            crs[s].spec = server \/ Coming(s) \/ Forgiven(crs[s])

(* What the resource says follows.                                         *)
ToldOK ==
    \A s \in DOMAIN crs :
        /\ Live(crs[s]) /\ crs[s].ready = "Unknown" =>
             crs[s].paused \/ cluster # "formed" \/ s \in queue \/ (ctl.pc # "idle" /\ ctl.s = s)
        /\ ctl.s = s /\ ctl.pc \in {"status", "finish"} /\ reconcileOnServer(crs[s]) =>
             crs[s].spec = server

(* Where a schema has no resource, none went a moment ago.                 *)
GoneOK == server # NoProto /\ DOMAIN crs = {} => queue = {} /\ ctl.pc = "idle"

ServerSide == LinkOK /\ OneCR /\ GenOK /\ WorkOK /\ ShownOK
ControllerSide == MarkedOK /\ StepOK /\ WithdrawnOK /\ AbsentOK /\ CarriedOK /\ ToldOK
InTouch == ServerSide /\ ControllerSide

-----------------------------------------------------------------------------
(* The fields of a resource that no status update changes.                 *)
Same(c, d) ==
    /\ d.spec = c.spec /\ d.gen = c.gen /\ d.listenerGen = c.listenerGen /\ d.marked = c.marked
    /\ d.deleted = c.deleted /\ d.owned = c.owned /\ d.paused = c.paused

\* Such a resource is as live and as much to be reconciled as it was.
LEMMA SameFacts ==
    ASSUME NEW c, NEW d, Same(c, d)
    PROVE  (Live(d) <=> Live(c)) /\ (reconcileOnServer(d) <=> reconcileOnServer(c))
  BY DEF Same, Live, reconcileOnServer

\* What reaches the resources by a write of a status or of a finalizer.
StatusOnly ==
    /\ DOMAIN crs' \subseteq DOMAIN crs
    /\ \A t \in DOMAIN crs' : Same(crs[t], crs'[t]) /\ (crs'[t] = crs[t] \/ t \in queue')

Frame == UNCHANGED <<server, stream, lst, bidi, cluster, unseen>>

\* A status update of the controller leaves the listener's side alone.
LEMMA StatusServerSide ==
    ASSUME IInv, InTouch, StatusOnly, Frame,
           DOMAIN crs' # DOMAIN crs => server = NoProto
    PROVE  ServerSide'
  <1>1. LinkOK' /\ OneCR'
    BY DEF InTouch, ServerSide, LinkOK, OneCR, StatusOnly, Frame, Connected
  <1>2. GenOK'
    BY DEF InTouch, ServerSide, GenOK, StatusOnly, Same
  <1>3. WorkOK'
    <2> USE DEF InTouch, ServerSide, Frame
    <2>1. /\ lst'.pc \in {"create", "get", "patch"} =>
                Head(stream').kind = "set" /\ Head(stream').proto = lst'.proto
          /\ lst'.pc = "mark" => Head(stream').kind = "remove"
      BY DEF WorkOK
    <2>2. lst'.pc = "create" => DOMAIN crs' = {}
      BY DEF WorkOK, StatusOnly
    <2>3. ASSUME lst'.pc \in {"get", "patch", "mark"}, lst'.s \notin DOMAIN crs'
          PROVE  DOMAIN crs' = {} /\ server' = NoProto
      BY <2>3 DEF WorkOK, StatusOnly, OneCR
    <2>4. ASSUME lst'.s \in DOMAIN crs'
          PROVE  /\ lst'.pc \in {"get", "patch"} => crs'[lst'.s].spec # lst'.proto
                 /\ lst'.pc = "patch" => lst'.base = crs'[lst'.s].spec /\ lst'.gen = crs'[lst'.s].gen
      BY <2>4 DEF WorkOK, StatusOnly, Same
    <2>5. lst'.pc = "sweepList" /\ lst'.proto = NoProto =>
             \A s \in DOMAIN crs' : crs'[s].owned => server' = NoProto
      BY DEF WorkOK, StatusOnly, Same
    <2> QED BY <2>1, <2>2, <2>3, <2>4, <2>5 DEF WorkOK
  <1>4. ShownOK'
    BY DEF InTouch, ServerSide, ShownOK, StatusOnly, Frame, Connected
  <1> QED BY <1>1, <1>2, <1>3, <1>4 DEF ServerSide

\* A controller at work is not waited for by a sweep, and not while a removal
\* is to be handled unless the resource is no more to be reconciled.
LEMMA AtWork ==
    ASSUME InTouch, ctl.pc # "idle" \/ \E s \in DOMAIN crs : s \in queue
    PROVE  /\ ~Sweeping
           /\ Withdrawn => \A t \in DOMAIN crs : ~(Live(crs[t]) /\ reconcileOnServer(crs[t]))
  BY DEF InTouch, ServerSide, ControllerSide, Sweeping, WithdrawnOK, OneCR

\* The end of a reconciliation keeps the controller's side, if what it leaves
\* undone is queued.
LEMMA EndsControllerSide ==
    ASSUME IInv, InTouch, StatusOnly, Frame, ctl' = CtlIdle, NEW s,
           ctl.pc # "idle" \/ (s \in queue /\ s \in DOMAIN crs),
           \A t \in DOMAIN crs' : t \in queue /\ ~(ctl.pc = "idle" /\ t = s) => t \in queue',
           \A t \in DOMAIN crs' : crs[t].marked => t \in queue',
           \A t \in DOMAIN crs' :
               /\ Live(crs[t]) /\ reconcileOnServer(crs[t]) /\ ~crs[t].paused /\ cluster = "formed"
               /\ (ctl.pc = "idle" /\ t = s) \/ (ctl.s = t /\ ctl.pc \in {"oneWay", "put"})
               => t \in queue',
           \A t \in DOMAIN crs' :
               /\ Live(crs[t]) /\ ~crs[t].paused /\ cluster = "formed" /\ crs'[t].ready = "Unknown"
               /\ (ctl.pc = "idle" /\ t = s) \/ (ctl.s = t /\ ctl.pc # "idle")
               => t \in queue'
    PROVE  ControllerSide'
  <1> USE DEF InTouch, ServerSide, ControllerSide
  <1>a. ctl'.pc = "idle"
    BY IdleTypes
  <1>b. ASSUME NEW t \in DOMAIN crs'
        PROVE  /\ t \in DOMAIN crs /\ Same(crs[t], crs'[t]) /\ (crs'[t] = crs[t] \/ t \in queue')
               /\ Live(crs'[t]) <=> Live(crs[t])
               /\ reconcileOnServer(crs'[t]) <=> reconcileOnServer(crs[t])
    BY SameFacts DEF StatusOnly
  <1>c. /\ ~Sweeping
        /\ Withdrawn => \A t \in DOMAIN crs : ~(Live(crs[t]) /\ reconcileOnServer(crs[t]))
    BY AtWork
  <1>d. UNCHANGED <<server, stream, lst, bidi, cluster, unseen>>
    BY DEF Frame
  <1>1. MarkedOK'
    BY <1>b, <1>d DEF MarkedOK, Same
  <1>2. StepOK'
    BY <1>a DEF StepOK
  <1>3. WithdrawnOK'
    BY <1>a, <1>b, <1>c, <1>d DEF WithdrawnOK, Withdrawn
  <1>4. AbsentOK'
    BY <1>b, <1>c, <1>d DEF AbsentOK, Withdrawn, Forgiven, Same
  <1>5. CarriedOK'
    <2> SUFFICES ASSUME NEW t, t \in DOMAIN crs', Live(crs'[t]), stream' = <<>>,
                        Connected' \/ (server' = NoProto /\ ~crs'[t].owned)
                 PROVE  crs'[t].spec = server' \/ Coming(t)' \/ Forgiven(crs[t])'
      BY DEF CarriedOK
    <2>1. crs[t].spec = server \/ Coming(t) \/ Forgiven(crs[t])
      BY <1>b, <1>d DEF CarriedOK, Same, Connected
    <2>2. CASE Coming(t)
      BY <1>b, <1>d, <2>2 DEF Coming, Same
    <2> QED BY <1>b, <1>d, <2>1, <2>2 DEF Forgiven, Same
  <1>6. ToldOK'
    <2>1. ASSUME NEW t \in DOMAIN crs', Live(crs'[t]), crs'[t].ready = "Unknown"
          PROVE  crs'[t].paused \/ cluster' # "formed" \/ t \in queue'
      BY <1>b, <1>d, <2>1 DEF ToldOK, Same
    <2> QED BY <1>a, <2>1 DEF ToldOK
  <1> QED BY <1>1, <1>2, <1>3, <1>4, <1>5, <1>6

\* The write of a status or of a finalizer.
LEMMA StatusWrite ==
    ASSUME IInv, NEW s \in DOMAIN crs, NEW c \in CR, Same(crs[s], c), Patch(s, c), Woken(s) \subseteq queue'
    PROVE  /\ StatusOnly
           /\ \A t \in DOMAIN crs \ {s} : t \in DOMAIN crs'
           /\ s \in DOMAIN crs' => crs'[s] = c
           /\ s \in DOMAIN crs' <=> c.deleted = "no" \/ c.finalizer
           /\ s \in DOMAIN crs' /\ c # crs[s] => s \in queue'
  <1>1. CASE c.deleted # "no" /\ ~c.finalizer
    <2>1. crs' = Without(s)
      BY <1>1 DEF Patch, Stored
    <2> QED BY <1>1, <2>1 DEF Without, StatusOnly, Same
  <1>2. CASE ~(c.deleted # "no" /\ ~c.finalizer)
    <2>1. crs' = With(s, c)
      BY <1>2 DEF Patch, Stored
    <2>2. DOMAIN crs' = DOMAIN crs /\ crs'[s] = c /\ \A t \in DOMAIN crs : t # s => crs'[t] = crs[t]
      BY <2>1 DEF With
    <2>3. c # crs[s] => s \in queue'
      BY <2>2 DEF Woken
    <2>4. ASSUME NEW t, t \in DOMAIN crs' PROVE Same(crs[t], crs'[t]) /\ (crs'[t] = crs[t] \/ t \in queue')
      <3>1. CASE t = s
        BY <2>2, <2>3, <3>1
      <3>2. CASE t # s
        BY <2>2, <2>4, <3>2 DEF Same
      <3> QED BY <3>1, <3>2
    <2> QED BY <1>2, <2>2, <2>3, <2>4 DEF StatusOnly
  <1> QED BY <1>1, <1>2

\* A reconciliation that ends with such a write.
LEMMA EndsInTouch ==
    ASSUME IInv, InTouch, Frame, NEW s \in DOMAIN crs, NEW c \in CR, Same(crs[s], c),
           NEW requeue \in BOOLEAN, EndWith(s, c, requeue),
           IF ctl.pc = "idle" THEN s \in queue /\ ~crs[s].marked ELSE ctl.s = s /\ ctl.pc # "deleteCR",
           c.deleted # "no" /\ ~c.finalizer => server = NoProto,
           c = crs[s] /\ ~requeue /\ Live(crs[s]) /\ ~crs[s].paused /\ cluster = "formed" =>
               ctl.pc \notin {"idle", "oneWay", "put"} /\ c.ready # "Unknown"
    PROVE  InTouch'
  <1>1. /\ Patch(s, c) /\ ctl' = CtlIdle /\ Woken(s) \subseteq queue' /\ (requeue => s \in queue')
        /\ queue \ (IF ctl.pc = "idle" THEN {s} ELSE {}) \subseteq queue'
    BY DEF EndWith
  <1>2. /\ StatusOnly
        /\ \A t \in DOMAIN crs \ {s} : t \in DOMAIN crs'
        /\ s \in DOMAIN crs' => crs'[s] = c
        /\ s \in DOMAIN crs' <=> c.deleted = "no" \/ c.finalizer
        /\ s \in DOMAIN crs' /\ c # crs[s] => s \in queue'
    BY <1>1, StatusWrite
  <1>3. DOMAIN crs' # DOMAIN crs => server = NoProto
    BY <1>2 DEF StatusOnly
  <1>4. ServerSide'
    BY <1>2, <1>3, StatusServerSide
  <1>5. \A t \in DOMAIN crs' : t = s
    BY <1>2 DEF InTouch, ServerSide, OneCR, StatusOnly
  <1>6. \A t \in DOMAIN crs' : t \in queue /\ ~(ctl.pc = "idle" /\ t = s) => t \in queue'
    BY <1>1
  <1>7. \A t \in DOMAIN crs' : crs[t].marked => t \in queue'
    BY <1>5, <1>6, <1>2 DEF InTouch, ControllerSide, MarkedOK, StatusOnly
  <1>8. \A t \in DOMAIN crs' :
               /\ Live(crs[t]) /\ reconcileOnServer(crs[t]) /\ ~crs[t].paused /\ cluster = "formed"
               /\ (ctl.pc = "idle" /\ t = s) \/ (ctl.s = t /\ ctl.pc \in {"oneWay", "put"})
               => t \in queue'
    BY <1>1, <1>2, <1>5
  <1>9. \A t \in DOMAIN crs' :
               /\ Live(crs[t]) /\ ~crs[t].paused /\ cluster = "formed" /\ crs'[t].ready = "Unknown"
               /\ (ctl.pc = "idle" /\ t = s) \/ (ctl.s = t /\ ctl.pc # "idle")
               => t \in queue'
    BY <1>1, <1>2, <1>5
  <1>10. ControllerSide'
    BY <1>1, <1>2, <1>6, <1>7, <1>8, <1>9, EndsControllerSide
  <1> QED BY <1>4, <1>10 DEF InTouch

\* What updateSchema writes is a status or a finalizer.
LEMMA UpdatedSame ==
    ASSUME NEW c \in CR, NEW new, DOMAIN new \subseteq StatusFields
    PROVE  /\ Same(c, Updated(c, new))
           /\ Updated(c, new).ready = IF "ready" \in DOMAIN new THEN new.ready ELSE c.ready
           /\ Updated(c, new).finalizer = IF "finalizer" \in DOMAIN new THEN new.finalizer ELSE c.finalizer
  <1>1. DOMAIN c = {"spec", "gen", "listenerGen", "marked", "finalizer", "deleted", "owned",
                    "paused", "pausedCond", "ready", "sync"}
    BY DEF CR
  <1> QED BY <1>1 DEF Updated, StatusFields, Same

\* A reconciliation that ends with a call of updateSchema.
LEMMA UpdatesInTouch ==
    ASSUME IInv, InTouch, Frame, NEW new, DOMAIN new \subseteq StatusFields,
           "ready" \in DOMAIN new => new.ready \in Readiness,
           "finalizer" \in DOMAIN new => new.finalizer \in BOOLEAN,
           "sync" \in DOMAIN new => new.sync \in {"Unknown", "True", "False"},
           NEW requeue \in BOOLEAN, EndUpdating(new, requeue),
           ctl.pc \notin {"idle", "deleteCR"},
           ctl.s \in DOMAIN crs /\ Live(crs[ctl.s]) =>
               requeue \/ (ctl.pc \notin {"oneWay", "put"} /\ "ready" \in DOMAIN new /\ new.ready # "Unknown"),
           "finalizer" \in DOMAIN new /\ ~new.finalizer => server = NoProto
    PROVE  InTouch'
  <1>1. CASE ctl.s \in DOMAIN crs
    <2> DEFINE c == Updated(crs[ctl.s], new)
    <2>1. crs[ctl.s] \in CR /\ (crs[ctl.s].deleted # "no" => crs[ctl.s].finalizer)
      BY <1>1 DEF IInv, CrsOK
    <2>2. c \in CR
      BY <2>1, UpdatedFields
    <2>3. /\ Same(crs[ctl.s], c)
          /\ c.ready = IF "ready" \in DOMAIN new THEN new.ready ELSE crs[ctl.s].ready
          /\ c.finalizer = IF "finalizer" \in DOMAIN new THEN new.finalizer ELSE crs[ctl.s].finalizer
      BY <2>1, UpdatedSame
    <2>4. EndWith(ctl.s, c, requeue)
      BY <1>1 DEF EndUpdating
    <2>5. c.deleted # "no" /\ ~c.finalizer => server = NoProto
      BY <2>1, <2>3 DEF Same
    <2>6. /\ c = crs[ctl.s] /\ ~requeue /\ Live(crs[ctl.s]) /\ ~crs[ctl.s].paused /\ cluster = "formed"
          => ctl.pc \notin {"idle", "oneWay", "put"} /\ c.ready # "Unknown"
      BY <1>1, <2>3
    <2> HIDE DEF c
    <2> QED BY <1>1, <2>2, <2>3, <2>4, <2>5, <2>6, EndsInTouch
  <1>2. CASE ctl.s \notin DOMAIN crs
    <2>1. ctl' = CtlIdle /\ queue' = queue \cup {ctl.s} /\ UNCHANGED crs
      BY <1>2 DEF EndUpdating
    <2>2. StatusOnly
      BY <2>1 DEF StatusOnly, Same
    <2>3. ServerSide'
      BY <2>1, <2>2, StatusServerSide
    <2>4. \A t \in DOMAIN crs' : crs[t].marked => t \in queue'
      BY <2>1 DEF InTouch, ControllerSide, MarkedOK
    <2>5. \A t \in DOMAIN crs' : t # ctl.s
      BY <1>2, <2>1
    <2>6. ControllerSide'
      BY <2>1, <2>2, <2>4, <2>5, EndsControllerSide
    <2> QED BY <2>3, <2>6 DEF InTouch
  <1> QED BY <1>1, <1>2

-----------------------------------------------------------------------------
(***************************************************************************)
(* The steps of a reconciliation keep in touch.                            *)
(***************************************************************************)

\* What Quiet leaves alone.
LEMMA QuietFrame == ASSUME Quiet PROVE Frame
  BY DEF Quiet, env, Frame

\* Nothing is found.
LEMMA NotFoundInTouch == ASSUME IInv, InTouch, NEW s \in Slots, NotFound(s) PROVE InTouch'
  <1>1. /\ s \notin DOMAIN crs /\ ctl.pc = "idle" /\ s \in queue
        /\ UNCHANGED <<crs, ctl, server, stream, lst, bidi, cluster, unseen>> /\ queue' = queue \ {s}
    BY DEF NotFound, Taken, Quiet, env
  <1>2. StatusOnly /\ Frame
    BY <1>1 DEF StatusOnly, Same, Frame
  <1>3. ServerSide'
    BY <1>1, <1>2, StatusServerSide
  <1> USE DEF InTouch, ControllerSide
  <1>4. MarkedOK' /\ StepOK' /\ WithdrawnOK' /\ ToldOK'
    BY <1>1 DEF MarkedOK, StepOK, WithdrawnOK, Withdrawn, ToldOK
  <1>5. AbsentOK'
    BY <1>1 DEF AbsentOK, Withdrawn, Sweeping, Forgiven
  <1>6. CarriedOK'
    BY <1>1 DEF CarriedOK, Coming, Forgiven, Connected
  <1> QED BY <1>3, <1>4, <1>5, <1>6

\* The finalizer of a marked resource goes; the schema is gone already.
LEMMA RemoveMarkedInTouch == ASSUME IInv, InTouch, NEW s \in Slots, RemoveMarked(s) PROVE InTouch'
  <1> DEFINE c == [crs[s] EXCEPT !.finalizer = FALSE]
  <1>1. /\ s \in DOMAIN crs /\ crs[s].marked /\ ctl.pc = "idle" /\ s \in queue
        /\ Patch(s, c) /\ queue' = (queue \ {s}) \cup Woken(s)
        /\ ctl' = [CtlIdle EXCEPT !.pc = "deleteCR", !.s = s] /\ Quiet
    BY DEF RemoveMarked, Taken
  <1>2. crs[s] \in CR
    BY <1>1 DEF IInv, CrsOK
  <1>3. c \in CR /\ Same(crs[s], c) /\ ~c.finalizer
    BY <1>2 DEF CR, Same
  <1>4. ctl'.pc = "deleteCR" /\ ctl'.s = s
    BY <1>1 DEF CtlIdle
  <1> HIDE DEF c
  <1>5. /\ StatusOnly
        /\ s \in DOMAIN crs' => crs'[s] = c
    BY <1>1, <1>3, StatusWrite
  <1>6. Frame
    BY <1>1, QuietFrame
  <1> USE DEF InTouch, ServerSide, ControllerSide
  <1>7. server = NoProto /\ stream = <<>> /\ \A t \in DOMAIN crs' : t = s /\ crs'[t] = c /\ crs[s].marked
    BY <1>1, <1>5 DEF MarkedOK, OneCR, StatusOnly
  <1>8. ServerSide'
    BY <1>5, <1>6, <1>7, StatusServerSide
  <1>9. \A t \in DOMAIN crs' : crs'[t].marked /\ ~crs'[t].finalizer
    BY <1>1, <1>3, <1>7 DEF Same
  <1>10. MarkedOK' /\ StepOK'
    BY <1>4, <1>6, <1>7, <1>9 DEF MarkedOK, StepOK, Frame
  <1>11. WithdrawnOK'
    BY <1>6, <1>7 DEF WithdrawnOK, Withdrawn, Frame
  <1>12. AbsentOK' /\ CarriedOK' /\ ToldOK'
    BY <1>4, <1>9 DEF AbsentOK, CarriedOK, ToldOK, Live
  <1> QED BY <1>8, <1>10, <1>11, <1>12

\* Then the resource goes.
LEMMA DeleteMarkedInTouch == ASSUME IInv, InTouch, DeleteMarked PROVE InTouch'
  <1>1. ctl.pc = "deleteCR" /\ Quiet
    BY DEF DeleteMarked
  <1>2. Frame
    BY <1>1, QuietFrame
  <1>3. ctl' = CtlIdle /\ (DOMAIN crs' = {} \/ (ctl.s \notin DOMAIN crs /\ UNCHANGED <<crs, queue>>))
    <2>1. CASE ctl.s \in DOMAIN crs
      <3> DEFINE c == [crs[ctl.s] EXCEPT !.deleted = IF @ = "no" THEN "operator" ELSE @]
      <3>1. crs[ctl.s] \in CR /\ ~crs[ctl.s].finalizer
        BY <1>1, <2>1 DEF IInv, CrsOK, InTouch, ControllerSide, StepOK
      <3>2. c.deleted # "no" /\ ~c.finalizer
        BY <3>1 DEF CR
      <3>3. Patch(ctl.s, c) /\ ctl' = CtlIdle
        BY <2>1 DEF DeleteMarked, EndWith
      <3> HIDE DEF c
      <3>4. crs' = Without(ctl.s)
        BY <3>2, <3>3 DEF Patch, Stored
      <3>5. DOMAIN crs' = {}
        BY <2>1, <3>4 DEF Without, InTouch, ServerSide, OneCR
      <3> QED BY <3>3, <3>5
    <2>2. CASE ctl.s \notin DOMAIN crs
      BY <2>2 DEF DeleteMarked
    <2> QED BY <2>1, <2>2
  <1>4. CASE DOMAIN crs' = {} /\ ctl.s \in DOMAIN crs
    <2>1. server = NoProto
      BY <1>1, <1>4 DEF InTouch, ControllerSide, StepOK, MarkedOK
    <2>2. StatusOnly /\ ctl' = CtlIdle
      BY <1>3, <1>4 DEF StatusOnly
    <2>3. ServerSide' /\ ControllerSide'
      BY <1>1, <1>2, <1>4, <2>1, <2>2, StatusServerSide, EndsControllerSide
    <2> QED BY <2>3 DEF InTouch
  <1>5. CASE ctl' = CtlIdle /\ ctl.s \notin DOMAIN crs /\ UNCHANGED <<crs, queue>>
    <2>1. StatusOnly
      BY <1>5 DEF StatusOnly, Same
    <2>2. ServerSide'
      BY <1>2, <1>5, <2>1, StatusServerSide
    <2>3. \A t \in DOMAIN crs' : t # ctl.s /\ (crs[t].marked => t \in queue')
      BY <1>5 DEF InTouch, ControllerSide, MarkedOK
    <2>4. ControllerSide'
      BY <1>1, <1>2, <1>5, <2>1, <2>3, EndsControllerSide
    <2> QED BY <2>2, <2>4 DEF InTouch
  <1>6. CASE ctl' = CtlIdle /\ DOMAIN crs' = {} /\ ctl.s \notin DOMAIN crs
    <2>1. UNCHANGED <<crs, queue>>
      BY <1>6 DEF DeleteMarked
    <2> QED BY <1>5, <1>6, <2>1
  <1> QED BY <1>3, <1>4, <1>5, <1>6

\* A pause, or a cluster that is not formed, ends the reconciliation; what
\* ends the pause or forms the cluster asks for the next.
LEMMA FirstWriteInTouch ==
    ASSUME IInv, InTouch, Calm, NEW s \in Slots, Pause(s) \/ ClusterMissing(s) \/ ClusterNotFormed(s)
    PROVE  InTouch'
  <1>1. /\ s \in DOMAIN crs /\ crs[s] \in CR /\ Quiet /\ ctl.pc = "idle" /\ s \in queue /\ ~crs[s].marked
        /\ crs[s].deleted # "no" => crs[s].finalizer
    BY DEF Pause, ClusterMissing, ClusterNotFormed, Begun, Taken, IInv, CrsOK
  <1>2. Frame
    BY <1>1, QuietFrame
  <1>3. CASE Pause(s)
    <2> DEFINE c == [crs[s] EXCEPT !.pausedCond = crs[s].paused]
    <2>1. c \in CR /\ Same(crs[s], c) /\ c.finalizer = crs[s].finalizer /\ c.deleted = crs[s].deleted
          /\ c.pausedCond = crs[s].paused
      BY <1>1 DEF CR, Same
    <2>2. EndWith(s, c, FALSE) /\ (crs[s].paused \/ crs[s].pausedCond)
      BY <1>3 DEF Pause
    <2>3. crs[s].paused \in BOOLEAN /\ crs[s].pausedCond \in BOOLEAN
      BY <1>1 DEF CR
    <2> HIDE DEF c
    <2>4. c = crs[s] => crs[s].paused
      BY <2>1, <2>2, <2>3
    <2> QED BY <1>1, <1>2, <2>1, <2>2, <2>4, EndsInTouch
  <1>4. ~ClusterMissing(s)
    BY DEF ClusterMissing, Calm
  <1>5. CASE ClusterNotFormed(s)
    <2>1. EndWith(s, crs[s], FALSE) /\ cluster # "formed" /\ Same(crs[s], crs[s])
      BY <1>5 DEF ClusterNotFormed, Same
    <2> QED BY <1>1, <1>2, <2>1, EndsInTouch
  <1> QED BY <1>3, <1>4, <1>5

\* The calls to the server begin: what was taken from the queue is now the
\* controller's to carry over.
LEMMA StartInTouch == ASSUME IInv, InTouch, NEW s \in Slots, Start(s) PROVE InTouch'
  <1> DEFINE deleted == crs[s].deleted # "no"
             pc == IF bidi THEN FirstCall(crs[s], TRUE, deleted) ELSE "oneWay"
  <1>1. /\ s \in DOMAIN crs /\ ctl.pc = "idle" /\ s \in queue /\ ~crs[s].marked
        /\ Quiet /\ UNCHANGED crs /\ queue' = queue \ {s}
        /\ ctl' = [pc |-> pc, s |-> s, spec |-> crs[s].spec, both |-> bidi, deleted |-> deleted]
    BY DEF Start, Begun, Taken
  <1>2. pc = IF bidi THEN IF deleted THEN "refs" ELSE IF reconcileOnServer(crs[s]) THEN "put" ELSE "status"
             ELSE "oneWay"
    BY DEF FirstCall
  <1>3. ctl'.pc = pc /\ ctl'.s = s /\ ctl'.spec = crs[s].spec /\ ctl'.deleted = deleted
    BY <1>1
  <1>4. Frame /\ UNCHANGED <<server, stream, lst, bidi, cluster, unseen>>
    BY <1>1, QuietFrame DEF Frame
  <1>5. StatusOnly
    BY <1>1 DEF StatusOnly, Same
  <1>6. ServerSide'
    BY <1>1, <1>4, <1>5, StatusServerSide
  <1>7. ~Sweeping /\ (Withdrawn => ~(Live(crs[s]) /\ reconcileOnServer(crs[s])))
    BY <1>1, AtWork
  <1>8. \A t \in DOMAIN crs : t = s
    BY <1>1 DEF InTouch, ServerSide, OneCR
  <1>9. Live(crs[s]) <=> ~deleted
    BY <1>1 DEF Live
  <1> HIDE DEF pc, deleted
  <1> USE DEF InTouch, ControllerSide
  <1>10. MarkedOK'
    BY <1>1, <1>8 DEF MarkedOK
  <1>11. StepOK'
    BY <1>1, <1>2, <1>3, <1>4, <1>9 DEF StepOK
  <1>12. WithdrawnOK'
    BY <1>1, <1>2, <1>3, <1>4, <1>7, <1>8, <1>9 DEF WithdrawnOK, Withdrawn
  <1>13. AbsentOK'
    BY <1>1, <1>4, <1>7 DEF AbsentOK, Withdrawn, Forgiven
  <1>14. CarriedOK'
    BY <1>1, <1>2, <1>3, <1>4, <1>8, <1>9 DEF CarriedOK, Coming, Forgiven, Connected
  <1>15. ToldOK'
    BY <1>1, <1>2, <1>3, <1>4, <1>8, <1>9 DEF ToldOK
  <1> QED BY <1>6, <1>10, <1>11, <1>12, <1>13, <1>14, <1>15

\* The condition is written, and the resource read again.
LEMMA AnnounceOneWayInTouch == ASSUME IInv, InTouch, AnnounceOneWay PROVE InTouch'
  <1> DEFINE s == ctl.s
             c == [crs[s] EXCEPT !.sync = "False"]
             pc == FirstCall(crs[s], FALSE, ctl.deleted)
  <1>1. Quiet /\ ctl.pc = "oneWay"
    BY DEF AnnounceOneWay
  <1>2. /\ s \in DOMAIN crs /\ (~ctl.deleted => Live(crs[s])) /\ (ctl.deleted => ~Live(crs[s]))
        /\ ~Connected /\ stream = <<>>
    BY <1>1 DEF IInv, GuardOK, Removing, InTouch, ServerSide, ControllerSide, StepOK, LinkOK, Connected, Live
  <1>3. crs[s] \in CR /\ (crs[s].deleted # "no" => crs[s].finalizer)
    BY <1>2 DEF IInv, CrsOK
  <1>4. c \in CR /\ Same(crs[s], c) /\ c.finalizer = crs[s].finalizer /\ c.ready = crs[s].ready
    BY <1>3 DEF CR, Same
  <1>5. Patch(s, c) /\ ctl' = [ctl EXCEPT !.pc = pc, !.spec = crs[s].spec] /\ queue' = queue \cup Woken(s)
    BY <1>2 DEF AnnounceOneWay
  <1>6. pc = IF ctl.deleted THEN "refs" ELSE "put"
    BY DEF FirstCall
  <1>7. ctl'.pc = pc /\ ctl'.s = s /\ ctl'.spec = crs[s].spec
    BY <1>5 DEF IInv, CtlOK, CtlType
  <1>8. Frame /\ UNCHANGED <<server, stream, lst, bidi, cluster, unseen>>
    BY <1>1, QuietFrame DEF Frame
  <1> HIDE DEF pc, c
  <1>9. StatusOnly /\ s \in DOMAIN crs' /\ crs'[s] = c
    BY <1>2, <1>3, <1>4, <1>5, StatusWrite DEF Same
  <1>10. ServerSide'
    <2>1. DOMAIN crs' = DOMAIN crs
      BY <1>2, <1>9 DEF StatusOnly, InTouch, ServerSide, OneCR
    <2> QED BY <1>8, <1>9, <2>1, StatusServerSide
  <1>11. \A t \in DOMAIN crs' : t = s /\ crs'[t] = c
    BY <1>2, <1>9 DEF StatusOnly, InTouch, ServerSide, OneCR
  <1>12. /\ Live(c) <=> Live(crs[s])
         /\ reconcileOnServer(c) <=> reconcileOnServer(crs[s])
    BY <1>4, SameFacts
  <1>13. ~Sweeping
    BY <1>1 DEF Sweeping
  <1> USE DEF InTouch, ControllerSide
  <1>14. MarkedOK'
    BY <1>1, <1>2, <1>4, <1>5, <1>8, <1>11 DEF MarkedOK, Same
  <1>15. StepOK'
    BY <1>2, <1>4, <1>6, <1>7, <1>8, <1>9, <1>12 DEF StepOK, Same
  <1>16. WithdrawnOK'
    BY <1>2, <1>8 DEF WithdrawnOK, Withdrawn
  <1>17. AbsentOK'
    BY <1>2, <1>4, <1>8, <1>11, <1>12, <1>13 DEF AbsentOK, Withdrawn, Forgiven, Same
  <1>18. CarriedOK'
    BY <1>2, <1>4, <1>5, <1>6, <1>7, <1>8, <1>11, <1>12 DEF CarriedOK, Coming, Forgiven, Connected, Same
  <1>19. ToldOK'
    BY <1>2, <1>4, <1>5, <1>6, <1>7, <1>8, <1>11, <1>12 DEF ToldOK, Same
  <1> QED BY <1>10, <1>14, <1>15, <1>16, <1>17, <1>18, <1>19

\* A reconciliation that goes on without any write.
LEMMA GotoInTouch ==
    ASSUME IInv, InTouch, Frame, NEW pc, Goto(pc),
           (ctl.pc = "refs" /\ pc = "erase") \/ (ctl.pc = "status" /\ pc = "finish")
    PROVE  InTouch'
  <1>1. UNCHANGED <<crs, queue>> /\ UNCHANGED <<server, stream, lst, bidi, cluster, unseen>>
    BY DEF Goto, Frame
  <1>2. ctl'.pc = pc /\ ctl'.s = ctl.s
    BY DEF Goto, IInv, CtlOK, CtlType
  <1>3. StatusOnly
    BY <1>1 DEF StatusOnly, Same
  <1>4. ServerSide'
    BY <1>1, <1>3, StatusServerSide
  <1> USE DEF InTouch, ControllerSide
  <1>5. MarkedOK' /\ StepOK' /\ ToldOK'
    BY <1>1, <1>2 DEF MarkedOK, StepOK, ToldOK
  <1>6. WithdrawnOK'
    BY <1>1, <1>2 DEF WithdrawnOK, Withdrawn
  <1>7. AbsentOK' /\ CarriedOK'
    BY <1>1, <1>2 DEF AbsentOK, Withdrawn, Sweeping, Forgiven, CarriedOK, Coming, Connected
  <1> QED BY <1>4, <1>5, <1>6, <1>7

\* A reference ends the reconciliation of a deletion.
LEMMA FindReferencingCachesInTouch == ASSUME IInv, InTouch, FindReferencingCaches PROVE InTouch'
  <1>1. Frame /\ ctl.pc = "refs"
    BY QuietFrame DEF FindReferencingCaches
  <1>2. ctl.s \in DOMAIN crs /\ ~Live(crs[ctl.s])
    BY <1>1 DEF IInv, GuardOK, Removing, Live
  <1>3. CASE ctl.s \in refs
    <2> DEFINE new == [ready |-> "Referenced"]
    <2>1. EndUpdating(new, FALSE)
      BY <1>3 DEF FindReferencingCaches
    <2>2. /\ DOMAIN new \subseteq StatusFields /\ new.ready \in Readiness
          /\ "finalizer" \notin DOMAIN new /\ "sync" \notin DOMAIN new
      BY DEF StatusFields, Readiness
    <2> HIDE DEF new
    <2> QED BY <1>1, <1>2, <2>1, <2>2, UpdatesInTouch
  <1>4. CASE ctl.s \notin refs
    <2>1. Goto("erase")
      BY <1>4 DEF FindReferencingCaches
    <2> QED BY <1>1, <2>1, GotoInTouch
  <1> QED BY <1>3, <1>4

\* The finalizer goes, the schema having gone before.
LEMMA RemoveFinalizerInTouch == ASSUME IInv, InTouch, RemoveFinalizer PROVE InTouch'
  <1> DEFINE new == [finalizer |-> FALSE]
  <1>1. Frame /\ ctl.pc = "unfinalize" /\ EndUpdating(new, FALSE)
    BY QuietFrame DEF RemoveFinalizer
  <1>2. server = NoProto /\ (ctl.s \in DOMAIN crs => ~Live(crs[ctl.s]))
    BY <1>1 DEF InTouch, ControllerSide, StepOK, Live
  <1>3. /\ DOMAIN new \subseteq StatusFields /\ new.finalizer \in BOOLEAN
        /\ "ready" \notin DOMAIN new /\ "sync" \notin DOMAIN new
    BY DEF StatusFields
  <1> HIDE DEF new
  <1> QED BY <1>1, <1>2, <1>3, UpdatesInTouch

\* The status is looked at.
LEMMA CheckStatusInTouch == ASSUME IInv, InTouch, CheckStatus PROVE InTouch'
  <1>1. Frame /\ ctl.pc = "status"
    BY QuietFrame DEF CheckStatus
  <1>2. CASE server \in Invalid
    <2> DEFINE new == [ready |-> "Invalid", finalizer |-> TRUE]
    <2>1. EndUpdating(new, FALSE)
      BY <1>2 DEF CheckStatus
    <2>2. /\ DOMAIN new \subseteq StatusFields /\ new.ready \in Readiness /\ new.finalizer = TRUE
          /\ "sync" \notin DOMAIN new /\ "ready" \in DOMAIN new /\ new.ready # "Unknown"
      BY DEF StatusFields, Readiness
    <2> HIDE DEF new
    <2> QED BY <1>1, <2>1, <2>2, UpdatesInTouch
  <1>3. CASE server \notin Invalid
    <2>1. Goto("finish")
      BY <1>3 DEF CheckStatus
    <2> QED BY <1>1, <2>1, GotoInTouch
  <1> QED BY <1>2, <1>3

\* The resource is ready.
LEMMA FinishInTouch == ASSUME IInv, InTouch, Finish PROVE InTouch'
  <1> DEFINE new == IF ctl.both THEN [ready |-> "True", finalizer |-> TRUE, sync |-> "True"]
                    ELSE [ready |-> "True", finalizer |-> TRUE]
  <1>1. Frame /\ ctl.pc = "finish" /\ EndUpdating(new, FALSE)
    BY QuietFrame DEF Finish
  <1>2. /\ DOMAIN new \subseteq StatusFields /\ new.ready \in Readiness /\ new.finalizer = TRUE
        /\ "sync" \in DOMAIN new => new.sync \in {"Unknown", "True", "False"}
        /\ "ready" \in DOMAIN new /\ new.ready # "Unknown"
    BY DEF StatusFields, Readiness
  <1> HIDE DEF new
  <1> QED BY <1>1, <1>2, UpdatesInTouch

-----------------------------------------------------------------------------
(***************************************************************************)
(* The stream of events.                                                   *)
(***************************************************************************)

\* A removal to be handled is in the stream.
LEMMA WithdrawnPending ==
    ASSUME ListenerOK, LinkOK, Withdrawn
    PROVE  RemovalPending
  <1>1. stream \in Seq(TextEvent) /\ stream # <<>> /\ stream[Len(stream)] = Announcement(NoProto)
    BY DEF ListenerOK, LinkOK, Withdrawn
  <1>2. Len(stream) \in DOMAIN stream
    BY <1>1
  <1>3. Announcement(NoProto).kind = "remove"
    BY DEF Announcement
  <1> QED BY <1>1, <1>2, <1>3 DEF RemovalPending

\* One more event, which says what the server has now; it had the schema if
\* there were other events.
LEMMA StreamGrows ==
    ASSUME ListenerOK, LinkOK, EnvOK, ~Withdrawn, NEW kind, NEW p, server' = p,
           Emit(kind, p), [kind |-> kind, proto |-> p] = Announcement(p), UNCHANGED <<lst, bidi>>
    PROVE  /\ LinkOK'
           /\ Connected => stream' # <<>>
           /\ stream # <<>> => Head(stream') = Head(stream)
           /\ ~Connected => stream' = <<>>
  <1>1. stream \in Seq(TextEvent)
    BY DEF ListenerOK
  <1>2. Connected' <=> Connected
    BY DEF Connected
  <1>3. CASE ~Connected
    BY <1>2, <1>3 DEF Emit, LinkOK
  <1>4. CASE Connected
    <2> DEFINE e == Announcement(p)
    <2>1. stream' = Append(stream, e)
      BY <1>4 DEF Emit
    <2> HIDE DEF e
    <2>2. /\ stream' # <<>> /\ Len(stream') = Len(stream) + 1 /\ stream'[Len(stream')] = e
          /\ \A i \in 1..Len(stream) : stream'[i] = stream[i]
          /\ stream # <<>> => Head(stream') = Head(stream)
      BY <1>1, <2>1
    <2>3. \A i \in 1..Len(stream) : stream[i].kind # "remove"
      <3> SUFFICES ASSUME NEW i \in 1..Len(stream), stream[i].kind = "remove"
                   PROVE  FALSE
        OBVIOUS
      <3>1. i = Len(stream) /\ stream # <<>>
        BY <1>1 DEF LinkOK
      <3>2. Announcement(server).kind = "remove"
        BY <3>1 DEF LinkOK
      <3>3. server = NoProto
        BY <3>2 DEF Announcement
      <3> QED BY <3>1, <3>3 DEF Withdrawn
    <2>4. \A i \in 1..Len(stream') : stream'[i].kind = "remove" => i = Len(stream')
      <3> SUFFICES ASSUME NEW i \in 1..Len(stream'), i # Len(stream')
                   PROVE  stream'[i].kind # "remove"
        OBVIOUS
      <3>1. i \in 1..Len(stream)
        BY <1>1, <2>2
      <3> QED BY <2>2, <2>3, <3>1
    <2> QED BY <1>2, <1>4, <2>2, <2>4 DEF LinkOK, e
  <1> QED BY <1>3, <1>4

\* The event at the head, and what is left without it.
LEMMA StreamShrinks ==
    ASSUME ListenerOK, LinkOK, EnvOK, stream # <<>>
    PROVE  /\ Head(stream).kind = "remove" => Tail(stream) = <<>> /\ server = NoProto
           /\ Tail(stream) = <<>> => Head(stream) = Announcement(server)
           /\ Tail(stream) # <<>> => Tail(stream)[Len(Tail(stream))] = Announcement(server)
           /\ \A i \in 1..Len(Tail(stream)) : Tail(stream)[i].kind = "remove" => i = Len(Tail(stream))
  <1>1. stream \in Seq(TextEvent) /\ Len(stream) \in Nat /\ Len(stream) >= 1
    BY DEF ListenerOK
  <1>2. Head(stream) = stream[1] /\ Len(Tail(stream)) = Len(stream) - 1
    BY <1>1
  <1>3. \A i \in 1..Len(Tail(stream)) : Tail(stream)[i] = stream[i + 1]
    BY <1>1
  <1>4. Tail(stream) = <<>> <=> Len(stream) = 1
    BY <1>1, <1>2
  <1>5. stream[Len(stream)] = Announcement(server)
    BY DEF LinkOK
  <1>6. ASSUME Head(stream).kind = "remove"
        PROVE  Len(stream) = 1 /\ server = NoProto
    <2>1. 1 = Len(stream)
      <3>1. stream[1].kind = "remove" /\ 1 \in 1..Len(stream)
        BY <1>1, <1>2, <1>6
      <3>2. \A i \in 1..Len(stream) : stream[i].kind = "remove" => i = Len(stream)
        BY DEF LinkOK
      <3> QED BY <3>1, <3>2
    <2>2. Announcement(server).kind = "remove"
      BY <1>2, <1>5, <1>6, <2>1
    <2> QED BY <2>1, <2>2 DEF Announcement
  <1>7. Tail(stream) = <<>> => Head(stream) = Announcement(server)
    BY <1>2, <1>4, <1>5
  <1>8. Tail(stream) # <<>> => Tail(stream)[Len(Tail(stream))] = Announcement(server)
    BY <1>1, <1>2, <1>3, <1>4, <1>5
  <1>9. \A i \in 1..Len(Tail(stream)) : Tail(stream)[i].kind = "remove" => i = Len(Tail(stream))
    <2> SUFFICES ASSUME NEW i \in 1..(Len(stream) - 1), stream[i + 1].kind = "remove"
                 PROVE  i = Len(stream) - 1
      BY <1>2, <1>3
    <2>1. i \in Nat /\ i + 1 \in 1..Len(stream)
      BY <1>1
    <2>2. i + 1 = Len(stream)
      BY <2>1 DEF LinkOK
    <2> QED BY <1>1, <2>1, <2>2
  <1> QED BY <1>4, <1>6, <1>7, <1>8, <1>9

\* An announced text is an event of its own kind.
LEMMA Announced ==
    /\ Announcement(NoProto) = [kind |-> "remove", proto |-> NoProto]
    /\ \A p \in Protos : Announcement(p) = [kind |-> "set", proto |-> p] /\ p # NoProto
    /\ \A p : Announcement(p).proto = p
    /\ \A p : Announcement(p).kind = IF p = NoProto THEN "remove" ELSE "set"
  BY ProtoAssumption DEF Announcement

\* Once a schema was lost, it stays lost to the listener.
LEMMA EmitUnseen ==
    ASSUME NEW kind, NEW p, Emit(kind, p), unseen' # "lost", kind = "set" \/ Connected
    PROVE  unseen' = unseen
  BY DEF Emit

\* The text is put on the server: no removal is to be handled, and no sweep
\* is about to take the schema for missing.
LEMMA PutInTouch == ASSUME IInv, InTouch, unseen' # "lost", Put PROVE InTouch'
  <1> DEFINE s == ctl.s
             p == ctl.spec
  <1>1. /\ ctl.pc = "put" /\ p \in Protos /\ server' = p /\ Emit("set", p)
        /\ UNCHANGED <<lst, bidi, cluster>>
    BY DEF Put, env, IInv, CtlOK
  <1>2. s \in DOMAIN crs /\ Live(crs[s]) /\ (reconcileOnServer(crs[s]) => p = crs[s].spec)
    BY <1>1 DEF InTouch, ControllerSide, StepOK
  <1>3. crs[s] \in CR /\ \A t \in DOMAIN crs : t = s
    BY <1>2 DEF IInv, CrsOK, InTouch, ServerSide, OneCR
  <1>4. p # NoProto /\ [kind |-> "set", proto |-> p] = Announcement(p) /\ unseen' = unseen
    BY <1>1, Announced, EmitUnseen
  <1>5. ~Withdrawn /\ ~Sweeping
    BY <1>1 DEF InTouch, ControllerSide, WithdrawnOK, Sweeping
  <1>6. /\ LinkOK'
        /\ Connected => stream' # <<>>
        /\ stream # <<>> => Head(stream') = Head(stream)
        /\ ~Connected => stream' = <<>>
    BY <1>1, <1>4, <1>5, StreamGrows DEF IInv, InTouch, ServerSide
  <1>7. /\ StatusOnly /\ DOMAIN crs' = DOMAIN crs /\ queue \subseteq queue'
        /\ \/ ctl'.pc = "idle" /\ crs'[s].ready # "Unknown"
           \/ ctl'.pc = "status" /\ ctl'.s = s
    <2>1. CASE p \in Invalid
      <3> DEFINE new == [ready |-> "Invalid"]
                 c == Updated(crs[s], new)
      <3>1. EndWith(s, c, FALSE)
        BY <1>2, <2>1 DEF Put, EndUpdating
      <3>2. /\ DOMAIN new \subseteq StatusFields /\ new.ready \in Readiness /\ new.ready = "Invalid"
            /\ "finalizer" \notin DOMAIN new /\ "sync" \notin DOMAIN new /\ "ready" \in DOMAIN new
        BY DEF StatusFields, Readiness
      <3> HIDE DEF new
      <3>3. c \in CR /\ Same(crs[s], c) /\ c.ready = "Invalid" /\ c.finalizer = crs[s].finalizer
        BY <1>3, <3>2, UpdatedFields, UpdatedSame
      <3> HIDE DEF c
      <3>4. c.deleted = "no"
        BY <1>2, <3>3 DEF Live, Same
      <3>5. Patch(s, c) /\ Woken(s) \subseteq queue' /\ ctl' = CtlIdle /\ queue \subseteq queue'
        BY <1>1, <3>1 DEF EndWith
      <3>6. StatusOnly /\ s \in DOMAIN crs' /\ crs'[s] = c
        BY <1>2, <3>3, <3>4, <3>5, StatusWrite
      <3> QED BY <1>3, <3>3, <3>5, <3>6, IdleTypes DEF StatusOnly
    <2>2. CASE p \notin Invalid
      <3>1. ctl' = [ctl EXCEPT !.pc = "status"] /\ UNCHANGED <<crs, queue>>
        BY <2>2 DEF Put, Goto
      <3>2. ctl'.pc = "status" /\ ctl'.s = s
        BY <3>1 DEF IInv, CtlOK, CtlType
      <3> QED BY <3>1, <3>2 DEF StatusOnly, Same
    <2> QED BY <2>1, <2>2
  <1>8. /\ DOMAIN crs' = {s} /\ Same(crs[s], crs'[s]) /\ Live(crs'[s])
        /\ reconcileOnServer(crs'[s]) => p = crs'[s].spec
    <2>1. DOMAIN crs' = {s} /\ Same(crs[s], crs'[s])
      BY <1>2, <1>3, <1>7 DEF StatusOnly
    <2> QED BY <1>2, <2>1, SameFacts DEF Same
  <1> HIDE DEF s, p
  <1>9. Connected' <=> Connected
    BY <1>1 DEF Connected
  <1>10. OneCR' /\ GenOK' /\ ShownOK'
    BY <1>2, <1>8 DEF OneCR, GenOK, ShownOK, InTouch, ServerSide, Same
  <1>11. WorkOK'
    <2>1. lst.pc \in {"create", "get", "patch", "mark"} => Head(stream') = Head(stream) /\ stream # <<>>
      BY <1>6 DEF IInv, ListenerOK
    <2>2. lst.pc # "mark"
      BY <1>5, <2>1, StreamShrinks DEF InTouch, ServerSide, WorkOK, IInv, Withdrawn
    <2>3. lst.pc # "create" /\ (lst.pc \in {"get", "patch"} => lst.s = s)
      BY <1>2, <1>3 DEF InTouch, ServerSide, WorkOK
    <2>4. lst.pc = "sweepList" /\ lst.proto = NoProto => ~crs[s].owned
      <3> SUFFICES ASSUME lst.pc = "sweepList", lst.proto = NoProto, crs[s].owned
                   PROVE  FALSE
        OBVIOUS
      <3>1. server = NoProto
        BY <1>2 DEF InTouch, ServerSide, WorkOK
      <3>2. Forgiven(crs[s])
        BY <1>2, <1>5, <3>1 DEF InTouch, ControllerSide, AbsentOK
      <3> QED BY <3>2 DEF Forgiven
    <2>5. /\ lst'.pc \in {"create", "get", "patch"} =>
                Head(stream').kind = "set" /\ Head(stream').proto = lst'.proto
      BY <1>1, <2>1 DEF InTouch, ServerSide, WorkOK
    <2>6. /\ lst'.pc \in {"get", "patch"} /\ lst'.s \in DOMAIN crs' => crs'[lst'.s].spec # lst'.proto
          /\ lst'.pc = "patch" /\ lst'.s \in DOMAIN crs' =>
                lst'.base = crs'[lst'.s].spec /\ lst'.gen = crs'[lst'.s].gen
      BY <1>1, <1>2, <1>8 DEF InTouch, ServerSide, WorkOK, Same
    <2>7. lst'.pc = "sweepList" /\ lst'.proto = NoProto =>
             \A t \in DOMAIN crs' : crs'[t].owned => server' = NoProto
      BY <1>1, <1>8, <2>4 DEF Same
    <2> QED BY <1>1, <1>8, <2>2, <2>3, <2>5, <2>6, <2>7 DEF WorkOK
  <1>12. MarkedOK' /\ WithdrawnOK' /\ AbsentOK'
    BY <1>1, <1>4, <1>8 DEF MarkedOK, WithdrawnOK, AbsentOK, Withdrawn, Live
  <1>13. StepOK'
    BY <1>7 DEF StepOK
  <1>14. CarriedOK'
    BY <1>1, <1>4, <1>6, <1>9 DEF CarriedOK
  <1>15. ToldOK'
    BY <1>1, <1>7, <1>8 DEF ToldOK
  <1> QED BY <1>6, <1>10, <1>11, <1>12, <1>13, <1>14, <1>15 DEF InTouch, ServerSide, ControllerSide

\* The schema goes with a resource under deletion.
LEMMA DeleteOnServerInTouch == ASSUME IInv, InTouch, unseen' # "lost", DeleteOnServer PROVE InTouch'
  <1> DEFINE s == ctl.s
  <1>1. /\ ctl.pc = "erase" /\ server' = NoProto /\ UNCHANGED <<lst, bidi, cluster, crs, queue>>
        /\ ctl' = [ctl EXCEPT !.pc = "unfinalize"]
    BY DEF DeleteOnServer, Goto, env
  <1>2. ctl'.pc = "unfinalize" /\ ctl'.s = s
    BY <1>1 DEF IInv, CtlOK, CtlType
  <1>3. s \in DOMAIN crs /\ crs[s].deleted # "no" /\ \A t \in DOMAIN crs : t = s
    BY <1>1 DEF IInv, GuardOK, Removing, InTouch, ServerSide, OneCR
  <1>4. /\ LinkOK'
        /\ stream # <<>> => stream' # <<>> /\ Head(stream') = Head(stream)
        /\ server # NoProto \/ UNCHANGED stream
    <2>1. CASE server = NoProto
      <3>1. UNCHANGED stream
        BY <2>1 DEF DeleteOnServer
      <3> QED BY <1>1, <2>1, <3>1 DEF InTouch, ServerSide, LinkOK, Connected
    <2>2. CASE server # NoProto
      <3>1. Emit("remove", NoProto) /\ ~Withdrawn
        BY <2>2 DEF DeleteOnServer, Withdrawn
      <3>2. /\ LinkOK'
            /\ Connected => stream' # <<>>
            /\ stream # <<>> => Head(stream') = Head(stream)
        BY <1>1, <3>1, Announced, StreamGrows DEF IInv, InTouch, ServerSide
      <3>3. stream # <<>> => Connected
        BY DEF InTouch, ServerSide, LinkOK
      <3> QED BY <2>2, <3>2, <3>3
    <2> QED BY <2>1, <2>2
  <1>5. OneCR' /\ GenOK' /\ ShownOK'
    BY <1>1 DEF OneCR, GenOK, ShownOK, InTouch, ServerSide
  <1>6. WorkOK'
    <2>1. lst.pc \in {"create", "get", "patch", "mark"} => Head(stream') = Head(stream) /\ stream # <<>>
      BY <1>4 DEF IInv, ListenerOK
    <2> QED BY <1>1, <2>1 DEF InTouch, ServerSide, WorkOK
  <1>7. MarkedOK'
    <2>1. ASSUME NEW t \in DOMAIN crs, crs[t].marked PROVE server = NoProto /\ stream = <<>> /\ t \in queue
      BY <1>1, <2>1 DEF InTouch, ControllerSide, MarkedOK
    <2> QED BY <1>1, <1>4, <2>1 DEF MarkedOK
  <1>8. StepOK'
    BY <1>1, <1>2, <1>3 DEF StepOK
  <1>9. \A t \in DOMAIN crs' : ~Live(crs'[t])
    BY <1>1, <1>3 DEF Live
  <1>10. WithdrawnOK' /\ AbsentOK' /\ CarriedOK' /\ ToldOK'
    BY <1>2, <1>9 DEF WithdrawnOK, AbsentOK, CarriedOK, ToldOK
  <1> QED BY <1>4, <1>5, <1>6, <1>7, <1>8, <1>10 DEF InTouch, ServerSide, ControllerSide

\* A step of the controller.
LEMMA ReconcileInTouch == ASSUME IInv, InTouch, Calm, unseen' # "lost", Reconcile PROVE InTouch'
  BY NotFoundInTouch, RemoveMarkedInTouch, FirstWriteInTouch, StartInTouch, DeleteMarkedInTouch,
     AnnounceOneWayInTouch, FindReferencingCachesInTouch, DeleteOnServerInTouch,
     RemoveFinalizerInTouch, PutInTouch, CheckStatusInTouch, FinishInTouch
  DEF Reconcile

-----------------------------------------------------------------------------
(***************************************************************************)
(* The steps of the listener keep in touch.                                *)
(***************************************************************************)

\* What a step of the listener leaves alone.
LEMMA ListenerLeaves == ASSUME Listener PROVE UNCHANGED <<server, ctl, unseen, cluster, bidi>>
  BY DEF Listener, env

\* The sweep reads the names; it takes the schema for missing only if it is.
LEMMA ReadNamesInTouch == ASSUME IInv, InTouch, ReadNames PROVE InTouch'
  <1>1. /\ lst.pc = "sweep" /\ lst'.pc = "sweepList" /\ lst'.proto = server
        /\ UNCHANGED <<crs, queue, stream>> /\ UNCHANGED <<server, ctl, unseen, cluster, bidi>>
    BY ListenerLeaves DEF ReadNames, IInv, ListenerOK, LstType
  <1> USE DEF InTouch, ServerSide, ControllerSide
  <1>2. LinkOK' /\ OneCR' /\ GenOK'
    BY <1>1 DEF LinkOK, OneCR, GenOK, Connected
  <1>3. WorkOK' /\ ShownOK'
    BY <1>1 DEF WorkOK, ShownOK, Connected
  <1>4. MarkedOK' /\ StepOK' /\ WithdrawnOK' /\ ToldOK'
    BY <1>1 DEF MarkedOK, StepOK, WithdrawnOK, Withdrawn, ToldOK
  <1>5. AbsentOK'
    BY <1>1 DEF AbsentOK, Withdrawn, Sweeping, Forgiven
  <1>6. CarriedOK'
    BY <1>1 DEF CarriedOK, Coming, Forgiven, Connected
  <1> QED BY <1>2, <1>3, <1>4, <1>5, <1>6

\* The sweep marks the listener's resource of a missing schema, which no
\* reconciliation is about to put there.
LEMMA RemoveStaleResourcesInTouch == ASSUME IInv, InTouch, RemoveStaleResources PROVE InTouch'
  <1> DEFINE c(s) == [crs[s] EXCEPT !.marked = @ \/ (crs[s].owned /\ lst.proto = NoProto)]
  <1>1. /\ lst.pc = "sweepList" /\ lst'.pc = "subscribe"
        /\ UNCHANGED stream /\ UNCHANGED <<server, ctl, unseen, cluster, bidi>>
        /\ crs' = [s \in DOMAIN crs |-> c(s)]
        /\ queue' = queue \cup {s \in DOMAIN crs : crs'[s] # crs[s]}
    BY ListenerLeaves DEF RemoveStaleResources, LstIdle
  <1>2. \A s \in DOMAIN crs :
          /\ c(s).spec = crs[s].spec /\ c(s).gen = crs[s].gen /\ c(s).listenerGen = crs[s].listenerGen
          /\ c(s).deleted = crs[s].deleted /\ c(s).owned = crs[s].owned /\ c(s).paused = crs[s].paused
          /\ c(s).ready = crs[s].ready /\ c(s).finalizer = crs[s].finalizer
          /\ c(s).marked <=> (crs[s].marked \/ (crs[s].owned /\ lst.proto = NoProto))
    <2>1. \A s \in DOMAIN crs : crs[s] \in CR
      BY DEF IInv, CrsOK
    <2> QED BY <2>1 DEF CR
  <1> HIDE DEF c
  <1>3. /\ DOMAIN crs' = DOMAIN crs /\ queue \subseteq queue'
        /\ \A s \in DOMAIN crs :
             /\ crs'[s].spec = crs[s].spec /\ crs'[s].gen = crs[s].gen /\ crs'[s].listenerGen = crs[s].listenerGen
             /\ crs'[s].deleted = crs[s].deleted /\ crs'[s].owned = crs[s].owned
             /\ crs'[s].paused = crs[s].paused
             /\ crs'[s].ready = crs[s].ready /\ crs'[s].finalizer = crs[s].finalizer
             /\ crs'[s].marked <=> (crs[s].marked \/ (crs[s].owned /\ lst.proto = NoProto))
             /\ crs'[s].marked /\ ~crs[s].marked => s \in queue'
    BY <1>1, <1>2
  <1>4. stream = <<>> /\ stream' = <<>> /\ ~Connected /\ ~Connected' /\ bidi
    BY <1>1 DEF InTouch, ServerSide, LinkOK, Connected
  <1>5. \A s \in DOMAIN crs : reconcileOnServer(crs'[s]) <=> reconcileOnServer(crs[s])
    BY <1>3 DEF reconcileOnServer
  <1>6. \A s \in DOMAIN crs : crs'[s].marked => crs[s].marked \/ (server = NoProto /\ crs[s].owned)
    BY <1>1, <1>3 DEF InTouch, ServerSide, WorkOK
  <1>7. \A s \in DOMAIN crs : Live(crs[s]) /\ ~Live(crs'[s]) => ctl.pc = "idle"
    <2> SUFFICES ASSUME NEW s \in DOMAIN crs, Live(crs[s]), ~Live(crs'[s])
                 PROVE  ctl.pc = "idle"
      OBVIOUS
    <2>1. server = NoProto /\ crs[s].owned
      BY <1>3, <1>6 DEF Live
    <2>2. ~Withdrawn /\ ~Forgiven(crs[s])
      BY <1>4, <2>1 DEF Withdrawn, Forgiven
    <2> QED BY <2>1, <2>2 DEF InTouch, ControllerSide, AbsentOK, Sweeping
  <1>8. \A s \in DOMAIN crs : Live(crs'[s]) => Live(crs[s]) /\ ~(crs[s].owned /\ lst.proto = NoProto)
    BY <1>3 DEF Live
  <1> USE DEF InTouch, ServerSide, ControllerSide
  <1>9. LinkOK' /\ OneCR' /\ GenOK' /\ WorkOK' /\ ShownOK'
    BY <1>1, <1>3, <1>4 DEF LinkOK, OneCR, GenOK, WorkOK, ShownOK
  <1>10. MarkedOK'
    BY <1>1, <1>3, <1>4, <1>6 DEF MarkedOK
  <1>11. StepOK'
    BY <1>1, <1>3, <1>4, <1>5, <1>7 DEF StepOK
  <1>12. WithdrawnOK'
    BY <1>4 DEF WithdrawnOK, Withdrawn
  <1>13. AbsentOK'
    BY <1>1, <1>3, <1>4, <1>5, <1>8 DEF AbsentOK, Withdrawn, Sweeping, Forgiven
  <1>14. CarriedOK'
    BY <1>1, <1>3, <1>4, <1>5, <1>8 DEF CarriedOK, Coming, Forgiven
  <1>15. ToldOK'
    BY <1>1, <1>3, <1>5, <1>8 DEF ToldOK
  <1> QED BY <1>9, <1>10, <1>11, <1>12, <1>13, <1>14, <1>15

\* The first event after the connection says what the server has.
LEMMA SubscribeInTouch == ASSUME IInv, InTouch, Subscribe PROVE InTouch'
  <1>1. /\ lst.pc = "subscribe" /\ lst'.pc = "idle" /\ UNCHANGED <<crs, queue>>
        /\ UNCHANGED <<server, ctl, unseen, cluster, bidi>>
        /\ stream' = IF server = NoProto THEN <<>> ELSE <<[kind |-> "set", proto |-> server]>>
    BY ListenerLeaves DEF Subscribe, LstIdle
  <1>2. stream = <<>> /\ bidi /\ Connected'
    BY <1>1 DEF InTouch, ServerSide, LinkOK, Connected
  <1>3. ~Withdrawn /\ ~Withdrawn' /\ ~Sweeping
    BY <1>1, <1>2 DEF Withdrawn, Sweeping
  <1>4. LinkOK'
    <2>1. CASE server = NoProto
      BY <1>1, <1>2, <2>1 DEF LinkOK
    <2>2. CASE server # NoProto
      <3> DEFINE e == [kind |-> "set", proto |-> server]
      <3>1. stream' = <<e>> /\ e = Announcement(server)
        BY <1>1, <2>2 DEF Announcement
      <3> HIDE DEF e
      <3>2. Len(stream') = 1 /\ stream'[1] = e
        BY <3>1
      <3> QED BY <1>1, <1>2, <3>1, <3>2 DEF LinkOK
    <2> QED BY <2>1, <2>2
  <1> USE DEF InTouch, ServerSide, ControllerSide
  <1>5. OneCR' /\ GenOK' /\ WorkOK' /\ ShownOK'
    BY <1>1 DEF OneCR, GenOK, WorkOK, ShownOK
  <1>6. MarkedOK' /\ StepOK' /\ WithdrawnOK' /\ ToldOK'
    BY <1>1, <1>3 DEF MarkedOK, StepOK, WithdrawnOK, ToldOK
  <1>7. AbsentOK'
    BY <1>1, <1>3 DEF AbsentOK, Forgiven
  <1>8. CarriedOK'
    <2> SUFFICES ASSUME NEW s, s \in DOMAIN crs, Live(crs[s]), server = NoProto
                 PROVE  Coming(s)' \/ Forgiven(crs[s])'
      BY <1>1 DEF CarriedOK
    <2>1. CASE crs[s].owned
      BY <1>1, <1>3, <2>1 DEF AbsentOK, Forgiven
    <2>2. CASE ~crs[s].owned
      <3>1. crs[s].spec # NoProto
        BY Announced DEF IInv, CrsOK, CR
      <3>2. Coming(s) \/ Forgiven(crs[s])
        BY <1>2, <2>2, <3>1 DEF CarriedOK
      <3> QED BY <1>1, <3>2 DEF Coming, Forgiven
    <2> QED BY <2>1, <2>2
  <1> QED BY <1>4, <1>5, <1>6, <1>7, <1>8

\* There is at most one resource, and it is the one that is found.
LEMMA ExistingOne ==
    ASSUME OneCR
    PROVE  /\ ~(Cardinality(Existing) > 1)
           /\ Existing # {} => TheExisting \in DOMAIN crs
  <1>1. CASE DOMAIN crs = {}
    <2>1. Cardinality(Existing) = 0
      BY <1>1, FS_EmptySet DEF Existing
    <2> QED BY <1>1, <2>1 DEF Existing
  <1>2. CASE DOMAIN crs # {}
    <2>1. PICK t \in DOMAIN crs : TRUE
      BY <1>2
    <2>2. DOMAIN crs = {t}
      BY <2>1 DEF OneCR
    <2>3. Cardinality(Existing) = 1
      BY <2>2, FS_Singleton DEF Existing
    <2>4. TheExisting \in DOMAIN crs
      BY <1>2 DEF TheExisting, Existing
    <2> QED BY <2>3, <2>4
  <1> QED BY <1>1, <1>2

\* An event is handled, and the next one is waited for.
LEMMA HandledLink ==
    ASSUME IInv, InTouch, stream # <<>>, Handled, Listener
    PROVE  /\ LinkOK' /\ Connected' /\ Connected /\ bidi /\ stream' = Tail(stream) /\ lst'.pc = "idle"
           /\ UNCHANGED <<server, ctl, unseen, cluster, bidi>>
           /\ \A s \in DOMAIN crs : ~crs[s].marked
           /\ Head(stream).kind = "remove" => stream' = <<>> /\ server = NoProto
           /\ stream' = <<>> => Head(stream) = Announcement(server)
  <1>1. stream' = Tail(stream) /\ lst'.pc = "idle" /\ Connected'
    BY DEF Handled, LstIdle, Connected
  <1>2. UNCHANGED <<server, ctl, unseen, cluster, bidi>>
    BY ListenerLeaves
  <1>3. Connected /\ bidi
    BY DEF InTouch, ServerSide, LinkOK, Connected
  <1>4. /\ Head(stream).kind = "remove" => stream' = <<>> /\ server = NoProto
        /\ stream' = <<>> => Head(stream) = Announcement(server)
        /\ stream' # <<>> => stream'[Len(stream')] = Announcement(server)
        /\ \A i \in 1..Len(stream') : stream'[i].kind = "remove" => i = Len(stream')
    BY <1>1, StreamShrinks DEF IInv, InTouch, ServerSide
  <1>5. LinkOK'
    BY <1>1, <1>2, <1>3, <1>4 DEF LinkOK
  <1>6. \A s \in DOMAIN crs : ~crs[s].marked
    BY DEF InTouch, ControllerSide, MarkedOK
  <1> QED BY <1>1, <1>2, <1>3, <1>4, <1>5, <1>6

\* An event that needs no change of the resource.
LEMMA HandledInTouch ==
    ASSUME IInv, InTouch, stream # <<>>, Handled, Listener, UNCHANGED <<crs, queue>>,
           \/ DOMAIN crs = {} /\ server = NoProto
           \/ DOMAIN crs # {} /\ \A s \in DOMAIN crs : crs[s].deleted # "no"
           \/ Head(stream).kind = "set" /\ DOMAIN crs # {}
              /\ \A s \in DOMAIN crs : crs[s].spec = Head(stream).proto
    PROVE  InTouch'
  <1>1. /\ LinkOK' /\ Connected' /\ Connected /\ bidi /\ stream' = Tail(stream) /\ lst'.pc = "idle"
        /\ UNCHANGED <<server, ctl, unseen, cluster, bidi>>
        /\ \A s \in DOMAIN crs : ~crs[s].marked
        /\ stream' = <<>> => Head(stream) = Announcement(server)
    BY HandledLink
  <1>2. ~Sweeping
    BY <1>1 DEF Sweeping, Connected
  <1> USE DEF InTouch, ServerSide, ControllerSide
  <1>3. OneCR' /\ GenOK' /\ ShownOK'
    BY <1>1 DEF OneCR, GenOK, ShownOK
  <1>a. WorkOK'
    BY <1>1 DEF WorkOK
  <1>4. MarkedOK' /\ StepOK' /\ ToldOK'
    BY <1>1 DEF MarkedOK, StepOK, ToldOK
  <1>5. WithdrawnOK'
    BY <1>1 DEF WithdrawnOK, Withdrawn
  <1>6. \A s \in DOMAIN crs : Live(crs[s]) /\ stream' = <<>> => crs[s].spec = server /\ server # NoProto
    <2> SUFFICES ASSUME NEW s \in DOMAIN crs, Live(crs[s]), stream' = <<>>
                 PROVE  crs[s].spec = server /\ server # NoProto
      OBVIOUS
    <2>1. Head(stream).kind = "set" /\ crs[s].spec = Head(stream).proto
      BY DEF Live
    <2> QED BY <1>1, <2>1, Announced
  <1>7. AbsentOK'
    BY <1>1, <1>2, <1>6 DEF AbsentOK, Withdrawn, Forgiven
  <1>8. CarriedOK'
    BY <1>1, <1>6 DEF CarriedOK
  <1> QED BY <1>1, <1>3, <1>a, <1>4, <1>5, <1>7, <1>8

\* An event that says what the resource says, or that is about none.
LEMMA IgnoreEventInTouch == ASSUME IInv, InTouch, IgnoreEvent PROVE InTouch'
  <1>1. stream # <<>> /\ Handled /\ Listener /\ UNCHANGED <<crs, queue>>
    BY DEF IgnoreEvent, Received
  <1>2. ~(Cardinality(Existing) > 1)
    BY ExistingOne DEF InTouch, ServerSide
  <1>3. CASE Received("remove") /\ Existing = {}
    <2>1. server = NoProto
      BY <1>1, <1>3, HandledLink DEF Received
    <2> QED BY <1>1, <1>3, <2>1, HandledInTouch DEF Existing
  <1>4. CASE Received("set") /\ Existing # {} /\ crs[TheExisting].spec = Head(stream).proto
    <2>1. \A s \in DOMAIN crs : s = TheExisting
      BY <1>4, ExistingOne DEF InTouch, ServerSide, OneCR
    <2> QED BY <1>1, <1>4, <2>1, HandledInTouch DEF Existing, Received
  <1> QED BY <1>2, <1>3, <1>4 DEF IgnoreEvent

\* The listener takes up an event.
LEMMA FindsInTouch ==
    ASSUME IInv, InTouch, Listener, UNCHANGED <<crs, queue, stream>>, stream # <<>>,
           \/ lst'.pc = "create" /\ Head(stream).kind = "set" /\ lst'.proto = Head(stream).proto
              /\ DOMAIN crs = {}
           \/ lst'.pc = "get" /\ Head(stream).kind = "set" /\ lst'.proto = Head(stream).proto
              /\ lst'.s \in DOMAIN crs /\ crs[lst'.s].spec # lst'.proto
           \/ lst'.pc = "mark" /\ Head(stream).kind = "remove" /\ lst'.s \in DOMAIN crs
           \/ lst'.pc = "patch" /\ lst'.proto = lst.proto /\ lst'.s = lst.s /\ lst.pc = "get"
              /\ lst.s \in DOMAIN crs /\ lst'.base = crs[lst.s].spec /\ lst'.gen = crs[lst.s].gen
    PROVE  InTouch'
  <1>1. UNCHANGED <<server, ctl, unseen, cluster, bidi>>
    BY ListenerLeaves
  <1>2. Connected /\ Connected' /\ bidi /\ ~Sweeping
    BY DEF InTouch, ServerSide, LinkOK, Connected, Sweeping
  <1> USE DEF InTouch, ServerSide, ControllerSide
  <1>3. LinkOK' /\ OneCR' /\ GenOK' /\ ShownOK'
    BY <1>1, <1>2 DEF LinkOK, OneCR, GenOK, ShownOK
  <1>4. WorkOK'
    BY <1>1 DEF WorkOK
  <1>5. MarkedOK' /\ StepOK' /\ ToldOK'
    BY <1>1 DEF MarkedOK, StepOK, ToldOK
  <1>6. WithdrawnOK' /\ AbsentOK' /\ CarriedOK'
    BY <1>1, <1>2 DEF WithdrawnOK, Withdrawn, AbsentOK, Forgiven, CarriedOK
  <1> QED BY <1>3, <1>4, <1>5, <1>6

\* The resource of an event is looked for.
LEMMA FindInTouch == ASSUME IInv, InTouch, FindForSet \/ FindForRemove PROVE InTouch'
  <1>1. Listener /\ UNCHANGED <<crs, queue, stream>> /\ stream # <<>>
    BY DEF FindForSet, FindForRemove, Received
  <1>2. CASE FindForSet
    <2>1. Head(stream).kind = "set"
      BY <1>2 DEF FindForSet, Received
    <2>2. CASE Existing = {} /\ lst' = [LstIdle EXCEPT !.pc = "create", !.proto = Head(stream).proto]
      <3>1. lst'.pc = "create" /\ lst'.proto = Head(stream).proto
        BY <2>2 DEF LstIdle
      <3> QED BY <1>1, <2>1, <2>2, <3>1, FindsInTouch DEF Existing
    <2>3. CASE /\ Cardinality(Existing) = 1 /\ crs[TheExisting].spec # Head(stream).proto
               /\ lst' = [LstIdle EXCEPT !.pc = "get", !.s = TheExisting, !.proto = Head(stream).proto]
      <3>1. lst'.pc = "get" /\ lst'.proto = Head(stream).proto /\ lst'.s = TheExisting
        BY <2>3 DEF LstIdle
      <3>2. TheExisting \in DOMAIN crs
        BY <2>3, TheExistingSlot DEF IInv
      <3> QED BY <1>1, <2>1, <2>3, <3>1, <3>2, FindsInTouch
    <2> QED BY <1>2, <2>2, <2>3 DEF FindForSet
  <1>3. CASE FindForRemove
    <2>1. Head(stream).kind = "remove" /\ TheExisting \in DOMAIN crs
      BY <1>3, TheExistingSlot DEF FindForRemove, Received, IInv
    <2>2. lst'.pc = "mark" /\ lst'.s = TheExisting
      BY <1>3 DEF FindForRemove, LstIdle
    <2> QED BY <1>1, <2>1, <2>2, FindsInTouch
  <1> QED BY <1>2, <1>3

\* CreateOrPatch reads the resource, if it is still there.
LEMMA GetCRInTouch == ASSUME IInv, InTouch, GetCR PROVE InTouch'
  <1>1. Listener /\ UNCHANGED <<crs, queue>> /\ lst.pc = "get" /\ stream # <<>> /\ lst \in LstType
    BY DEF GetCR, IInv, ListenerOK
  <1>2. CASE lst.s \in DOMAIN crs
    <2>1. UNCHANGED stream /\ lst' = [lst EXCEPT !.pc = "patch", !.base = crs[lst.s].spec,
                                       !.gen = crs[lst.s].gen, !.fin = crs[lst.s].finalizer]
      BY <1>2 DEF GetCR
    <2>2. /\ lst'.pc = "patch" /\ lst'.proto = lst.proto /\ lst'.s = lst.s
          /\ lst'.base = crs[lst.s].spec /\ lst'.gen = crs[lst.s].gen
      BY <1>1, <2>1 DEF LstType
    <2> QED BY <1>1, <1>2, <2>1, <2>2, FindsInTouch
  <1>3. CASE lst.s \notin DOMAIN crs
    <2>1. Handled /\ DOMAIN crs = {} /\ server = NoProto
      BY <1>1, <1>3 DEF GetCR, InTouch, ServerSide, WorkOK
    <2> QED BY <1>1, <2>1, HandledInTouch
  <1> QED BY <1>2, <1>3

\* The listener creates the resource of a schema that has none.
LEMMA CreatedInTouch == ASSUME IInv, InTouch, CreateCR, ~UNCHANGED <<crs, queue>> PROVE InTouch'
  <1> DEFINE s == GeneratedName
             c == NewCR(lst.proto, TRUE)
  <1>1. /\ lst.pc = "create" /\ Handled /\ Listener /\ stream # <<>> /\ DOMAIN crs = {}
        /\ Head(stream).kind = "set" /\ Head(stream).proto = lst.proto
    BY DEF CreateCR, IInv, ListenerOK, InTouch, ServerSide, WorkOK
  <1>2. crs' = With(s, c) /\ queue' = queue \cup {s}
    BY CreateCRShape
  <1>3. s # ctl.s
    BY <1>1, GeneratedSlot
  <1>4. /\ c.spec = lst.proto /\ c.gen = 1 /\ c.listenerGen = 1 /\ ~c.marked /\ c.deleted = "no"
        /\ c.owned /\ ~reconcileOnServer(c)
    BY DEF NewCR, reconcileOnServer
  <1> HIDE DEF s, c
  <1>5. DOMAIN crs' = {s} /\ crs'[s] = c
    BY <1>1, <1>2 DEF With
  <1>6. /\ LinkOK' /\ Connected' /\ bidi /\ stream' = Tail(stream) /\ lst'.pc = "idle"
        /\ UNCHANGED <<server, ctl, unseen, cluster, bidi>>
        /\ stream' = <<>> => Head(stream) = Announcement(server)
    BY <1>1, HandledLink
  <1>7. stream' = <<>> => server = lst.proto /\ server # NoProto
    <2>1. stream' = <<>> => Announcement(server).kind = "set" /\ Announcement(server).proto = lst.proto
      BY <1>1, <1>6
    <2> QED BY <2>1, Announced
  <1> USE DEF InTouch, ServerSide, ControllerSide
  <1>8. OneCR' /\ GenOK' /\ ShownOK' /\ WorkOK'
    BY <1>4, <1>5, <1>6 DEF OneCR, GenOK, ShownOK, WorkOK
  <1>9. ctl.pc # "put" /\ ctl.pc # "oneWay"
    BY <1>1, <1>6 DEF StepOK
  <1>10. MarkedOK' /\ StepOK' /\ WithdrawnOK'
    BY <1>3, <1>4, <1>5, <1>6, <1>9 DEF MarkedOK, StepOK, WithdrawnOK
  <1>11. AbsentOK'
    BY <1>5, <1>6, <1>7 DEF AbsentOK, Withdrawn
  <1>12. CarriedOK'
    BY <1>4, <1>5, <1>6, <1>7 DEF CarriedOK
  <1>13. ToldOK'
    BY <1>2, <1>3, <1>5, <1>6 DEF ToldOK
  <1> QED BY <1>6, <1>8, <1>10, <1>11, <1>12, <1>13

\* The webhook refuses the listener's resource only where it still lists one
\* whose schema went with it.
LEMMA CreateCRInTouch == ASSUME IInv, InTouch, GoneOK, CreateCR PROVE InTouch'
  <1>1. lst.pc = "create" /\ Handled /\ Listener /\ stream # <<>> /\ DOMAIN crs = {}
    BY DEF CreateCR, IInv, ListenerOK, InTouch, ServerSide, WorkOK
  <1>2. CASE ~UNCHANGED <<crs, queue>>
    BY <1>2, CreatedInTouch
  <1>3. CASE UNCHANGED <<crs, queue>>
    <2>1. server = NoProto
      <3> SUFFICES ASSUME server # NoProto PROVE FALSE
        OBVIOUS
      <3>1. queue = {}
        BY <1>1 DEF GoneOK
      <3>2. \A list \in WebhookLists : list = {}
        BY <1>1, <3>1 DEF WebhookLists, InformerLists, Behind
      <3>3. queue' = queue \cup {GeneratedName}
        BY <3>2 DEF CreateCR, ValidateCreate
      <3> QED BY <1>3, <3>1, <3>3
    <2> QED BY <1>1, <1>3, <2>1, HandledInTouch
  <1> QED BY <1>2, <1>3

\* The listener marks the resource of a schema that went.
LEMMA MarkCRInTouch == ASSUME IInv, InTouch, MarkCR PROVE InTouch'
  <1>1. /\ lst.pc = "mark" /\ Handled /\ Listener /\ stream # <<>> /\ Head(stream).kind = "remove"
    BY DEF MarkCR, IInv, ListenerOK, InTouch, ServerSide, WorkOK
  <1>2. /\ LinkOK' /\ Connected' /\ bidi /\ lst'.pc = "idle"
        /\ UNCHANGED <<server, ctl, unseen, cluster, bidi>>
        /\ stream' = <<>> /\ server = NoProto
        /\ \A t \in DOMAIN crs : ~crs[t].marked
    BY <1>1, HandledLink
  <1>3. CASE lst.s \in DOMAIN crs /\ crs[lst.s].deleted = "no"
    <2> DEFINE s == lst.s
               c == [crs[s] EXCEPT !.marked = TRUE]
    <2>1. crs[s] \in CR /\ \A t \in DOMAIN crs : t = s
      BY <1>3 DEF IInv, CrsOK, InTouch, ServerSide, OneCR
    <2>2. c.marked = TRUE /\ c.deleted = "no" /\ c.gen = crs[s].gen /\ c.listenerGen = crs[s].listenerGen
          /\ reconcileOnServer(c) = reconcileOnServer(crs[s]) /\ c # crs[s]
      BY <1>2, <1>3, <2>1 DEF CR, reconcileOnServer
    <2>3. Patch(s, c) /\ queue' = queue \cup Woken(s)
      BY <1>3 DEF MarkCR
    <2> HIDE DEF c
    <2>4. DOMAIN crs' = {s} /\ crs'[s] = c
      BY <1>3, <2>1, <2>2, <2>3 DEF Patch, Stored, With
    <2>5. s \in queue'
      BY <2>2, <2>3, <2>4 DEF Woken
    <2>6. ~Live(c)
      BY <2>2 DEF Live
    <2> HIDE DEF s
    <2> USE DEF InTouch, ServerSide, ControllerSide
    <2>7. OneCR' /\ GenOK' /\ ShownOK' /\ WorkOK'
      BY <1>2, <2>1, <2>2, <2>4, <1>3 DEF OneCR, GenOK, ShownOK, WorkOK, s
    <2>8. MarkedOK'
      BY <1>2, <2>4, <2>5 DEF MarkedOK
    <2>9. StepOK'
      <3>1. Withdrawn
        BY <1>1, <1>2 DEF Withdrawn
      <3>2. ctl.pc # "put" /\ ctl.pc # "oneWay"
        BY <1>2, <3>1 DEF WithdrawnOK, StepOK
      <3>3. ctl.pc = "unfinalize" => ctl.s # s
        BY <1>3 DEF StepOK, s
      <3>4. ctl.pc = "deleteCR" => ctl.s # s
        BY <1>2, <1>3 DEF StepOK, s
      <3> QED BY <1>2, <2>4, <3>2, <3>3, <3>4 DEF StepOK
    <2>10. WithdrawnOK' /\ AbsentOK' /\ CarriedOK'
      BY <1>2, <2>4, <2>6 DEF WithdrawnOK, Withdrawn, AbsentOK, CarriedOK
    <2>11. ToldOK'
      <3>1. crs'[s].spec = crs[s].spec /\ s \in DOMAIN crs
        BY <1>3, <2>1, <2>4 DEF c, CR, s
      <3> QED BY <1>2, <2>2, <2>4, <2>6, <3>1 DEF ToldOK
    <2> QED BY <1>2, <2>7, <2>8, <2>9, <2>10, <2>11
  <1>4. CASE ~(lst.s \in DOMAIN crs /\ crs[lst.s].deleted = "no")
    <2>1. UNCHANGED <<crs, queue>>
      BY <1>4 DEF MarkCR
    <2>2. CASE lst.s \notin DOMAIN crs
      <3>1. DOMAIN crs = {}
        BY <1>1, <2>2 DEF InTouch, ServerSide, WorkOK
      <3> QED BY <1>1, <1>2, <2>1, <3>1, HandledInTouch
    <2>3. CASE lst.s \in DOMAIN crs /\ crs[lst.s].deleted # "no"
      <3>1. \A t \in DOMAIN crs : crs[t].deleted # "no"
        BY <2>3 DEF InTouch, ServerSide, OneCR
      <3> QED BY <1>1, <2>1, <2>3, <3>1, HandledInTouch
    <2> QED BY <1>4, <2>2, <2>3
  <1> QED BY <1>3, <1>4

\* The listener carries the server's text to the resource, from a reading of
\* it that is still true: no reconciliation is to carry another text back.
LEMMA PatchCRInTouch == ASSUME IInv, InTouch, PatchCR PROVE InTouch'
  <1>1. /\ lst.pc = "patch" /\ Handled /\ Listener /\ stream # <<>> /\ Head(stream).kind = "set"
        /\ Head(stream).proto = lst.proto /\ lst.proto \in Protos /\ lst.fin \in BOOLEAN
    BY DEF PatchCR, IInv, ListenerOK, LstType, InTouch, ServerSide, WorkOK
  <1>2. /\ LinkOK' /\ Connected' /\ Connected /\ bidi /\ stream' = Tail(stream) /\ lst'.pc = "idle"
        /\ UNCHANGED <<server, ctl, unseen, cluster, bidi>>
        /\ stream' = <<>> => Head(stream) = Announcement(server)
        /\ \A t \in DOMAIN crs : ~crs[t].marked
    BY <1>1, HandledLink
  <1>3. stream' = <<>> => server = lst.proto /\ server # NoProto
    <2>1. stream' = <<>> => Announcement(server).kind = "set" /\ Announcement(server).proto = lst.proto
      BY <1>1, <1>2
    <2> QED BY <2>1, Announced
  <1>4. CASE lst.s \notin DOMAIN crs
    <2>1. UNCHANGED <<crs, queue>> /\ DOMAIN crs = {} /\ server = NoProto
      BY <1>1, <1>4 DEF PatchCR, InTouch, ServerSide, WorkOK
    <2> QED BY <1>1, <2>1, HandledInTouch
  <1>5. CASE lst.s \in DOMAIN crs
    <2> DEFINE s == lst.s
               r == Respec(crs[s], lst.proto)
               c == [r EXCEPT !.listenerGen = lst.gen + 1, !.finalizer = @ \/ ~lst.fin]
    <2>1. /\ crs[s] \in CR /\ (crs[s].deleted # "no" => crs[s].finalizer) /\ \A t \in DOMAIN crs : t = s
          /\ crs[s].spec # lst.proto /\ lst.base = crs[s].spec /\ lst.gen = crs[s].gen
      BY <1>1, <1>5 DEF IInv, CrsOK, InTouch, ServerSide, OneCR, WorkOK
    <2>2. r = [crs[s] EXCEPT !.spec = lst.proto, !.gen = crs[s].gen + 1] /\ crs[s].gen \in Nat
      BY <2>1 DEF Respec, CR
    <2>3. /\ r.spec = lst.proto /\ r.gen = lst.gen + 1 /\ r.marked = crs[s].marked
          /\ r.deleted = crs[s].deleted /\ r.owned = crs[s].owned /\ r.paused = crs[s].paused
          /\ r.ready = crs[s].ready /\ r.finalizer = crs[s].finalizer
          /\ r \in CR
      <3>1. r \in CR /\ r.deleted = crs[s].deleted /\ r.finalizer = crs[s].finalizer
        BY <1>1, <2>1, RespecType
      <3> HIDE DEF r
      <3>2. DOMAIN crs[s] = {"spec", "gen", "listenerGen", "marked", "finalizer", "deleted", "owned",
                             "paused", "pausedCond", "ready", "sync"}
        BY <2>1 DEF CR
      <3>3. r.spec = lst.proto /\ r.gen = lst.gen + 1
        BY <2>1, <2>2, <3>2
      <3>4. /\ r.marked = crs[s].marked /\ r.owned = crs[s].owned /\ r.paused = crs[s].paused
            /\ r.ready = crs[s].ready
        BY <2>2, <3>2
      <3> QED BY <3>1, <3>3, <3>4
    <2>4. Patch(s, c) /\ queue' = queue \cup Woken(s)
      BY <1>5, <2>1 DEF PatchCR
    <2> HIDE DEF r
    <2>5. /\ c.spec = lst.proto /\ c.gen = lst.gen + 1 /\ c.listenerGen = lst.gen + 1 /\ c.marked = crs[s].marked
          /\ c.deleted = crs[s].deleted /\ c.owned = crs[s].owned /\ c.paused = crs[s].paused
          /\ c.ready = crs[s].ready /\ (crs[s].finalizer => c.finalizer)
      BY <1>1, <2>3 DEF CR
    <2> HIDE DEF c
    <2>6. lst.gen \in Nat
      BY <2>1, <2>2
    <2>7. ~reconcileOnServer(c)
      BY <2>5, <2>6 DEF reconcileOnServer
    <2>8. DOMAIN crs' = {s} /\ crs'[s] = c
      BY <1>5, <2>1, <2>4, <2>5 DEF Patch, Stored, With
    <2>9. s \in queue'
      BY <1>5, <2>1, <2>4, <2>5, <2>8 DEF Woken
    <2>10. Live(c) <=> Live(crs[s])
      BY <2>5 DEF Live
    <2>a. s \in DOMAIN crs
      BY <1>5
    <2> HIDE DEF s
    <2> USE DEF InTouch, ServerSide, ControllerSide
    <2>11. OneCR' /\ GenOK' /\ ShownOK' /\ WorkOK'
      BY <1>2, <2>5, <2>6, <2>8 DEF OneCR, GenOK, ShownOK, WorkOK
    <2>12. MarkedOK'
      BY <1>2, <2>a, <2>5, <2>8 DEF MarkedOK
    <2>13. StepOK'
      BY <1>2, <2>a, <2>1, <2>5, <2>7, <2>8, <2>10 DEF StepOK
    <2>14. WithdrawnOK'
      BY <1>2, <1>1, <2>7, <2>8 DEF WithdrawnOK, Withdrawn
    <2>15. AbsentOK'
      BY <1>2, <1>3, <2>8 DEF AbsentOK, Withdrawn
    <2>16. CarriedOK'
      BY <1>2, <1>3, <2>5, <2>8 DEF CarriedOK
    <2>17. ToldOK'
      BY <1>2, <2>7, <2>8, <2>9 DEF ToldOK
    <2> QED BY <1>2, <2>11, <2>12, <2>13, <2>14, <2>15, <2>16, <2>17
  <1> QED BY <1>4, <1>5

\* A step of the listener.
LEMMA ListenInTouch == ASSUME IInv, InTouch, GoneOK, Listen PROVE InTouch'
  BY ReadNamesInTouch, RemoveStaleResourcesInTouch, SubscribeInTouch, IgnoreEventInTouch, FindInTouch,
     CreateCRInTouch, GetCRInTouch, PatchCRInTouch, MarkCRInTouch
  DEF Listen

-----------------------------------------------------------------------------
(***************************************************************************)
(* What users, clients and the cluster do to a settled synchronization.    *)
(***************************************************************************)

\* A change that hurries nobody comes when what it waits for has settled.
LEMMA CalmChange ==
    ASSUME IInv, Calm', NEW kind, NEW calm, ChangeIf(kind, calm)
    PROVE  calm /\ UNCHANGED ctl
  <1>1. hurry \in Nat
    BY ProtoAssumption DEF IInv, EnvOK
  <1>2. (IF calm THEN hurry ELSE hurry + 1) = 0
    BY DEF ChangeIf, Calm
  <1>3. UNCHANGED ctl
    BY DEF ChangeIf
  <1> QED BY <1>1, <1>2, <1>3

\* Where both processes rest nothing is marked, and what differs is held back
\* by a pause, by the cluster or by a removal nobody was told of.
LEMMA AtRest ==
    ASSUME IInv, InTouch, Resting
    PROVE  /\ queue = {} /\ ctl.pc = "idle" /\ stream = <<>> /\ ~Withdrawn
           /\ \A s \in DOMAIN crs :
                /\ ~crs[s].marked
                /\ Live(crs[s]) /\ (Connected \/ (server = NoProto /\ ~crs[s].owned)) =>
                     \/ crs[s].spec = server \/ Forgiven(crs[s])
                     \/ reconcileOnServer(crs[s]) /\ (crs[s].paused \/ cluster # "formed")
                /\ Live(crs[s]) /\ crs[s].ready = "Unknown" => crs[s].paused \/ cluster # "formed"
  <1>1. queue = {} /\ ctl.pc = "idle" /\ stream = <<>>
    BY IdleTypes DEF Resting
  <1> QED BY <1>1 DEF InTouch, ControllerSide, MarkedOK, CarriedOK, Coming, ToldOK, Withdrawn

\* When the listener rests too, no sweep is to find a missing schema.
LEMMA AtSettled ==
    ASSUME IInv, InTouch, Settled
    PROVE  /\ Resting /\ lst.pc \in {"idle", "stopped"} /\ (lst.pc = "stopped" <=> ~bidi)
           /\ (Connected <=> lst.pc = "idle")
           /\ \A s \in DOMAIN crs :
                Live(crs[s]) /\ server = NoProto /\ (crs[s].owned \/ ~reconcileOnServer(crs[s])) =>
                    Forgiven(crs[s])
  <1>1. Resting /\ lst.pc \in {"idle", "stopped"}
    BY DEF Settled
  <1>2. ~Withdrawn
    BY <1>1, AtRest
  <1> QED BY <1>1, <1>2 DEF InTouch, ServerSide, ControllerSide, LinkOK, AbsentOK, Sweeping, Connected

\* A user writes the one resource, and the controller is to carry it over
\* unless the listener was the last to write the text.
LEMMA UserWriteInTouch ==
    ASSUME IInv, InTouch, Settled, ByUser, UNCHANGED ctl,
           NEW s \in Slots, DOMAIN crs' = {s}, s \in queue',
           NEW c, crs'[s] = c, ~c.marked, c.listenerGen <= c.gen,
           Live(c) /\ server = NoProto /\ (c.owned \/ ~reconcileOnServer(c)) => Forgiven(c),
           Live(c) /\ ~reconcileOnServer(c) /\ (Connected \/ (server = NoProto /\ ~c.owned)) =>
               c.spec = server \/ Forgiven(c)
    PROVE  InTouch'
  <1>1. UNCHANGED <<server, cluster, bidi, stream, lst, unseen, ctl>>
    BY DEF ByUser
  <1>2. stream = <<>> /\ ctl.pc = "idle" /\ lst.pc \in {"idle", "stopped"}
    BY AtRest, AtSettled
  <1>3. LinkOK'
    BY <1>1 DEF InTouch, ServerSide, LinkOK, Connected
  <1>4. OneCR' /\ GenOK' /\ WorkOK' /\ ShownOK'
    BY <1>1, <1>2 DEF OneCR, GenOK, WorkOK, ShownOK
  <1>5. MarkedOK' /\ StepOK' /\ WithdrawnOK' /\ ToldOK'
    BY <1>1, <1>2 DEF MarkedOK, StepOK, WithdrawnOK, Withdrawn, ToldOK
  <1>6. AbsentOK' /\ CarriedOK'
    BY <1>1 DEF AbsentOK, CarriedOK, Coming, Forgiven, Connected
  <1> QED BY <1>3, <1>4, <1>5, <1>6 DEF InTouch, ServerSide, ControllerSide

\* A user creates the resource.
LEMMA UserCreatesInTouch == ASSUME IInv, InTouch, Calm', UserCreates PROVE InTouch'
  <1>0. ChangeIf("create", Settled) /\ ByUser /\ UserCR \in queue'
    BY DEF UserCreates, Change
  <1>1. DOMAIN crs = {}
    <2>1. queue = {}
      BY <1>0, CalmChange, AtSettled, AtRest
    <2>2. PICK list \in WebhookLists : ValidateCreate(list)
      BY DEF UserCreates
    <2> QED BY <2>1, <2>2 DEF WebhookLists, InformerLists, Behind, ValidateCreate
  <1>2. PICK p \in Protos : crs' = With(UserCR, NewCR(p, FALSE))
    BY DEF UserCreates
  <1> DEFINE c == NewCR(p, FALSE)
  <1>3. c.listenerGen = 0 /\ c.gen = 1 /\ ~c.marked /\ ~c.owned
    BY DEF NewCR
  <1>4. DOMAIN crs' = {UserCR} /\ crs'[UserCR] = c
    BY <1>1, <1>2 DEF With
  <1>5. Settled /\ UNCHANGED ctl
    BY <1>0, CalmChange
  <1> HIDE DEF c
  <1>6. reconcileOnServer(c) /\ c.listenerGen <= c.gen
    BY <1>3 DEF reconcileOnServer
  <1> QED BY <1>0, <1>1, <1>3, <1>4, <1>5, <1>6, UserSlot, UserWriteInTouch

\* A user edits the resource: the text is the user's again.
LEMMA UserEditsInTouch == ASSUME IInv, InTouch, Calm', NEW s \in Slots, UserEdits(s) PROVE InTouch'
  <1>1. /\ ChangeIf("edit", Settled) /\ ByUser /\ s \in queue'
        /\ s \in DOMAIN crs /\ crs[s].deleted = "no"
    BY DEF UserEdits, Change
  <1>2. PICK p \in Protos \ {crs[s].spec} : Patch(s, Respec(crs[s], p))
    BY DEF UserEdits
  <1>3. Settled /\ UNCHANGED ctl
    BY <1>1, CalmChange
  <1> DEFINE c == Respec(crs[s], p)
  <1>4. /\ crs[s] \in CR /\ \A t \in DOMAIN crs : t = s
        /\ crs[s].listenerGen <= crs[s].gen /\ ~crs[s].marked
    BY <1>1, <1>3, AtRest, AtSettled DEF IInv, CrsOK, InTouch, ServerSide, OneCR, GenOK
  <1>5. crs[s].gen \in Nat /\ crs[s].listenerGen \in Nat
    BY <1>4 DEF CR
  <1>6. c = [crs[s] EXCEPT !.spec = p, !.gen = crs[s].gen + 1]
    BY <1>2 DEF Respec
  <1>7. DOMAIN crs[s] = {"spec", "gen", "listenerGen", "marked", "finalizer", "deleted", "owned",
                         "paused", "pausedCond", "ready", "sync"}
    BY <1>4 DEF CR
  <1> HIDE DEF c
  <1>8. /\ c.gen = crs[s].gen + 1 /\ c.listenerGen = crs[s].listenerGen /\ c.marked = crs[s].marked
        /\ c.deleted = "no" /\ c.owned = crs[s].owned
    BY <1>1, <1>6, <1>7
  <1>9. reconcileOnServer(c) /\ c.listenerGen <= c.gen /\ ~c.marked
    BY <1>4, <1>5, <1>8 DEF reconcileOnServer
  <1>10. DOMAIN crs' = {s} /\ crs'[s] = c
    BY <1>1, <1>2, <1>4, <1>8 DEF Patch, Stored, With, c
  <1>11. Live(c) /\ server = NoProto /\ c.owned => Forgiven(c)
    BY <1>1, <1>3, <1>4, <1>8, AtSettled DEF Live, Forgiven
  <1> QED BY <1>1, <1>3, <1>9, <1>10, <1>11, UserWriteInTouch

\* A user pauses the resource, or ends the pause.
LEMMA UserPausesInTouch == ASSUME IInv, InTouch, Calm', NEW s \in Slots, UserPauses(s) PROVE InTouch'
  <1> DEFINE c == [crs[s] EXCEPT !.paused = ~@]
  <1>1. /\ ChangeIf("pause", Settled) /\ ByUser /\ s \in queue'
        /\ s \in DOMAIN crs /\ crs[s].deleted = "no" /\ Patch(s, c)
    BY DEF UserPauses, Change
  <1>2. Settled /\ UNCHANGED ctl
    BY <1>1, CalmChange
  <1>3. /\ crs[s] \in CR /\ \A t \in DOMAIN crs : t = s
        /\ crs[s].listenerGen <= crs[s].gen /\ ~crs[s].marked
    BY <1>1, <1>2, AtRest, AtSettled DEF IInv, CrsOK, InTouch, ServerSide, OneCR, GenOK
  <1>4. /\ c.spec = crs[s].spec /\ c.gen = crs[s].gen /\ c.listenerGen = crs[s].listenerGen
        /\ c.marked = crs[s].marked /\ c.deleted = crs[s].deleted /\ c.owned = crs[s].owned
    BY <1>3 DEF CR
  <1> HIDE DEF c
  <1>5. DOMAIN crs' = {s} /\ crs'[s] = c
    BY <1>1, <1>3, <1>4 DEF Patch, Stored, With
  <1>6. /\ reconcileOnServer(c) <=> reconcileOnServer(crs[s])
        /\ Live(c) <=> Live(crs[s])
        /\ Forgiven(c) <=> Forgiven(crs[s])
    BY <1>3, <1>4 DEF reconcileOnServer, Live, Forgiven
  <1>7. Live(c) /\ server = NoProto /\ (c.owned \/ ~reconcileOnServer(c)) => Forgiven(c)
    BY <1>1, <1>2, <1>4, <1>6, AtSettled
  <1>8. Live(c) /\ ~reconcileOnServer(c) /\ (Connected \/ (server = NoProto /\ ~c.owned)) =>
           c.spec = server \/ Forgiven(c)
    BY <1>1, <1>2, <1>4, <1>6, AtRest, AtSettled
  <1> QED BY <1>1, <1>2, <1>3, <1>4, <1>5, <1>7, <1>8, UserWriteInTouch

\* A user asks for the deletion of the resource, which waits for the finalizer.
LEMMA UserDeletesInTouch == ASSUME IInv, InTouch, Calm', NEW s \in Slots, UserDeletes(s) PROVE InTouch'
  <1> DEFINE c == [crs[s] EXCEPT !.deleted = "user", !.gen = @ + 1]
  <1>1. /\ ChangeIf("delete", Settled /\ crs[s].finalizer) /\ ByUser /\ s \in queue'
        /\ s \in DOMAIN crs /\ Patch(s, c)
    BY DEF UserDeletes
  <1>2. Settled /\ crs[s].finalizer /\ UNCHANGED ctl
    BY <1>1, CalmChange
  <1>3. /\ crs[s] \in CR /\ \A t \in DOMAIN crs : t = s
        /\ crs[s].listenerGen <= crs[s].gen /\ ~crs[s].marked
    BY <1>1, <1>2, AtRest, AtSettled DEF IInv, CrsOK, InTouch, ServerSide, OneCR, GenOK
  <1>4. /\ crs[s].gen \in Nat /\ crs[s].listenerGen \in Nat
        /\ DOMAIN crs[s] = {"spec", "gen", "listenerGen", "marked", "finalizer", "deleted", "owned",
                            "paused", "pausedCond", "ready", "sync"}
    BY <1>3 DEF CR
  <1>5. c = [crs[s] EXCEPT !.deleted = "user", !.gen = crs[s].gen + 1]
    OBVIOUS
  <1> HIDE DEF c
  <1>6. /\ c.gen = crs[s].gen + 1 /\ c.listenerGen = crs[s].listenerGen /\ c.marked = crs[s].marked
        /\ c.deleted = "user" /\ c.finalizer = crs[s].finalizer
    BY <1>4, <1>5
  <1>7. DOMAIN crs' = {s} /\ crs'[s] = c
    BY <1>1, <1>2, <1>3, <1>6 DEF Patch, Stored, With
  <1>8. c.listenerGen <= c.gen /\ ~c.marked /\ ~Live(c)
    BY <1>3, <1>4, <1>6 DEF Live
  <1> QED BY <1>1, <1>2, <1>7, <1>8, UserWriteInTouch

\* Something queues resources, or the cluster forms or stops and queues all.
LEMMA QueuesInTouch ==
    ASSUME IInv, InTouch, Settled, UNCHANGED <<crs, server, ctl, stream, lst, bidi, unseen>>,
           queue \subseteq queue', UNCHANGED cluster \/ DOMAIN crs \subseteq queue'
    PROVE  InTouch'
  <1>1. stream = <<>> /\ ctl.pc = "idle" /\ lst.pc \in {"idle", "stopped"} /\ \A s \in DOMAIN crs : ~crs[s].marked
    BY AtRest, AtSettled
  <1>2. LinkOK' /\ OneCR' /\ GenOK' /\ WorkOK' /\ ShownOK'
    BY <1>1 DEF InTouch, ServerSide, LinkOK, OneCR, GenOK, WorkOK, ShownOK, Connected
  <1>3. MarkedOK' /\ StepOK' /\ WithdrawnOK'
    BY <1>1 DEF MarkedOK, StepOK, WithdrawnOK, Withdrawn
  <1>4. AbsentOK'
    BY AtSettled DEF AbsentOK, Forgiven
  <1>5. CarriedOK'
    BY AtSettled, AtRest DEF CarriedOK, Coming, Forgiven, Connected
  <1>6. ToldOK'
    BY <1>1, AtSettled, AtRest DEF ToldOK
  <1> QED BY <1>2, <1>3, <1>4, <1>5, <1>6 DEF InTouch, ServerSide, ControllerSide

\* A reference comes or goes; the cluster stops or forms.
LEMMA QueueingInTouch ==
    ASSUME IInv, InTouch, Calm', ClusterChanges \/ \E s \in Slots : ReferenceChanges(s)
    PROVE  InTouch'
  <1>1. CASE ClusterChanges
    <2>1. ChangeIf("cluster", Settled)
      BY <1>1 DEF ClusterChanges, Change
    <2>2. Settled /\ UNCHANGED ctl
      BY <2>1, CalmChange
    <2> QED BY <1>1, <2>2, QueuesInTouch DEF ClusterChanges
  <1>2. CASE \E s \in Slots : ReferenceChanges(s)
    <2>1. PICK s \in Slots : ReferenceChanges(s)
      BY <1>2
    <2>2. ChangeIf("ref", Settled) /\ ByUser /\ UNCHANGED crs /\ queue \subseteq queue'
      BY <2>1 DEF ReferenceChanges, Change
    <2>3. Settled /\ UNCHANGED ctl
      BY <2>2, CalmChange
    <2> QED BY <2>2, <2>3, QueuesInTouch DEF ByUser
  <1> QED BY <1>1, <1>2

\* A client sets the schema: the listener is told, or nobody listens.
LEMMA ClientSetsInTouch == ASSUME IInv, InTouch, Calm', ClientSets PROVE InTouch'
  <1>1. ChangeIf("set", Settled) /\ UNCHANGED <<crs, queue, cluster, bidi, refs, lst, guarded>>
    BY DEF ClientSets, Change
  <1>2. Settled /\ UNCHANGED ctl
    BY <1>1, CalmChange
  <1>3. PICK p \in Protos : server' = p /\ Emit("set", p)
    BY DEF ClientSets
  <1>4. /\ stream = <<>> /\ ctl.pc = "idle" /\ ~Withdrawn /\ lst.pc \in {"idle", "stopped"}
        /\ \A s \in DOMAIN crs : ~crs[s].marked
    BY <1>2, AtRest, AtSettled
  <1>5. /\ LinkOK'
        /\ Connected => stream' # <<>>
    BY <1>1, <1>3, <1>4, Announced, StreamGrows DEF IInv, InTouch, ServerSide
  <1>6. server' # NoProto /\ (Connected' <=> Connected)
    BY <1>1, <1>3, Announced DEF Connected
  <1>7. OneCR' /\ GenOK' /\ WorkOK' /\ ShownOK'
    BY <1>1, <1>4, <1>5, <1>6 DEF InTouch, ServerSide, OneCR, GenOK, WorkOK, ShownOK
  <1>8. MarkedOK' /\ StepOK' /\ WithdrawnOK' /\ AbsentOK' /\ CarriedOK'
    BY <1>1, <1>2, <1>4, <1>5, <1>6 DEF MarkedOK, StepOK, WithdrawnOK, Withdrawn, AbsentOK, CarriedOK
  <1>9. ToldOK'
    BY <1>1, <1>2, <1>4 DEF InTouch, ControllerSide, ToldOK
  <1> QED BY <1>5, <1>7, <1>8, <1>9 DEF InTouch, ServerSide, ControllerSide

\* A client removes the schema: the listener is told, or its sweep will find
\* out what it owns.
LEMMA ClientRemovesInTouch == ASSUME IInv, InTouch, Calm', ClientRemoves PROVE InTouch'
  <1>1. /\ ChangeIf("remove", Resting /\ lst.pc \in {"idle", "sweep", "stopped"})
        /\ server # NoProto /\ server' = NoProto /\ Emit("remove", NoProto)
        /\ UNCHANGED <<crs, queue, cluster, bidi, refs, lst, guarded>>
    BY DEF ClientRemoves
  <1>2. Resting /\ lst.pc \in {"idle", "sweep", "stopped"} /\ UNCHANGED ctl
    BY <1>1, CalmChange
  <1>3. /\ stream = <<>> /\ queue = {} /\ ctl.pc = "idle" /\ ~Withdrawn
        /\ \A s \in DOMAIN crs : ~crs[s].marked
    BY <1>2, AtRest
  <1>4. /\ LinkOK'
        /\ Connected => stream' # <<>>
        /\ ~Connected => stream' = <<>>
    BY <1>1, <1>3, Announced, StreamGrows DEF IInv, InTouch, ServerSide
  <1>5. lst.pc = "idle" \/ (lst.pc = "sweep" /\ unseen' = "swept")
    BY <1>1, <1>2 DEF Emit, Connected, Calm
  <1>6. OneCR' /\ GenOK' /\ WorkOK' /\ ShownOK'
    BY <1>1, <1>2, <1>3 DEF InTouch, ServerSide, OneCR, GenOK, WorkOK, ShownOK
  <1>7. MarkedOK' /\ StepOK' /\ WithdrawnOK'
    BY <1>1, <1>2, <1>3 DEF MarkedOK, StepOK, WithdrawnOK
  <1>8. AbsentOK' /\ CarriedOK'
    <2>1. CASE lst.pc = "idle"
      <3>1. stream' # <<>>
        BY <1>4, <2>1 DEF Connected
      <3> QED BY <1>1, <3>1 DEF AbsentOK, Withdrawn, CarriedOK
    <2>2. CASE lst.pc = "sweep" /\ unseen' = "swept"
      <3>1. ~Connected' /\ Sweeping'
        BY <1>1, <1>2, <1>3, <2>2 DEF Connected, Sweeping
      <3> QED BY <1>1, <2>2, <3>1 DEF AbsentOK, CarriedOK, Forgiven
    <2> QED BY <1>5, <2>1, <2>2
  <1>9. ToldOK'
    BY <1>1, <1>2, <1>3 DEF InTouch, ControllerSide, ToldOK
  <1> QED BY <1>4, <1>6, <1>7, <1>8, <1>9 DEF InTouch, ServerSide, ControllerSide

\* The listener comes or goes while it has nothing to handle.
LEMMA ListenerToggledInTouch == ASSUME IInv, InTouch, Calm', ListenerToggled PROVE InTouch'
  <1>1. /\ ChangeIf("bidi", Settled) /\ bidi' = ~bidi /\ stream' = <<>>
        /\ lst' = [LstIdle EXCEPT !.pc = IF bidi THEN "stopped" ELSE "sweep"]
        /\ unseen' = (IF RemovalPending THEN "lost" ELSE unseen)
        /\ queue' = queue \cup DOMAIN crs /\ UNCHANGED <<crs, server, cluster, refs, guarded>>
    BY DEF ListenerToggled, Change
  <1>2. Settled /\ UNCHANGED ctl
    BY <1>1, CalmChange
  <1>3. unseen' = unseen
    BY <1>1 DEF Calm
  <1>4. lst'.pc = (IF bidi THEN "stopped" ELSE "sweep") /\ bidi \in BOOLEAN
    BY <1>1 DEF LstIdle, IInv, EnvOK
  <1>5. ~Connected' /\ (lst'.pc = "stopped" <=> ~bidi')
    <2>1. bidi' <=> ~bidi
      BY <1>1
    <2> QED BY <1>4, <2>1 DEF Connected
  <1>6. ctl.pc = "idle" /\ stream = <<>> /\ \A s \in DOMAIN crs : ~crs[s].marked
    BY <1>2, AtRest, AtSettled
  <1>7. LinkOK' /\ OneCR' /\ GenOK' /\ WorkOK' /\ ShownOK'
    BY <1>1, <1>4, <1>5 DEF InTouch, ServerSide, LinkOK, OneCR, GenOK, WorkOK, ShownOK
  <1>8. MarkedOK' /\ StepOK' /\ WithdrawnOK'
    BY <1>1, <1>2, <1>6 DEF MarkedOK, StepOK, WithdrawnOK, Withdrawn
  <1>9. AbsentOK'
    BY <1>1, <1>2, <1>3, AtSettled DEF AbsentOK, Forgiven
  <1>10. CarriedOK'
    <2> SUFFICES ASSUME NEW s, s \in DOMAIN crs, Live(crs[s]), server = NoProto, ~crs[s].owned
                 PROVE  Coming(s)' \/ Forgiven(crs[s])'
      BY <1>1, <1>5 DEF CarriedOK
    <2>1. crs[s].spec # NoProto
      BY Announced DEF IInv, CrsOK, CR
    <2>2. Coming(s) \/ Forgiven(crs[s])
      BY <1>6, <2>1 DEF InTouch, ControllerSide, CarriedOK
    <2> QED BY <1>1, <1>3, <2>2 DEF Coming, Forgiven
  <1>11. ToldOK'
    BY <1>1, <1>2, <1>6 DEF ToldOK
  <1> QED BY <1>7, <1>8, <1>9, <1>10, <1>11 DEF InTouch, ServerSide, ControllerSide

\* A step of users, clients, caches or the cluster.
LEMMA EnvironmentInTouch == ASSUME IInv, InTouch, Calm', Environment PROVE InTouch'
  <1>1. ~ClusterDeleted
    BY DEF ClusterDeleted, Calm
  <1> QED BY <1>1, UserCreatesInTouch, ClientSetsInTouch, ClientRemovesInTouch, QueueingInTouch,
             ListenerToggledInTouch, UserEditsInTouch, UserDeletesInTouch, UserPausesInTouch
          DEF Environment

-----------------------------------------------------------------------------
(***************************************************************************)
(* What faults leave.                                                      *)
(***************************************************************************)

\* What the restarted operator had not finished is queued.
LEMMA OperatorCrashInTouch == ASSUME IInv, InTouch, OperatorCrash PROVE InTouch'
  <1>1. /\ ctl.pc # "idle" /\ ctl' = CtlIdle /\ queue' = DOMAIN crs
        /\ UNCHANGED <<crs, server, stream, lst, unseen, cluster, bidi>>
    BY DEF OperatorCrash, Fault
  <1>2. StatusOnly /\ Frame
    BY <1>1 DEF StatusOnly, Same, Frame
  <1>3. ServerSide' /\ ControllerSide'
    BY <1>1, <1>2, StatusServerSide, EndsControllerSide
  <1> QED BY <1>3 DEF InTouch

\* A failed call ends the reconciliation, and what it did not do is queued.
LEMMA CallFailsInTouch == ASSUME IInv, InTouch, CallFails PROVE InTouch'
  <1>1. Frame
    BY DEF CallFails, Fault, Frame
  <1>2. CASE ctl.pc = "erase" /\ ctl' = CtlIdle /\ queue' = queue \cup {ctl.s} /\ UNCHANGED crs
    <2>1. StatusOnly
      BY <1>2 DEF StatusOnly, Same
    <2>2. \A t \in DOMAIN crs' : crs[t].marked => t \in queue'
      BY <1>2 DEF InTouch, ControllerSide, MarkedOK
    <2>3. ServerSide' /\ ControllerSide'
      BY <1>1, <1>2, <2>1, <2>2, StatusServerSide, EndsControllerSide
    <2> QED BY <2>3 DEF InTouch
  <1>3. CASE ctl.pc = "put" /\ EndUpdating([ready |-> "CallFailed"], TRUE)
    <2> DEFINE new == [ready |-> "CallFailed"]
    <2>1. EndUpdating(new, TRUE)
      BY <1>3
    <2>2. /\ DOMAIN new \subseteq StatusFields /\ new.ready \in Readiness
          /\ "finalizer" \notin DOMAIN new /\ "sync" \notin DOMAIN new
      BY DEF StatusFields, Readiness
    <2> HIDE DEF new
    <2> QED BY <1>1, <1>3, <2>1, <2>2, UpdatesInTouch
  <1>4. CASE ctl.pc = "status" /\ EndUpdating([ready |-> "CallFailed", finalizer |-> TRUE], FALSE)
    <2> DEFINE new == [ready |-> "CallFailed", finalizer |-> TRUE]
    <2>1. EndUpdating(new, FALSE)
      BY <1>4
    <2>2. /\ DOMAIN new \subseteq StatusFields /\ new.ready \in Readiness /\ new.finalizer = TRUE
          /\ "sync" \notin DOMAIN new /\ "ready" \in DOMAIN new /\ new.ready # "Unknown"
      BY DEF StatusFields, Readiness
    <2> HIDE DEF new
    <2> QED BY <1>1, <1>4, <2>1, <2>2, UpdatesInTouch
  <1> QED BY <1>2, <1>3, <1>4 DEF CallFails

\* The restarted listener sweeps: it finds out what it owns, and a removal it
\* had not handled of what it does not own counts as unseen.
LEMMA ListenerCrashInTouch == ASSUME IInv, InTouch, Calm', ListenerCrash PROVE InTouch'
  <1>1. /\ Connected /\ lst' = [LstIdle EXCEPT !.pc = "sweep"] /\ stream' = <<>>
        /\ unseen' = (IF RemovalPending /\ unseen = "no" THEN "swept" ELSE unseen)
        /\ UNCHANGED <<crs, server, queue, ctl, cluster, bidi>>
    BY DEF ListenerCrash, Fault
  <1>2. queue = {} /\ ctl.pc = "idle"
    <2>1. hurry \in Nat
      BY ProtoAssumption DEF IInv, EnvOK
    <2>2. (IF queue = {} /\ ctl = CtlIdle THEN hurry ELSE hurry + 1) = 0
      BY DEF ListenerCrash, Calm
    <2> QED BY <2>1, <2>2, IdleTypes
  <1>3. lst'.pc = "sweep" /\ ~Connected' /\ Sweeping' /\ bidi
    BY <1>1, <1>2 DEF LstIdle, Connected, Sweeping, InTouch, ServerSide, LinkOK
  <1>4. unseen = "swept" \/ Withdrawn => unseen' = "swept"
    <2>1. unseen \in {"no", "swept", "lost"}
      BY DEF IInv, EnvOK
    <2>2. unseen # "lost"
      BY <1>1 DEF Calm
    <2>3. Withdrawn => RemovalPending
      BY WithdrawnPending DEF IInv, InTouch, ServerSide
    <2> QED BY <1>1, <2>1, <2>2, <2>3
  <1>5. LinkOK' /\ OneCR' /\ GenOK' /\ WorkOK' /\ ShownOK'
    BY <1>1, <1>3 DEF InTouch, ServerSide, LinkOK, OneCR, GenOK, WorkOK, ShownOK
  <1> USE DEF InTouch, ServerSide, ControllerSide
  <1>6. MarkedOK' /\ StepOK' /\ WithdrawnOK' /\ ToldOK'
    BY <1>1, <1>2 DEF MarkedOK, StepOK, WithdrawnOK, Withdrawn, ToldOK
  <1>7. AbsentOK'
    BY <1>1, <1>3, <1>4 DEF AbsentOK, Forgiven
  <1>8. CarriedOK'
    <2> SUFFICES ASSUME NEW s, s \in DOMAIN crs, Live(crs[s]), server = NoProto, ~crs[s].owned
                 PROVE  Coming(s)' \/ Forgiven(crs[s])'
      BY <1>1, <1>3 DEF CarriedOK
    <2>1. CASE stream # <<>>
      BY <1>1, <1>4, <2>1 DEF Withdrawn, Forgiven
    <2>2. CASE stream = <<>>
      <3>1. crs[s].spec # NoProto
        BY Announced DEF IInv, CrsOK, CR
      <3>2. Coming(s) \/ Forgiven(crs[s])
        BY <2>2, <3>1 DEF CarriedOK
      <3> QED BY <1>1, <1>4, <3>2 DEF Coming, Forgiven
    <2> QED BY <2>1, <2>2
  <1> QED BY <1>5, <1>6, <1>7, <1>8

\* The connection is lost with events that were no removal; the next
\* connection begins with what the server has.
LEMMA StreamBreaksInTouch == ASSUME IInv, InTouch, Calm', StreamBreaks PROVE InTouch'
  <1>1. /\ lst.pc = "idle" /\ lst' = [LstIdle EXCEPT !.pc = "subscribe"] /\ stream' = <<>>
        /\ unseen' = (IF RemovalPending THEN "lost" ELSE unseen)
        /\ UNCHANGED <<crs, server, queue, ctl, cluster, bidi>>
    BY DEF StreamBreaks, Fault
  <1>2. unseen' = unseen /\ ~Withdrawn
    BY <1>1, WithdrawnPending DEF Calm, IInv, InTouch, ServerSide
  <1>3. lst'.pc = "subscribe" /\ ~Connected' /\ bidi /\ ~Sweeping
    BY <1>1 DEF LstIdle, Connected, Sweeping, InTouch, ServerSide, LinkOK
  <1>4. LinkOK' /\ OneCR' /\ GenOK' /\ WorkOK' /\ ShownOK'
    BY <1>1, <1>3 DEF InTouch, ServerSide, LinkOK, OneCR, GenOK, WorkOK, ShownOK
  <1> USE DEF InTouch, ServerSide, ControllerSide
  <1>5. MarkedOK' /\ StepOK' /\ WithdrawnOK' /\ ToldOK'
    BY <1>1 DEF MarkedOK, StepOK, WithdrawnOK, Withdrawn, ToldOK
  <1>6. AbsentOK'
    BY <1>1, <1>2, <1>3 DEF AbsentOK, Forgiven
  <1>7. CarriedOK'
    BY <1>1, <1>2, <1>3 DEF CarriedOK, Withdrawn, Coming, Forgiven
  <1> QED BY <1>4, <1>5, <1>6, <1>7

-----------------------------------------------------------------------------
\* The two processes start in touch.
LEMMA InitInTouch == ASSUME Init PROVE InTouch
  <1>1. /\ server = NoProto /\ queue = DOMAIN crs /\ ctl.pc = "idle" /\ stream = <<>>
        /\ lst.pc = (IF bidi THEN "idle" ELSE "stopped") /\ bidi \in BOOLEAN
    BY DEF Init, CtlIdle, LstIdle
  <1>2. \A s \in DOMAIN crs :
           s = UserCR /\ crs[s].listenerGen = 0 /\ crs[s].gen = 1 /\ ~crs[s].marked /\ ~crs[s].owned
    <2>1. CASE crs \in [{} -> CR]
      BY <2>1
    <2>2. CASE crs \in [{UserCR} -> {NewCR(p, FALSE) : p \in Protos}]
      <3>1. PICK p \in Protos : DOMAIN crs = {UserCR} /\ crs[UserCR] = NewCR(p, FALSE)
        BY <2>2
      <3> QED BY <3>1 DEF NewCR
    <2> QED BY <2>1, <2>2 DEF Init
  <1>3. LinkOK /\ OneCR /\ GenOK /\ WorkOK /\ ShownOK
    BY <1>1, <1>2 DEF LinkOK, OneCR, GenOK, WorkOK, ShownOK, Connected
  <1>4. MarkedOK /\ StepOK /\ WithdrawnOK /\ ToldOK
    BY <1>1, <1>2 DEF MarkedOK, StepOK, WithdrawnOK, Withdrawn, ToldOK
  <1>5. AbsentOK /\ CarriedOK
    BY <1>1, <1>2 DEF AbsentOK, CarriedOK, Coming, reconcileOnServer
  <1> QED BY <1>3, <1>4, <1>5 DEF InTouch, ServerSide, ControllerSide

\* What ends the calm ends it for good.
LEMMA CalmBefore == ASSUME IInv, [Next]_vars, Calm' PROVE Calm
  <1>1. hurry \in Nat
    BY ProtoAssumption DEF IInv, EnvOK
  <1>2. CASE UNCHANGED vars
    BY <1>2 DEF vars, Calm
  <1>3. ASSUME NEW kind, NEW p, Emit(kind, p) PROVE unseen = "lost" => unseen' = "lost"
    BY <1>3 DEF Emit
  <1>4. ASSUME NEW kind, NEW calm, ChangeIf(kind, calm) PROVE hurry = 0
    <2>1. (IF calm THEN hurry ELSE hurry + 1) = 0
      BY <1>4 DEF ChangeIf, Calm
    <2> QED BY <1>1, <2>1
  <1>5. CASE Reconcile
    <2>1. UNCHANGED env
      BY <1>5 DEF Reconcile, NotFound, RemoveMarked, Pause, ClusterMissing, ClusterNotFormed, Start,
                  DeleteMarked, AnnounceOneWay, FindReferencingCaches, DeleteOnServer, RemoveFinalizer,
                  Put, CheckStatus, Finish, Quiet
    <2>2. unseen = "lost" => unseen' = "lost"
      BY <1>3, <1>5 DEF Reconcile, NotFound, RemoveMarked, Pause, ClusterMissing, ClusterNotFormed, Start,
                  DeleteMarked, AnnounceOneWay, FindReferencingCaches, DeleteOnServer, RemoveFinalizer,
                  Put, CheckStatus, Finish, Quiet
    <2> QED BY <2>1, <2>2 DEF env, Calm
  <1>6. CASE Listen
    <2>1. Listener
      BY <1>6 DEF Listen, ReadNames, RemoveStaleResources, Subscribe, IgnoreEvent, FindForSet, CreateCR,
                  GetCR, PatchCR, FindForRemove, MarkCR
    <2> QED BY <2>1 DEF Listener, env, Calm
  <1>7. CASE Environment
    <2>1. hurry = 0
      BY <1>4, <1>7 DEF Environment, UserCreates, ClientSets, ClientRemoves, ClusterChanges, ListenerToggled,
                        ClusterDeleted, UserEdits, UserDeletes, UserPauses, ReferenceChanges, Change
    <2>2. unseen = "lost" => unseen' = "lost"
      BY <1>3, <1>7 DEF Environment, UserCreates, ClientSets, ClientRemoves, ClusterChanges, ListenerToggled,
                        ClusterDeleted, UserEdits, UserDeletes, UserPauses, ReferenceChanges, ByUser
    <2>3. cluster # "gone"
      BY <1>7 DEF Environment, UserCreates, ClientSets, ClientRemoves, ClusterChanges, ListenerToggled,
                  ClusterDeleted, UserEdits, UserDeletes, UserPauses, ReferenceChanges, ByUser, Calm
    <2> QED BY <2>1, <2>2, <2>3 DEF Calm
  <1>8. CASE OperatorCrash \/ CallFails \/ ListenerCrash \/ StreamBreaks
    <2>1. UNCHANGED cluster /\ (unseen = "lost" => unseen' = "lost")
      BY <1>8 DEF OperatorCrash, CallFails, ListenerCrash, StreamBreaks, Fault
    <2>2. hurry' = hurry \/ hurry' = hurry + 1
      BY <1>8 DEF OperatorCrash, CallFails, ListenerCrash, StreamBreaks
    <2> QED BY <1>1, <2>1, <2>2 DEF Calm
  <1> QED BY <1>2, <1>5, <1>6, <1>7, <1>8 DEF Next

\* The two processes stay in touch as long as nobody hurries them.
LEMMA NextInTouch == ASSUME IInv, InTouch, GoneOK, Calm, Calm', [Next]_vars PROVE InTouch'
  <1>1. CASE UNCHANGED vars
    <2>1. UNCHANGED <<crs, queue, ctl, server, stream, lst, bidi, cluster, unseen>>
      BY <1>1 DEF vars
    <2> QED BY <2>1 DEF InTouch, ServerSide, ControllerSide, LinkOK, OneCR, GenOK, WorkOK, ShownOK, MarkedOK,
                        StepOK, WithdrawnOK, AbsentOK, CarriedOK, ToldOK, Withdrawn, Forgiven, Sweeping,
                        Coming, Connected
  <1>2. CASE Next
    BY <1>2, ReconcileInTouch, ListenInTouch, EnvironmentInTouch, OperatorCrashInTouch, CallFailsInTouch,
       ListenerCrashInTouch, StreamBreaksInTouch
    DEF Next, Calm
  <1> QED BY <1>1, <1>2

-----------------------------------------------------------------------------
\* What ends a reconciliation without touching the finalizer keeps the
\* resource.
LEMMA EndUpdatingKeeps ==
    ASSUME IInv, NEW new, NEW r, EndUpdating(new, r), "deleted" \notin DOMAIN new,
           "finalizer" \in DOMAIN new => new.finalizer
    PROVE  DOMAIN crs' = DOMAIN crs
  <1>1. CASE ctl.s \in DOMAIN crs
    <2> DEFINE c == Updated(crs[ctl.s], new)
    <2>1. crs[ctl.s] \in CR /\ (crs[ctl.s].deleted # "no" => crs[ctl.s].finalizer)
      BY <1>1 DEF IInv, CrsOK
    <2>2. "deleted" \in DOMAIN crs[ctl.s] /\ "finalizer" \in DOMAIN crs[ctl.s]
      BY <2>1 DEF CR
    <2>3. c.deleted = crs[ctl.s].deleted /\ (c.finalizer \/ c.finalizer = crs[ctl.s].finalizer)
      BY <2>2 DEF Updated
    <2>4. Patch(ctl.s, c)
      BY <1>1 DEF EndUpdating, EndWith
    <2> HIDE DEF c
    <2> QED BY <1>1, <2>1, <2>3, <2>4, PatchAdds
  <1>2. CASE ctl.s \notin DOMAIN crs
    BY <1>2 DEF EndUpdating
  <1> QED BY <1>1, <1>2

\* A reconciliation takes the last resource only with its schema.
LEMMA ReconcileKeeps ==
    ASSUME IInv, InTouch, Calm, Reconcile, server' # NoProto
    PROVE  DOMAIN crs' = DOMAIN crs
  <1>1. \A s \in DOMAIN crs : /\ crs[s] \in CR
                              /\ crs[s].deleted # "no" => crs[s].finalizer
                              /\ crs[s].marked => server = NoProto
    BY DEF IInv, CrsOK, InTouch, ControllerSide, MarkedOK
  <1>2. CASE UNCHANGED crs
    BY <1>2
  <1>3. CASE \E s \in Slots : \/ NotFound(s) \/ RemoveMarked(s) \/ Pause(s) \/ ClusterMissing(s)
                              \/ ClusterNotFormed(s) \/ Start(s)
    <2>1. PICK s \in Slots : \/ NotFound(s) \/ RemoveMarked(s) \/ Pause(s) \/ ClusterMissing(s)
                             \/ ClusterNotFormed(s) \/ Start(s)
      BY <1>3
    <2>2. ~RemoveMarked(s) /\ ~ClusterMissing(s)
      BY <1>1 DEF RemoveMarked, ClusterMissing, Calm, Quiet
    <2>3. CASE Pause(s)
      <3> DEFINE c == [crs[s] EXCEPT !.pausedCond = crs[s].paused]
      <3>1. s \in DOMAIN crs /\ crs[s].deleted = "no" /\ Patch(s, c)
        BY <2>3 DEF Pause, EndWith, Taken
      <3>2. c.deleted = "no"
        BY <1>1, <3>1 DEF CR
      <3> HIDE DEF c
      <3> QED BY <3>1, <3>2, PatchAdds
    <2>4. CASE ClusterNotFormed(s)
      <3>1. s \in DOMAIN crs /\ Patch(s, crs[s])
        BY <2>4 DEF ClusterNotFormed, EndWith, Begun
      <3>2. crs[s].deleted = "no" \/ crs[s].finalizer
        BY <1>1, <3>1
      <3> QED BY <3>1, <3>2, PatchAdds
    <2> QED BY <1>2, <2>1, <2>2, <2>3, <2>4 DEF NotFound, Start
  <1>4. ~(RemoveFinalizer \/ (DeleteMarked /\ ctl.s \in DOMAIN crs))
    <2>1. StepOK
      BY DEF InTouch, ControllerSide
    <2>2. ~RemoveFinalizer
      BY <2>1 DEF RemoveFinalizer, StepOK, Quiet
    <2>3. ASSUME DeleteMarked, ctl.s \in DOMAIN crs PROVE FALSE
      <3>1. crs[ctl.s].marked
        BY <2>1, <2>3 DEF DeleteMarked, StepOK
      <3> QED BY <1>1, <2>3, <3>1 DEF DeleteMarked, Quiet
    <2> QED BY <2>2, <2>3
  <1>5. CASE AnnounceOneWay
    <2>1. CASE ctl.s \in DOMAIN crs
      <3> DEFINE c == [crs[ctl.s] EXCEPT !.sync = "False"]
      <3>1. Patch(ctl.s, c)
        BY <1>5, <2>1 DEF AnnounceOneWay
      <3>2. c.deleted = crs[ctl.s].deleted /\ c.finalizer = crs[ctl.s].finalizer
        BY <1>1, <2>1 DEF CR
      <3>3. c.deleted = "no" \/ c.finalizer
        BY <1>1, <2>1, <3>2
      <3> HIDE DEF c
      <3> QED BY <2>1, <3>1, <3>3, PatchAdds
    <2> QED BY <1>2, <1>5, <2>1 DEF AnnounceOneWay
  <1>6. CASE FindReferencingCaches \/ Put \/ CheckStatus \/ Finish
    <2>1. CASE FindReferencingCaches
      <3>1. CASE EndUpdating([ready |-> "Referenced"], FALSE)
        BY <3>1, EndUpdatingKeeps
      <3> QED BY <1>2, <2>1, <3>1 DEF FindReferencingCaches, Goto
    <2>2. CASE Put
      <3>1. CASE EndUpdating([ready |-> "Invalid"], FALSE)
        BY <3>1, EndUpdatingKeeps
      <3> QED BY <1>2, <2>2, <3>1 DEF Put, Goto
    <2>3. CASE CheckStatus
      <3>1. CASE EndUpdating([ready |-> "Invalid", finalizer |-> TRUE], FALSE)
        BY <3>1, EndUpdatingKeeps
      <3> QED BY <1>2, <2>3, <3>1 DEF CheckStatus, Goto
    <2>4. CASE Finish
      <3>1. CASE EndUpdating([ready |-> "True", finalizer |-> TRUE, sync |-> "True"], FALSE)
        BY <3>1, EndUpdatingKeeps
      <3>2. CASE EndUpdating([ready |-> "True", finalizer |-> TRUE], FALSE)
        BY <3>2, EndUpdatingKeeps
      <3> QED BY <2>4, <3>1, <3>2 DEF Finish
    <2> QED BY <1>6, <2>1, <2>2, <2>3, <2>4
  <1> QED
    BY <1>2, <1>3, <1>4, <1>5, <1>6 DEF Reconcile, DeleteMarked, DeleteOnServer, Goto

\* The controller leaves no schema behind the resource it lets go.
LEMMA ReconcileGone == ASSUME IInv, InTouch, GoneOK, Calm, Reconcile PROVE GoneOK'
  <1> SUFFICES ASSUME server' # NoProto, DOMAIN crs' = {} PROVE FALSE
    BY DEF GoneOK
  <1>1. DOMAIN crs = {}
    BY ReconcileKeeps
  <1>2. CASE server = NoProto
    <2>1. Put
      BY <1>2 DEF Reconcile, NotFound, RemoveMarked, Pause, ClusterMissing, ClusterNotFormed, Start,
                  DeleteMarked, AnnounceOneWay, FindReferencingCaches, DeleteOnServer, RemoveFinalizer,
                  CheckStatus, Finish, Quiet
    <2> QED BY <1>1, <2>1 DEF Put, InTouch, ControllerSide, StepOK
  <1>3. CASE server # NoProto
    <2>1. queue = {} /\ ctl.pc = "idle"
      BY <1>1, <1>3 DEF GoneOK
    <2> QED
      BY <2>1 DEF Reconcile, NotFound, RemoveMarked, Pause, ClusterMissing, ClusterNotFormed, Start, Begun,
                  Taken, DeleteMarked, AnnounceOneWay, FindReferencingCaches, DeleteOnServer,
                  RemoveFinalizer, Put, CheckStatus, Finish
  <1> QED BY <1>2, <1>3

\* The listener takes no resource away, and queues what it writes.
LEMMA ListenGone == ASSUME IInv, GoneOK, Listen PROVE GoneOK'
  <1>1. UNCHANGED <<server, ctl>>
    BY DEF Listen, ReadNames, RemoveStaleResources, Subscribe, IgnoreEvent, FindForSet, CreateCR, GetCR,
           PatchCR, FindForRemove, MarkCR, Listener
  <1>2. CASE UNCHANGED <<crs, queue>>
    BY <1>1, <1>2 DEF GoneOK
  <1>3. CASE RemoveStaleResources
    <2>1. DOMAIN crs' = DOMAIN crs /\ (DOMAIN crs = {} => queue' = queue)
      BY <1>3 DEF RemoveStaleResources
    <2> QED BY <1>1, <2>1 DEF GoneOK
  <1>4. CASE CreateCR /\ ~UNCHANGED <<crs, queue>>
    BY <1>4, CreateCRShape DEF With, GoneOK
  <1>5. CASE (PatchCR \/ MarkCR) /\ ~UNCHANGED <<crs, queue>>
    <2>1. lst.s \in DOMAIN crs
      BY <1>5 DEF PatchCR, MarkCR
    <2>2. crs[lst.s] \in CR /\ (crs[lst.s].deleted # "no" => crs[lst.s].finalizer)
      BY <2>1 DEF IInv, CrsOK
    <2>3. CASE PatchCR
      <3>1. PICK p : Patch(lst.s, [Respec(crs[lst.s], p) EXCEPT !.listenerGen = lst.gen + 1,
                                                              !.finalizer = @ \/ ~lst.fin])
        BY <2>1, <2>3 DEF PatchCR
      <3> DEFINE c == [Respec(crs[lst.s], p) EXCEPT !.listenerGen = lst.gen + 1, !.finalizer = @ \/ ~lst.fin]
      <3>2. c.deleted = crs[lst.s].deleted /\ (crs[lst.s].finalizer => c.finalizer)
        BY <2>2 DEF Respec, CR
      <3>3. Patch(lst.s, c)
        BY <3>1
      <3> HIDE DEF c
      <3>4. DOMAIN crs' = DOMAIN crs
        BY <2>1, <2>2, <3>2, <3>3, PatchAdds
      <3> QED BY <2>1, <3>4 DEF GoneOK
    <2>4. CASE MarkCR
      <3>1. Patch(lst.s, [crs[lst.s] EXCEPT !.marked = TRUE]) /\ crs[lst.s].deleted = "no"
        BY <1>5, <2>4 DEF MarkCR
      <3>2. [crs[lst.s] EXCEPT !.marked = TRUE].deleted = "no"
        BY <2>2, <3>1 DEF CR
      <3>3. DOMAIN crs' = DOMAIN crs
        BY <2>1, <3>1, <3>2, PatchAdds
      <3> QED BY <2>1, <3>3 DEF GoneOK
    <2> QED BY <1>5, <2>3, <2>4
  <1> QED
    BY <1>2, <1>3, <1>4, <1>5
    DEF Listen, ReadNames, Subscribe, IgnoreEvent, FindForSet, GetCR, FindForRemove

\* A change that waits for the last one to settle comes when nothing is queued.
LEMMA EnvironmentGone == ASSUME IInv, InTouch, GoneOK, Calm', Environment PROVE GoneOK'
  <1>1. PICK kind, calm : ChangeIf(kind, calm) /\ (calm => Resting)
    BY DEF Environment, UserCreates, ClientSets, ClientRemoves, ClusterChanges, ListenerToggled,
           ClusterDeleted, UserEdits, UserDeletes, UserPauses, ReferenceChanges, Change, Settled
  <1>2. queue = {} /\ ctl'.pc = "idle"
    BY <1>1, CalmChange, AtRest
  <1>3. CASE UserCreates
    BY <1>3 DEF UserCreates, With, GoneOK
  <1>4. CASE \E s \in Slots : UserEdits(s) \/ UserDeletes(s) \/ UserPauses(s)
    <2>1. PICK s \in Slots : UserEdits(s) \/ UserDeletes(s) \/ UserPauses(s)
      BY <1>4
    <2>2. s \in DOMAIN crs /\ crs[s] \in CR /\ crs[s].deleted = "no"
      BY <2>1 DEF UserEdits, UserDeletes, UserPauses, IInv, CrsOK
    <2>3. PICK c : Patch(s, c) /\ (c.deleted = "no" \/ c.finalizer)
      <3>1. CASE UserEdits(s)
        <4>1. PICK p \in Protos : Patch(s, Respec(crs[s], p))
          BY <3>1 DEF UserEdits
        <4> QED BY <2>2, <4>1, RespecType
      <3>2. CASE UserDeletes(s)
        <4>1. ChangeIf("delete", Settled /\ crs[s].finalizer)
              /\ Patch(s, [crs[s] EXCEPT !.deleted = "user", !.gen = @ + 1])
          BY <3>2 DEF UserDeletes
        <4>2. crs[s].finalizer
          BY <4>1, CalmChange
        <4>3. [crs[s] EXCEPT !.deleted = "user", !.gen = @ + 1].finalizer
          BY <2>2, <4>2 DEF CR
        <4> QED BY <4>1, <4>3
      <3>3. CASE UserPauses(s)
        <4>1. Patch(s, [crs[s] EXCEPT !.paused = ~@])
          BY <3>3 DEF UserPauses
        <4>2. [crs[s] EXCEPT !.paused = ~@].deleted = "no"
          BY <2>2 DEF CR
        <4> QED BY <4>1, <4>2
      <3> QED BY <2>1, <3>1, <3>2, <3>3
    <2>4. DOMAIN crs' = DOMAIN crs
      BY <2>2, <2>3, PatchAdds
    <2> QED BY <2>2, <2>4 DEF GoneOK
  <1>5. CASE UNCHANGED crs /\ queue' \subseteq queue \cup DOMAIN crs
    BY <1>2, <1>5 DEF GoneOK
  <1>6. ~ClusterDeleted
    BY DEF ClusterDeleted, Calm
  <1> QED
    BY <1>3, <1>4, <1>5, <1>6
    DEF Environment, ClientSets, ClientRemoves, ClusterChanges, ListenerToggled, ReferenceChanges

\* The faults.
LEMMA FaultsGone ==
    ASSUME IInv, GoneOK, OperatorCrash \/ CallFails \/ ListenerCrash \/ StreamBreaks
    PROVE  GoneOK'
  <1>1. UNCHANGED server
    BY DEF OperatorCrash, CallFails, ListenerCrash, StreamBreaks
  <1>2. CASE OperatorCrash
    BY <1>2, IdleTypes DEF OperatorCrash, GoneOK
  <1>3. CASE ListenerCrash \/ StreamBreaks
    BY <1>3 DEF ListenerCrash, StreamBreaks, GoneOK
  <1>4. CASE CallFails
    <2>1. CASE UNCHANGED crs /\ ctl.pc # "idle"
      BY <1>1, <2>1 DEF GoneOK
    <2>2. CASE \/ EndUpdating([ready |-> "CallFailed"], TRUE)
               \/ EndUpdating([ready |-> "CallFailed", finalizer |-> TRUE], FALSE)
      <3>1. EndUpdating([ready |-> "CallFailed"], TRUE) => DOMAIN crs' = DOMAIN crs
        BY EndUpdatingKeeps
      <3>2. EndUpdating([ready |-> "CallFailed", finalizer |-> TRUE], FALSE) => DOMAIN crs' = DOMAIN crs
        BY EndUpdatingKeeps
      <3>3. ctl.pc # "idle"
        BY <1>4 DEF CallFails
      <3> QED BY <1>1, <2>2, <3>1, <3>2, <3>3 DEF GoneOK
    <2> QED BY <1>4, <2>1, <2>2 DEF CallFails
  <1> QED BY <1>2, <1>3, <1>4

\* Where a schema has no resource, none went a moment ago: a listener that
\* creates one finds nothing in its way.
LEMMA NextGone == ASSUME IInv, InTouch, GoneOK, Calm, Calm', [Next]_vars PROVE GoneOK'
  <1>1. CASE UNCHANGED vars
    BY <1>1 DEF vars, GoneOK
  <1>2. CASE Next
    BY <1>2, ReconcileGone, ListenGone, EnvironmentGone, FaultsGone DEF Next
  <1> QED BY <1>1, <1>2

\* Once both processes are done and nobody hurried them, a resource that says
\* Ready has the text the server has, and a schema has a resource as long as
\* the listener runs, unless a removal escaped the listener and its sweep:
\* for any number of changes, of faults of any kind and of texts.
THEOREM InSyncWhenSettled == Spec => []SettledInSync
  <1>1. Init => (Calm => InTouch /\ GoneOK)
    BY InitInTouch DEF Init, GoneOK
  <1>2. IInv /\ (Calm => InTouch /\ GoneOK) /\ [Next]_vars => (Calm => InTouch /\ GoneOK)'
    BY NextInTouch, NextGone, CalmBefore
  <1>3. IInv /\ (Calm => InTouch) /\ TypeOK => SettledInSync
    <2> SUFFICES ASSUME IInv, InTouch, Settled, cluster = "formed", bidi
                 PROVE  InSync
      BY DEF SettledInSync, Calm
    <2>1. Connected /\ Resting
      BY AtSettled DEF IInv, EnvOK
    <2>2. server # NoProto => DOMAIN crs # {}
      BY <2>1, AtRest DEF InTouch, ServerSide, ShownOK
    <2>3. ASSUME NEW s \in DOMAIN crs
          PROVE  Agrees(crs[s]) \/ (unseen = "swept" /\ ~crs[s].owned)
      <3>1. CASE Live(crs[s])
        <4>1. \/ crs[s].spec = server \/ Forgiven(crs[s])
              \/ crs[s].paused
          BY <2>1, <3>1, AtRest
        <4>2. crs[s].ready = "Unknown" => crs[s].paused
          BY <2>1, <3>1, AtRest
        <4> QED BY <4>1, <4>2 DEF Agrees, Forgiven
      <3>2. CASE ~Live(crs[s])
        BY <2>1, <3>2, AtRest DEF Live, Agrees
      <3> QED BY <3>1, <3>2
    <2> QED BY <2>2, <2>3 DEF InSync
  <1>4. Spec => [](IInv /\ (Calm => InTouch /\ GoneOK))
    BY <1>1, <1>2, Invariance, PTL DEF Spec
  <1> QED BY <1>3, <1>4, TypeCorrect, PTL

=============================================================================
