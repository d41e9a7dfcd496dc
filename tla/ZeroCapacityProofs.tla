------------------------ MODULE ZeroCapacityProofs --------------------------
(***************************************************************************)
(* Proofs about ZeroCapacity: the first resource of a name is executed     *)
(* once, and the phase in which an operation ends is what became of it.    *)
(***************************************************************************)
EXTENDS ZeroCapacity, SequenceTheorems, TLAPS

-----------------------------------------------------------------------------
(***************************************************************************)
(* The inductive invariant.                                                *)
(***************************************************************************)

\* Whether a reconcile of the name is running.
Busy(n) == pc[n] # "idle"

\* The phases of the first resource of a name, up to one that is reached.
Fresh(r) == r.uid = 1 /\ r.phase = ""
Early(r) == r.uid = 1 /\ r.phase \in {"", "Initializing"}

\* The step of a running reconcile tells the phase of the copy it started with.
CopyOK(n) ==
    /\ Busy(n) => Exists(copy[n])
    /\ pc[n] = "Accept" => copy[n].phase = ""
    /\ pc[n] \in {"Init", "CreatePod", "MarkInitialized"}
          => copy[n].phase = "Initializing"
    /\ pc[n] \in {"Execute", "MarkRunning"} => copy[n].phase = "Initialized"
    /\ pc[n] \in {"Wait", "MarkSucceeded"} => copy[n].phase = "Running"
    /\ pc[n] = "MarkFailed" => copy[n].phase \in {"Initialized", "Running"}
    /\ pc[n] = "Cleanup" => copy[n].phase \in Ended

\* Instances are numbered in the order of their creation.
CountOK(n) ==
    /\ res[n].uid \in {0, created[n]}
    /\ res[n].uid = 0 => res[n] = NoResource
    /\ cache[n].uid <= created[n]
    /\ Busy(n) => copy[n].uid <= created[n]
    /\ \A i \in DOMAIN watch[n] : watch[n][i].uid <= created[n]
    /\ created[n] = 0 => pod[n] = NoPod /\ task[n] = "none" /\ done[n] = {} /\ runs[n][1] = 0
    /\ created[n] = 0 => watch[n] = <<>> /\ cache[n] = NoResource /\ ~Busy(n)
    /\ created[n] = 1 => pod[n].owner <= 1
    /\ res[n].uid = 1 => \A i \in DOMAIN watch[n] : watch[n][i].uid = 1
    /\ res[n].uid = 1 /\ cache[n].uid = 0 => Fresh(res[n])

\* The informer delivers the versions in their order; the last is in the API
\* server.
LastOK(n) ==
    res[n] = IF watch[n] = <<>> THEN cache[n] ELSE watch[n][Len(watch[n])]

\* A version `v' seen before `w': the first resource does not go back to an
\* early phase.
Before(v, w) == Exists(v) => /\ Fresh(w) => Fresh(v)
                             /\ Early(w) => Early(v)

\* The copy, the cache and the versions still to be delivered are in order, and
\* the phase in the API server is at most one write ahead of what is acted on.
OrderOK(n) ==
    /\ Busy(n) => /\ Before(copy[n], cache[n])
                  /\ \A i \in DOMAIN watch[n] : Before(copy[n], watch[n][i])
    /\ \A i \in DOMAIN watch[n] : Before(cache[n], watch[n][i])
    /\ \A i, j \in DOMAIN watch[n] : i < j => Before(watch[n][i], watch[n][j])
    /\ res[n].uid = 1 /\ ~Early(res[n]) => /\ ~Fresh(cache[n])
                                           /\ Busy(n) => ~Fresh(copy[n])

\* Once the operation was accepted, no early version is left from which a pod
\* could be created again, and the pod that has accepted it knows it.
OnceOK(n) ==
    /\ runs[n][1] <= 1
    /\ runs[n][1] = 1 =>
         /\ ~Early(cache[n])
         /\ Busy(n) => ~Early(copy[n])
         /\ \A i \in DOMAIN watch[n] : ~Early(watch[n][i])
         /\ pod[n].owner = 1 => task[n] # "none"

\* While the first resource exists its pod is its own.
OwnOK(n) ==
    /\ pod[n].state = "none" => pod[n] = NoPod
    /\ pod[n].state = "none" => task[n] = "none"
    /\ res[n].uid = 1 =>
         /\ pod[n].state # "none" => pod[n].owner = 1
         /\ 1 \in done[n] <=> task[n] = "done"
         /\ pc[n] = "MarkSucceeded" \/ res[n].phase = "Succeeded"
               => task[n] = "done"

\* Until the operation fails, and but for crashes, no one writes Failed, the
\* pod serves as long as it is asked, and the phases are in order.
Good(n) == res[n].uid = 1 /\ faults \subseteq {"crash"} /\ task[n] # "failed"

InOrder(p, q) ==
    /\ q # "Failed"
    /\ p \in {"Running", "Succeeded"} => q \in {"Running", "Succeeded"}
    /\ p = "Succeeded" => q = "Succeeded"

GoodOK(n) ==
    Good(n) =>
      /\ pc[n] # "MarkFailed"
      /\ cache[n].phase # "Failed"
      /\ Busy(n) => copy[n].phase # "Failed" /\ InOrder(copy[n].phase, cache[n].phase)
      /\ \A i \in DOMAIN watch[n] : InOrder(cache[n].phase, watch[n][i].phase)
      /\ \A i, j \in DOMAIN watch[n] :
            i < j => InOrder(watch[n][i].phase, watch[n][j].phase)
      /\ res[n].phase \in {"Running", "Succeeded"}
            => /\ cache[n].phase \notin {"", "Initializing"}
               /\ Busy(n) => copy[n].phase \notin {"", "Initializing"}
      /\ res[n].phase = "Succeeded"
            => /\ cache[n].phase \in {"Running", "Succeeded"}
               /\ Busy(n) => copy[n].phase \in {"Running", "Succeeded"}
      /\ pc[n] = "MarkRunning" \/ res[n].phase \in {"Running", "Succeeded"}
            => pod[n].state \in {"ready", "terminated"}
      /\ pod[n].state = "terminated"
            => /\ cache[n].phase = "Succeeded"
               /\ Busy(n) => copy[n].phase = "Succeeded"

NameOK(n) == /\ CopyOK(n) /\ CountOK(n) /\ LastOK(n) /\ OrderOK(n)
             /\ OnceOK(n) /\ OwnOK(n) /\ GoodOK(n)

IInv == TypeOK /\ \A n \in Names : NameOK(n)

-----------------------------------------------------------------------------
(***************************************************************************)
(* Typing.                                                                 *)
(***************************************************************************)
LEMMA Numbers == 0 \in Instance /\ 1 \in Instance /\ Instance \subseteq Nat
  BY LimitsAssumption DEF Instance

\* The values that stand for nothing.
LEMMA NoneType == NoResource \in Resource /\ NoPod \in ZeroPods
  BY Numbers DEF NoResource, Resource, Phases, NoPod, ZeroPods

\* A patch of the phase.
LEMMA PhaseType ==
    ASSUME NEW r \in Resource, NEW p \in Phases
    PROVE  /\ [r EXCEPT !.phase = p] \in Resource
           /\ [r EXCEPT !.phase = p].uid = r.uid
           /\ [r EXCEPT !.phase = p].phase = p
  BY DEF Resource

\* A change of a pod's state.
LEMMA PodType ==
    ASSUME NEW d \in ZeroPods, NEW s \in {"none", "starting", "ready", "terminated"}
    PROVE  /\ [d EXCEPT !.state = s] \in ZeroPods
           /\ [d EXCEPT !.state = s].owner = d.owner
           /\ [d EXCEPT !.state = s].state = s
  BY DEF ZeroPods

\* The part of the typing that a write of the resource disturbs.
ResType == res \in [Names -> Resource] /\ watch \in [Names -> Seq(Resource)]

\* A version that is stored and on its way to the cache.
LEMMA StoreType ==
    ASSUME ResType, NEW n \in Names, NEW new \in Resource, Store(n, new)
    PROVE  ResType'
  <1>1. Append(watch[n], new) \in Seq(Resource)
    BY AppendProperties DEF ResType
  <1> QED  BY <1>1 DEF ResType, Store

RunType == /\ queued \in [Names -> BOOLEAN]
           /\ pc \in [Names -> Steps]
           /\ copy \in [Names -> Resource]

\* The end of a reconcile.
LEMMA EndType ==
    ASSUME RunType, NEW n \in Names, NEW retry \in BOOLEAN, End(n, retry)
    PROVE  queued' \in [Names -> BOOLEAN] /\ pc' \in [Names -> Steps]
  BY DEF RunType, End, Steps

\* The next call of a reconcile.
LEMMA GotoType ==
    ASSUME RunType, NEW n \in Names, NEW step \in Steps, Goto(n, step)
    PROVE  queued' \in [Names -> BOOLEAN] /\ pc' \in [Names -> Steps]
  BY DEF RunType, Goto

\* The write of a phase.
LEMMA UpdateType ==
    ASSUME TypeOK, NEW n \in Names, NEW phase \in Phases, UpdatePhase(n, phase)
    PROVE  ResType' /\ RunType'
  <1>1. ResType /\ RunType
    BY DEF TypeOK, ResType, RunType
  <1>2. cache[n] \in Resource /\ res[n] \in Resource
    BY DEF TypeOK
  <1>3. [cache[n] EXCEPT !.phase = phase] \in Resource /\ [res[n] EXCEPT !.phase = phase] \in Resource
    BY <1>2, PhaseType
  <1>4. copy' \in [Names -> Resource]
    BY <1>1, <1>3 DEF RunType, UpdatePhase
  <1>5. queued' \in [Names -> BOOLEAN] /\ pc' \in [Names -> Steps]
    BY <1>1, EndType DEF UpdatePhase
  <1>6. ResType'
    <2>1. CASE UNCHANGED resVars
      BY <2>1, <1>1 DEF ResType, resVars
    <2>2. CASE Store(n, [res[n] EXCEPT !.phase = phase])
      BY <2>2, <1>1, <1>3, StoreType
    <2> QED  BY <2>1, <2>2 DEF UpdatePhase
  <1> QED  BY <1>4, <1>5, <1>6 DEF RunType

PodsType == /\ claim \in [Backups -> Instance]
            /\ pod \in [Names -> ZeroPods]
            /\ task \in [Names -> {"none", "running", "done", "failed"}]
            /\ archive \in SUBSET Backups
            /\ runs \in [Names -> [Instance -> Nat]]
            /\ done \in [Names -> SUBSET Instance]

EnvType == /\ cache \in [Names -> Resource]
           /\ cluster \in {"absent", "unstable", "stable"}
           /\ created \in [Names -> Instance]
           /\ changes \in 0..MaxChanges

FaultType == faults \subseteq Faults

\* The typing, by groups of variables.
LEMMA TypeParts == TypeOK <=> ResType /\ RunType /\ PodsType /\ EnvType /\ FaultType
  BY DEF TypeOK, ResType, RunType, PodsType, EnvType, FaultType

\* The same after a step.
LEMMA TypeParts2 == TypeOK' <=> ResType' /\ RunType' /\ PodsType' /\ EnvType' /\ FaultType'
  BY DEF TypeOK, ResType, RunType, PodsType, EnvType, FaultType

\* The initial state is well typed.
LEMMA Typed == Init => TypeOK
  <1> SUFFICES ASSUME Init PROVE TypeOK
    OBVIOUS
  <1>1. ResType
    <2>1. <<>> \in Seq(Resource)
      OBVIOUS
    <2> QED  BY <2>1, NoneType DEF Init, ResType
  <1>2. RunType
    BY NoneType DEF Init, RunType, Steps
  <1>3. PodsType
    BY NoneType, Numbers DEF Init, PodsType
  <1>4. EnvType /\ FaultType
    BY NoneType, Numbers, LimitsAssumption DEF Init, EnvType, FaultType
  <1> QED  BY <1>1, <1>2, <1>3, <1>4, TypeParts

\* A pod whose server is gone.
LEMMA TerminatedType ==
    ASSUME PodsType, NEW n \in Names, Terminated(n),
           UNCHANGED <<claim, archive, runs, done>>
    PROVE  PodsType'
  <1>1. [pod[n] EXCEPT !.state = "terminated"] \in ZeroPods
    BY PodType DEF PodsType
  <1>2. pod' \in [Names -> ZeroPods]
    BY <1>1 DEF PodsType, Terminated
  <1>3. task' \in [Names -> {"none", "running", "done", "failed"}]
    BY DEF PodsType, Terminated
  <1> QED  BY <1>2, <1>3 DEF PodsType

\* Faults only add up.
LEMMA FaultKept == ASSUME FaultType, NEW k, Fault(k) PROVE FaultType' /\ faults \subseteq faults'
  BY DEF FaultType, Fault

\* What a step of the controller leaves, and what it may change.
LEMMA StepTyped ==
    ASSUME TypeOK, NEW n \in Names, Step(n)
    PROVE  ResType' /\ RunType' /\ PodsType' /\ FaultType' /\ faults \subseteq faults'
  <1>1. ResType /\ RunType /\ PodsType /\ FaultType
    BY TypeParts
  <1>2. copy[n] \in Resource /\ copy[n].uid \in Instance /\ pod[n] \in ZeroPods /\ pod[n].owner \in Instance
    BY <1>1 DEF RunType, PodsType, Resource, ZeroPods
  <1>3. ASSUME UNCHANGED podVars PROVE PodsType'
    BY <1>1, <1>3 DEF podVars, PodsType
  <1>4. ASSUME UNCHANGED resVars PROVE ResType'
    BY <1>1, <1>4 DEF resVars, ResType
  <1>5. ASSUME UNCHANGED faults PROVE FaultType' /\ faults \subseteq faults'
    BY <1>1, <1>5 DEF FaultType
  <1>6. ASSUME UNCHANGED copy, \/ \E r \in BOOLEAN : End(n, r)
                               \/ \E s \in Steps : Goto(n, s)
        PROVE  RunType'
    BY <1>1, <1>6, EndType, GotoType DEF RunType
  <1>a. CASE \E p \in Phases : UpdatePhase(n, p) /\ UNCHANGED <<podVars, faults>>
    BY <1>a, <1>3, <1>5, UpdateType
  <1>b. CASE InitResources(n)
    <2>1. UNCHANGED <<resVars, copy, faults>>
      BY <1>b DEF InitResources
    <2>2. claim' \in [Backups -> Instance]
      BY <1>1, <1>2, <1>b DEF InitResources, InitBackup, InitRestore, PodsType
    <2>3. UNCHANGED <<pod, task, archive, runs, done>>
      BY <1>b DEF InitResources
    <2>4. \/ \E r \in BOOLEAN : End(n, r)
          \/ \E s \in Steps : Goto(n, s)
      BY <1>b DEF InitResources, InitBackup, InitRestore, Steps
    <2>5. PodsType'
      BY <1>1, <2>2, <2>3 DEF PodsType
    <2> QED  BY <2>1, <2>4, <2>5, <1>4, <1>5, <1>6
  <1>c. CASE CreatePod(n)
    <2>1. [state |-> "starting", owner |-> copy[n].uid] \in ZeroPods
      BY <1>2 DEF ZeroPods
    <2>2. pod' \in [Names -> ZeroPods]
      BY <1>1, <1>c, <2>1 DEF CreatePod, PodsType
    <2>3. PodsType'
      BY <1>1, <1>c, <2>2 DEF CreatePod, PodsType
    <2>4. \E s \in Steps : Goto(n, s)
      BY <1>c DEF CreatePod, Steps
    <2> QED  BY <2>3, <2>4, <1>c, <1>4, <1>5, <1>6 DEF CreatePod
  <1>d. CASE Execute(n)
    <2>1. UNCHANGED <<resVars, copy, claim, pod, archive, done>>
      BY <1>d DEF Execute
    <2>2. task' \in [Names -> {"none", "running", "done", "failed"}]
      BY <1>1, <1>d DEF Execute, PodsType
    <2>3. runs' \in [Names -> [Instance -> Nat]]
      <3>1. CASE runs' = runs
        BY <1>1, <3>1 DEF PodsType
      <3>2. CASE runs' = [runs EXCEPT ![n][pod[n].owner] = @ + 1]
        <4>1. runs[n] \in [Instance -> Nat] /\ runs[n][pod[n].owner] + 1 \in Nat
          BY <1>1, <1>2 DEF PodsType
        <4> QED  BY <1>1, <1>2, <3>2, <4>1 DEF PodsType
      <3> QED  BY <1>d, <3>1, <3>2 DEF Execute
    <2>4. FaultType' /\ faults \subseteq faults'
      BY <1>d, <1>1, <1>5, FaultKept DEF Execute, CallFails
    <2>5. \/ \E r \in BOOLEAN : End(n, r)
          \/ \E s \in Steps : Goto(n, s)
      BY <1>d DEF Execute, Steps
    <2>6. PodsType'
      BY <1>1, <2>1, <2>2, <2>3 DEF PodsType
    <2> QED  BY <2>1, <2>4, <2>5, <2>6, <1>4, <1>6
  <1>e. CASE Wait(n)
    <2>1. UNCHANGED <<resVars, copy, podVars>>
      BY <1>e DEF Wait
    <2>4. FaultType' /\ faults \subseteq faults'
      BY <1>e, <1>1, <1>5, FaultKept DEF Wait, CallFails
    <2>5. \/ \E r \in BOOLEAN : End(n, r)
          \/ \E s \in Steps : Goto(n, s)
      BY <1>e DEF Wait, Steps
    <2> QED  BY <2>1, <2>4, <2>5, <1>3, <1>4, <1>6
  <1>f. CASE Cleanup(n)
    <2>1. UNCHANGED <<resVars, copy, claim, archive, runs, done>>
      BY <1>f DEF Cleanup
    <2>2. Terminated(n) \/ UNCHANGED <<pod, task>>
      BY <1>f DEF Cleanup
    <2>3. PodsType'
      BY <1>1, <2>1, <2>2, TerminatedType DEF PodsType
    <2>4. FaultType' /\ faults \subseteq faults'
      BY <1>f, <1>1, <1>5, FaultKept DEF Cleanup, CallFails
    <2>5. \E r \in BOOLEAN : End(n, r)
      BY <1>f DEF Cleanup
    <2> QED  BY <2>1, <2>3, <2>4, <2>5, <1>4, <1>6
  <1>g. {"Initializing", "Initialized", "Running", "Succeeded", "Failed"} \subseteq Phases
    BY DEF Phases, Ended
  <1> QED
    BY <1>a, <1>b, <1>c, <1>d, <1>e, <1>f, <1>g
    DEF Step, Accept, MarkInitialized, MarkRunning, MarkSucceeded, MarkFailed

\* A reconcile begins by reading the cache.
LEMMA ReconcileTyped ==
    ASSUME TypeOK, NEW n \in Names, Reconcile(n)
    PROVE  RunType' /\ UNCHANGED <<resVars, podVars, faults>>
  <1>1. RunType /\ cache[n] \in Resource
    BY TypeParts DEF EnvType
  <1>2. copy' \in [Names -> Resource]
    BY <1>1 DEF Reconcile, RunType
  <1>3. pc' \in [Names -> Steps]
    BY <1>1 DEF Reconcile, RunType, Steps
  <1>4. queued' \in [Names -> BOOLEAN]
    BY <1>1 DEF Reconcile, RunType
  <1> QED  BY <1>2, <1>3, <1>4 DEF Reconcile, RunType

\* Every step keeps the typing.
LEMMA TypeStep == TypeOK /\ [Next]_vars => TypeOK'
  <1> SUFFICES ASSUME TypeOK, [Next]_vars PROVE TypeOK'
    OBVIOUS
  <1>0. ResType /\ RunType /\ PodsType /\ EnvType /\ FaultType
    BY TypeParts
  <1>1. ASSUME UNCHANGED resVars PROVE ResType'
    BY <1>0, <1>1 DEF ResType, resVars
  <1>2. ASSUME UNCHANGED <<pc, copy>>, queued' \in [Names -> BOOLEAN] PROVE RunType'
    BY <1>0, <1>2 DEF RunType
  <1>3. ASSUME UNCHANGED podVars PROVE PodsType'
    BY <1>0, <1>3 DEF PodsType, podVars
  <1>4. ASSUME UNCHANGED <<cache, envVars>> PROVE EnvType'
    BY <1>0, <1>4 DEF EnvType, envVars
  <1>5. ASSUME UNCHANGED faults PROVE FaultType'
    BY <1>0, <1>5 DEF FaultType
  <1>6. ASSUME UNCHANGED queued PROVE queued' \in [Names -> BOOLEAN]
    BY <1>0, <1>6 DEF RunType
  <1>7. ASSUME NEW n \in Names, queued' = [queued EXCEPT ![n] = TRUE] PROVE queued' \in [Names -> BOOLEAN]
    BY <1>0, <1>7 DEF RunType
  <1>a. ASSUME NEW n \in Names, Controller(n) PROVE TypeOK'
    BY <1>a, <1>1, <1>3, <1>4, <1>5, StepTyped, ReconcileTyped, TypeParts2 DEF Controller
  <1>b. ASSUME NEW n \in Names, UserCreates(n) PROVE TypeOK'
    <2>1. created[n] + 1 \in Instance
      BY <1>b, <1>0, LimitsAssumption DEF UserCreates, MayCreate, EnvType, Instance
    <2>2. created' \in [Names -> Instance] /\ created'[n] \in Instance
      BY <1>b, <2>1, <1>0 DEF UserCreates, EnvType
    <2>3. [NoResource EXCEPT !.uid = created'[n]] \in Resource
      BY <2>2, NoneType DEF Resource
    <2>4. ResType'
      BY <1>b, <1>0, <2>3, StoreType DEF UserCreates
    <2>5. EnvType'
      BY <1>b, <1>0, <2>2 DEF UserCreates, EnvType
    <2> QED  BY <1>b, <2>4, <2>5, <1>2, <1>3, <1>5, <1>6, TypeParts2 DEF UserCreates
  <1>c. ASSUME NEW n \in Names, UserDeletes(n) PROVE TypeOK'
    <2>1. ResType'
      BY <1>c, <1>0, NoneType, StoreType DEF UserDeletes
    <2>2. changes' \in 0..MaxChanges
      BY <1>c, <1>0, LimitsAssumption DEF UserDeletes, EnvType
    <2>3. EnvType'
      BY <1>c, <1>0, <2>2 DEF UserDeletes, EnvType
    <2> QED  BY <1>c, <2>1, <2>3, <1>2, <1>3, <1>5, <1>6, TypeParts2 DEF UserDeletes
  <1>d. ASSUME NEW n \in Names, InformerDelivers(n) PROVE TypeOK'
    <2>1. Head(watch[n]) \in Resource /\ Tail(watch[n]) \in Seq(Resource)
      BY <1>d, <1>0, HeadTailProperties DEF InformerDelivers, ResType
    <2>2. ResType'
      BY <1>d, <1>0, <2>1 DEF InformerDelivers, ResType
    <2>3. EnvType'
      BY <1>d, <1>0, <2>1 DEF InformerDelivers, EnvType, envVars
    <2> QED  BY <1>d, <2>2, <2>3, <1>2, <1>3, <1>5, <1>7, TypeParts2 DEF InformerDelivers
  <1>e. ASSUME NEW n \in Names, GarbageCollected(n) PROVE TypeOK'
    <2>1. queued' \in [Names -> BOOLEAN]
      BY <1>e, <1>6, <1>7 DEF GarbageCollected
    <2>2. PodsType'
      BY <1>e, <1>0, NoneType, Numbers DEF GarbageCollected, PodsType
    <2> QED  BY <1>e, <2>1, <2>2, <1>1, <1>2, <1>4, <1>5, TypeParts2 DEF GarbageCollected
  <1>f. ASSUME NEW n \in Names, PodReady(n) PROVE TypeOK'
    <2>1. [pod[n] EXCEPT !.state = "ready"] \in ZeroPods
      BY <1>0, PodType DEF PodsType
    <2>2. PodsType'
      BY <1>f, <1>0, <2>1 DEF PodReady, PodsType
    <2> QED  BY <1>f, <2>2, <1>1, <1>2, <1>4, <1>5, <1>7, TypeParts2 DEF PodReady
  <1>g. ASSUME NEW n \in Names, TaskEnds(n) PROVE TypeOK'
    <2>1. pod[n].owner \in Instance
      BY <1>0 DEF PodsType, ZeroPods
    <2>2. done' \in [Names -> SUBSET Instance]
      BY <1>g, <1>0, <2>1 DEF TaskEnds, PodsType
    <2>3. task' \in [Names -> {"none", "running", "done", "failed"}]
      BY <1>g, <1>0 DEF TaskEnds, PodsType
    <2>4. archive' \in SUBSET Backups
      BY <1>g, <1>0 DEF TaskEnds, PodsType
    <2>5. PodsType'
      BY <1>g, <1>0, <2>2, <2>3, <2>4 DEF TaskEnds, PodsType
    <2> QED  BY <1>g, <2>5, <1>1, <1>2, <1>4, <1>5, <1>6, TypeParts2 DEF TaskEnds
  <1>h. ASSUME NEW n \in Names, PodEvicted(n) PROVE TypeOK'
    BY <1>h, <1>0, <1>1, <1>2, <1>4, <1>7, TerminatedType, FaultKept, TypeParts2 DEF PodEvicted
  <1>i. CASE ClusterChanges
    <2>1. changes' \in 0..MaxChanges
      BY <1>i, <1>0, LimitsAssumption DEF ClusterChanges, EnvType
    <2>2. EnvType'
      BY <1>i, <1>0, <2>1 DEF ClusterChanges, EnvType
    <2> QED  BY <1>i, <2>2, <1>1, <1>2, <1>3, <1>5, <1>6, TypeParts2 DEF ClusterChanges
  <1>j. CASE OperatorCrashes
    <2>1. <<>> \in Seq(Resource)
      OBVIOUS
    <2>2. ResType'
      BY <1>j, <1>0, <2>1 DEF OperatorCrashes, ResType
    <2>3. RunType'
      <3>1. pc' \in [Names -> Steps]
        BY <1>j DEF OperatorCrashes, Steps
      <3>2. queued' \in [Names -> BOOLEAN]
        BY <1>j DEF OperatorCrashes, Exists
      <3> QED  BY <1>j, <1>0, <3>1, <3>2 DEF OperatorCrashes, RunType
    <2>4. EnvType'
      BY <1>j, <1>0 DEF OperatorCrashes, EnvType, ResType, envVars
    <2> QED  BY <1>j, <1>0, <2>2, <2>3, <2>4, <1>3, FaultKept, TypeParts2 DEF OperatorCrashes
  <1>k. CASE UNCHANGED vars
    BY <1>k, <1>1, <1>2, <1>3, <1>4, <1>5, <1>6, TypeParts2 DEF vars
  <1> QED
    BY <1>a, <1>b, <1>c, <1>d, <1>e, <1>f, <1>g, <1>h, <1>i, <1>j, <1>k DEF Next

-----------------------------------------------------------------------------
(***************************************************************************)
(* Versions and their order.                                               *)
(***************************************************************************)
LEMMA Appended ==
    ASSUME NEW s \in Seq(Resource), NEW new \in Resource
    PROVE  /\ Append(s, new) # <<>>
           /\ Len(Append(s, new)) \in DOMAIN Append(s, new)
           /\ Append(s, new)[Len(Append(s, new))] = new
           /\ \A i \in DOMAIN Append(s, new) :
                 i = Len(Append(s, new)) \/ (i \in DOMAIN s /\ Append(s, new)[i] = s[i])
           /\ \A i, j \in DOMAIN Append(s, new) : i < j => i \in DOMAIN s
  <1>1. /\ Len(Append(s, new)) = Len(s) + 1
        /\ \A i \in 1..Len(s) : Append(s, new)[i] = s[i]
        /\ Append(s, new)[Len(s) + 1] = new
        /\ Append(s, new) \in Seq(Resource) /\ Len(s) \in Nat
        /\ Append(s, new) # <<>>
    BY AppendProperties
  <1>2. DOMAIN s = 1..Len(s) /\ DOMAIN Append(s, new) = 1..(Len(s) + 1)
    BY <1>1
  <1> HIDE DEF Resource
  <1> QED  BY <1>1, <1>2

\* The queue of versions when the first is delivered.
LEMMA Delivered ==
    ASSUME NEW s \in Seq(Resource), s # <<>>
    PROVE  /\ Head(s) = s[1] /\ 1 \in DOMAIN s /\ Len(s) \in DOMAIN s
           /\ \A i \in DOMAIN Tail(s) : i \in Nat /\ i + 1 \in DOMAIN s /\ 1 < i + 1
                                        /\ Tail(s)[i] = s[i + 1]
           /\ Tail(s) = <<>> => Len(s) = 1
           /\ Tail(s) # <<>> => Tail(s)[Len(Tail(s))] = s[Len(s)]
  <1>1. Len(s) \in Nat /\ Len(s) >= 1 /\ DOMAIN s = 1..Len(s)
    BY EmptySeq
  <1>2. Tail(s) \in Seq(Resource) /\ Len(Tail(s)) = Len(s) - 1
    BY HeadTailProperties
  <1>3. DOMAIN Tail(s) = 1..(Len(s) - 1)
    BY <1>2
  <1>4. \A i \in 1..Len(Tail(s)) : Tail(s)[i] = s[i + 1]
    BY HeadTailProperties
  <1>5. Head(s) = s[1]
    OBVIOUS
  <1>6. Tail(s) # <<>> => Len(Tail(s)) >= 1
    BY <1>2, EmptySeq
  <1>7. Tail(s) = <<>> => Len(Tail(s)) = 0
    BY <1>2, EmptySeq
  <1> QED  BY <1>1, <1>2, <1>3, <1>4, <1>5, <1>6, <1>7

\* The values of one name.
LEMMA Values ==
    ASSUME TypeOK, NEW n \in Names
    PROVE  /\ res[n] \in Resource /\ cache[n] \in Resource /\ copy[n] \in Resource
           /\ watch[n] \in Seq(Resource)
           /\ \A i \in DOMAIN watch[n] : watch[n][i] \in Resource
           /\ pod[n] \in ZeroPods
           /\ created[n] \in Nat
           /\ runs[n][1] \in Nat
  <1>1. /\ res[n] \in Resource /\ cache[n] \in Resource /\ copy[n] \in Resource
        /\ pod[n] \in ZeroPods
    BY DEF TypeOK
  <1>2. watch[n] \in Seq(Resource)
    BY DEF TypeOK
  <1>3. \A i \in DOMAIN watch[n] : watch[n][i] \in Resource
    BY <1>2
  <1>4. created[n] \in Nat /\ runs[n][1] \in Nat
    BY Numbers DEF TypeOK
  <1> QED  BY <1>1, <1>2, <1>3, <1>4

\* The fields of a resource.
LEMMA Uids == ASSUME NEW r \in Resource PROVE r.uid \in Nat /\ r.phase \in Phases
  BY Numbers DEF Resource

\* The version in the API server is the last of the versions there are.
LEMMA LastOrder ==
    ASSUME TypeOK, NEW n \in Names, LastOK(n), OrderOK(n)
    PROVE  /\ Before(cache[n], res[n])
           /\ Busy(n) => Before(copy[n], res[n])
           /\ \A i \in DOMAIN watch[n] : Before(watch[n][i], res[n])
  <1>1. CASE watch[n] = <<>>
    <2>1. res[n] = cache[n] /\ DOMAIN watch[n] = {}
      BY <1>1 DEF LastOK
    <2> QED  BY <2>1 DEF OrderOK, Before
  <1>2. CASE watch[n] # <<>>
    <2>1. watch[n] \in Seq(Resource)
      BY Values
    <2>2. Len(watch[n]) \in DOMAIN watch[n] /\ res[n] = watch[n][Len(watch[n])]
      BY <1>2, <2>1, Delivered DEF LastOK
    <2>3. \A i \in DOMAIN watch[n] : i < Len(watch[n]) \/ i = Len(watch[n])
      BY <2>1
    <2> QED  BY <2>2, <2>3 DEF OrderOK, Before
  <1> QED  BY <1>1, <1>2

\* Once the operation was accepted, the stored phase is past the early ones.
LEMMA LastOnce ==
    ASSUME TypeOK, NEW n \in Names, LastOK(n), OnceOK(n), runs[n][1] = 1
    PROVE  ~Early(res[n])
  <1>1. CASE watch[n] = <<>>
    BY <1>1 DEF LastOK, OnceOK
  <1>2. CASE watch[n] # <<>>
    BY <1>2, Values, Delivered DEF LastOK, OnceOK
  <1> QED  BY <1>1, <1>2

\* Until the operation fails, what is stored is the furthest phase there is.
LEMMA LastGood ==
    ASSUME TypeOK, NEW n \in Names, LastOK(n), GoodOK(n), Good(n)
    PROVE  /\ res[n].phase # "Failed"
           /\ InOrder(cache[n].phase, res[n].phase)
           /\ \A i \in DOMAIN watch[n] : watch[n][i].phase # "Failed"
           /\ \A i \in DOMAIN watch[n] : InOrder(watch[n][i].phase, res[n].phase)
  <1>1. CASE watch[n] = <<>>
    <2>1. res[n] = cache[n] /\ DOMAIN watch[n] = {}
      BY <1>1 DEF LastOK
    <2> QED  BY <2>1 DEF GoodOK, InOrder
  <1>2. CASE watch[n] # <<>>
    <2>1. watch[n] \in Seq(Resource)
      BY Values
    <2>2. Len(watch[n]) \in DOMAIN watch[n] /\ res[n] = watch[n][Len(watch[n])]
      BY <1>2, <2>1, Delivered DEF LastOK
    <2>3. \A i \in DOMAIN watch[n] : i < Len(watch[n]) \/ i = Len(watch[n])
      BY <2>1
    <2> QED  BY <2>2, <2>3 DEF GoodOK, InOrder
  <1> QED  BY <1>1, <1>2

-----------------------------------------------------------------------------
(***************************************************************************)
(* What the invariant of a name depends on.                                *)
(***************************************************************************)
Local(n) == <<res[n], watch[n], cache[n], pc[n], copy[n], pod[n], task[n],
              created[n], runs[n], done[n]>>

\* What is said of a name stays true while nothing of that name changes.
LEMMA Framed ==
    ASSUME NEW m \in Names, NameOK(m), Local(m)' = Local(m), faults \subseteq faults'
    PROVE  NameOK(m)'
  <1>1. CopyOK(m)' /\ LastOK(m)'
    BY DEF NameOK, Local, CopyOK, LastOK, Busy
  <1>2. CountOK(m)'
    BY DEF NameOK, Local, CountOK, Busy
  <1>3. OrderOK(m)' /\ OnceOK(m)'
    BY DEF NameOK, Local, OrderOK, OnceOK, Busy
  <1>4. OwnOK(m)'
    BY DEF NameOK, Local, OwnOK
  <1>5. Good(m)' => Good(m)
    BY DEF Local, Good
  <1>6. GoodOK(m)'
    BY <1>5 DEF NameOK, Local, GoodOK, Busy
  <1> QED  BY <1>1, <1>2, <1>3, <1>4, <1>6 DEF NameOK

\* A step of the reconcile of the name, or the end of the reconcile, that leaves
\* the versions alone.
Seen(n) == <<res[n], watch[n], cache[n], created[n]>>

\* The last version, while the versions stay.
LEMMA LastKept ==
    ASSUME NEW n \in Names, LastOK(n), Seen(n)' = Seen(n)
    PROVE  LastOK(n)'
  BY DEF LastOK, Seen

\* The order of the versions, while they stay.
LEMMA OrderKept ==
    ASSUME NEW n \in Names, OrderOK(n), Seen(n)' = Seen(n),
           Busy(n)' => Busy(n) /\ copy'[n] = copy[n]
    PROVE  OrderOK(n)'
  BY DEF OrderOK, Seen

\* The numbering of the instances, while the versions stay.
LEMMA CountKept ==
    ASSUME NEW n \in Names, CountOK(n), Seen(n)' = Seen(n),
           Busy(n)' => Busy(n) /\ copy'[n] = copy[n],
           created[n] # 0 \/ <<pod[n], task[n], done[n], runs[n]>>' = <<pod[n], task[n], done[n], runs[n]>>,
           created[n] = 1 => pod'[n].owner <= 1
    PROVE  CountOK(n)'
  <1> DEFINE A == /\ res[n].uid \in {0, created[n]}
                  /\ res[n].uid = 0 => res[n] = NoResource
                  /\ cache[n].uid <= created[n]
                  /\ \A i \in DOMAIN watch[n] : watch[n][i].uid <= created[n]
                  /\ created[n] = 0 => watch[n] = <<>> /\ cache[n] = NoResource
                  /\ res[n].uid = 1 => \A i \in DOMAIN watch[n] : watch[n][i].uid = 1
                  /\ res[n].uid = 1 /\ cache[n].uid = 0 => Fresh(res[n])
  <1>1. A
    BY DEF CountOK
  <1>2. A'
    BY <1>1 DEF Seen
  <1>3. created[n] = 0 => /\ pod'[n] = NoPod /\ task'[n] = "none" /\ done'[n] = {} /\ runs'[n][1] = 0
                          /\ ~Busy(n)'
    BY DEF CountOK
  <1>4. Busy(n)' => copy'[n].uid <= created[n]
    BY DEF CountOK
  <1>5. created'[n] = created[n]
    BY DEF Seen
  <1> HIDE DEF A
  <1> QED  BY <1>2, <1>3, <1>4, <1>5 DEF A, CountOK

\* The single execution, while the versions stay.
LEMMA OnceKept ==
    ASSUME NEW n \in Names, OnceOK(n), Seen(n)' = Seen(n), runs'[n] = runs[n],
           Busy(n)' => Busy(n) /\ copy'[n] = copy[n],
           runs[n][1] = 1 /\ pod'[n].owner = 1 => task'[n] # "none"
    PROVE  OnceOK(n)'
  BY DEF OnceOK, Seen

-----------------------------------------------------------------------------
(***************************************************************************)
(* The steps of the controller, for the name they are of.                  *)
(***************************************************************************)
LEMMA ReconcileName ==
    ASSUME TypeOK, NEW n \in Names, NameOK(n), Reconcile(n), UNCHANGED <<cache, envVars>>
    PROVE  NameOK(n)'
  <1>1. /\ UNCHANGED <<res, watch, cache, pod, task, created, runs, done, faults>>
        /\ copy'[n] = cache[n]
        /\ ~Busy(n)
    BY DEF Reconcile, resVars, podVars, envVars, SameController, Busy, TypeOK
  <1>2. \/ pc'[n] = "idle"
        \/ /\ Exists(cache[n])
           /\ \/ pc'[n] = "Accept" /\ cache[n].phase = ""
              \/ pc'[n] = "Init" /\ cache[n].phase = "Initializing"
              \/ pc'[n] = "Execute" /\ cache[n].phase = "Initialized"
              \/ pc'[n] = "Wait" /\ cache[n].phase = "Running"
              \/ pc'[n] = "Cleanup" /\ cache[n].phase \in Ended
    BY <1>1 DEF Reconcile, TypeOK, Busy
  <1>3. CopyOK(n)'
    BY <1>1, <1>2 DEF CopyOK, Busy, Exists, Ended
  <1>4. CountOK(n)'
    BY <1>1, <1>2 DEF NameOK, CountOK, NoResource, Exists, Busy
  <1>5. LastOK(n)'
    BY <1>1, LastKept DEF NameOK, Seen
  <1>6. OrderOK(n)'
    BY <1>1 DEF NameOK, OrderOK, Before, Busy
  <1>7. OnceOK(n)'
    BY <1>1 DEF NameOK, OnceOK
  <1>8. OwnOK(n)'
    BY <1>1, <1>2 DEF NameOK, OwnOK
  <1>9. GoodOK(n)'
    BY <1>1, <1>2 DEF NameOK, GoodOK, Good, InOrder
  <1> QED  BY <1>3, <1>4, <1>5, <1>6, <1>7, <1>8, <1>9 DEF NameOK

\* The end of a reconcile that writes nothing.
LEMMA EndName ==
    ASSUME TypeOK, NEW n \in Names, NameOK(n), ~Busy(n)',
           <<res[n], watch[n], cache[n], pod[n], task[n], created[n], runs[n], done[n]>>'
             = <<res[n], watch[n], cache[n], pod[n], task[n], created[n], runs[n], done[n]>>,
           faults \subseteq faults'
    PROVE  NameOK(n)'
  <1>1. Seen(n)' = Seen(n)
    BY DEF Seen
  <1>2. pc'[n] = "idle"
    BY DEF Busy
  <1>3. CopyOK(n)'
    BY <1>2 DEF CopyOK, Busy
  <1>4. CountOK(n)'
    BY <1>1, CountKept DEF NameOK, CountOK
  <1>5. LastOK(n)'
    BY <1>1, LastKept DEF NameOK
  <1>6. OrderOK(n)'
    BY <1>1, OrderKept DEF NameOK
  <1>7. OnceOK(n)'
    BY <1>1, OnceKept DEF NameOK, OnceOK
  <1>8. OwnOK(n)'
    BY <1>2 DEF NameOK, OwnOK
  <1>9. GoodOK(n)'
    <2>1. Good(n)' => Good(n)
      BY DEF Good
    <2> QED  BY <1>2, <2>1 DEF NameOK, GoodOK, Busy
  <1> QED  BY <1>3, <1>4, <1>5, <1>6, <1>7, <1>8, <1>9 DEF NameOK

\* The step of the reconcile that writes the phase.
Writes(n, phase) ==
    \/ pc[n] = "Accept" /\ phase = "Initializing"
    \/ pc[n] = "MarkInitialized" /\ phase = "Initialized"
    \/ pc[n] = "MarkRunning" /\ phase = "Running"
    \/ pc[n] = "MarkSucceeded" /\ phase = "Succeeded"
    \/ pc[n] = "MarkFailed" /\ phase = "Failed"

\* The write of a phase: the one the step of the reconcile gives.
LEMMA UpdateName ==
    ASSUME TypeOK, NEW n \in Names, NameOK(n), NEW phase, Writes(n, phase),
           UpdatePhase(n, phase), UNCHANGED <<podVars, faults, cache, envVars>>
    PROVE  NameOK(n)'
  <1>0. UNCHANGED <<pod, task, runs, done, faults, cache, created>>
    BY DEF podVars, envVars
  <1>1. pc'[n] = "idle" /\ Busy(n)
    BY DEF UpdatePhase, End, TypeOK, Writes, Busy
  <1>2. CASE res'[n] = res[n] /\ watch'[n] = watch[n]
    BY <1>0, <1>1, <1>2, EndName DEF Busy
  <1> DEFINE new == [res[n] EXCEPT !.phase = phase]
  <1>3. CASE /\ Exists(cache[n]) /\ Exists(res[n])
             /\ res'[n] = new
             /\ watch'[n] = Append(watch[n], new)
    <2>1. phase \in Phases /\ phase # ""
      BY DEF Writes, Phases, Ended
    <2>2. /\ res[n] \in Resource /\ cache[n] \in Resource /\ copy[n] \in Resource
          /\ watch[n] \in Seq(Resource) /\ created[n] \in Nat
      BY Values
    <2>3. new \in Resource /\ new.uid = res[n].uid /\ new.phase = phase
      BY <2>1, <2>2, PhaseType
    <2> HIDE DEF new
    <2> DEFINE w == Append(watch[n], new)
    <2>4. /\ w # <<>> /\ w[Len(w)] = new
          /\ \A i \in DOMAIN w : i = Len(w) \/ (i \in DOMAIN watch[n] /\ w[i] = watch[n][i])
          /\ \A i, j \in DOMAIN w : i < j => i \in DOMAIN watch[n]
      BY <2>2, <2>3, Appended
    <2>5. watch'[n] = w /\ res'[n] = new
      BY <1>3
    <2> HIDE DEF w
    <2>6. \A i \in DOMAIN w : w[i] = new \/ (i \in DOMAIN watch[n] /\ w[i] = watch[n][i])
      BY <2>4
    <2>7. \A i, j \in DOMAIN w : i < j =>
             /\ i \in DOMAIN watch[n] /\ w[i] = watch[n][i]
             /\ w[j] = new \/ (j \in DOMAIN watch[n] /\ w[j] = watch[n][j])
      <3> SUFFICES ASSUME NEW i \in DOMAIN w, NEW j \in DOMAIN w, i < j
                   PROVE  /\ i \in DOMAIN watch[n] /\ w[i] = watch[n][i]
                          /\ w[j] = new \/ (j \in DOMAIN watch[n] /\ w[j] = watch[n][j])
        OBVIOUS
      <3>1. i \in DOMAIN watch[n]
        BY <2>4
      <3>2. i # Len(w)
        <4>1. w \in Seq(Resource)
          BY <2>2, <2>3, AppendProperties DEF w
        <4>2. DOMAIN w = 1..Len(w) /\ Len(w) \in Nat
          BY <4>1
        <4> QED  BY <4>2
      <3> QED  BY <3>1, <3>2, <2>4
    <2>8. Exists(copy[n]) /\ copy[n].uid \in Nat /\ copy[n].uid <= created[n]
      BY <1>1, <2>2, Uids DEF NameOK, CopyOK, CountOK
    <2>a. res[n].uid = 1 => created[n] = 1 /\ copy[n].uid = 1 /\ cache[n].uid = 1
      BY <2>2, <2>8, <1>3, Uids DEF NameOK, CountOK, Exists
    <2>b. /\ Before(cache[n], res[n])
          /\ \A i \in DOMAIN watch[n] : Before(watch[n][i], res[n])
      BY LastOrder DEF NameOK
    <2>c. Early(new) => Early(res[n]) /\ Fresh(copy[n])
      <3> SUFFICES ASSUME Early(new) PROVE Early(res[n]) /\ Fresh(copy[n])
        OBVIOUS
      <3>1. res[n].uid = 1 /\ phase = "Initializing"
        BY <2>3, <2>1 DEF Early
      <3>2. Fresh(copy[n])
        BY <3>1, <2>a DEF Writes, NameOK, CopyOK, Fresh
      <3> QED  BY <3>1, <3>2, <1>1 DEF NameOK, OrderOK
    <2>d. ~Fresh(new)
      BY <2>1, <2>3 DEF Fresh
    <2>e. Before(cache[n], new) /\ \A i \in DOMAIN watch[n] : Before(watch[n][i], new)
      BY <2>b, <2>c, <2>d DEF Before
    <2>f. CopyOK(n)'
      BY <1>1 DEF CopyOK, Busy
    <2>g. CountOK(n)'
      <3>1. res'[n].uid = res[n].uid /\ res[n].uid # 0 /\ created'[n] = created[n] /\ cache'[n] = cache[n]
        BY <2>3, <2>5, <1>0, <1>3 DEF Exists
      <3>2. res[n].uid = created[n] /\ created[n] # 0
        BY <3>1 DEF NameOK, CountOK
      <3>3. \A i \in DOMAIN watch'[n] : watch'[n][i].uid <= created[n]
        BY <2>5, <2>6, <2>3, <3>2, <2>2 DEF NameOK, CountOK
      <3>4. res[n].uid = 1 => \A i \in DOMAIN watch'[n] : watch'[n][i].uid = 1
        BY <2>5, <2>6, <2>3 DEF NameOK, CountOK
      <3>5. cache[n].uid <= created[n] /\ cache[n].uid # 0
        BY <1>3 DEF NameOK, CountOK, Exists
      <3>6. created[n] = 1 => pod'[n].owner <= 1
        BY <1>0 DEF NameOK, CountOK
      <3> QED  BY <3>1, <3>2, <3>3, <3>4, <3>5, <3>6, <1>1 DEF CountOK, Busy
    <2>h. LastOK(n)'
      BY <2>4, <2>5 DEF LastOK
    <2>i. OrderOK(n)'
      <3>1. \A i \in DOMAIN watch'[n] : Before(cache'[n], watch'[n][i])
        BY <1>0, <2>5, <2>6, <2>e DEF NameOK, OrderOK
      <3>2. \A i, j \in DOMAIN watch'[n] : i < j => Before(watch'[n][i], watch'[n][j])
        BY <2>5, <2>7, <2>e DEF NameOK, OrderOK
      <3>3. res'[n].uid = 1 /\ ~Early(res'[n]) => ~Fresh(cache'[n])
        <4> SUFFICES ASSUME res'[n].uid = 1, ~Early(res'[n]) PROVE ~Fresh(cache'[n])
          OBVIOUS
        <4>1. res[n].uid = 1 /\ phase # "Initializing"
          BY <2>3, <2>5 DEF Early
        <4>2. ~Fresh(copy[n])
          BY <4>1 DEF Writes, NameOK, CopyOK, Fresh
        <4> QED  BY <4>2, <2>8, <1>0, <1>1 DEF NameOK, OrderOK, Before
      <3> QED  BY <3>1, <3>2, <3>3, <1>1 DEF OrderOK, Busy
    <2>j. OnceOK(n)'
      <3>1. runs[n][1] = 1 => ~Early(new)
        BY <2>c, <1>1 DEF NameOK, OnceOK, Early, Fresh
      <3> QED  BY <3>1, <1>0, <1>1, <2>5, <2>6 DEF NameOK, OnceOK, Busy
    <2>k. OwnOK(n)'
      <3>1. res[n].uid = 1 /\ phase = "Succeeded" => task[n] = "done"
        BY DEF NameOK, OwnOK, Writes
      <3> QED  BY <3>1, <1>0, <1>1, <2>3, <2>5 DEF NameOK, OwnOK
    <2>l. GoodOK(n)'
      <3> SUFFICES ASSUME Good(n)' PROVE GoodOK(n)'
        BY DEF GoodOK
      <3>1. Good(n) /\ res[n].uid = 1
        BY <1>0, <2>3, <2>5 DEF Good
      <3>2. phase # "Failed"
        BY <3>1 DEF Writes, NameOK, GoodOK
      <3>3. /\ res[n].phase # "Failed"
            /\ InOrder(cache[n].phase, res[n].phase)
            /\ \A i \in DOMAIN watch[n] : watch[n][i].phase # "Failed"
            /\ \A i \in DOMAIN watch[n] : InOrder(watch[n][i].phase, res[n].phase)
        BY <3>1, LastGood DEF NameOK
      <3>4. InOrder(res[n].phase, phase)
        <4>1. CASE phase = "Initializing"
          <5>1. Early(res[n])
            BY <4>1, <2>c, <2>3, <3>1 DEF Early
          <5> QED  BY <5>1, <4>1 DEF Early, InOrder
        <4>2. CASE phase = "Initialized"
          BY <4>2, <3>1, <1>1 DEF Writes, NameOK, CopyOK, GoodOK, InOrder
        <4>3. CASE phase = "Running"
          BY <4>3, <3>1, <1>1 DEF Writes, NameOK, CopyOK, GoodOK, InOrder
        <4>4. CASE phase = "Succeeded"
          BY <4>4 DEF InOrder
        <4> QED  BY <4>1, <4>2, <4>3, <4>4, <3>2 DEF Writes
      <3>5. /\ InOrder(cache[n].phase, phase)
            /\ \A i \in DOMAIN watch[n] : InOrder(watch[n][i].phase, phase)
        BY <3>3, <3>4 DEF InOrder
      <3>6. \A i \in DOMAIN watch'[n] : InOrder(cache'[n].phase, watch'[n][i].phase)
        BY <1>0, <2>3, <2>5, <2>6, <3>5, <3>1 DEF NameOK, GoodOK
      <3>7. \A i, j \in DOMAIN watch'[n] : i < j => InOrder(watch'[n][i].phase, watch'[n][j].phase)
        BY <2>3, <2>5, <2>7, <3>5, <3>1 DEF NameOK, GoodOK
      <3>8. phase \in {"Running", "Succeeded"} => cache[n].phase \notin {"", "Initializing"}
        <4> SUFFICES ASSUME phase \in {"Running", "Succeeded"} PROVE cache[n].phase \notin {"", "Initializing"}
          OBVIOUS
        <4>1. ~Early(copy[n])
          BY DEF Writes, NameOK, CopyOK, Early
        <4>2. ~Early(cache[n])
          BY <4>1, <2>8, <1>1 DEF NameOK, OrderOK, Before
        <4> QED  BY <4>2, <2>a, <3>1 DEF Early
      <3>9. phase = "Succeeded" => cache[n].phase \in {"Running", "Succeeded"}
        BY <3>1, <1>1 DEF Writes, NameOK, CopyOK, GoodOK, InOrder
      <3>10. phase \in {"Running", "Succeeded"} => pod[n].state \in {"ready", "terminated"}
        <4>1. CASE phase = "Running"
          BY <4>1, <3>1 DEF Writes, NameOK, GoodOK
        <4>2. CASE phase = "Succeeded"
          BY <4>2, <3>1, <3>3, <3>9 DEF NameOK, GoodOK, InOrder
        <4> QED  BY <4>1, <4>2
      <3>11. pod[n].state = "terminated" => cache[n].phase = "Succeeded"
        BY <3>1 DEF NameOK, GoodOK
      <3>12. cache[n].phase # "Failed"
        BY <3>1 DEF NameOK, GoodOK
      <3> QED
        BY <3>6, <3>7, <3>8, <3>9, <3>10, <3>11, <3>12, <1>0, <1>1, <2>3, <2>5 DEF GoodOK, Busy
    <2> QED  BY <2>f, <2>g, <2>h, <2>i, <2>j, <2>k, <2>l DEF NameOK
  <1>4. \/ /\ Exists(cache[n]) /\ Exists(res[n])
           /\ res'[n] = new
           /\ watch'[n] = Append(watch[n], new)
        \/ res'[n] = res[n] /\ watch'[n] = watch[n]
    BY DEF UpdatePhase, Store, resVars, TypeOK
  <1> QED  BY <1>2, <1>3, <1>4

\* What a step that goes on with the reconcile leaves of the versions.
LEMMA Stays ==
    ASSUME TypeOK, NEW n \in Names, NameOK(n), Busy(n), UNCHANGED <<resVars, copy, cache, envVars>>
    PROVE  /\ Seen(n)' = Seen(n) /\ copy'[n] = copy[n]
           /\ LastOK(n)' /\ OrderOK(n)'
           /\ created[n] # 0 /\ created[n] \in Nat
           /\ Exists(copy[n]) /\ copy[n].uid \in Nat /\ copy[n].uid <= created[n]
           /\ res[n].uid = 1 => created[n] = 1 /\ copy[n].uid = 1
  <1>1. Seen(n)' = Seen(n) /\ copy'[n] = copy[n]
    BY DEF Seen, resVars, envVars
  <1>2. LastOK(n)' /\ OrderOK(n)'
    BY <1>1, LastKept, OrderKept DEF NameOK
  <1>3. created[n] # 0 /\ created[n] \in Nat /\ copy[n] \in Resource /\ res[n] \in Resource
    BY Values DEF NameOK, CountOK
  <1>4. Exists(copy[n]) /\ copy[n].uid <= created[n] /\ copy[n].uid \in Nat
    BY <1>3, Uids DEF NameOK, CopyOK, CountOK
  <1>5. res[n].uid = 1 => created[n] = 1
    BY <1>3 DEF NameOK, CountOK
  <1> QED  BY <1>1, <1>2, <1>3, <1>4, <1>5 DEF Exists

\* The volume claim is created.
LEMMA InitName ==
    ASSUME TypeOK, NEW n \in Names, NameOK(n), InitResources(n), UNCHANGED <<cache, envVars>>
    PROVE  NameOK(n)'
  <1>1. /\ UNCHANGED <<res, watch, copy, pod, task, runs, done, faults, created>>
        /\ pc[n] = "Init" /\ pc'[n] \in {"idle", "CreatePod"}
    BY DEF InitResources, InitBackup, InitRestore, End, Goto, resVars, envVars, TypeOK
  <1>2. Busy(n) /\ copy[n].phase = "Initializing" /\ Exists(copy[n])
    BY <1>1 DEF Busy, NameOK, CopyOK
  <1>3. CopyOK(n)'
    BY <1>1, <1>2 DEF CopyOK
  <1>4. Seen(n)' = Seen(n) /\ LastOK(n)' /\ OrderOK(n)'
    BY <1>2, Stays DEF InitResources
  <1>5. CountOK(n)' /\ OnceOK(n)'
    BY <1>1, <1>2, <1>4, CountKept, OnceKept DEF NameOK, CountOK, OnceOK
  <1>6. OwnOK(n)'
    BY <1>1 DEF NameOK, OwnOK
  <1>7. GoodOK(n)'
    BY <1>1, <1>2 DEF NameOK, GoodOK, Good
  <1> QED  BY <1>3, <1>4, <1>5, <1>6, <1>7 DEF NameOK

\* A pod is created, or one of the name taken as it is.
LEMMA CreatePodName ==
    ASSUME TypeOK, NEW n \in Names, NameOK(n), CreatePod(n), UNCHANGED <<cache, envVars>>
    PROVE  NameOK(n)'
  <1>1. /\ UNCHANGED <<res, watch, copy, task, runs, done, faults, created>>
        /\ pc[n] = "CreatePod" /\ pc'[n] = "MarkInitialized"
    BY DEF CreatePod, Goto, resVars, envVars, TypeOK
  <1>2. Busy(n) /\ copy[n].phase = "Initializing" /\ Exists(copy[n])
    BY <1>1 DEF Busy, NameOK, CopyOK
  <1>3. CopyOK(n)'
    BY <1>1, <1>2 DEF CopyOK
  <1>4. /\ Seen(n)' = Seen(n) /\ LastOK(n)' /\ OrderOK(n)'
        /\ created[n] # 0 /\ created[n] \in Nat /\ copy[n].uid <= created[n] /\ copy[n].uid \in Nat
        /\ res[n].uid = 1 => created[n] = 1 /\ copy[n].uid = 1
    BY <1>2, Stays DEF CreatePod
  <1>5. \/ pod'[n] = pod[n] /\ pod[n] # NoPod
        \/ pod[n] = NoPod /\ pod'[n].state = "starting" /\ pod'[n].owner = copy[n].uid
    BY DEF CreatePod, TypeOK
  <1>6. created[n] = 1 => pod'[n].owner <= 1
    BY <1>4, <1>5 DEF NameOK, CountOK
  <1>7. runs[n][1] = 1 /\ pod'[n].owner = 1 => task'[n] # "none"
    <2>1. runs[n][1] = 1 => copy[n].uid # 1
      BY <1>2 DEF NameOK, OnceOK, Early
    <2> QED  BY <2>1, <1>1, <1>5 DEF NameOK, OnceOK
  <1>8. CountOK(n)'
    BY <1>1, <1>2, <1>4, <1>6, CountKept DEF NameOK
  <1>9. OnceOK(n)'
    BY <1>1, <1>2, <1>4, <1>7, OnceKept DEF NameOK
  <1>10. OwnOK(n)'
    BY <1>1, <1>4, <1>5 DEF NameOK, OwnOK, NoPod
  <1>11. GoodOK(n)'
    <2> SUFFICES ASSUME Good(n)' PROVE GoodOK(n)'
      BY DEF GoodOK
    <2>1. Good(n)
      BY <1>1 DEF Good
    <2>2. res[n].phase \notin {"Running", "Succeeded"}
      BY <2>1, <1>2 DEF NameOK, GoodOK
    <2>3. pod'[n].state = "terminated" => pod[n].state = "terminated"
      BY <1>5
    <2> QED  BY <2>1, <2>2, <2>3, <1>1, <1>2 DEF NameOK, GoodOK, Busy
  <1> QED  BY <1>3, <1>4, <1>8, <1>9, <1>10, <1>11 DEF NameOK

\* The operation is started: only where the pod has none yet.
LEMMA ExecuteName ==
    ASSUME TypeOK, NEW n \in Names, NameOK(n), Execute(n), UNCHANGED <<cache, envVars>>
    PROVE  NameOK(n)'
  <1>1. /\ UNCHANGED <<res, watch, copy, pod, done, created>>
        /\ pc[n] = "Execute"
        /\ faults \subseteq faults'
    BY DEF Execute, resVars, envVars, CallFails, Fault
  <1>2. Busy(n) /\ copy[n].phase = "Initialized" /\ Exists(copy[n])
    BY <1>1 DEF Busy, NameOK, CopyOK
  <1>3. \/ pc'[n] = "idle" /\ UNCHANGED <<task, runs>>
        \/ /\ pod[n].state = "ready"
           /\ \/ UNCHANGED <<task, runs>>
              \/ /\ task[n] = "none" /\ task'[n] = "running"
                 /\ runs' = [runs EXCEPT ![n][pod[n].owner] = @ + 1]
           /\ \/ pc'[n] = "MarkRunning"
              \/ pc'[n] = "MarkFailed" /\ ("call" \in faults' \/ task'[n] = "failed")
    BY DEF Execute, End, Goto, TypeOK, CallFails, Fault
  <1>4. CopyOK(n)'
    BY <1>1, <1>2, <1>3 DEF CopyOK
  <1>5. /\ Seen(n)' = Seen(n) /\ LastOK(n)' /\ OrderOK(n)'
        /\ created[n] # 0
    BY <1>2, Stays DEF Execute
  <1>6. CountOK(n)'
    BY <1>1, <1>2, <1>5, CountKept DEF NameOK, CountOK
  <1>7. runs[n] \in [Instance -> Nat] /\ pod[n].owner \in Instance /\ runs[n][1] \in Nat
    BY Numbers DEF TypeOK, ZeroPods
  <1>8. CASE UNCHANGED <<task, runs>>
    <2>1. OnceOK(n)'
      BY <1>1, <1>2, <1>5, <1>8, OnceKept DEF NameOK, OnceOK
    <2>2. OwnOK(n)'
      BY <1>1, <1>3, <1>8 DEF NameOK, OwnOK
    <2>3. GoodOK(n)'
      BY <1>1, <1>2, <1>3, <1>8 DEF NameOK, GoodOK, Good, Busy
    <2> QED  BY <1>4, <1>5, <1>6, <2>1, <2>2, <2>3 DEF NameOK
  <1>9. CASE /\ task[n] = "none" /\ task'[n] = "running" /\ pod[n].state = "ready"
             /\ runs' = [runs EXCEPT ![n][pod[n].owner] = @ + 1]
             /\ pc'[n] = "MarkRunning" \/ (pc'[n] = "MarkFailed" /\ "call" \in faults')
    <2>1. ASSUME pod[n].owner = 1 PROVE OnceOK(n)'
      <3>1. runs[n][1] = 0
        BY <1>7, <1>9, <2>1 DEF NameOK, OnceOK
      <3>2. runs'[n][1] = 1
        BY <1>7, <1>9, <2>1, <3>1 DEF TypeOK
      <3>3. ~Early(copy[n])
        BY <1>2 DEF Early
      <3>4. ~Early(cache[n]) /\ \A i \in DOMAIN watch[n] : ~Early(watch[n][i])
        BY <3>3, <1>2 DEF NameOK, OrderOK, Before
      <3> QED  BY <3>2, <3>3, <3>4, <1>1, <1>9 DEF OnceOK
    <2>2. ASSUME pod[n].owner # 1 PROVE OnceOK(n)'
      <3>1. runs'[n][1] = runs[n][1]
        BY <1>7, <1>9, <2>2, Numbers DEF TypeOK
      <3> QED  BY <3>1, <2>2, <1>1, <1>2 DEF NameOK, OnceOK
    <2>3. OnceOK(n)'
      BY <2>1, <2>2
    <2>4. OwnOK(n)'
      BY <1>1, <1>9 DEF NameOK, OwnOK
    <2>5. GoodOK(n)'
      <3>1. Good(n)' => Good(n) /\ pc'[n] = "MarkRunning"
        BY <1>1, <1>9 DEF Good
      <3> QED  BY <3>1, <1>1, <1>2, <1>9 DEF NameOK, GoodOK, Busy
    <2> QED  BY <1>4, <1>5, <1>6, <2>3, <2>4, <2>5 DEF NameOK
  <1> QED  BY <1>3, <1>8, <1>9

\* The answer of the pod's server decides between Succeeded and Failed.
LEMMA WaitName ==
    ASSUME TypeOK, NEW n \in Names, NameOK(n), Wait(n), UNCHANGED <<cache, envVars>>
    PROVE  NameOK(n)'
  <1>1. /\ UNCHANGED <<res, watch, copy, pod, task, runs, done, created>>
        /\ pc[n] = "Wait"
        /\ faults \subseteq faults'
    BY DEF Wait, resVars, podVars, envVars, CallFails, Fault
  <1>2. Busy(n) /\ copy[n].phase = "Running" /\ Exists(copy[n])
    BY <1>1 DEF Busy, NameOK, CopyOK
  <1>3. \/ pc'[n] = "idle"
        \/ pc'[n] = "MarkSucceeded" /\ task[n] = "done"
        \/ /\ pc'[n] = "MarkFailed"
           /\ pod[n].state # "ready" \/ task[n] = "failed" \/ "call" \in faults'
    BY DEF Wait, End, Goto, TypeOK, CallFails, Fault
  <1>4. CopyOK(n)'
    BY <1>1, <1>2, <1>3 DEF CopyOK
  <1>5. Seen(n)' = Seen(n) /\ LastOK(n)' /\ OrderOK(n)'
    BY <1>2, Stays DEF Wait
  <1>6. CountOK(n)' /\ OnceOK(n)'
    BY <1>1, <1>2, <1>5, CountKept, OnceKept DEF NameOK, CountOK, OnceOK
  <1>7. OwnOK(n)'
    BY <1>1, <1>3 DEF NameOK, OwnOK
  <1>8. GoodOK(n)'
    <2> SUFFICES ASSUME Good(n)' PROVE GoodOK(n)'
      BY DEF GoodOK
    <2>1. Good(n)
      BY <1>1 DEF Good
    <2>2. res[n].phase \in {"Running", "Succeeded"}
      BY <2>1, <1>2, LastGood DEF NameOK, GoodOK, InOrder
    <2>3. pod[n].state = "ready"
      BY <2>1, <2>2, <1>2 DEF NameOK, GoodOK
    <2>4. pc'[n] # "MarkFailed"
      BY <1>1, <1>3, <2>3 DEF Good
    <2> QED  BY <2>1, <2>4, <1>1, <1>2, <1>3 DEF NameOK, GoodOK, Busy
  <1> QED  BY <1>4, <1>5, <1>6, <1>7, <1>8 DEF NameOK

\* A pod that terminates.
LEMMA TerminatedAt ==
    ASSUME TypeOK, NEW n \in Names, Terminated(n)
    PROVE  /\ pod'[n].state = "terminated" /\ pod'[n].owner = pod[n].owner
           /\ task'[n] = IF task[n] = "running" THEN "failed" ELSE task[n]
  BY Values, PodType DEF TypeOK, Terminated

\* The pod is removed after the end.
LEMMA CleanupName ==
    ASSUME TypeOK, NEW n \in Names, NameOK(n), Cleanup(n), UNCHANGED <<cache, envVars>>
    PROVE  NameOK(n)'
  <1>1. /\ UNCHANGED <<res, watch, copy, runs, done, created>>
        /\ pc[n] = "Cleanup" /\ pc'[n] = "idle"
        /\ faults \subseteq faults'
    BY DEF Cleanup, resVars, envVars, CallFails, Fault, End, TypeOK
  <1>2. Busy(n) /\ copy[n].phase \in Ended /\ ~Busy(n)'
    BY <1>1 DEF Busy, NameOK, CopyOK
  <1>3. CASE UNCHANGED <<pod, task>>
    BY <1>1, <1>2, <1>3, EndName
  <1>4. CASE Terminated(n) /\ pod[n].state = "ready"
    <2>1. /\ pod'[n].state = "terminated" /\ pod'[n].owner = pod[n].owner
          /\ task'[n] = IF task[n] = "running" THEN "failed" ELSE task[n]
      BY <1>4, TerminatedAt
    <2>2. CopyOK(n)'
      BY <1>1 DEF CopyOK, Busy
    <2>3. Seen(n)' = Seen(n) /\ LastOK(n)' /\ OrderOK(n)' /\ created[n] # 0
      BY <1>2, Stays DEF Cleanup
    <2>4. CountOK(n)'
      BY <1>1, <1>2, <2>1, <2>3, CountKept DEF NameOK, CountOK
    <2>5. OnceOK(n)'
      BY <1>1, <1>2, <2>1, <2>3, OnceKept DEF NameOK, OnceOK
    <2>6. OwnOK(n)'
      BY <1>1, <1>4, <2>1 DEF NameOK, OwnOK
    <2>7. GoodOK(n)'
      <3> SUFFICES ASSUME Good(n)' PROVE GoodOK(n)'
        BY DEF GoodOK
      <3>1. Good(n)
        BY <1>1, <2>1 DEF Good
      <3>2. cache[n].phase = "Succeeded"
        BY <3>1, <1>2 DEF NameOK, GoodOK, InOrder, Ended
      <3> QED  BY <3>1, <3>2, <1>1, <2>1 DEF NameOK, GoodOK, Busy
    <2> QED  BY <2>2, <2>3, <2>4, <2>5, <2>6, <2>7 DEF NameOK
  <1> QED  BY <1>3, <1>4 DEF Cleanup

\* The controller's steps, all of them.
LEMMA ControllerName ==
    ASSUME TypeOK, NEW n \in Names, NameOK(n), Controller(n)
    PROVE  NameOK(n)'
  <1>1. UNCHANGED <<cache, envVars>>
    BY DEF Controller
  <1>2. ASSUME UNCHANGED <<podVars, faults>>
        PROVE  UNCHANGED <<podVars, faults, cache, envVars>>
    BY <1>1, <1>2
  <1>3. ASSUME Accept(n) PROVE NameOK(n)'
    <2>1. Writes(n, "Initializing")
      BY <1>3 DEF Accept, Writes
    <2> QED  BY <1>2, <1>3, <2>1, UpdateName DEF Accept
  <1>4. ASSUME MarkInitialized(n) PROVE NameOK(n)'
    <2>1. Writes(n, "Initialized")
      BY <1>4 DEF MarkInitialized, Writes
    <2> QED  BY <1>2, <1>4, <2>1, UpdateName DEF MarkInitialized
  <1>5. ASSUME MarkRunning(n) PROVE NameOK(n)'
    <2>1. Writes(n, "Running")
      BY <1>5 DEF MarkRunning, Writes
    <2> QED  BY <1>2, <1>5, <2>1, UpdateName DEF MarkRunning
  <1>6. ASSUME MarkSucceeded(n) PROVE NameOK(n)'
    <2>1. Writes(n, "Succeeded")
      BY <1>6 DEF MarkSucceeded, Writes
    <2> QED  BY <1>2, <1>6, <2>1, UpdateName DEF MarkSucceeded
  <1>7. ASSUME MarkFailed(n) PROVE NameOK(n)'
    <2>1. Writes(n, "Failed")
      BY <1>7 DEF MarkFailed, Writes
    <2> QED  BY <1>2, <1>7, <2>1, UpdateName DEF MarkFailed
  <1>8. ASSUME Reconcile(n) PROVE NameOK(n)'
    BY <1>1, <1>8, ReconcileName
  <1>9. ASSUME InitResources(n) PROVE NameOK(n)'
    BY <1>1, <1>9, InitName
  <1>10. ASSUME CreatePod(n) PROVE NameOK(n)'
    BY <1>1, <1>10, CreatePodName
  <1>11. ASSUME Execute(n) PROVE NameOK(n)'
    BY <1>1, <1>11, ExecuteName
  <1>12. ASSUME Wait(n) PROVE NameOK(n)'
    BY <1>1, <1>12, WaitName
  <1>13. ASSUME Cleanup(n) PROVE NameOK(n)'
    BY <1>1, <1>13, CleanupName
  <1> QED
    BY <1>3, <1>4, <1>5, <1>6, <1>7, <1>8, <1>9, <1>10, <1>11, <1>12, <1>13 DEF Controller, Step

-----------------------------------------------------------------------------
(***************************************************************************)
(* The steps of the others, for the name they are of.                      *)
(***************************************************************************)

\* A new version after which no version is of the first resource.
LEMMA ReplacedName ==
    ASSUME TypeOK, NEW n \in Names, NameOK(n), NEW new \in Resource,
           res'[n] = new, watch'[n] = Append(watch[n], new), new.uid # 1,
           UNCHANGED <<cache, pc, copy, pod, task, runs, done>>,
           created'[n] \in Nat, created[n] <= created'[n], 2 <= created'[n] \/ created'[n] = created[n],
           new.uid \in {0, created'[n]}, new.uid = 0 => new = NoResource,
           created'[n] # 0
    PROVE  NameOK(n)'
  <1> DEFINE w == Append(watch[n], new)
  <1>1. /\ watch[n] \in Seq(Resource) /\ cache[n] \in Resource /\ copy[n] \in Resource
        /\ created[n] \in Nat
        /\ \A i \in DOMAIN watch[n] : watch[n][i] \in Resource
    BY Values
  <1>2. /\ w # <<>> /\ w[Len(w)] = new
        /\ \A i \in DOMAIN w : i = Len(w) \/ (i \in DOMAIN watch[n] /\ w[i] = watch[n][i])
        /\ w \in Seq(Resource)
    BY <1>1, Appended, AppendProperties
  <1>3. watch'[n] = w
    OBVIOUS
  <1>4. DOMAIN w = 1..Len(w) /\ Len(w) \in Nat
    BY <1>2
  <1> HIDE DEF w
  <1>5. \A i \in DOMAIN w : w[i] = new \/ (i \in DOMAIN watch[n] /\ w[i] = watch[n][i])
    BY <1>2
  <1>6. \A i, j \in DOMAIN w : i < j =>
            /\ i \in DOMAIN watch[n] /\ w[i] = watch[n][i]
            /\ w[j] = new \/ (j \in DOMAIN watch[n] /\ w[j] = watch[n][j])
    BY <1>2, <1>4
  <1>7. ~Early(new) /\ ~Fresh(new)
    BY DEF Early, Fresh
  <1>8. CopyOK(n)'
    BY DEF NameOK, CopyOK, Busy
  <1>9. CountOK(n)'
    <2>1. cache'[n].uid <= created'[n]
      BY <1>1, Uids DEF NameOK, CountOK
    <2>2. Busy(n)' => copy'[n].uid <= created'[n]
      BY <1>1, Uids DEF NameOK, CountOK, Busy
    <2>3. new.uid <= created'[n]
      OBVIOUS
    <2>4. \A i \in DOMAIN watch[n] : watch[n][i].uid <= created'[n]
      BY <1>1, Uids DEF NameOK, CountOK
    <2>5. \A i \in DOMAIN watch'[n] : watch'[n][i].uid <= created'[n]
      BY <2>3, <2>4, <1>3, <1>5
    <2>6. created'[n] = 1 => pod'[n].owner <= 1
      BY DEF NameOK, CountOK
    <2> QED  BY <2>1, <2>2, <2>5, <2>6 DEF CountOK
  <1>10. LastOK(n)'
    BY <1>2, <1>3 DEF LastOK
  <1>11. OrderOK(n)'
    <2>1. \A v : Before(v, new)
      BY <1>7 DEF Before
    <2>2. /\ \A i \in DOMAIN watch'[n] : Before(cache'[n], watch'[n][i])
          /\ Busy(n)' => Before(copy'[n], cache'[n]) /\ \A i \in DOMAIN watch'[n] : Before(copy'[n], watch'[n][i])
      BY <2>1, <1>3, <1>5 DEF NameOK, OrderOK, Busy
    <2>3. \A i, j \in DOMAIN watch'[n] : i < j => Before(watch'[n][i], watch'[n][j])
      BY <2>1, <1>3, <1>6 DEF NameOK, OrderOK
    <2> QED  BY <2>2, <2>3 DEF OrderOK
  <1>12. OnceOK(n)'
    BY <1>3, <1>5, <1>7 DEF NameOK, OnceOK, Busy
  <1>13. OwnOK(n)' /\ GoodOK(n)'
    BY DEF NameOK, OwnOK, GoodOK, Good
  <1> QED  BY <1>8, <1>9, <1>10, <1>11, <1>12, <1>13 DEF NameOK

\* A new resource.
LEMMA FreshFacts ==
    ASSUME NEW r, Fresh(r)
    PROVE  r.uid = 1 /\ Early(r) /\ r.phase \notin {"Running", "Succeeded", "Failed"}
  BY DEF Fresh, Early

\* No resource, and no pod.
LEMMA NoneFacts ==
    /\ NoResource.uid = 0 /\ NoResource.phase \notin {"Running", "Succeeded", "Failed"}
    /\ NoPod.state = "none" /\ NoPod.owner = 0
  <1>1. NoResource.uid = 0 /\ NoResource.phase = ""
    BY DEF NoResource
  <1>2. NoPod.state = "none" /\ NoPod.owner = 0
    BY DEF NoPod
  <1> QED  BY <1>1, <1>2

\* The first resource of a name.
LEMMA FirstName ==
    ASSUME TypeOK, NEW n \in Names, NameOK(n), NEW first \in Resource, created[n] = 0,
           Fresh(first),
           res'[n] = first, watch'[n] = Append(watch[n], first), created'[n] = 1,
           UNCHANGED <<cache, pc, pod, task, runs, done>>
    PROVE  NameOK(n)'
  <1>0. first.uid = 1 /\ Early(first) /\ first.phase \notin {"Running", "Succeeded", "Failed"}
    BY FreshFacts
  <1>1. /\ watch[n] = <<>> /\ cache[n] = NoResource /\ pc[n] = "idle"
        /\ pod[n] = NoPod /\ task[n] = "none" /\ done[n] = {} /\ runs[n][1] = 0
    BY DEF NameOK, CountOK, Busy
  <1>2. watch'[n] = <<first>>
    BY <1>1
  <1>3. watch'[n] # <<>> /\ Len(watch'[n]) = 1 /\ watch'[n][1] = first
    BY <1>2
  <1>4. \A i \in DOMAIN watch'[n] : i = 1 /\ watch'[n][i] = first
    BY <1>2
  <1>5. ~Busy(n)' /\ pc'[n] = "idle"
    BY <1>1 DEF Busy
  <1>6. /\ cache'[n].uid = 0 /\ cache'[n] = NoResource
        /\ cache'[n].phase \notin {"Running", "Succeeded", "Failed"}
    BY <1>1, NoneFacts
  <1>7. pod'[n].state = "none" /\ pod'[n].owner = 0 /\ pod'[n] = NoPod
    BY <1>1, NoneFacts
  <1>8. task'[n] = "none" /\ done'[n] = {} /\ runs'[n][1] = 0
    BY <1>1
  <1>9. CopyOK(n)'
    BY <1>5 DEF CopyOK
  <1>10. LastOK(n)'
    BY <1>3 DEF LastOK
  <1>11. CountOK(n)'
    BY <1>0, <1>4, <1>5, <1>6, <1>7, <1>8 DEF CountOK
  <1>12. OrderOK(n)'
    BY <1>0, <1>4, <1>5, <1>6 DEF OrderOK, Before, Exists
  <1>13. OnceOK(n)'
    BY <1>8 DEF OnceOK
  <1>14. OwnOK(n)'
    BY <1>0, <1>5, <1>7, <1>8 DEF OwnOK
  <1>15. GoodOK(n)'
    BY <1>0, <1>4, <1>5, <1>6, <1>7 DEF GoodOK, InOrder
  <1> QED  BY <1>9, <1>10, <1>11, <1>12, <1>13, <1>14, <1>15 DEF NameOK

\* The name is used, perhaps again.
LEMMA UserCreatesName ==
    ASSUME TypeOK, NEW n \in Names, NameOK(n), UserCreates(n)
    PROVE  NameOK(n)'
  <1>1. /\ UNCHANGED <<cache, pc, copy, pod, task, runs, done, faults>>
        /\ created[n] \in Nat /\ created'[n] = created[n] + 1 /\ created'[n] \in Instance
        /\ res[n].uid = 0
    <2>1. created[n] + 1 \in Instance
      BY LimitsAssumption DEF UserCreates, MayCreate, TypeOK, Instance
    <2> QED  BY <2>1, Values DEF UserCreates, podVars, TypeOK, Exists
  <1>2. PICK new \in Resource : /\ new.uid = created[n] + 1 /\ Store(n, new)
                                /\ new.uid = 1 => Fresh(new)
    <2>1. /\ [NoResource EXCEPT !.uid = created'[n]] \in Resource
          /\ [NoResource EXCEPT !.uid = created'[n]].uid = created[n] + 1
          /\ [NoResource EXCEPT !.uid = created'[n]].phase = ""
      BY <1>1, NoneType DEF Resource, NoResource
    <2> QED  BY <2>1 DEF UserCreates, Fresh
  <1>3. new.uid = created[n] + 1 /\ new.uid # 0
    BY <1>1, <1>2
  <1>4. new # res[n]
    BY <1>1, <1>3
  <1>5. res'[n] = new /\ watch'[n] = Append(watch[n], new)
    BY <1>2, <1>4 DEF Store, TypeOK
  <1>6. CASE created[n] # 0
    <2>1. 2 <= created'[n] /\ created'[n] # 0 /\ created[n] <= created'[n] /\ created'[n] \in Nat
      BY <1>1, <1>6
    <2>2. new.uid = created'[n] /\ new.uid # 1
      BY <1>1, <1>3, <1>6
    <2> QED  BY <1>1, <1>3, <1>5, <2>1, <2>2, ReplacedName
  <1>7. CASE created[n] = 0
    <2>1. created'[n] = 1 /\ Fresh(new)
      BY <1>1, <1>2, <1>3, <1>7
    <2> QED  BY <1>1, <1>5, <1>7, <2>1, FirstName
  <1> QED  BY <1>6, <1>7

\* The resource goes, its pod stays for the garbage collector.
LEMMA UserDeletesName ==
    ASSUME TypeOK, NEW n \in Names, NameOK(n), UserDeletes(n)
    PROVE  NameOK(n)'
  <1>1. /\ UNCHANGED <<cache, pc, copy, pod, task, runs, done, created>>
        /\ created[n] \in Nat /\ Exists(res[n])
    BY Values DEF UserDeletes, podVars
  <1>2. NoResource \in Resource /\ NoResource.uid = 0
    BY NoneType DEF NoResource
  <1>3. NoResource # res[n]
    BY <1>1, <1>2 DEF Exists
  <1>4. res'[n] = NoResource /\ watch'[n] = Append(watch[n], NoResource)
    BY <1>3 DEF UserDeletes, Store, TypeOK
  <1>5. created[n] # 0
    BY <1>1, Values, Uids DEF NameOK, CountOK, Exists
  <1> QED  BY <1>1, <1>2, <1>4, <1>5, ReplacedName

\* The cache gets the next version.
LEMMA InformerName ==
    ASSUME TypeOK, NEW n \in Names, NameOK(n), InformerDelivers(n)
    PROVE  NameOK(n)'
  <1> DEFINE s == watch[n]
             t == Tail(watch[n])
  <1>1. /\ UNCHANGED <<res, pc, copy, pod, task, runs, done, created, faults>>
        /\ s # <<>> /\ cache'[n] = Head(s) /\ watch'[n] = t
    BY DEF InformerDelivers, podVars, envVars, TypeOK
  <1>2. /\ Head(s) = s[1] /\ 1 \in DOMAIN s
        /\ \A i \in DOMAIN t : i \in Nat /\ i + 1 \in DOMAIN s /\ 1 < i + 1 /\ t[i] = s[i + 1]
        /\ t = <<>> => Len(s) = 1
        /\ t # <<>> => t[Len(t)] = s[Len(s)]
    BY <1>1, Values, Delivered
  <1>3. \A i \in DOMAIN s : i \in Int
    BY Values
  <1> HIDE DEF s, t
  <1>4. watch[n] = s
    BY DEF s
  <1>5. \A i, j \in DOMAIN t : i < j => i + 1 < j + 1
    BY <1>2
  <1>6. CopyOK(n)'
    BY <1>1 DEF NameOK, CopyOK, Busy
  <1>7. LastOK(n)'
    BY <1>1, <1>2, <1>4 DEF NameOK, LastOK
  <1>8. CountOK(n)'
    BY <1>1, <1>2, <1>4 DEF NameOK, CountOK, Busy
  <1>9. OrderOK(n)'
    <2>1. /\ Busy(n)' => Before(copy'[n], cache'[n]) /\ \A i \in DOMAIN t : Before(copy'[n], t[i])
          /\ \A i \in DOMAIN t : Before(cache'[n], t[i])
      BY <1>1, <1>2, <1>4 DEF NameOK, OrderOK, Busy
    <2>2. \A i, j \in DOMAIN t : i < j => Before(t[i], t[j])
      BY <1>2, <1>4, <1>5 DEF NameOK, OrderOK
    <2>3. res'[n].uid = 1 /\ ~Early(res'[n]) => ~Fresh(cache'[n]) /\ (Busy(n)' => ~Fresh(copy'[n]))
      <3> SUFFICES ASSUME res[n].uid = 1, ~Early(res[n])
                   PROVE  ~Fresh(cache'[n]) /\ (Busy(n)' => ~Fresh(copy'[n]))
        BY <1>1
      <3>1. ~Fresh(cache[n]) /\ (Busy(n) => ~Fresh(copy[n]))
        BY DEF NameOK, OrderOK
      <3>2. Exists(cache[n])
        BY DEF NameOK, CountOK, Early, Fresh, Exists
      <3>3. Before(cache[n], s[1])
        BY <1>2, <1>4 DEF NameOK, OrderOK
      <3> QED  BY <3>1, <3>2, <3>3, <1>1, <1>2 DEF Before, Busy
    <2> QED  BY <2>1, <2>2, <2>3, <1>1 DEF OrderOK
  <1>10. OnceOK(n)'
    BY <1>1, <1>2, <1>4 DEF NameOK, OnceOK, Busy
  <1>11. OwnOK(n)'
    BY <1>1 DEF NameOK, OwnOK
  <1>12. GoodOK(n)'
    <2> SUFFICES ASSUME Good(n)' PROVE GoodOK(n)'
      BY DEF GoodOK
    <2>1. Good(n) /\ res[n].uid = 1
      BY <1>1 DEF Good
    <2>2. InOrder(cache[n].phase, s[1].phase)
      BY <1>2, <1>4, <2>1 DEF NameOK, GoodOK
    <2>3. s[1].phase # "Failed" /\ (Busy(n) => InOrder(copy[n].phase, s[1].phase))
      BY <2>1, <2>2 DEF NameOK, GoodOK, InOrder
    <2>4. \A i \in DOMAIN t : InOrder(s[1].phase, t[i].phase)
      BY <1>2, <1>4, <2>1 DEF NameOK, GoodOK
    <2>5. \A i, j \in DOMAIN t : i < j => InOrder(t[i].phase, t[j].phase)
      BY <1>2, <1>4, <1>5, <2>1 DEF NameOK, GoodOK
    <2>6. res[n].phase \in {"Running", "Succeeded"} => s[1].phase \notin {"", "Initializing"}
      <3> SUFFICES ASSUME res[n].phase \in {"Running", "Succeeded"} PROVE s[1].phase \notin {"", "Initializing"}
        OBVIOUS
      <3>1. Exists(cache[n])
        BY <2>1 DEF NameOK, CountOK, Fresh, Exists
      <3>2. cache[n].phase \notin {"", "Initializing"}
        BY <2>1 DEF NameOK, GoodOK
      <3>3. Before(cache[n], s[1]) /\ s[1].uid = 1
        BY <1>2, <1>4, <2>1 DEF NameOK, OrderOK, CountOK
      <3> QED  BY <3>1, <3>2, <3>3 DEF Before, Early
    <2>7. res[n].phase = "Succeeded" => s[1].phase \in {"Running", "Succeeded"}
      BY <2>1, <2>2 DEF NameOK, GoodOK, InOrder
    <2>8. pod[n].state = "terminated" => s[1].phase = "Succeeded"
      BY <2>1, <2>2 DEF NameOK, GoodOK, InOrder
    <2> QED  BY <2>1, <2>3, <2>4, <2>5, <2>6, <2>7, <2>8, <1>1, <1>2 DEF NameOK, GoodOK, Busy
  <1> QED  BY <1>6, <1>7, <1>8, <1>9, <1>10, <1>11, <1>12 DEF NameOK

\* A change of the pod and of its task that leaves the versions alone.
LEMMA PodName ==
    ASSUME TypeOK, NEW n \in Names, NameOK(n), Seen(n)' = Seen(n),
           UNCHANGED <<pc, copy, runs>>,
           created[n] # 0, created[n] = 1 => pod'[n].owner <= 1,
           runs[n][1] = 1 /\ pod'[n].owner = 1 => task'[n] # "none",
           OwnOK(n)', GoodOK(n)'
    PROVE  NameOK(n)'
  <1>1. Busy(n)' => Busy(n) /\ copy'[n] = copy[n]
    BY DEF Busy
  <1>2. CopyOK(n)'
    BY DEF NameOK, CopyOK, Busy
  <1>3. LastOK(n)' /\ OrderOK(n)'
    BY <1>1, LastKept, OrderKept DEF NameOK
  <1>4. CountOK(n)'
    BY <1>1, CountKept DEF NameOK
  <1>5. OnceOK(n)'
    BY <1>1, OnceKept DEF NameOK
  <1> QED  BY <1>2, <1>3, <1>4, <1>5 DEF NameOK

\* What a deleted instance owned goes.
LEMMA GarbageName ==
    ASSUME TypeOK, NEW n \in Names, NameOK(n), GarbageCollected(n)
    PROVE  NameOK(n)'
  <1>1. UNCHANGED <<res, watch, cache, pc, copy, runs, done, created, faults>>
    BY DEF GarbageCollected, resVars, envVars
  <1>2. CASE UNCHANGED <<pod, task>>
    BY <1>1, <1>2, Framed DEF Local
  <1>3. CASE /\ pod[n] # NoPod /\ pod[n].owner # res[n].uid
             /\ pod'[n] = NoPod /\ task'[n] = "none"
    <2>1. created[n] # 0
      BY <1>3 DEF NameOK, CountOK
    <2>2. res[n].uid # 1
      BY <1>3 DEF NameOK, OwnOK
    <2>3. NoPod.owner = 0 /\ NoPod.state = "none"
      BY DEF NoPod
    <2>4. OwnOK(n)'
      BY <1>1, <1>3, <2>2 DEF OwnOK
    <2>5. GoodOK(n)'
      BY <1>1, <2>2 DEF GoodOK, Good
    <2>6. Seen(n)' = Seen(n)
      BY <1>1 DEF Seen
    <2> QED  BY <1>1, <1>3, <2>1, <2>3, <2>4, <2>5, <2>6, PodName
  <1>4. \/ UNCHANGED <<pod, task>>
        \/ /\ pod[n] # NoPod /\ pod[n].owner # res[n].uid
           /\ pod'[n] = NoPod /\ task'[n] = "none"
    BY DEF GarbageCollected, TypeOK
  <1> QED  BY <1>2, <1>3, <1>4

\* The pod's server answers.
LEMMA PodReadyName ==
    ASSUME TypeOK, NEW n \in Names, NameOK(n), PodReady(n)
    PROVE  NameOK(n)'
  <1>1. /\ UNCHANGED <<res, watch, cache, pc, copy, task, runs, done, created, faults>>
        /\ pod[n].state = "starting"
    BY DEF PodReady, resVars, envVars
  <1>2. pod'[n].state = "ready" /\ pod'[n].owner = pod[n].owner
    BY Values, PodType DEF PodReady, TypeOK
  <1>3. created[n] # 0 /\ (created[n] = 1 => pod'[n].owner <= 1)
    BY <1>1, <1>2 DEF NameOK, CountOK, NoPod
  <1>4. OwnOK(n)'
    BY <1>1, <1>2 DEF NameOK, OwnOK
  <1>5. GoodOK(n)'
    BY <1>1, <1>2 DEF NameOK, GoodOK, Good, Busy
  <1>6. Seen(n)' = Seen(n)
    BY <1>1 DEF Seen
  <1>7. runs[n][1] = 1 /\ pod'[n].owner = 1 => task'[n] # "none"
    BY <1>1, <1>2 DEF NameOK, OnceOK
  <1> QED  BY <1>1, <1>3, <1>4, <1>5, <1>6, <1>7, PodName

\* The operation completes or fails.
LEMMA TaskEndsName ==
    ASSUME TypeOK, NEW n \in Names, NameOK(n), TaskEnds(n)
    PROVE  NameOK(n)'
  <1>1. /\ UNCHANGED <<res, watch, cache, pc, copy, pod, runs, created, faults>>
        /\ task[n] = "running" /\ pod[n].state = "ready"
    BY DEF TaskEnds, resVars, envVars
  <1>2. \/ task'[n] = "done" /\ done'[n] = done[n] \cup {pod[n].owner}
        \/ task'[n] = "failed" /\ done'[n] = done[n]
    BY DEF TaskEnds, TypeOK
  <1>3. created[n] # 0 /\ (created[n] = 1 => pod'[n].owner <= 1)
    BY <1>1 DEF NameOK, CountOK
  <1>4. OwnOK(n)'
    BY <1>1, <1>2 DEF NameOK, OwnOK
  <1>5. GoodOK(n)'
    BY <1>1, <1>2 DEF NameOK, GoodOK, Good, Busy
  <1>6. Seen(n)' = Seen(n)
    BY <1>1 DEF Seen
  <1> QED  BY <1>1, <1>2, <1>3, <1>4, <1>5, <1>6, PodName

\* The pod is lost.
LEMMA EvictedName ==
    ASSUME TypeOK, NEW n \in Names, NameOK(n), PodEvicted(n)
    PROVE  NameOK(n)'
  <1>1. /\ UNCHANGED <<res, watch, cache, pc, copy, runs, done, created>>
        /\ pod[n].state \in {"starting", "ready"} /\ "evict" \in faults'
    BY DEF PodEvicted, Fault, resVars, envVars
  <1>2. /\ pod'[n].state = "terminated" /\ pod'[n].owner = pod[n].owner
        /\ task'[n] = IF task[n] = "running" THEN "failed" ELSE task[n]
    BY TerminatedAt DEF PodEvicted
  <1>3. created[n] # 0 /\ (created[n] = 1 => pod'[n].owner <= 1)
    BY <1>1, <1>2 DEF NameOK, CountOK, NoPod
  <1>4. OwnOK(n)'
    BY <1>1, <1>2 DEF NameOK, OwnOK
  <1>5. GoodOK(n)'
    BY <1>1 DEF GoodOK, Good
  <1>6. Seen(n)' = Seen(n)
    BY <1>1 DEF Seen
  <1>7. runs[n][1] = 1 /\ pod'[n].owner = 1 => task'[n] # "none"
    BY <1>1, <1>2 DEF NameOK, OnceOK
  <1> QED  BY <1>1, <1>3, <1>4, <1>5, <1>6, <1>7, PodName

\* A new operator process starts from what the API server has.
LEMMA CrashName ==
    ASSUME TypeOK, NEW n \in Names, NameOK(n), OperatorCrashes
    PROVE  NameOK(n)'
  <1>1. /\ UNCHANGED <<res, copy, pod, task, runs, done, created>>
        /\ pc'[n] = "idle" /\ cache'[n] = res[n] /\ watch'[n] = <<>>
        /\ faults \subseteq faults'
    BY DEF OperatorCrashes, podVars, envVars, Fault, TypeOK
  <1>2. ~Busy(n)' /\ DOMAIN watch'[n] = {}
    BY <1>1 DEF Busy
  <1>3. CopyOK(n)'
    BY <1>1, <1>2 DEF CopyOK
  <1>4. LastOK(n)'
    BY <1>1 DEF LastOK
  <1>5. CountOK(n)'
    <2>1. res[n].uid <= created[n]
      BY Values DEF NameOK, CountOK
    <2> QED  BY <1>1, <1>2, <2>1 DEF NameOK, CountOK
  <1>6. OrderOK(n)'
    BY <1>1, <1>2 DEF OrderOK, Fresh, Early
  <1>7. OnceOK(n)'
    BY <1>1, <1>2, LastOnce DEF NameOK, OnceOK
  <1>8. OwnOK(n)'
    BY <1>1 DEF NameOK, OwnOK
  <1>9. GoodOK(n)'
    <2> SUFFICES ASSUME Good(n)' PROVE GoodOK(n)'
      BY DEF GoodOK
    <2>1. Good(n)
      BY <1>1 DEF Good
    <2>2. res[n].phase # "Failed" /\ InOrder(cache[n].phase, res[n].phase)
      BY <2>1, LastGood DEF NameOK
    <2>3. pod[n].state = "terminated" => res[n].phase = "Succeeded"
      BY <2>1, <2>2 DEF NameOK, GoodOK, InOrder
    <2> QED  BY <2>1, <2>2, <2>3, <1>1, <1>2 DEF NameOK, GoodOK
  <1> QED  BY <1>3, <1>4, <1>5, <1>6, <1>7, <1>8, <1>9 DEF NameOK

-----------------------------------------------------------------------------
(***************************************************************************)
(* The theorems.                                                           *)
(***************************************************************************)
LEMMA NameInit == ASSUME Init, NEW n \in Names PROVE NameOK(n)
  <1>1. /\ res[n] = NoResource /\ watch[n] = <<>> /\ cache[n] = NoResource /\ pc[n] = "idle"
        /\ pod[n] = NoPod /\ task[n] = "none" /\ created[n] = 0 /\ done[n] = {}
        /\ runs[n][1] = 0
    BY Numbers DEF Init
  <1>2. ~Busy(n) /\ DOMAIN watch[n] = {}
    BY <1>1 DEF Busy
  <1>3. /\ res[n].uid = 0 /\ cache[n].uid = 0
        /\ pod[n].state = "none" /\ pod[n].owner = 0
    BY <1>1, NoneFacts
  <1>4. CopyOK(n) /\ LastOK(n)
    BY <1>1, <1>2 DEF CopyOK, LastOK
  <1>5. CountOK(n)
    BY <1>1, <1>2, <1>3 DEF CountOK
  <1>6. OrderOK(n) /\ OnceOK(n)
    BY <1>1, <1>2, <1>3 DEF OrderOK, OnceOK
  <1>7. OwnOK(n) /\ GoodOK(n)
    BY <1>1, <1>3 DEF OwnOK, GoodOK, Good
  <1> QED  BY <1>4, <1>5, <1>6, <1>7 DEF NameOK

\* What a step of one name leaves of another.
LEMMA OtherLocal ==
    ASSUME TypeOK, NEW n \in Names, NEW m \in Names, m # n,
           \/ Controller(n) \/ UserCreates(n) \/ UserDeletes(n)
           \/ InformerDelivers(n) \/ GarbageCollected(n) \/ PodReady(n)
           \/ TaskEnds(n) \/ PodEvicted(n)
    PROVE  Local(m)' = Local(m) /\ faults \subseteq faults'
  <1>1. ASSUME Reconcile(n) PROVE UNCHANGED <<resVars, podVars, faults>> /\ <<pc[m], copy[m]>>' = <<pc[m], copy[m]>>
    BY <1>1 DEF Reconcile, TypeOK
  <1>2. ASSUME \/ \E s : Goto(n, s)
               \/ \E r : End(n, r)
        PROVE  pc'[m] = pc[m]
    BY <1>2 DEF Goto, End, TypeOK
  <1>3. ASSUME NEW r, Store(n, r) PROVE <<res[m], watch[m]>>' = <<res[m], watch[m]>>
    BY <1>3 DEF Store, TypeOK
  <1>4. ASSUME NEW p, UpdatePhase(n, p) PROVE <<res[m], watch[m], copy[m], pc[m]>>' = <<res[m], watch[m], copy[m], pc[m]>>
    <2>1. copy'[m] = copy[m]
      BY <1>4 DEF UpdatePhase, TypeOK
    <2>2. pc'[m] = pc[m]
      BY <1>4, <1>2 DEF UpdatePhase
    <2>3. UNCHANGED resVars \/ Store(n, [res[n] EXCEPT !.phase = p])
      BY <1>4 DEF UpdatePhase
    <2>4. <<res[m], watch[m]>>' = <<res[m], watch[m]>>
      <3>1. CASE UNCHANGED resVars
        BY <3>1 DEF resVars
      <3>2. CASE Store(n, [res[n] EXCEPT !.phase = p])
        BY <3>2 DEF Store, TypeOK
      <3> QED  BY <2>3, <3>1, <3>2
    <2> QED  BY <2>1, <2>2, <2>4
  <1>5. ASSUME NEW k, Fault(k) PROVE faults \subseteq faults'
    BY <1>5 DEF Fault
  <1>6. ASSUME Terminated(n) PROVE <<pod[m], task[m]>>' = <<pod[m], task[m]>>
    BY <1>6 DEF Terminated, TypeOK
  <1>a. CASE Controller(n)
    <2>0. UNCHANGED <<cache, created>>
      BY <1>a DEF Controller, envVars
    <2>1. CASE Reconcile(n)
      BY <2>0, <2>1, <1>1 DEF Local, resVars, podVars
    <2>2. CASE \E p : UpdatePhase(n, p) /\ UNCHANGED <<podVars, faults>>
      BY <2>0, <2>2, <1>4 DEF Local, podVars
    <2>3. CASE InitResources(n)
      <3>1. pc'[m] = pc[m]
        BY <2>3, <1>2 DEF InitResources, InitBackup, InitRestore
      <3> QED  BY <2>0, <2>3, <3>1 DEF Local, InitResources, resVars
    <2>4. CASE CreatePod(n)
      <3>1. pc'[m] = pc[m]
        BY <2>4, <1>2 DEF CreatePod
      <3>2. pod'[m] = pod[m]
        BY <2>4 DEF CreatePod, TypeOK
      <3> QED  BY <2>0, <2>4, <3>1, <3>2 DEF Local, CreatePod, resVars
    <2>5. CASE Execute(n)
      <3>1. pc'[m] = pc[m]
        BY <2>5, <1>2 DEF Execute
      <3>2. task'[m] = task[m] /\ runs'[m] = runs[m]
        BY <2>5 DEF Execute, TypeOK
      <3>3. faults \subseteq faults'
        BY <2>5, <1>5 DEF Execute, CallFails
      <3> QED  BY <2>0, <2>5, <3>1, <3>2, <3>3 DEF Local, Execute, resVars
    <2>6. CASE Wait(n)
      <3>1. pc'[m] = pc[m]
        BY <2>6, <1>2 DEF Wait
      <3>2. faults \subseteq faults'
        BY <2>6, <1>5 DEF Wait, CallFails
      <3> QED  BY <2>0, <2>6, <3>1, <3>2 DEF Local, Wait, resVars, podVars
    <2>7. CASE Cleanup(n)
      <3>1. pc'[m] = pc[m]
        BY <2>7, <1>2 DEF Cleanup
      <3>2. <<pod[m], task[m]>>' = <<pod[m], task[m]>>
        BY <2>7, <1>6 DEF Cleanup
      <3>3. faults \subseteq faults'
        BY <2>7, <1>5 DEF Cleanup, CallFails
      <3> QED  BY <2>0, <2>7, <3>1, <3>2, <3>3 DEF Local, Cleanup, resVars
    <2> QED
      BY <1>a, <2>1, <2>2, <2>3, <2>4, <2>5, <2>6, <2>7
      DEF Controller, Step, Accept, MarkInitialized, MarkRunning, MarkSucceeded, MarkFailed
  <1>b. CASE UserCreates(n)
    <2>1. <<res[m], watch[m]>>' = <<res[m], watch[m]>>
      BY <1>b DEF UserCreates, Store, TypeOK
    <2>2. created'[m] = created[m]
      BY <1>b DEF UserCreates, TypeOK
    <2> QED  BY <1>b, <2>1, <2>2 DEF Local, UserCreates, podVars
  <1>c. CASE UserDeletes(n)
    <2>1. <<res[m], watch[m]>>' = <<res[m], watch[m]>>
      BY <1>c DEF UserDeletes, Store, TypeOK
    <2> QED  BY <1>c, <2>1 DEF Local, UserDeletes, podVars
  <1>d. CASE InformerDelivers(n)
    BY <1>d DEF Local, InformerDelivers, podVars, envVars, TypeOK
  <1>e. CASE GarbageCollected(n)
    <2>1. <<pod[m], task[m]>>' = <<pod[m], task[m]>>
      BY <1>e DEF GarbageCollected, TypeOK
    <2> QED  BY <1>e, <2>1 DEF Local, GarbageCollected, resVars, envVars
  <1>f. CASE PodReady(n)
    BY <1>f DEF Local, PodReady, resVars, envVars, TypeOK
  <1>g. CASE TaskEnds(n)
    <2>1. <<task[m], done[m]>>' = <<task[m], done[m]>>
      BY <1>g DEF TaskEnds, TypeOK
    <2> QED  BY <1>g, <2>1 DEF Local, TaskEnds, resVars, envVars
  <1>h. CASE PodEvicted(n)
    BY <1>h, <1>5, <1>6 DEF Local, PodEvicted, resVars, envVars
  <1> QED  BY <1>a, <1>b, <1>c, <1>d, <1>e, <1>f, <1>g, <1>h

\* Every step keeps what is said of a name.
LEMMA NameStep ==
    ASSUME TypeOK, [Next]_vars, NEW m \in Names, NameOK(m)
    PROVE  NameOK(m)'
  <1>1. ASSUME NEW n \in Names,
               \/ Controller(n) \/ UserCreates(n) \/ UserDeletes(n)
               \/ InformerDelivers(n) \/ GarbageCollected(n) \/ PodReady(n)
               \/ TaskEnds(n) \/ PodEvicted(n)
        PROVE  NameOK(m)'
    <2>1. CASE m # n
      BY <1>1, <2>1, OtherLocal, Framed
    <2>2. CASE m = n
      BY <1>1, <2>2, ControllerName, UserCreatesName, UserDeletesName, InformerName,
         GarbageName, PodReadyName, TaskEndsName, EvictedName
    <2> QED  BY <2>1, <2>2
  <1>2. CASE ClusterChanges
    <2>1. Local(m)' = Local(m) /\ faults \subseteq faults'
      BY <1>2 DEF Local, ClusterChanges, resVars, podVars
    <2> QED  BY <2>1, Framed
  <1>3. CASE OperatorCrashes
    BY <1>3, CrashName
  <1>4. CASE UNCHANGED vars
    <2>1. Local(m)' = Local(m) /\ faults \subseteq faults'
      BY <1>4 DEF Local, vars, resVars, podVars, envVars
    <2> QED  BY <2>1, Framed
  <1> QED  BY <1>1, <1>2, <1>3, <1>4 DEF Next

\* The inductive invariant holds.
THEOREM Invariance == Spec => []IInv
  <1>1. Init => IInv
    BY Typed, NameInit DEF IInv
  <1>2. IInv /\ [Next]_vars => IInv'
    <2> SUFFICES ASSUME IInv, [Next]_vars PROVE IInv'
      OBVIOUS
    <2>1. TypeOK'
      BY TypeStep DEF IInv
    <2>2. ASSUME NEW m \in Names PROVE NameOK(m)'
      BY NameStep DEF IInv
    <2> QED  BY <2>1, <2>2 DEF IInv
  <1> QED  BY <1>1, <1>2, PTL DEF Spec

\* The operation of the first resource of a name is accepted by a server at
\* most once, also when the resource is deleted and its pod created again from
\* a version of it that is out of date.
THEOREM StartsOnce == Spec => []ExecutedOnce
  <1>1. IInv => ExecutedOnce
    BY DEF IInv, NameOK, OnceOK, ExecutedOnce
  <1> QED  BY <1>1, Invariance, PTL

\* The phase Succeeded is written only for an operation that a server has
\* completed, and Failed, unless a pod or an answer was lost, only for one that
\* none has.
THEOREM Truthful == Spec => []PhaseTruthful
  <1>1. IInv => PhaseTruthful
    <2> SUFFICES ASSUME IInv, NEW n \in Names, created[n] = 1
                 PROVE  /\ res[n].phase = "Succeeded" => res[n].uid \in done[n]
                        /\ res[n].phase = "Failed" /\ faults \subseteq {"crash"}
                              => res[n].uid \notin done[n]
      BY DEF PhaseTruthful
    <2>1. TypeOK /\ NameOK(n)
      BY DEF IInv
    <2>2. CASE res[n].uid = 0
      <3>1. res[n] = NoResource
        BY <2>1, <2>2 DEF NameOK, CountOK
      <3> QED  BY <3>1, NoneFacts
    <2>3. CASE res[n].uid = 1
      <3>1. 1 \in done[n] <=> task[n] = "done"
        BY <2>1, <2>3 DEF NameOK, OwnOK
      <3>2. res[n].phase = "Succeeded" => task[n] = "done"
        BY <2>1, <2>3 DEF NameOK, OwnOK
      <3>3. res[n].phase = "Failed" /\ faults \subseteq {"crash"} => task[n] = "failed"
        BY <2>1, <2>3, LastGood DEF NameOK, Good
      <3> QED  BY <2>3, <3>1, <3>2, <3>3
    <2> QED  BY <2>1, <2>2, <2>3 DEF NameOK, CountOK
  <1> QED  BY <1>1, Invariance, PTL
=============================================================================
