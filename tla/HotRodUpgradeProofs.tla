------------------------ MODULE HotRodUpgradeProofs -------------------------
(***************************************************************************)
(* Proofs about HotRodUpgrade: until a rollback and an upgrade have        *)
(* crossed, the service is there at every moment, no entry stored before   *)
(* an upgrade is lost, and the stages implement LiveUpgrade.               *)
(*                                                                         *)
(* The resource exists in several versions: in the API server, on its way  *)
(* in the watch, in the cache and in the hands of a reconcile.  The        *)
(* operator writes only what follows from the version in its cache, so a   *)
(* later version is at most the next stage of an earlier one.              *)
(***************************************************************************)
EXTENDS HotRodUpgrade, TLAPS

Rolling == {"Start", "Prepare", "Redirect", "Sync", "Replace"}

\* Stages a later version may have when the operator has seen stage s.
Within(s) ==
    CASE s = "Start"    -> {"Start", "Prepare"}
      [] s = "Prepare"  -> {"Prepare", "Redirect"}
      [] s = "Redirect" -> {"Redirect", "Sync"}
      [] s = "Sync"     -> {"Sync", "Replace"}
      [] s = "Replace"  -> {"Replace", "Cleanup"}
      [] OTHER          -> {"Cleanup"}

Settled(i)  == i.stage = "None" /\ i.operand = i.version
Due(i)      == i.stage = "None" /\ i.operand # i.version
Forward(i)  == i.stage \in Rolling /\ i.version # i.from
Backward(i) == i.stage # "None" /\ i.version = i.from
Cleaning(i) == i.stage = "Cleanup" /\ i.version # i.from

\* A version by itself.
Good(i) ==
    /\ i.stage = "None" =>
          /\ i.source = NoName /\ i.target = NoName /\ i.from = 0
          /\ i.operand <= i.version
          /\ i.phase = "Running"
    /\ i.stage # "None" =>
          /\ i.source \in Names /\ i.target \in Names
          /\ i.target = i.source + 1
          /\ i.from \in Version /\ i.from < i.operand
          /\ i.version = i.from \/ i.operand <= i.version
    /\ i.stage \in Rolling => i.sts = i.source
    /\ i.stage \in Rolling \ {"Start"} => i.pods = i.sts
    /\ i.stage = "Cleanup" => i.sts = i.target /\ i.phase = "Running"

SameUpgrade(a, b) ==
    /\ b.source = a.source /\ b.target = a.target
    /\ b.from = a.from /\ b.operand = a.operand
    /\ a.phase = "Running" => b.phase = "Running"

\* b may follow a, with the operator having seen nothing after a.
Follows(a, b) ==
    /\ Settled(a) => b.stage = "None" /\ b.sts = a.sts /\ b.operand = a.operand
    /\ Due(a) =>
          /\ b.sts = a.sts
          /\ \/ b.stage = "None" /\ b.operand = a.operand /\ a.version <= b.version
             \/ b.stage = "Start" /\ b.phase = "Pending" /\ b.from = a.operand
    /\ Forward(a) => SameUpgrade(a, b) /\ b.stage \in Within(a.stage)
    /\ Backward(a) =>
          \/ /\ SameUpgrade(a, b)
             /\ b.stage \in Within(a.stage)
             /\ b.stage = "Cleanup" => a.stage = "Cleanup"
             /\ b.version = b.from
          \/ b.stage = "None" /\ b.sts = a.source /\ b.operand = a.from
    /\ Cleaning(a) =>
          \/ SameUpgrade(a, b) /\ b.stage = "Cleanup"
          \/ b.stage = "None" /\ b.sts = a.sts /\ b.operand = a.operand

\* The stages at which the status may have the pods of another cluster.
Unlisted == {"None", "Start", "Cleanup"}

\* An upgrade goes on from these stages with the pods in the status.
PodsFollow(a, b) ==
    a.stage \in {"Start", "Cleanup"} =>
        /\ a.pods = a.sts /\ b.stage = a.stage => b.pods = b.sts
        /\ a.pods # a.sts => b.stage = a.stage

Chained(a, b) == Follows(a, b) /\ PodsFollow(a, b)

\* Of versions in this order, those after x are like c in having an upgrade only
\* if x is: an upgrade begins or ends at most once in what c has yet to see.
Once(c, x, k) ==
    ((k.stage = "None") <=> (c.stage = "None")) =>
    ((x.stage = "None") <=> (c.stage = "None"))

Versions ==
    /\ Good(cr) /\ Good(cache) /\ Chained(cache, cr)
    /\ \A i \in 1..Len(watch) :
          /\ Good(watch[i]) /\ Chained(cache, watch[i]) /\ Chained(watch[i], cr)
          /\ Once(cache, watch[i], cr)
          /\ \A j \in 1..Len(watch) : i < j => /\ Chained(watch[i], watch[j])
                                              /\ Once(cache, watch[i], watch[j])

\* The reconcile works from its copy, on its way to the last handler.
Working == pc \notin {"idle", "AwaitWellFormedCondition"}

SameStatus(a, b) ==
    /\ b.stage = a.stage /\ b.sts = a.sts /\ b.operand = a.operand
    /\ b.source = a.source /\ b.target = a.target /\ b.from = a.from

\* The cache has yet to see the version of the copy, or it is behind it by what
\* the reconcile has read again when it wrote the pods.
Behind ==
    \/ Follows(rc, cache) /\ \A i \in 1..Len(watch) : Follows(rc, watch[i])
    \/ /\ rc.stage \in Unlisted
       /\ SameStatus(rc, cr) /\ SameStatus(rc, cache)
       /\ \A i \in 1..Len(watch) : SameStatus(rc, watch[i])

Copy == Working => Good(rc) /\ Follows(rc, cr) /\ Behind

Path ==
    /\ Working /\ pc \notin {"ClusterService", "Schedule", "HotRodRollingUpgrade"} =>
          ~Due(rc)
    /\ pc = "ClusterStatefulSet" => Settled(rc)
    /\ Working /\ pc \notin {"ClusterService", "Schedule", "ClusterStatefulSet",
                             "PodStatus"} => rc.pods = rc.sts
    /\ pc = "CreateTarget" => Forward(rc) /\ rc.stage = "Start"
    /\ pc = "DisconnectSource" => Forward(rc) /\ rc.stage = "Sync"
    /\ pc = "UpdateStage" =>
          Forward(rc) /\ rc.stage \in {"Prepare", "Redirect", "Sync"}
    /\ pc \in {"RemoveSelector", "RemoveStatefulSet", "RemoveStatus"} =>
          Backward(rc) \/ Cleaning(rc)

Serves(c) == c \in Names /\ Ready(c) /\ clus[c].caches # "absent"

\* The cluster c is of version v, on its own, with all the entries.
Keeps(c, v) ==
    /\ Ready(c) /\ clus[c].caches = "own" /\ clus[c].version = v
    /\ early \subseteq clus[c].data

\* The cluster that has the entries: the source, and the target once it is the
\* cluster of the resource, unless that is taken back.
Home ==
    /\ cr.stage = "None" => Keeps(cr.sts, cr.operand)
    /\ cr.stage \in Rolling => Keeps(cr.source, cr.from)
    /\ cr.stage = "Cleanup" =>
          /\ Cleaning(cr) => Keeps(cr.sts, cr.operand)
          /\ Backward(cr) \/ Exists(cr.source) => Keeps(cr.source, cr.from)
          /\ Exists(cr.target) => Ready(cr.target)

Others ==
    /\ \A c \in Names : c \notin {cr.sts, cr.source, cr.target} => ~Exists(c)
    /\ \A c \in Names : Exists(c) /\ clus[c].caches = "absent" =>
                           c = cr.target /\ cr.stage \in {"Start", "Prepare"}
    /\ cr.stage # "None" /\ Exists(cr.target) =>
          clus[cr.target].version = cr.operand

\* The target, while the operator may still go forward.
TargetReady ==
    Forward(cache) \/ (Working /\ Forward(rc)) =>
    /\ cr.stage \in {"Prepare", "Redirect", "Sync", "Replace"} => Ready(cr.target)
    /\ cr.stage = "Redirect" => clus[cr.target].caches = "connected"
    /\ cr.stage = "Sync" =>
          \/ clus[cr.target].caches = "connected"
          \/ clus[cr.target].caches = "own" /\ early \subseteq clus[cr.target].data
    /\ cr.stage = "Replace" =>
          clus[cr.target].caches = "own" /\ early \subseteq clus[cr.target].data
    /\ cr.stage = "Cleanup" => Ready(cr.source)

\* What a step of the reconcile has done and its next step relies on.
Done ==
    /\ pc = "DisconnectSource" => early \subseteq clus[rc.target].data
    /\ pc = "UpdateStage" /\ rc.stage = "Prepare" =>
          clus[rc.target].caches = "connected" /\ Ready(rc.target)
    /\ pc = "UpdateStage" /\ rc.stage = "Sync" =>
          clus[rc.target].caches = "own" /\ early \subseteq clus[rc.target].data
    /\ pc = "RemoveStatus" /\ Backward(rc) => ~Exists(rc.target)
    /\ pc = "RemoveStatus" /\ Cleaning(rc) => ~Exists(rc.source) /\ ~Backward(cr)

Service ==
    /\ svc = Any \/ Serves(svc)
    /\ pc = "RemoveStatefulSet" => svc = Any

\* What holds until a rollback and an upgrade have crossed.
IInv ==
    /\ TypeOK /\ Versions /\ Copy /\ Path
    /\ Home /\ Others /\ TargetReady /\ Done /\ Service
-----------------------------------------------------------------------------
(***************************************************************************)
(* One version after another.                                              *)
(***************************************************************************)

\* A stage is followed by itself and the next.
LEMMA WithinStages ==
    /\ Within("Start") = {"Start", "Prepare"}
    /\ Within("Prepare") = {"Prepare", "Redirect"}
    /\ Within("Redirect") = {"Redirect", "Sync"}
    /\ Within("Sync") = {"Sync", "Replace"}
    /\ Within("Replace") = {"Replace", "Cleanup"}
    /\ Within("Cleanup") = {"Cleanup"}
  BY DEF Within

\* Every version is of one of the five kinds.
LEMMA Kinds ==
    ASSUME NEW a \in CustomResource, Good(a)
    PROVE  Settled(a) \/ Due(a) \/ Forward(a) \/ Backward(a) \/ Cleaning(a)
  BY DEF CustomResource, Stages, Rolling, Good, Settled, Due, Forward, Backward,
         Cleaning

\* A version follows itself.
LEMMA ChainedSelf ==
    ASSUME NEW a \in CustomResource, Good(a)
    PROVE  Chained(a, a)
  <1>1. /\ a.version <= a.version
        /\ a.stage # "None" => a.stage \in Within(a.stage)
    BY WithinStages DEF CustomResource, Stages, Version
  <1> QED BY <1>1
    DEF CustomResource, Rolling, Good, Settled, Due, Forward, Backward, Cleaning,
        Follows, SameUpgrade, PodsFollow, Chained

Minor(k, n) ==
    /\ SameStatus(k, n) /\ n.version = k.version
    /\ n.phase = k.phase \/ (k.stage \in Rolling /\ n.phase = "Running")
    /\ n.pods = k.pods \/ (k.stage \in Unlisted /\ n.pods = n.sts)

\* A write of the phase or the pods changes nothing in the order of versions,
\* unless the upgrade it belongs to is not known to the operator yet.
LEMMA MinorWrite ==
    ASSUME NEW k \in CustomResource, NEW n \in CustomResource, Good(k), Minor(k, n),
           NEW x \in CustomResource, Good(x), Chained(x, k),
           Due(x) => n.phase = k.phase
    PROVE  Good(n) /\ Chained(x, n)
  <1>1. Good(n)
    BY DEF CustomResource, Rolling, Good, Minor, SameStatus, Unlisted
  <1>2. Follows(x, n)
    <2>1. CASE Settled(x)
      BY <2>1 DEF Settled, Due, Forward, Backward, Cleaning, Rolling, Follows, Chained,
                  Minor, SameStatus
    <2>2. CASE Due(x)
      BY <2>2 DEF Settled, Due, Forward, Backward, Cleaning, Rolling, Follows, Chained,
                  Minor, SameStatus
    <2>3. CASE x.stage # "None"
      BY <2>3 DEF Settled, Due, Forward, Backward, Cleaning, Rolling, Follows, Chained,
                  Minor, SameStatus, SameUpgrade, CustomResource
    <2> QED BY <2>1, <2>2, <2>3 DEF Settled, Due
  <1>3. PodsFollow(x, n)
    BY DEF PodsFollow, Chained, Minor, SameStatus
  <1> QED BY <1>1, <1>2, <1>3 DEF Chained

\* What a user changes of the version k who does not resume its upgrade.
Edited(k, n) ==
    /\ SameStatus(k, n) /\ n.phase = k.phase /\ n.pods = k.pods
    /\ \/ n.version > k.version /\ (k.stage = "None" \/ k.version # k.from)
       \/ k.stage # "None" /\ n.version = k.from

\* What the user writes follows all that the operator has yet to see.
LEMMA UserWrite ==
    ASSUME NEW k \in CustomResource, NEW n \in CustomResource, Good(k), Edited(k, n)
    PROVE  /\ Good(n)
           /\ \A x \in CustomResource : Good(x) /\ Follows(x, k) => Follows(x, n)
           /\ \A x \in CustomResource : Good(x) /\ Chained(x, k) => Chained(x, n)
  <1>1. Good(n)
    BY DEF CustomResource, Version, Rolling, Good, Edited, SameStatus
  <1>2. ASSUME NEW x \in CustomResource, Good(x), Follows(x, k)
        PROVE  Follows(x, n)
    <2> USE <1>2 DEF CustomResource, Version, Edited, SameStatus, Follows, Good
    <2>1. CASE Settled(x)
      BY <2>1 DEF Settled, Due, Forward, Backward, Cleaning, Rolling
    <2>2. CASE Due(x)
      BY <2>2 DEF Settled, Due, Forward, Backward, Cleaning, Rolling
    <2>3. CASE Forward(x)
      BY <2>3 DEF Settled, Due, Forward, Backward, Cleaning, Rolling, SameUpgrade
    <2>4. CASE Backward(x)
      BY <2>4, WithinStages DEF Settled, Due, Forward, Backward, Cleaning, Rolling,
                  SameUpgrade
    <2>5. CASE Cleaning(x)
      BY <2>5 DEF Settled, Due, Forward, Backward, Cleaning, Rolling, SameUpgrade
    <2> QED BY <2>1, <2>2, <2>3, <2>4, <2>5, Kinds
  <1>3. ASSUME NEW x \in CustomResource, Good(x), Chained(x, k)
        PROVE  Chained(x, n)
    BY <1>2, <1>3 DEF Chained, PodsFollow, Edited, SameStatus
  <1> QED BY <1>1, <1>2, <1>3

\* The writes of the operator, from the version c it has, over the version k.
Scheduled(c, k, n) ==
    /\ n.stage = "Start" /\ n.source = c.sts /\ n.target = c.sts + 1
    /\ n.from = c.operand /\ n.operand = c.version /\ n.phase = "Pending"
    /\ n.sts = k.sts /\ n.version = k.version /\ n.pods = k.pods

Advanced(c, k, n) ==
    /\ n.stage \in Within(c.stage) \ {c.stage}
    /\ n.sts = k.sts /\ n.operand = k.operand /\ n.source = k.source
    /\ n.target = k.target /\ n.from = k.from
    /\ n.version = k.version /\ n.phase = k.phase /\ n.pods = k.pods

Replaced(c, k, n) ==
    /\ n.stage = "Cleanup" /\ n.sts = c.target
    /\ n.phase = IF c.phase = "Running" THEN k.phase ELSE "Running"
    /\ n.operand = k.operand /\ n.source = k.source
    /\ n.target = k.target /\ n.from = k.from
    /\ n.version = k.version /\ n.pods = k.pods

Ended(n) ==
    n.stage = "None" /\ n.source = NoName /\ n.target = NoName /\ n.from = 0

RolledBack(c, k, n) ==
    /\ Ended(n) /\ n.operand = c.from
    /\ n.sts = IF c.sts = c.source THEN k.sts ELSE c.source
    /\ n.phase = IF c.phase = "Running" THEN k.phase ELSE "Running"
    /\ n.version = k.version /\ n.pods = k.pods

CleanedUp(c, k, n) ==
    /\ Ended(n) /\ n.sts = k.sts /\ n.operand = k.operand /\ n.phase = k.phase
    /\ n.version = k.version /\ n.pods = k.pods

\* An upgrade is scheduled again only as it is, and replaces the StatefulSet or
\* ends only if it is not taken back.
OperatorWrote(c, k, n) ==
    \/ Due(c) /\ Scheduled(c, k, n) /\ (k.stage = "None" \/ k.operand = c.version)
    \/ Forward(c) /\ c.stage # "Replace" /\ c.pods = c.sts /\ Advanced(c, k, n)
    \/ Forward(c) /\ c.stage = "Replace" /\ Replaced(c, k, n) /\ ~Backward(k)
    \/ Backward(c) /\ c.pods = c.sts /\ RolledBack(c, k, n)
    \/ Cleaning(c) /\ c.pods = c.sts /\ CleanedUp(c, k, n) /\ ~Backward(k)

\* What the operator writes from the version it has follows every version that
\* it has yet to see.
LEMMA OperatorWrite ==
    ASSUME NEW c \in CustomResource, NEW k \in CustomResource,
           NEW n \in CustomResource, NEW x \in CustomResource,
           Good(c), Good(k), Good(x),
           Chained(c, k), Chained(c, x), Chained(x, k), Once(c, x, k),
           OperatorWrote(c, k, n)
    PROVE  Good(n) /\ Chained(x, n) /\ Once(c, x, n)
  <1> USE DEF CustomResource, Once, Version, Names, Good, Follows, SameUpgrade, Chained,
              PodsFollow, Settled, Due, Forward, Backward, Cleaning, Rolling
  <1>1. CASE Due(c) /\ Scheduled(c, k, n) /\ (k.stage = "None" \/ k.operand = c.version)
    <2>1. Good(n)
      BY <1>1, LimitsAssumption DEF Scheduled, NoName
    <2>2. Chained(x, n) /\ Once(c, x, n)
      <3>1. CASE Due(x)
        BY <1>1, <3>1 DEF Scheduled
      <3>2. CASE x.stage = "Start"
        <4>1. k.stage = "Start" /\ k.source = x.source /\ k.target = x.target
          BY <1>1, <3>2, WithinStages
        <4>2. x.source = c.sts /\ x.target = c.sts + 1
          BY <1>1, <3>2
        <4> QED BY <1>1, <3>2, <4>1, <4>2, WithinStages DEF Scheduled
      <3>3. CASE Settled(x)
        BY <1>1, <3>3 DEF Scheduled
      <3> QED BY <1>1, <3>1, <3>2, <3>3
    <2> QED BY <2>1, <2>2
  <1>2. CASE Forward(c) /\ c.stage # "Replace" /\ c.pods = c.sts /\ Advanced(c, k, n)
    <2>1. Good(n)
      BY <1>2, WithinStages DEF Advanced
    <2>2. Chained(x, n) /\ Once(c, x, n)
      <3>1. CASE c.stage = "Start"
        BY <1>2, <3>1, WithinStages DEF Advanced
      <3>2. CASE c.stage = "Prepare"
        BY <1>2, <3>2, WithinStages DEF Advanced
      <3>3. CASE c.stage = "Redirect"
        BY <1>2, <3>3, WithinStages DEF Advanced
      <3>4. CASE c.stage = "Sync"
        BY <1>2, <3>4, WithinStages DEF Advanced
      <3> QED BY <1>2, <3>1, <3>2, <3>3, <3>4
    <2> QED BY <2>1, <2>2
  <1>3. CASE Forward(c) /\ c.stage = "Replace" /\ Replaced(c, k, n) /\ ~Backward(k)
    <2>1. Good(n)
      BY <1>3, WithinStages DEF Replaced
    <2>2. Chained(x, n) /\ Once(c, x, n)
      BY <1>3, WithinStages DEF Replaced
    <2> QED BY <2>1, <2>2
  <1>4. CASE Backward(c) /\ c.pods = c.sts /\ RolledBack(c, k, n)
    <2>1. Good(n)
      BY <1>4, WithinStages DEF RolledBack, Ended
    <2>2. n.sts = c.source
      BY <1>4, WithinStages DEF RolledBack, Stages
    <2>3. Chained(x, n) /\ Once(c, x, n)
      <3>1. CASE x.stage = "None"
        BY <1>4, <2>2, <3>1, WithinStages DEF RolledBack, Ended
      <3>2. CASE Backward(x)
        <4>1. n.stage = "None" /\ n.operand = x.from /\ n.sts = x.source
          BY <1>4, <2>2, <3>2 DEF RolledBack, Ended
        <4>2. x.stage \in {"Start", "Cleanup"} => x.pods = x.sts
          BY <1>4, <3>2, WithinStages DEF Stages
        <4> QED BY <1>4, <3>2, <4>1, <4>2
      <3> QED BY <1>4, <3>1, <3>2, WithinStages
    <2> QED BY <2>1, <2>3
  <1>5. CASE Cleaning(c) /\ c.pods = c.sts /\ CleanedUp(c, k, n) /\ ~Backward(k)
    <2>1. Good(n)
      BY <1>5 DEF CleanedUp, Ended
    <2>2. Chained(x, n) /\ Once(c, x, n)
      BY <1>5, WithinStages DEF CleanedUp, Ended
    <2> QED BY <2>1, <2>2
  <1> QED BY <1>1, <1>2, <1>3, <1>4, <1>5 DEF OperatorWrote

-----------------------------------------------------------------------------
(***************************************************************************)
(* Writes of the resource.                                                 *)
(***************************************************************************)

\* A patch takes the fields that the copy changes, and the others as they are.
LEMMA MergedFields ==
    ASSUME rc \in CustomResource, cr \in CustomResource,
           NEW after \in CustomResource
    PROVE  /\ Merged(after) \in CustomResource
           /\ after = rc => Merged(after) = rc
           /\ after # rc =>
                 \A f \in {"version", "sts", "operand", "phase", "wellFormed", "pods",
                           "stage", "source", "target", "from"} :
                    Merged(after)[f] = IF after[f] = rc[f] THEN cr[f] ELSE after[f]
  BY DEF Merged, CustomResource

\* A write appends to the watch what it puts in the API server.
LEMMA WriteEffect ==
    ASSUME watch \in Seq(CustomResource), cr \in CustomResource,
           NEW new \in CustomResource, Write(new)
    PROVE  /\ cr' = new
           /\ watch' \in Seq(CustomResource)
           /\ \A i \in 1..Len(watch') :
                 \/ i \in 1..Len(watch) /\ watch'[i] = watch[i]
                 \/ i = Len(watch) + 1 /\ watch'[i] = new
  BY DEF Write

\* The versions stay in order when one that follows all of them is written.
LEMMA VersionsWrite ==
    ASSUME TypeOK, Versions, NEW new \in CustomResource, Write(new),
           cache' = cache, Good(new), Chained(cache, new),
           \A i \in 1..Len(watch) : Chained(watch[i], new) /\ Once(cache, watch[i], new)
    PROVE  Versions'
  <1>1. /\ cr' = new
        /\ watch' \in Seq(CustomResource)
        /\ \A i \in 1..Len(watch') :
              \/ i \in 1..Len(watch) /\ watch'[i] = watch[i]
              \/ i = Len(watch) + 1 /\ watch'[i] = new
    BY WriteEffect DEF TypeOK
  <1>2. Good(cr') /\ Good(cache') /\ Chained(cache', cr')
    BY <1>1 DEF Versions
  <1>3. ASSUME NEW i \in 1..Len(watch')
        PROVE  /\ Good(watch'[i]) /\ Chained(cache', watch'[i]) /\ Chained(watch'[i], cr')
               /\ Once(cache', watch'[i], cr')
    BY <1>1, <1>3, ChainedSelf DEF Versions, Once
  <1>4. ASSUME NEW i \in 1..Len(watch'), NEW j \in 1..Len(watch'), i < j
        PROVE  Chained(watch'[i], watch'[j]) /\ Once(cache', watch'[i], watch'[j])
    <2>1. i \in 1..Len(watch) /\ watch'[i] = watch[i]
      <3>1. Len(watch) \in Nat /\ Len(watch') \in Nat
        BY <1>1 DEF TypeOK
      <3> QED BY <1>1, <1>4, <3>1
    <2> QED BY <1>1, <1>4, <2>1 DEF Versions
  <1> QED BY <1>2, <1>3, <1>4 DEF Versions

\* The versions stay in order when the operator writes the next stage.
LEMMA VersionsOperator ==
    ASSUME TypeOK, Versions, NEW new \in CustomResource, Write(new),
           cache' = cache, OperatorWrote(cache, cr, new)
    PROVE  Versions' /\ Good(new) /\ Chained(cache, new)
  <1>1. cache \in CustomResource /\ cr \in CustomResource
    BY DEF TypeOK
  <1>2. Good(new) /\ Chained(cache, new)
    BY <1>1, ChainedSelf, OperatorWrite DEF Versions, Once
  <1>3. \A i \in 1..Len(watch) : watch[i] \in CustomResource
    BY DEF TypeOK
  <1>4. ASSUME NEW i \in 1..Len(watch)
        PROVE  Chained(watch[i], new) /\ Once(cache, watch[i], new)
    BY <1>1, <1>3, <1>4, OperatorWrite DEF Versions
  <1> QED BY <1>2, <1>4, VersionsWrite

-----------------------------------------------------------------------------
(***************************************************************************)
(* What a step leaves as it is.                                            *)
(***************************************************************************)

\* The typing of the variables that a reconcile and its writes change.
LEMMA TypeParts ==
    ASSUME TypeOK, cr' \in CustomResource, watch' \in Seq(CustomResource),
           cache' \in CustomResource, queued' \in BOOLEAN, pc' \in Steps,
           rc' \in CustomResource, listed' \in Names \cup {NoName},
           again' \in BOOLEAN, clus' \in [Names -> Clusters],
           svc' \in Names \cup {NoName, Any},
           UNCHANGED <<writes, early, edits, crossed>>, faults' \subseteq Faults
    PROVE  TypeOK'
  BY DEF TypeOK

\* The resource of a settled cluster is a resource.
LEMMA SettledType == SettledCR \in CustomResource
  BY LimitsAssumption DEF SettledCR, CustomResource, Names, NoName, Version, Stages

\* A reconcile that is over, or at its last handler, relies on nothing.
LEMMA Resting ==
    ASSUME pc' \in {"idle", "AwaitWellFormedCondition"}
    PROVE  Copy' /\ Path' /\ Done' /\ ~Working' /\ pc' # "RemoveStatefulSet"
  BY DEF Copy, Path, Done, Working

\* The clusters of the resource, when its status stays.
LEMMA ClustersKept ==
    ASSUME Home, Others, TargetReady, SameStatus(cr, cr'), cr'.version = cr.version,
           UNCHANGED <<clus, early>>,
           Forward(cache') \/ (Working' /\ Forward(rc')) =>
              Forward(cache) \/ (Working /\ Forward(rc))
    PROVE  Home' /\ Others' /\ TargetReady'
  BY DEF Home, Others, TargetReady, SameStatus, Keeps, Cleaning, Backward, Exists, Ready

\* The Service, when neither its selector nor a cluster changes.
LEMMA ServiceKept ==
    ASSUME Service, UNCHANGED <<svc, clus>>,
           pc' # "RemoveStatefulSet"
    PROVE  Service'
  BY DEF Service, Serves, Ready

\* The copies, when none changes.
LEMMA CopiesKept ==
    ASSUME Versions, Copy, UNCHANGED <<cr, watch, cache, rc>>, Working' => Working
    PROVE  Versions' /\ Copy'
  BY DEF Versions, Copy, Behind

\* What a step does to the status: nothing, or what one of the writes does.
Moves == SameStatus(cr, cr') \/ OperatorWrote(cache, cr, cr')

\* A reconcile that goes to its last handler or ends, having changed nothing.
LEMMA QuietEnd ==
    ASSUME IInv, UNCHANGED <<cr, watch, cache, clus, svc, writes, early, edits, crossed>>,
           pc' \in {"idle", "AwaitWellFormedCondition"},
           queued' \in BOOLEAN, rc' \in CustomResource,
           listed' \in Names \cup {NoName}, again' \in BOOLEAN,
           faults' \subseteq Faults
    PROVE  IInv' /\ Moves
  <1>1. TypeOK'
    BY TypeParts DEF IInv, TypeOK, Steps
  <1>2. Copy' /\ Path' /\ Done' /\ ~Working' /\ pc' # "RemoveStatefulSet"
    BY Resting
  <1>3. Versions'
    BY DEF IInv, Versions
  <1>4. Home' /\ Others' /\ TargetReady'
    BY <1>2, ClustersKept DEF IInv, SameStatus
  <1>5. Service'
    BY <1>2, ServiceKept DEF IInv
  <1> QED BY <1>1, <1>2, <1>3, <1>4, <1>5 DEF IInv, Moves, SameStatus

\* The same of an update that conflicts, and of one that waits.
LEMMA QuietRequeue ==
    ASSUME IInv, Requeue,
           UNCHANGED <<cache, clus, svc, writes, early, edits, crossed, faults>>
    PROVE  IInv' /\ Moves
  BY QuietEnd, SettledType DEF IInv, TypeOK, Requeue, End, crVars

\* A handler that waits goes on to the last one.
LEMMA QuietWait ==
    ASSUME IInv, RequeueEventually,
           UNCHANGED <<cache, clus, svc, writes, early, edits, crossed>>,
           faults' \subseteq Faults
    PROVE  IInv' /\ Moves
  BY QuietEnd DEF IInv, TypeOK, RequeueEventually, crVars

\* A handler that only goes on to the next one.
LEMMA QuietProceed ==
    ASSUME IInv, Working, NEW step \in Steps, Proceed(step),
           UNCHANGED <<cache, clus, writes, early, edits, crossed, faults>>,
           svc' \in Names \cup {NoName, Any}
    PROVE  /\ TypeOK' /\ Versions' /\ Copy' /\ Home' /\ Others' /\ TargetReady'
           /\ pc' = step /\ UNCHANGED <<cr, rc, watch, cache, clus, early>>
  <1>1. /\ pc' = step /\ UNCHANGED <<cr, rc, watch, cache, clus, early>>
        /\ UNCHANGED <<listed, again, queued>>
    BY DEF Proceed, crVars
  <1>2. TypeOK'
    BY <1>1, TypeParts DEF IInv, TypeOK
  <1>3. Versions' /\ Copy'
    BY <1>1, CopiesKept DEF IInv
  <1>4. Home' /\ Others' /\ TargetReady'
    BY <1>1, ClustersKept DEF IInv, SameStatus
  <1> QED BY <1>1, <1>2, <1>3, <1>4

\* A write that ends the work of the reconcile, as far as the copies go.
LEMMA WriteEnd ==
    ASSUME IInv, NEW new \in CustomResource, Write(new), OperatorWrote(cache, cr, new),
           pc' \in {"idle", "AwaitWellFormedCondition"},
           queued' \in BOOLEAN, rc' \in CustomResource,
           listed' \in Names \cup {NoName}, again' \in BOOLEAN,
           UNCHANGED <<cache, clus, svc, writes, early, edits, crossed, faults>>,
           Home', Others', TargetReady'
    PROVE  IInv' /\ Moves
  <1>1. Versions'
    BY VersionsOperator DEF IInv
  <1>2. cr' \in CustomResource /\ watch' \in Seq(CustomResource)
    BY WriteEffect DEF IInv, TypeOK
  <1>3. TypeOK'
    BY <1>2, TypeParts DEF IInv, TypeOK, Steps
  <1>4. Copy' /\ Path' /\ Done' /\ ~Working' /\ pc' # "RemoveStatefulSet"
    BY Resting
  <1>5. Service'
    BY <1>4, ServiceKept DEF IInv
  <1>6. Moves
    BY DEF Write, Moves
  <1> QED BY <1>1, <1>3, <1>4, <1>5, <1>6 DEF IInv

-----------------------------------------------------------------------------
(***************************************************************************)
(* The steps that change the stage.                                        *)
(***************************************************************************)

\* The resource and the copies are of their types.
LEMMA Copies ==
    ASSUME IInv
    PROVE  /\ cr \in CustomResource /\ cache \in CustomResource
           /\ rc \in CustomResource /\ watch \in Seq(CustomResource)
           /\ Good(cr) /\ Good(cache) /\ Chained(cache, cr) /\ Follows(cache, cr)
  BY DEF IInv, TypeOK, Versions, Chained

\* An upgrade that begins, or that began unseen, leaves the cluster to itself.
LEMMA ClustersScheduled ==
    ASSUME IInv, NEW new \in CustomResource, cr' = new, Due(cache),
           Scheduled(cache, cr, new), cr.stage = "None" \/ cr.operand = cache.version,
           UNCHANGED <<cache, clus, early>>, ~Working'
    PROVE  Home' /\ Others' /\ TargetReady'
  <1>1. /\ cr.sts = cache.sts /\ cr.sts \in Names
        /\ \/ cr.stage = "None" /\ cr.operand = cache.operand
           \/ /\ cr.stage = "Start" /\ cr.from = cache.operand
              /\ cr.operand = cache.version
    BY Copies DEF Follows, CustomResource
  <1>2. Good(cr)
    BY Copies
  <1>3. cr'.stage = "Start" /\ cr'.sts = cr.sts /\ cr'.source = cr.sts
        /\ cr'.target = cr.sts + 1 /\ cr'.from = cache.operand
        /\ cr'.operand = cache.version
    BY <1>1 DEF Scheduled
  <1>4. Home'
    <2>1. Keeps(cr.sts, cache.operand)
      BY <1>1, <1>2 DEF IInv, Home, Good, Rolling
    <2> QED BY <1>3, <2>1 DEF Home, Keeps, Rolling, Ready
  <1>5. Others'
    <2>1. CASE cr.stage = "None"
      <3>1. \A c \in Names : c # cr.sts => ~Exists(c)
        BY <2>1, <1>2 DEF IInv, Others, Good, NoName, Names
      <3>2. clus[cr.sts].caches = "own"
        BY <2>1 DEF IInv, Home, Keeps
      <3> QED BY <1>1, <1>3, <2>1, <3>1, <3>2, Copies
              DEF Others, Exists, CustomResource, NoName, Names
    <2>2. CASE cr.stage = "Start"
      <3>1. cr.target = cr.sts + 1 /\ cr.source = cr.sts
        BY <1>2, <2>2 DEF Good, Rolling
      <3> QED BY <1>1, <1>3, <2>2, <3>1 DEF IInv, Others, Exists
    <2> QED BY <1>1, <2>1, <2>2
  <1>6. TargetReady'
    BY <1>3 DEF TargetReady, Forward, Due
  <1> QED BY <1>4, <1>5, <1>6

\* What the operator has made ready before it writes the stage after c.stage.
Prepared(c) ==
    /\ c.stage = "Start" => Ready(c.target)
    /\ c.stage = "Prepare" => Ready(c.target) /\ clus[c.target].caches = "connected"
    /\ c.stage = "Sync" =>
          clus[c.target].caches = "own" /\ early \subseteq clus[c.target].data

\* A stage is written when its conditions hold, whatever the stage is by then.
LEMMA ClustersAdvanced ==
    ASSUME IInv, NEW new \in CustomResource, cr' = new, Forward(cache),
           cache.stage # "Replace", Advanced(cache, cr, new), Prepared(cache),
           UNCHANGED <<cache, clus, early>>, ~Working'
    PROVE  Home' /\ Others' /\ TargetReady'
  <1>1. /\ cr.target = cache.target /\ cr.stage \in Within(cache.stage)
        /\ cache.stage \in Rolling \ {"Replace"}
    BY Copies DEF Follows, SameUpgrade, Forward
  <1>2. /\ cr'.sts = cr.sts /\ cr'.source = cr.source /\ cr'.target = cr.target
        /\ cr'.from = cr.from /\ cr'.operand = cr.operand
        /\ cr'.stage \in Within(cache.stage) \ {cache.stage}
    BY DEF Advanced
  <1>3. cr.stage \in Rolling /\ cr'.stage \in Rolling \ {"Start"}
    BY <1>1, <1>2, WithinStages DEF Rolling
  <1>4. Home'
    BY <1>2, <1>3 DEF IInv, Home, Keeps, Ready, Rolling
  <1>5. Others'
    <2>1. CASE cache.stage \in {"Start", "Redirect", "Sync"}
      BY <1>1, <1>2, <1>3, <2>1, WithinStages DEF IInv, Others, Exists
    <2>2. CASE cache.stage = "Prepare"
      <3>1. clus[cr.target].caches # "absent"
        BY <1>1, <2>2 DEF Prepared
      <3> QED BY <1>2, <1>3, <3>1 DEF IInv, Others, Exists, Rolling
    <2> QED BY <1>1, <2>1, <2>2 DEF Rolling
  <1>6. TargetReady'
    <2>1. TargetReady /\ Forward(cache)
      BY DEF IInv
    <2> USE DEF TargetReady, Prepared, Ready
    <2>2. CASE cache.stage = "Start"
      BY <1>1, <1>2, <2>1, <2>2, WithinStages
    <2>3. CASE cache.stage = "Prepare"
      BY <1>1, <1>2, <2>1, <2>3, WithinStages
    <2>4. CASE cache.stage = "Redirect"
      BY <1>1, <1>2, <2>1, <2>4, WithinStages
    <2>5. CASE cache.stage = "Sync"
      BY <1>1, <1>2, <2>1, <2>5, WithinStages
    <2> QED BY <1>1, <2>2, <2>3, <2>4, <2>5 DEF Rolling
  <1> QED BY <1>4, <1>5, <1>6

\* The target becomes the cluster of the resource when it has its data.
LEMMA ClustersReplaced ==
    ASSUME IInv, NEW new \in CustomResource, cr' = new, Forward(cache),
           cache.stage = "Replace", Replaced(cache, cr, new), ~Backward(cr),
           UNCHANGED <<cache, clus, early>>, ~Working'
    PROVE  Home' /\ Others' /\ TargetReady'
  <1>1. /\ cr.target = cache.target /\ cr.stage \in {"Replace", "Cleanup"}
    BY Copies, WithinStages DEF Follows, SameUpgrade
  <1>2. /\ cr'.sts = cr.target /\ cr'.source = cr.source /\ cr'.target = cr.target
        /\ cr'.from = cr.from /\ cr'.operand = cr.operand /\ cr'.stage = "Cleanup"
        /\ cr'.version = cr.version
    BY <1>1 DEF Replaced
  <1>3. TargetReady /\ Others /\ Home /\ Good(cr)
    BY Copies DEF IInv
  <1>4. cr.stage = "Replace" => cr.sts = cr.source
    BY <1>3 DEF Good, Rolling
  <1>5. cr.stage = "Cleanup" => cr.sts = cr.target
    BY <1>3 DEF Good
  <1>6. Ready(cr.source) /\ Keeps(cr.source, cr.from)
    BY <1>1, <1>3 DEF TargetReady, Home, Keeps, Rolling, Exists, Ready
  <1>7. Ready(cr.target) /\ clus[cr.target].caches = "own"
        /\ early \subseteq clus[cr.target].data
    BY <1>1, <1>3, <1>5 DEF TargetReady, Home, Keeps, Cleaning, Backward
  <1>8. clus[cr.target].version = cr.operand
    BY <1>1, <1>3, <1>7 DEF Others, Exists, Ready
  <1>9. Home'
    BY <1>2, <1>6, <1>7, <1>8 DEF Home, Keeps, Ready, Rolling
  <1>10. Others'
    BY <1>2, <1>3, <1>4, <1>5, <1>7, <1>8, <1>1 DEF Others, Exists
  <1>11. TargetReady'
    BY <1>2, <1>6 DEF TargetReady, Ready
  <1> QED BY <1>9, <1>10, <1>11

\* A rollback ends with the source as the only cluster.
LEMMA ClustersRolledBack ==
    ASSUME IInv, NEW new \in CustomResource, cr' = new, Backward(cache),
           RolledBack(cache, cr, new), ~Exists(cache.target),
           UNCHANGED <<cache, clus, early>>, ~Working'
    PROVE  Home' /\ Others' /\ TargetReady'
  <1>1. Home /\ Others /\ Good(cr) /\ Good(cache) /\ Follows(cache, cr)
    BY Copies DEF IInv
  <1>2. cr'.stage = "None" /\ cr'.operand = cache.from
    BY DEF RolledBack, Ended
  <1>3. /\ cr'.source = NoName /\ cr'.target = NoName
    BY DEF RolledBack, Ended
  <1>4. CASE cr.stage = "None"
    <2>1. cr.operand = cache.from /\ cr'.sts = cr.sts
      <3>1. cr.stage \notin Within(cache.stage)
        BY <1>4, Copies, WithinStages DEF Backward, CustomResource, Stages
      <3>2. cr.sts = cache.source /\ cr.operand = cache.from
        BY <1>1, <3>1 DEF Follows
      <3> QED BY <3>2 DEF RolledBack
    <2>2. Home'
      BY <1>1, <1>2, <1>4, <2>1 DEF Home, Keeps, Ready, Rolling
    <2>3. cr.source = NoName /\ cr.target = NoName
      BY <1>1, <1>4 DEF Good
    <2>4. Others'
      BY <1>1, <1>2, <1>4, <2>1, <2>3 DEF Others, Exists, NoName, Names
    <2> QED BY <1>2, <2>2, <2>4 DEF TargetReady
  <1>5. CASE cr.stage # "None"
    <2>1. SameUpgrade(cache, cr) /\ Backward(cr)
          /\ (cr.stage = "Cleanup" => cache.stage = "Cleanup")
          /\ cr.stage \in Within(cache.stage)
      BY <1>1, <1>5 DEF Follows, Backward
    <2>2. /\ cr.source = cache.source /\ cr.target = cache.target
          /\ cr.from = cache.from /\ ~Exists(cr.target)
      BY <2>1 DEF SameUpgrade
    <2>3. cr'.sts = cr.source
      <3>1. CASE cache.sts = cache.source
        <4>1. cr.stage \in Rolling
          BY <1>1, <1>5, <2>1, <3>1, LimitsAssumption, Copies
          DEF Good, Rolling, CustomResource, Stages, Backward, Names
        <4> QED BY <1>1, <3>1, <4>1 DEF RolledBack, Good
      <3>2. CASE cache.sts # cache.source
        BY <2>2, <3>2 DEF RolledBack
      <3> QED BY <3>1, <3>2
    <2>4. Keeps(cr.source, cr.from)
      BY <1>1, <1>5, <2>1, Copies DEF Home, CustomResource, Stages, Rolling
    <2>5. Home'
      BY <1>2, <2>2, <2>3, <2>4 DEF Home, Keeps, Ready, Rolling
    <2>6. cr.sts \in {cr.source, cr.target}
      BY <1>1, <1>5, Copies DEF Good, CustomResource, Stages, Rolling
    <2>7. clus[cr.source].caches # "absent"
      BY <2>4 DEF Keeps
    <2>8. Others'
      BY <1>1, <1>2, <1>3, <2>2, <2>3, <2>6, <2>7 DEF Others, Exists
    <2> QED BY <1>2, <2>5, <2>8 DEF TargetReady
  <1> QED BY <1>4, <1>5

\* An upgrade ends with the target as the only cluster.
LEMMA ClustersCleanedUp ==
    ASSUME IInv, NEW new \in CustomResource, cr' = new, Cleaning(cache),
           CleanedUp(cache, cr, new), ~Exists(cache.source), ~Backward(cr),
           UNCHANGED <<cache, clus, early>>, ~Working'
    PROVE  Home' /\ Others' /\ TargetReady'
  <1>1. Home /\ Others /\ Good(cr) /\ Good(cache) /\ Follows(cache, cr)
    BY Copies DEF IInv
  <1>2. cr'.stage = "None" /\ cr'.sts = cr.sts /\ cr'.operand = cr.operand
    BY DEF CleanedUp, Ended
  <1>3. cr.stage \in {"None", "Cleanup"}
    BY <1>1 DEF Follows, Cleaning
  <1>4. Keeps(cr.sts, cr.operand)
    BY <1>1, <1>3 DEF Home, Cleaning, Backward
  <1>5. Home'
    BY <1>2, <1>4 DEF Home, Keeps, Ready, Rolling
  <1>6. Others'
    <2>1. CASE cr.stage = "None"
      <3>1. cr.source = NoName /\ cr.target = NoName
        BY <1>1, <2>1 DEF Good
      <3> QED BY <1>1, <1>2, <2>1, <3>1 DEF Others, Exists, NoName, Names
    <2>2. CASE cr.stage = "Cleanup"
      <3>1. cr.source = cache.source /\ cr.sts = cr.target
        BY <1>1, <2>2 DEF Follows, Cleaning, SameUpgrade, Good
      <3>2. clus[cr.target].caches # "absent"
        BY <1>4, <3>1 DEF Keeps
      <3> QED BY <1>1, <1>2, <2>2, <3>1, <3>2 DEF Others, Exists
    <2> QED BY <1>3, <2>1, <2>2
  <1> QED BY <1>2, <1>5, <1>6 DEF TargetReady

-----------------------------------------------------------------------------
(***************************************************************************)
(* The steps of a reconcile.                                               *)
(***************************************************************************)

\* An update that changes the copy conflicts, or patches and goes on.
LEMMA UpdateThenCases ==
    ASSUME IInv, NEW after \in CustomResource, after # rc,
           UpdateThen(after, "AwaitWellFormedCondition")
    PROVE  \/ Requeue
           \/ /\ cache = rc /\ Write(Merged(after))
              /\ rc' = Merged(after) /\ pc' = "AwaitWellFormedCondition"
              /\ UNCHANGED <<listed, again, queued>>
  BY DEF UpdateThen, Conflict, Patch

\* A reconcile begins with the version in the cache.
LEMMA ReconcileStep ==
    ASSUME IInv, Reconcile,
           UNCHANGED <<cache, writes, early, edits, crossed, faults>>
    PROVE  IInv' /\ Moves
  <1>1. /\ queued' = FALSE /\ rc' = cache /\ pc' = "ClusterService"
        /\ UNCHANGED <<cr, watch, listed, again, clus, svc>>
    BY DEF Reconcile, crVars
  <1>2. TypeOK'
    BY <1>1, TypeParts DEF IInv, TypeOK, Steps
  <1>3. Versions'
    BY <1>1 DEF IInv, Versions
  <1>4. Follows(cache, cache)
    BY Copies, ChainedSelf DEF Chained
  <1>5. Copy'
    BY <1>1, <1>4 DEF IInv, Copy, Behind, Versions, Chained
  <1>6. Path' /\ Done'
    BY <1>1 DEF Path, Done, Working
  <1>7. Home' /\ Others' /\ TargetReady'
    BY <1>1, ClustersKept DEF IInv, SameStatus
  <1>8. Service'
    BY <1>1, ServiceKept DEF IInv
  <1> QED BY <1>1, <1>2, <1>3, <1>5, <1>6, <1>7, <1>8 DEF IInv, Moves, SameStatus

\* The selector of all pods leads to the cluster of the resource too.
LEMMA ClusterServiceStep ==
    ASSUME IInv, ClusterService,
           UNCHANGED <<cache, writes, early, edits, crossed, faults>>
    PROVE  IInv' /\ Moves
  <1>1. Working /\ Proceed("Schedule") /\ svc' = Any /\ UNCHANGED clus
    BY DEF ClusterService, Working
  <1>2. /\ TypeOK' /\ Versions' /\ Copy' /\ Home' /\ Others' /\ TargetReady'
        /\ pc' = "Schedule" /\ UNCHANGED <<cr, rc, watch, cache, clus, early>>
    BY <1>1, QuietProceed DEF Steps
  <1>3. Path' /\ Done' /\ Service'
    BY <1>1, <1>2 DEF Path, Done, Service, Working
  <1> QED BY <1>2, <1>3 DEF IInv, Moves, SameStatus

\* An upgrade is scheduled from a version without one.
LEMMA ScheduleStep ==
    ASSUME IInv, ScheduleHotRodRollingUpgrade, ~Overtakes,
           UNCHANGED <<cache, writes, early, edits, crossed, faults>>
    PROVE  IInv' /\ Moves
  <1>1. pc = "Schedule" /\ Working /\ UNCHANGED <<clus, svc>>
    BY DEF ScheduleHotRodRollingUpgrade, Working
  <1>2. Good(rc) /\ Follows(rc, cr) /\ rc \in CustomResource
    BY <1>1, Copies DEF IInv, Copy
  <1>3. CASE rc.stage # "None" /\ Proceed("PodStatus")
    <2>1. /\ TypeOK' /\ Versions' /\ Copy' /\ Home' /\ Others' /\ TargetReady'
          /\ pc' = "PodStatus" /\ UNCHANGED <<cr, rc, watch, cache, clus, early>>
      BY <1>1, <1>3, QuietProceed DEF Steps, IInv, TypeOK
    <2>2. Path' /\ Done' /\ Service'
      BY <1>1, <1>3, <2>1, ServiceKept DEF IInv, Path, Done, Working, Due
    <2> QED BY <2>1, <2>2 DEF IInv, Moves, SameStatus
  <1>4. CASE /\ rc.stage = "None" /\ ~UpgradeRequired(rc)
             /\ Proceed("ClusterStatefulSet")
    <2>1. /\ TypeOK' /\ Versions' /\ Copy' /\ Home' /\ Others' /\ TargetReady'
          /\ pc' = "ClusterStatefulSet"
          /\ UNCHANGED <<cr, rc, watch, cache, clus, early>>
      BY <1>1, <1>4, QuietProceed DEF Steps, IInv, TypeOK
    <2>2. Settled(rc) /\ ~Due(rc)
      BY <1>2, <1>4 DEF Settled, Due, UpgradeRequired, Good
    <2>3. Path' /\ Done' /\ Service'
      BY <1>1, <1>4, <2>1, <2>2, ServiceKept DEF IInv, Path, Done, Working
    <2> QED BY <2>1, <2>3 DEF IInv, Moves, SameStatus
  <1>5. CASE rc.stage = "None" /\ UpgradeRequired(rc)
    <2> DEFINE after == [rc EXCEPT !.stage = "Start", !.source = rc.sts,
                                   !.from = rc.operand,
                                   !.target = getOrCreateTargetStatefulSetName(rc),
                                   !.operand = rc.version,
                                   !.phase = "Pending"]
    <2>1. rc.sts < MaxVersion /\ UpdateAndEnd(after, TRUE)
      BY <1>5 DEF ScheduleHotRodRollingUpgrade
    <2>2. getOrCreateTargetStatefulSetName(rc) = rc.sts + 1 /\ rc.sts + 1 \in Names
      BY <1>2, <1>5, <2>1, LimitsAssumption
      DEF Good, getOrCreateTargetStatefulSetName, generateNewStatefulSetName,
          CustomResource, Names
    <2>3. after \in CustomResource /\ after # rc
      BY <1>2, <1>5, <2>2 DEF CustomResource, Stages
    <2>4. CASE Requeue
      BY <1>1, <2>4, QuietRequeue
    <2>5. CASE cache = rc /\ Patch(after) /\ End(TRUE)
      <3> DEFINE new == Merged(after)
      <3>1. new \in CustomResource /\ Write(new)
        BY <1>2, <2>3, <2>5, Copies, MergedFields DEF Patch
      <3>2. Due(cache) /\ cr' = new
        BY <1>5, <2>5, <3>1 DEF Due, UpgradeRequired, Write
      <3>3. Scheduled(cache, cr, new)
        <4>1. rc.source = NoName /\ rc.target = NoName /\ rc.from = 0
              /\ rc.phase = "Running" /\ rc.operand \in Version
              /\ rc.sts \in Names /\ rc.operand # rc.version
          BY <1>2, <1>5, <3>2 DEF Good, CustomResource, Due, UpgradeRequired
        <4>2. /\ after.stage # rc.stage /\ after.source # rc.source
              /\ after.target # rc.target /\ after.from # rc.from
              /\ after.operand # rc.operand /\ after.phase # rc.phase
          BY <1>2, <1>5, <2>2, <4>1 DEF CustomResource, NoName, Names, Version
        <4>3. /\ after.sts = rc.sts /\ after.version = rc.version
              /\ after.pods = rc.pods
              /\ after.stage = "Start" /\ after.source = rc.sts
              /\ after.target = rc.sts + 1 /\ after.from = rc.operand
              /\ after.operand = rc.version /\ after.phase = "Pending"
          BY <1>2, <2>2 DEF CustomResource
        <4> HIDE DEF after
        <4> QED BY <1>2, <2>3, <2>5, <4>2, <4>3, Copies, MergedFields DEF Scheduled
      <3> HIDE DEF new
      <3>4. pc' = "idle" /\ rc' \in CustomResource /\ listed' \in Names \cup {NoName}
            /\ again' \in BOOLEAN /\ queued' \in BOOLEAN
        BY <2>5, SettledType DEF End, IInv, TypeOK
      <3>5. cr.stage = "None" \/ cr.operand = cache.version
        BY <1>1, <1>5, <2>5 DEF Overtakes
      <3>6. Home' /\ Others' /\ TargetReady'
        BY <1>1, <3>1, <3>2, <3>3, <3>4, <3>5, ClustersScheduled DEF Working
      <3> QED BY <1>1, <3>1, <3>2, <3>3, <3>4, <3>5, <3>6, WriteEnd DEF OperatorWrote
    <2> QED BY <2>1, <2>4, <2>5 DEF UpdateAndEnd, Conflict
  <1> QED BY <1>3, <1>4, <1>5 DEF ScheduleHotRodRollingUpgrade

\* While the reconcile works on it, the cluster of its copy is ready, unless a
\* rollback has removed it.
LEMMA CopyReady ==
    ASSUME IInv, Working, ~Due(rc)
    PROVE  /\ Exists(rc.sts) => Ready(rc.sts)
           /\ rc.stage # "Cleanup" => Ready(rc.sts)
  <1>1. Good(rc) /\ Follows(rc, cr) /\ Good(cr) /\ rc \in CustomResource
    BY Copies DEF IInv, Copy
  <1>2. Home /\ cr \in CustomResource
    BY Copies DEF IInv
  <1>3. CASE Settled(rc)
    BY <1>1, <1>2, <1>3 DEF Follows, Home, Keeps
  <1>4. CASE Forward(rc)
    <2>1. cr.source = rc.source /\ rc.sts = rc.source /\ cr.stage \in Within(rc.stage)
      BY <1>1, <1>4 DEF Follows, SameUpgrade, Good, Forward
    <2>2. cr.stage \in Rolling \cup {"Cleanup"}
      BY <1>4, <2>1, WithinStages DEF Forward, Rolling
    <2>3. CASE cr.stage \in Rolling
      BY <1>2, <2>1, <2>3 DEF Home, Keeps
    <2>4. CASE cr.stage = "Cleanup"
      BY <1>4, <2>1, <2>4 DEF IInv, TargetReady
    <2> QED BY <2>2, <2>3, <2>4
  <1>5. CASE Backward(rc)
    <2>1. CASE cr.stage = "None" /\ cr.sts = rc.source
      <3>1. Ready(rc.source)
        BY <1>2, <2>1 DEF Home, Keeps
      <3>2. rc.stage \in Rolling => rc.sts = rc.source
        BY <1>1 DEF Good
      <3>3. rc.stage = "Cleanup" => ~Exists(rc.sts)
        <4> SUFFICES ASSUME rc.stage = "Cleanup" PROVE ~Exists(rc.sts)
          OBVIOUS
        <4>1. rc.sts = rc.target /\ rc.target = rc.source + 1 /\ rc.target \in Names
              /\ rc.source \in Names
          BY <1>1 DEF Good
        <4>2. cr.source = NoName /\ cr.target = NoName
          BY <1>1, <2>1 DEF Good
        <4>3. rc.sts \notin {cr.sts, cr.source, cr.target}
          BY <2>1, <4>1, <4>2, LimitsAssumption DEF Names, NoName
        <4> QED BY <4>1, <4>3 DEF IInv, Others
      <3> QED BY <1>1, <1>5, <3>1, <3>2, <3>3
              DEF Backward, CustomResource, Stages, Rolling
    <2>2. CASE SameUpgrade(rc, cr) /\ Backward(cr) /\ cr.stage \in Within(rc.stage)
               /\ (cr.stage = "Cleanup" => rc.stage = "Cleanup")
      <3>1. CASE rc.stage = "Cleanup"
        <4>1. cr.stage = "Cleanup" /\ rc.sts = cr.target
          BY <1>1, <2>2, <3>1, WithinStages DEF Good, SameUpgrade
        <4> QED BY <1>2, <3>1, <4>1 DEF Home
      <3>2. CASE rc.stage \in Rolling
        <4>1. cr.stage \in Rolling /\ rc.sts = cr.source
          BY <1>1, <2>2, <3>2, WithinStages DEF Good, SameUpgrade, Rolling
        <4> QED BY <1>2, <4>1 DEF Home, Keeps
      <3> QED BY <1>1, <1>5, <3>1, <3>2 DEF Backward, CustomResource, Stages, Rolling
    <2>3. "None" \notin Within(rc.stage)
      BY <1>1, <1>5, WithinStages DEF Backward, CustomResource, Stages
    <2> QED BY <1>1, <1>5, <2>1, <2>2, <2>3 DEF Follows, Backward
  <1>6. CASE Cleaning(rc)
    <2>1. CASE cr.stage = "None" /\ cr.sts = rc.sts
      BY <1>2, <2>1 DEF Home, Keeps
    <2>2. CASE SameUpgrade(rc, cr) /\ cr.stage = "Cleanup"
      <3>1. rc.sts = cr.target
        BY <1>1, <1>6, <2>2 DEF Cleaning, Good, SameUpgrade
      <3> QED BY <1>2, <1>6, <2>2, <3>1 DEF Home, Cleaning
    <2> QED BY <1>1, <1>6, <2>1, <2>2 DEF Follows
  <1> QED BY <1>1, <1>3, <1>4, <1>5, <1>6, Kinds

\* The cluster is there already.
LEMMA ClusterStatefulSetStep ==
    ASSUME IInv, ClusterStatefulSet,
           UNCHANGED <<cache, writes, early, edits, crossed, faults>>
    PROVE  IInv' /\ Moves
  <1>1. pc = "ClusterStatefulSet" /\ Working /\ Proceed("PodStatus") /\ UNCHANGED svc
    BY DEF ClusterStatefulSet, Working
  <1>2. Settled(rc) /\ ~Due(rc)
    BY <1>1 DEF IInv, Path, Settled, Due
  <1>3. Exists(rc.sts)
    BY <1>1, <1>2, CopyReady DEF Ready, Exists, Settled
  <1>4. clus' = clus
    BY <1>3 DEF ClusterStatefulSet
  <1>5. /\ TypeOK' /\ Versions' /\ Copy' /\ Home' /\ Others' /\ TargetReady'
        /\ pc' = "PodStatus" /\ UNCHANGED <<cr, rc, watch, cache, clus, early>>
    BY <1>1, <1>4, QuietProceed DEF Steps, IInv, TypeOK
  <1>6. Path' /\ Done' /\ Service'
    BY <1>1, <1>2, <1>5, ServiceKept DEF IInv, Path, Done, Working
  <1> QED BY <1>5, <1>6 DEF IInv, Moves, SameStatus

\* As long as the status has the pods of another cluster, nothing but the
\* version of the resource changes unseen.
LEMMA UnlistedVersion ==
    ASSUME NEW a \in CustomResource, NEW b \in CustomResource, Good(a), Good(b),
           Chained(a, b), ~Due(a), a.pods # a.sts
    PROVE  /\ a.stage \in Unlisted /\ SameStatus(a, b)
           /\ Forward(b) => Forward(a)
  <1>1. a.stage \in Unlisted
    BY DEF Good, Rolling, Unlisted, CustomResource, Stages
  <1>2. CASE Settled(a)
    BY <1>1, <1>2
    DEF Settled, Chained, Follows, Good, SameStatus, Forward, Rolling
  <1>3. CASE Forward(a)
    BY <1>1, <1>3
    DEF Chained, Follows, PodsFollow, SameUpgrade, SameStatus, Good, Forward, Rolling,
        Unlisted
  <1>4. CASE Backward(a)
    <2>1. b.stage = a.stage /\ a.stage # "None"
      BY <1>1, <1>4 DEF Backward, Chained, PodsFollow, Unlisted
    <2>2. SameUpgrade(a, b) /\ b.version = b.from
      BY <1>4, <2>1 DEF Chained, Follows
    <2> QED BY <1>1, <2>1, <2>2
            DEF SameUpgrade, SameStatus, Good, Forward, Rolling, Unlisted
  <1>5. CASE Cleaning(a)
    <2>1. b.stage = "Cleanup" /\ a.stage = "Cleanup"
      BY <1>5 DEF Cleaning, Chained, PodsFollow
    <2> QED BY <1>1, <1>5, <2>1
            DEF Chained, Follows, SameUpgrade, SameStatus, Good, Forward, Rolling
  <1> QED BY <1>2, <1>3, <1>4, <1>5, Kinds

\* The status of the pods is that of the cluster of the copy.  While it is not,
\* the versions differ in nothing that the upgrade goes by.
LEMMA PodStatusStep ==
    ASSUME IInv, PodStatus,
           UNCHANGED <<cache, writes, early, edits, crossed, faults>>
    PROVE  IInv' /\ Moves
  <1>1. pc = "PodStatus" /\ Working /\ UNCHANGED <<clus, svc>>
    BY DEF PodStatus, Working
  <1>2. Good(rc) /\ Follows(rc, cr) /\ rc \in CustomResource /\ ~Due(rc)
    BY <1>1, Copies DEF IInv, Copy, Path
  <1>3. Exists(rc.sts) => Ready(rc.sts)
    BY <1>1, <1>2, CopyReady
  <1>4. rc.sts \in Names
    BY <1>2 DEF CustomResource
  <1> DEFINE after == [rc EXCEPT !.pods = rc.sts]
  <1>5. CASE Requeue
    BY <1>1, <1>5, QuietRequeue
  <1>6. CASE /\ cache = rc /\ Patch(after) /\ rc' = Merged(after) /\ listed' = rc.sts
             /\ pc' = "HotRodRollingUpgrade" /\ UNCHANGED <<again, queued>>
    <2>1. after \in CustomResource
      BY <1>2, <1>4 DEF CustomResource
    <2>2. ASSUME Versions', Copy', cr' \in CustomResource,
                 watch' \in Seq(CustomResource), rc' \in CustomResource,
                 SameStatus(cr, cr'), cr'.version = cr.version,
                 Forward(rc') => Forward(rc), rc'.pods = rc'.sts
          PROVE  IInv' /\ Moves
      <3>1. TypeOK'
        BY <1>1, <1>4, <1>6, <2>2, TypeParts DEF IInv, TypeOK, Steps
      <3>2. Home' /\ Others' /\ TargetReady'
        BY <1>1, <2>2, ClustersKept DEF IInv
      <3>3. Path' /\ Done' /\ Service'
        BY <1>1, <1>6, <2>2, ServiceKept DEF IInv, Path, Done
      <3> QED BY <2>2, <3>1, <3>2, <3>3 DEF IInv, Moves
    <2>3. CASE rc.pods = rc.sts
      <3>1. after = rc
        BY <1>2, <2>3 DEF CustomResource
      <3>2. UNCHANGED <<cr, watch, rc>>
        BY <1>6, <3>1 DEF Patch, Merged, crVars
      <3>3. Versions' /\ Copy'
        BY <1>1, <3>2, CopiesKept DEF IInv
      <3> QED BY <2>2, <2>3, <3>2, <3>3, Copies DEF SameStatus
    <2>4. CASE rc.pods # rc.sts
      <3> DEFINE new == Merged(after)
      <3>1. after # rc /\ new \in CustomResource /\ Write(new)
        BY <1>2, <1>6, <2>1, <2>4, Copies, MergedFields DEF Patch, CustomResource
      <3>2. /\ SameStatus(cr, new) /\ new.version = cr.version
            /\ new.phase = cr.phase /\ new.pods = rc.sts
        BY <1>2, <2>1, <2>4, <3>1, Copies, MergedFields
        DEF SameStatus, CustomResource
      <3>3. /\ rc.stage \in Unlisted /\ SameStatus(rc, cr)
            /\ Forward(cr) => Forward(rc)
        BY <1>2, <1>6, <2>4, UnlistedVersion, Copies
      <3>4. Minor(cr, new)
        BY <3>2, <3>3 DEF Minor, SameStatus
      <3>5. ASSUME NEW x \in CustomResource, Good(x), Chained(x, cr)
            PROVE  Good(new) /\ Chained(x, new)
        BY <3>1, <3>2, <3>4, <3>5, MinorWrite, Copies
      <3>6. Good(new) /\ Chained(cache, new)
        BY <3>5, Copies
      <3>7. \A i \in 1..Len(watch) : watch[i] \in CustomResource
        BY DEF IInv, TypeOK
      <3>8. \A i \in 1..Len(watch) : Chained(watch[i], new) /\ Once(cache, watch[i], new)
        BY <3>2, <3>5, <3>7 DEF IInv, Versions, Once, SameStatus
      <3>9. Versions'
        BY <3>1, <3>6, <3>8, VersionsWrite DEF IInv
      <3>10. /\ cr' = new /\ rc' = new /\ watch' \in Seq(CustomResource)
             /\ \A i \in 1..Len(watch') :
                   \/ i \in 1..Len(watch) /\ watch'[i] = watch[i]
                   \/ i = Len(watch) + 1 /\ watch'[i] = new
        BY <1>6, <3>1, Copies, WriteEffect
      <3>11. SameStatus(rc, new) /\ (Forward(new) => Forward(rc))
        BY <3>2, <3>3 DEF SameStatus, Forward
      <3> HIDE DEF new, after
      <3>12. Follows(new, new)
        BY <3>1, <3>6, ChainedSelf DEF Chained
      <3>13. SameStatus(new, new) /\ SameStatus(new, cache)
        BY <1>6, <3>11 DEF SameStatus
      <3>14. ASSUME NEW i \in 1..Len(watch) PROVE SameStatus(new, watch[i])
        <4>1. SameStatus(rc, watch[i])
          BY <1>2, <1>6, <2>4, <3>7, <3>14, UnlistedVersion DEF IInv, Versions
        <4> QED BY <3>11, <4>1 DEF SameStatus
      <3>15. Copy'
        <4>1. new.stage \in Unlisted
          BY <3>3, <3>11 DEF SameStatus
        <4>2. Behind'
          BY <3>10, <3>13, <3>14, <4>1 DEF Behind
        <4> QED BY <3>6, <3>10, <3>12, <4>2 DEF Copy
      <3>16. new.pods = new.sts
        BY <3>2, <3>11 DEF SameStatus
      <3> QED BY <2>2, <3>1, <3>2, <3>9, <3>10, <3>11, <3>15, <3>16
    <2> QED BY <2>3, <2>4
  <1> QED BY <1>1, <1>3, <1>5, <1>6 DEF PodStatus

\* The upgrade handler has nothing to do.
LEMMA NothingToUpgradeStep ==
    ASSUME IInv, NothingToUpgrade,
           UNCHANGED <<cache, writes, early, edits, crossed, faults>>
    PROVE  IInv' /\ Moves
  BY QuietEnd DEF IInv, TypeOK, NothingToUpgrade, Proceed, crVars

\* The names of the two clusters.
LEMMA NamesOfUpgrade ==
    ASSUME rc \in CustomResource, Good(rc), rc.stage # "None"
    PROVE  /\ Target = rc.target /\ rc.target \in Names
           /\ Source = rc.source /\ rc.source \in Names
           /\ rc.source # rc.target
  BY LimitsAssumption
  DEF Target, Source, getOrCreateTargetStatefulSetName, getSourceStatefulSetName,
      Good, Names, NoName

\* A handler at a stage goes forward with a copy of the upgrade in progress.
LEMMA AtStageForward ==
    ASSUME IInv, NEW s \in Rolling, AtStage(s)
    PROVE  /\ pc = "HotRodRollingUpgrade" /\ Working /\ rc.stage = s /\ Forward(rc)
           /\ rc.pods = rc.sts
  BY Copies DEF AtStage, RollingBack, IInv, Copy, Good, Forward, Working, Path, Rolling

\* A forward copy names the clusters that the resource names.
LEMMA ForwardCopy ==
    ASSUME IInv, Working, Forward(rc)
    PROVE  /\ rc \in CustomResource /\ Good(rc) /\ rc.stage \in Rolling
           /\ Target = rc.target /\ rc.target \in Names
           /\ Source = rc.source /\ rc.source \in Names /\ rc.source # rc.target
           /\ cr.target = rc.target /\ cr.source = rc.source
           /\ cr.operand = rc.operand /\ cr.from = rc.from
           /\ cr.stage \in Within(rc.stage) /\ cr.stage # "None"
           /\ rc.stage # "Replace" => cr.sts = rc.source /\ cr.stage \in Rolling
  <1>1. Good(rc) /\ Follows(rc, cr) /\ Good(cr) /\ rc \in CustomResource
    BY Copies DEF IInv, Copy
  <1>2. rc.stage \in Rolling /\ rc.stage # "None"
    BY DEF Forward, Rolling
  <1>3. SameUpgrade(rc, cr) /\ cr.stage \in Within(rc.stage)
    BY <1>1 DEF Follows
  <1>4. cr.stage # "None" /\ (rc.stage # "Replace" => cr.stage \in Rolling)
    BY <1>2, <1>3, WithinStages DEF Rolling
  <1>5. rc.stage # "Replace" => cr.sts = cr.source
    BY <1>1, <1>4 DEF Good
  <1> QED BY <1>1, <1>2, <1>3, <1>4, <1>5, NamesOfUpgrade DEF SameUpgrade

\* The clients stay with the source while the target is created.
LEMMA createNewStatefulSetStep ==
    ASSUME IInv, createNewStatefulSet,
           UNCHANGED <<cache, writes, early, edits, crossed, faults>>
    PROVE  IInv' /\ Moves
  <1>1. /\ AtStage("Start") /\ svc' = rc.sts /\ Proceed("CreateTarget")
        /\ UNCHANGED clus
    BY DEF createNewStatefulSet
  <1>2. /\ pc = "HotRodRollingUpgrade" /\ Working /\ rc.stage = "Start" /\ Forward(rc)
        /\ rc.pods = rc.sts
    BY <1>1, AtStageForward DEF Rolling
  <1>3. /\ rc.sts = cr.source /\ rc.sts \in Names /\ ~Due(rc)
        /\ cr.stage \in Rolling
    BY <1>2, ForwardCopy DEF Good, Rolling, CustomResource, Due
  <1>4. /\ TypeOK' /\ Versions' /\ Copy' /\ Home' /\ Others' /\ TargetReady'
        /\ pc' = "CreateTarget" /\ UNCHANGED <<cr, rc, watch, cache, clus, early>>
    BY <1>1, <1>2, <1>3, QuietProceed DEF Steps
  <1>5. Path' /\ Done'
    BY <1>2, <1>3, <1>4 DEF Path, Done
  <1>6. Service'
    BY <1>1, <1>3, <1>4 DEF IInv, Home, Keeps, Service, Serves, Ready
  <1> QED BY <1>4, <1>5, <1>6 DEF IInv, Moves, SameStatus

\* A change of the target while the operator goes forward.
LEMMA TargetChanged ==
    ASSUME IInv, Working, Forward(rc), rc.stage # "Replace",
           NEW step \in Steps, pc' = step, step # "RemoveStatefulSet",
           UNCHANGED <<cr, watch, cache, rc, svc, writes, early, edits, crossed>>,
           queued' \in BOOLEAN, listed' \in Names \cup {NoName}, again' \in BOOLEAN,
           faults' \subseteq Faults,
           NEW t \in Clusters, clus' = [clus EXCEPT ![rc.target] = t],
           t.version = rc.operand,
           Ready(rc.target) => t.state = "ready",
           t.caches # "absent", TargetReady', Path', Done'
    PROVE  IInv' /\ Moves
  <1>1. /\ rc.target \in Names /\ cr.source = rc.source /\ rc.source # rc.target
        /\ cr.target = rc.target /\ cr.stage \in Rolling /\ cr.source \in Names
    BY ForwardCopy
  <1>2. clus \in [Names -> Clusters] /\ cr.sts \in Names
    BY DEF IInv, TypeOK, CustomResource
  <1>3. /\ clus'[rc.target] = t
        /\ \A c \in Names : c # rc.target => clus'[c] = clus[c]
    BY <1>1, <1>2
  <1>4. TypeOK'
    BY <1>2, TypeParts DEF IInv, TypeOK
  <1>5. Versions' /\ Copy'
    BY CopiesKept DEF IInv
  <1>6. Home'
    BY <1>1, <1>2, <1>3 DEF IInv, Home, Keeps, Ready, Rolling
  <1>7. Others'
    BY <1>1, <1>3, ForwardCopy DEF IInv, Others, Exists, Ready
  <1>8. Service'
    BY <1>1, <1>3 DEF IInv, Service, Serves, Ready
  <1> QED BY <1>4, <1>5, <1>6, <1>7, <1>8 DEF IInv, Moves, SameStatus

\* The target is created, awaited, or found ready.
LEMMA CreateTargetStep ==
    ASSUME IInv, CreateTarget,
           UNCHANGED <<cache, writes, early, edits, crossed, faults>>
    PROVE  IInv' /\ Moves
  <1>1. /\ pc = "CreateTarget" /\ Working /\ Forward(rc) /\ rc.stage = "Start"
        /\ rc.pods = rc.sts
    BY DEF CreateTarget, Working, IInv, Path
  <1>2. /\ rc \in CustomResource /\ Target = rc.target /\ rc.target \in Names
        /\ cr.target = rc.target /\ cr.stage \in {"Start", "Prepare"}
        /\ UNCHANGED svc
    BY <1>1, ForwardCopy, WithinStages DEF CreateTarget
  <1>3. CASE /\ ~Exists(Target) /\ RequeueEventually
             /\ clus' = [clus EXCEPT ![Target] = Created(rc.operand, "absent")]
    <2> DEFINE t == Created(rc.operand, "absent")
    <2>1. t \in Clusters /\ t.version = rc.operand
      BY <1>2 DEF Created, NoCluster, Clusters, CustomResource, Version
    <2>2. clus[rc.target].state = "absent"
      BY <1>2, <1>3 DEF Exists
    <2>3. cr.stage = "Start"
      BY <1>1, <1>2, <2>2 DEF IInv, TargetReady, Ready
    <2>4. /\ pc' = "AwaitWellFormedCondition" /\ again' \in BOOLEAN
          /\ UNCHANGED <<cr, watch, rc, listed, queued>>
      BY <1>3 DEF RequeueEventually, crVars
    <2>5. /\ queued' \in BOOLEAN /\ listed' \in Names \cup {NoName}
          /\ faults' \subseteq Faults
      BY <2>4 DEF IInv, TypeOK
    <2>6. Path' /\ Done' /\ TargetReady'
      BY <2>3, <2>4, Resting DEF TargetReady
    <2>7. svc # rc.target
      BY <1>2, <2>2 DEF IInv, Service, Serves, Ready, Any, Names
    <2>8. /\ clus \in [Names -> Clusters] /\ cr.source = rc.source
          /\ rc.source # rc.target /\ cr.source \in Names
      BY <1>1, ForwardCopy DEF IInv, TypeOK
    <2>9. /\ clus'[rc.target] = t
          /\ \A c \in Names : c # rc.target => clus'[c] = clus[c]
      BY <1>2, <1>3, <2>8
    <2> HIDE DEF t
    <2>10. TypeOK'
      BY <1>2, <1>3, <2>1, <2>4, <2>5, <2>8, <2>9, TypeParts DEF IInv, TypeOK, Steps, t
    <2>11. Versions' /\ Copy'
      BY <1>1, <2>4, CopiesKept DEF IInv
    <2>12. cr.sts \in Names
      BY DEF IInv, TypeOK, CustomResource
    <2>13. Home'
      BY <1>2, <2>3, <2>4, <2>8, <2>9, <2>12 DEF IInv, Home, Keeps, Ready, Rolling
    <2>14. Others'
      BY <1>1, <1>2, <2>1, <2>3, <2>4, <2>9, ForwardCopy DEF IInv, Others, Exists
    <2>15. Service'
      BY <1>2, <2>4, <2>7, <2>9 DEF IInv, Service, Serves, Ready
    <2> QED BY <2>4, <2>6, <2>10, <2>11, <2>13, <2>14, <2>15 DEF IInv, Moves, SameStatus
  <1>4. CASE RequeueEventually /\ UNCHANGED clus
    BY <1>2, <1>4, QuietWait DEF IInv, TypeOK
  <1>5. CASE /\ Ready(Target) /\ UNCHANGED clus
             /\ UpdateThen([rc EXCEPT !.stage = "Prepare"],
                           "AwaitWellFormedCondition")
    <2> DEFINE after == [rc EXCEPT !.stage = "Prepare"]
               new == Merged(after)
    <2>1. after \in CustomResource /\ after # rc
      BY <1>1, <1>2 DEF CustomResource, Stages
    <2>2. CASE Requeue
      BY <1>2, <1>5, <2>2, QuietRequeue
    <2>3. CASE /\ cache = rc /\ Write(new)
               /\ rc' = new /\ pc' = "AwaitWellFormedCondition"
               /\ UNCHANGED <<listed, again, queued>>
      <3>1. new \in CustomResource /\ cr' = new
        BY <1>2, <2>1, <2>3, Copies, MergedFields DEF Write
      <3>2. Advanced(cache, cr, new)
        BY <1>1, <1>2, <2>1, <2>3, Copies, MergedFields, WithinStages
        DEF Advanced, CustomResource
      <3>3. Prepared(cache)
        BY <1>1, <1>2, <1>5, <2>3 DEF Prepared
      <3> HIDE DEF new, after
      <3>4. Home' /\ Others' /\ TargetReady'
        BY <1>1, <1>5, <2>3, <3>1, <3>2, <3>3, ClustersAdvanced, Resting
      <3>5. /\ queued' \in BOOLEAN /\ listed' \in Names \cup {NoName}
            /\ again' \in BOOLEAN /\ rc' \in CustomResource
        BY <2>3, <3>1 DEF IInv, TypeOK
      <3>6. OperatorWrote(cache, cr, new)
        BY <1>1, <2>3, <3>2 DEF OperatorWrote
      <3> QED BY <1>2, <1>5, <2>3, <3>1, <3>4, <3>5, <3>6, WriteEnd
    <2> QED BY <1>5, <2>1, <2>2, <2>3, UpdateThenCases
  <1> QED BY <1>2, <1>3, <1>4, <1>5 DEF CreateTarget

\* The caches of the target are connected before the clients come to it.
LEMMA prepareStep ==
    ASSUME IInv, prepare, UNCHANGED <<cache, writes, early, edits, crossed, faults>>
    PROVE  IInv' /\ Moves
  <1>1. AtStage("Prepare") /\ UNCHANGED svc
    BY DEF prepare
  <1>2. /\ pc = "HotRodRollingUpgrade" /\ Working /\ rc.stage = "Prepare" /\ Forward(rc)
        /\ rc.pods = rc.sts
    BY <1>1, AtStageForward DEF Rolling
  <1>3. /\ rc \in CustomResource /\ Target = rc.target /\ rc.target \in Names
        /\ Source = rc.source /\ rc.source \in Names
        /\ cr.target = rc.target /\ cr.stage \in {"Prepare", "Redirect"}
        /\ cr.operand = rc.operand /\ ~Due(rc)
    BY <1>2, ForwardCopy, WithinStages DEF Due
  <1>4. CASE RequeueEventually /\ UNCHANGED clus
    BY <1>1, <1>4, QuietWait DEF IInv, TypeOK
  <1>5. CASE /\ BothReady /\ Proceed("UpdateStage")
             /\ clus' = [clus EXCEPT ![Target].caches = "connected",
                                     ![Target].source = Source]
    <2> DEFINE t == [clus[rc.target] EXCEPT !.caches = "connected",
                                            !.source = rc.source]
    <2>1. clus \in [Names -> Clusters] /\ clus[rc.target] \in Clusters
      BY <1>3 DEF IInv, TypeOK
    <2>2. clus' = [clus EXCEPT ![rc.target] = t]
      BY <1>3, <1>5, <2>1
    <2>3. Ready(rc.target) /\ clus[rc.target].version = rc.operand
      BY <1>3, <1>5 DEF BothReady, IInv, Others, Ready, Exists
    <2>4. /\ t \in Clusters /\ t.version = rc.operand /\ t.caches = "connected"
          /\ t.state = "ready"
      BY <1>3, <2>1, <2>3 DEF Clusters, Ready
    <2>5. clus'[rc.target] = t
      BY <1>3, <2>1, <2>2
    <2> HIDE DEF t
    <2>6. /\ pc' = "UpdateStage" /\ UNCHANGED <<cr, watch, rc, listed, again, queued>>
      BY <1>5 DEF Proceed, crVars
    <2>7. TargetReady'
      BY <1>3, <2>4, <2>5, <2>6 DEF TargetReady, Ready
    <2>8. Path' /\ Done'
      BY <1>2, <1>3, <2>4, <2>5, <2>6 DEF Path, Done, Ready
    <2>9. /\ queued' \in BOOLEAN /\ listed' \in Names \cup {NoName}
          /\ again' \in BOOLEAN /\ faults' \subseteq Faults
      BY <2>6 DEF IInv, TypeOK
    <2> QED BY <1>1, <1>2, <2>2, <2>4, <2>6, <2>7, <2>8, <2>9, TargetChanged DEF Steps
  <1> QED BY <1>4, <1>5 DEF prepare

\* The target that the clients are sent to is ready and has caches.
LEMMA redirectServiceStep ==
    ASSUME IInv, redirectService,
           UNCHANGED <<cache, writes, early, edits, crossed, faults>>
    PROVE  IInv' /\ Moves
  <1>1. /\ AtStage("Redirect") /\ svc' = rc.target /\ Proceed("UpdateStage")
        /\ UNCHANGED clus
    BY DEF redirectService
  <1>2. /\ pc = "HotRodRollingUpgrade" /\ Working /\ rc.stage = "Redirect" /\ Forward(rc)
        /\ rc.pods = rc.sts
    BY <1>1, AtStageForward DEF Rolling
  <1>3. /\ rc.target \in Names /\ cr.target = rc.target
        /\ cr.stage \in {"Redirect", "Sync"} /\ ~Due(rc)
    BY <1>2, ForwardCopy, WithinStages DEF Due
  <1>4. /\ TypeOK' /\ Versions' /\ Copy' /\ Home' /\ Others' /\ TargetReady'
        /\ pc' = "UpdateStage" /\ UNCHANGED <<cr, rc, watch, cache, clus, early>>
    BY <1>1, <1>2, <1>3, QuietProceed DEF Steps
  <1>5. Path' /\ Done'
    BY <1>2, <1>3, <1>4 DEF Path, Done
  <1>6. Ready(rc.target) /\ clus[rc.target].caches # "absent"
    BY <1>2, <1>3 DEF IInv, TargetReady
  <1>7. Service'
    BY <1>1, <1>3, <1>4, <1>6 DEF Service, Serves, Ready
  <1> QED BY <1>4, <1>5, <1>7 DEF IInv, Moves, SameStatus

\* The target has the entries of the source before it is disconnected.
LEMMA syncDataStep ==
    ASSUME IInv, syncData, UNCHANGED <<cache, writes, early, edits, crossed, faults>>
    PROVE  IInv' /\ Moves
  <1>1. AtStage("Sync") /\ UNCHANGED svc
    BY DEF syncData
  <1>2. /\ pc = "HotRodRollingUpgrade" /\ Working /\ rc.stage = "Sync" /\ Forward(rc)
        /\ rc.pods = rc.sts
    BY <1>1, AtStageForward DEF Rolling
  <1>3. /\ rc \in CustomResource /\ Target = rc.target /\ rc.target \in Names
        /\ Source = rc.source /\ rc.source \in Names /\ cr.source = rc.source
        /\ cr.target = rc.target /\ cr.stage \in {"Sync", "Replace"}
        /\ cr.operand = rc.operand /\ ~Due(rc)
    BY <1>2, ForwardCopy, WithinStages DEF Due
  <1>4. CASE RequeueEventually /\ UNCHANGED clus
    BY <1>1, <1>4, QuietWait DEF IInv, TypeOK
  <1>5. CASE /\ clus[Target].caches # "connected" /\ Proceed("DisconnectSource")
             /\ UNCHANGED clus
    <2>1. /\ TypeOK' /\ Versions' /\ Copy' /\ Home' /\ Others' /\ TargetReady'
          /\ pc' = "DisconnectSource" /\ UNCHANGED <<cr, rc, watch, cache, clus, early>>
      BY <1>1, <1>2, <1>5, QuietProceed DEF Steps, IInv, TypeOK
    <2>2. early \subseteq clus[rc.target].data
      BY <1>2, <1>3, <1>5 DEF IInv, TargetReady
    <2>3. Path' /\ Done'
      BY <1>2, <1>3, <2>1, <2>2 DEF Path, Done
    <2>4. Service'
      BY <1>1, <2>1, ServiceKept DEF IInv
    <2> QED BY <2>1, <2>3, <2>4 DEF IInv, Moves, SameStatus
  <1>6. CASE /\ BothReady /\ Proceed("DisconnectSource")
             /\ clus[Target].caches = "connected"
             /\ clus' = [clus EXCEPT ![Target].data = @ \cup clus[Source].data]
    <2> DEFINE t == [clus[rc.target] EXCEPT !.data = @ \cup clus[rc.source].data]
    <2>1. /\ clus \in [Names -> Clusters] /\ clus[rc.target] \in Clusters
          /\ clus[rc.source] \in Clusters
      BY <1>3 DEF IInv, TypeOK
    <2>2. clus' = [clus EXCEPT ![rc.target] = t]
      BY <1>3, <1>6, <2>1
    <2>3. Ready(rc.target) /\ clus[rc.target].version = rc.operand
      BY <1>3, <1>6 DEF BothReady, IInv, Others, Ready, Exists
    <2>4. /\ t \in Clusters /\ t.version = rc.operand
          /\ t.caches = clus[rc.target].caches /\ t.state = "ready"
          /\ t.data = clus[rc.target].data \cup clus[rc.source].data
      BY <1>3, <2>1, <2>3 DEF Clusters, Ready
    <2>5. clus'[rc.target] = t
      BY <1>3, <2>1, <2>2
    <2> HIDE DEF t
    <2>6. /\ pc' = "DisconnectSource"
          /\ UNCHANGED <<cr, watch, rc, listed, again, queued>>
      BY <1>6 DEF Proceed, crVars
    <2>7. early \subseteq t.data
      BY <1>3, <2>4 DEF IInv, Home, Keeps, Rolling
    <2>8. clus[rc.target].caches \in {"own", "connected"}
      BY <1>2, <1>3 DEF IInv, TargetReady
    <2>9. TargetReady'
      BY <1>2, <1>3, <2>4, <2>5, <2>6, <2>7, <2>8 DEF IInv, TargetReady, Ready
    <2>10. Path' /\ Done'
      BY <1>2, <1>3, <2>4, <2>5, <2>6, <2>7 DEF Path, Done
    <2>11. /\ queued' \in BOOLEAN /\ listed' \in Names \cup {NoName}
           /\ again' \in BOOLEAN /\ faults' \subseteq Faults
      BY <2>6 DEF IInv, TypeOK
    <2> QED BY <1>1, <1>2, <2>2, <2>4, <2>6, <2>8, <2>9, <2>10, <2>11, TargetChanged
            DEF Steps
  <1> QED BY <1>4, <1>5, <1>6, <1>3 DEF syncData, IInv, TargetReady, BothReady

\* The target is on its own with all the entries.
LEMMA DisconnectSourceStep ==
    ASSUME IInv, DisconnectSource,
           UNCHANGED <<cache, writes, early, edits, crossed, faults>>
    PROVE  IInv' /\ Moves
  <1>1. /\ pc = "DisconnectSource" /\ UNCHANGED svc /\ Proceed("UpdateStage")
        /\ clus' = [clus EXCEPT ![Target].caches = "own", ![Target].source = NoName]
    BY DEF DisconnectSource
  <1>2. /\ Working /\ rc.stage = "Sync" /\ Forward(rc) /\ rc.pods = rc.sts
        /\ early \subseteq clus[rc.target].data
    BY <1>1 DEF IInv, Path, Done, Working
  <1>3. /\ rc \in CustomResource /\ Target = rc.target /\ rc.target \in Names
        /\ cr.target = rc.target /\ cr.stage \in {"Sync", "Replace"}
        /\ cr.operand = rc.operand /\ ~Due(rc)
    BY <1>2, ForwardCopy, WithinStages DEF Due
  <1> DEFINE t == [clus[rc.target] EXCEPT !.caches = "own", !.source = NoName]
  <1>4. clus \in [Names -> Clusters] /\ clus[rc.target] \in Clusters
    BY <1>3 DEF IInv, TypeOK
  <1>5. clus' = [clus EXCEPT ![rc.target] = t]
    BY <1>1, <1>3, <1>4
  <1>6. Ready(rc.target) /\ clus[rc.target].version = rc.operand
    BY <1>2, <1>3 DEF IInv, TargetReady, Others, Ready, Exists
  <1>7. /\ t \in Clusters /\ t.version = rc.operand /\ t.caches = "own"
        /\ t.state = "ready" /\ t.data = clus[rc.target].data
    BY <1>3, <1>4, <1>6 DEF Clusters, Ready
  <1>8. clus'[rc.target] = t
    BY <1>3, <1>4, <1>5
  <1> HIDE DEF t
  <1>9. /\ pc' = "UpdateStage" /\ UNCHANGED <<cr, watch, rc, listed, again, queued>>
    BY <1>1 DEF Proceed, crVars
  <1>10. TargetReady'
    BY <1>2, <1>3, <1>7, <1>8, <1>9 DEF TargetReady, Ready
  <1>11. Path' /\ Done'
    BY <1>2, <1>3, <1>7, <1>8, <1>9 DEF Path, Done
  <1>12. /\ queued' \in BOOLEAN /\ listed' \in Names \cup {NoName}
         /\ again' \in BOOLEAN /\ faults' \subseteq Faults
    BY <1>9 DEF IInv, TypeOK
  <1> QED BY <1>1, <1>2, <1>5, <1>7, <1>9, <1>10, <1>11, <1>12, TargetChanged DEF Steps

\* The stage is written after what it stands for is done.
LEMMA updateStageStep ==
    ASSUME IInv, updateStage,
           UNCHANGED <<cache, writes, early, edits, crossed, faults>>
    PROVE  IInv' /\ Moves
  <1>1. /\ pc = "UpdateStage" /\ Working /\ Forward(rc)
        /\ rc.stage \in {"Prepare", "Redirect", "Sync"} /\ rc.pods = rc.sts
        /\ UNCHANGED <<clus, svc>>
    BY DEF updateStage, Working, IInv, Path
  <1>2. rc \in CustomResource
    BY Copies
  <1>3. PICK s \in Within(rc.stage) \ {rc.stage} :
             /\ s \in Stages
             /\ UpdateThen([rc EXCEPT !.stage = s], "AwaitWellFormedCondition")
    <2>1. CASE rc.stage = "Prepare"
      BY <2>1, WithinStages DEF updateStage, Stages
    <2>2. CASE rc.stage = "Redirect"
      BY <2>2, WithinStages DEF updateStage, Stages
    <2>3. CASE rc.stage = "Sync"
      BY <2>3, WithinStages DEF updateStage, Stages
    <2> QED BY <1>1, <2>1, <2>2, <2>3
  <1> DEFINE after == [rc EXCEPT !.stage = s]
             new == Merged(after)
  <1>4. after \in CustomResource /\ after # rc
    BY <1>2, <1>3 DEF CustomResource
  <1>5. CASE Requeue
    BY <1>1, <1>5, QuietRequeue
  <1>6. CASE /\ cache = rc /\ Write(new)
             /\ rc' = new /\ pc' = "AwaitWellFormedCondition"
             /\ UNCHANGED <<listed, again, queued>>
    <2>1. new \in CustomResource /\ cr' = new
      BY <1>2, <1>4, <1>6, Copies, MergedFields DEF Write
    <2>2. Advanced(cache, cr, new)
      BY <1>2, <1>3, <1>4, <1>6, Copies, MergedFields DEF Advanced, CustomResource
    <2>3. Prepared(cache)
      BY <1>1, <1>6 DEF Prepared, IInv, Done
    <2> HIDE DEF new, after
    <2>4. Home' /\ Others' /\ TargetReady'
      BY <1>1, <1>6, <2>1, <2>2, <2>3, ClustersAdvanced, Resting
    <2>5. /\ queued' \in BOOLEAN /\ listed' \in Names \cup {NoName}
          /\ again' \in BOOLEAN /\ rc' \in CustomResource
      BY <1>6, <2>1 DEF IInv, TypeOK
    <2>6. OperatorWrote(cache, cr, new)
      BY <1>1, <1>6, <2>2 DEF OperatorWrote
    <2> QED BY <1>1, <1>6, <2>1, <2>4, <2>5, <2>6, WriteEnd
  <1> QED BY <1>3, <1>4, <1>5, <1>6, UpdateThenCases

\* The StatefulSet of the resource is replaced by the target.
LEMMA replaceStatefulSetStep ==
    ASSUME IInv, replaceStatefulSet, ~Overtakes,
           UNCHANGED <<cache, writes, early, edits, crossed, faults>>
    PROVE  IInv' /\ Moves
  <1>1. AtStage("Replace") /\ UNCHANGED <<clus, svc>>
    BY DEF replaceStatefulSet
  <1>2. Working /\ Forward(rc) /\ rc.stage = "Replace"
    BY <1>1, AtStageForward DEF Rolling
  <1>3. /\ rc \in CustomResource /\ Target = rc.target /\ rc.target \in Names
        /\ rc.target # rc.sts
    BY <1>2, ForwardCopy DEF Good, Rolling
  <1> DEFINE after == [rc EXCEPT !.stage = "Cleanup", !.sts = rc.target,
                                 !.phase = "Running"]
             new == Merged(after)
  <1>4. after \in CustomResource /\ after # rc
    BY <1>2, <1>3 DEF CustomResource, Stages
  <1>5. CASE Requeue
    BY <1>1, <1>5, QuietRequeue
  <1>6. CASE /\ cache = rc /\ Write(new)
             /\ rc' = new /\ pc' = "AwaitWellFormedCondition"
             /\ UNCHANGED <<listed, again, queued>>
    <2>1. new \in CustomResource /\ cr' = new
      BY <1>3, <1>4, <1>6, Copies, MergedFields DEF Write
    <2>2. Replaced(cache, cr, new)
      <3>1. /\ after.stage = "Cleanup" /\ after.sts = rc.target
            /\ after.phase = "Running" /\ after.operand = rc.operand
            /\ after.source = rc.source /\ after.target = rc.target
            /\ after.from = rc.from /\ after.version = rc.version
            /\ after.pods = rc.pods
        BY <1>3 DEF CustomResource
      <3> HIDE DEF after
      <3> QED BY <1>2, <1>3, <1>4, <1>6, <3>1, Copies, MergedFields DEF Replaced
    <2> HIDE DEF new, after
    <2>3. ~Backward(cr)
      BY <1>1, <1>6 DEF Overtakes, Backward
    <2>4. Home' /\ Others' /\ TargetReady'
      BY <1>1, <1>2, <1>6, <2>1, <2>2, <2>3, ClustersReplaced, Resting
    <2>5. /\ queued' \in BOOLEAN /\ listed' \in Names \cup {NoName}
          /\ again' \in BOOLEAN /\ rc' \in CustomResource
      BY <1>6, <2>1 DEF IInv, TypeOK
    <2>6. OperatorWrote(cache, cr, new)
      BY <1>2, <1>6, <2>2, <2>3 DEF OperatorWrote
    <2> QED BY <1>1, <1>6, <2>1, <2>4, <2>5, <2>6, WriteEnd
  <1> QED BY <1>3, <1>4, <1>5, <1>6, UpdateThenCases DEF replaceStatefulSet

\* Only a target that is well formed takes the place of the source.
LEMMA cleanupStep ==
    ASSUME IInv, cleanup, UNCHANGED <<cache, writes, early, edits, crossed, faults>>
    PROVE  IInv' /\ Moves
  <1>1. /\ pc = "HotRodRollingUpgrade" /\ Working /\ Cleaning(rc) /\ rc.pods = rc.sts
        /\ UNCHANGED <<clus, svc>>
    BY DEF cleanup, AtStage, RollingBack, Working, Cleaning, IInv, Path
  <1>2. CASE RequeueEventually
    BY <1>1, <1>2, QuietWait DEF IInv, TypeOK
  <1>3. CASE Proceed("RemoveSelector")
    <2>1. /\ TypeOK' /\ Versions' /\ Copy' /\ Home' /\ Others' /\ TargetReady'
          /\ pc' = "RemoveSelector" /\ UNCHANGED <<cr, rc, watch, cache, clus, early>>
      BY <1>1, <1>3, QuietProceed DEF Steps, IInv, TypeOK
    <2>2. Path' /\ Done' /\ Service'
      BY <1>1, <2>1, ServiceKept DEF IInv, Path, Done, Due, Cleaning
    <2> QED BY <2>1, <2>2 DEF IInv, Moves, SameStatus
  <1> QED BY <1>2, <1>3 DEF cleanup

\* A backward copy names the source, which keeps the entries.
LEMMA BackwardCopy ==
    ASSUME IInv, Working, Backward(rc)
    PROVE  /\ rc \in CustomResource /\ Good(rc)
           /\ Target = rc.target /\ rc.target \in Names
           /\ rc.source \in Names /\ rc.source # rc.target
           /\ Keeps(rc.source, rc.from)
           /\ \/ cr.stage = "None" /\ cr.sts = rc.source
              \/ SameUpgrade(rc, cr) /\ Backward(cr)
           /\ ~Forward(rc) /\ (~Forward(cache) \/ cr.stage = "Start")
           /\ rc.version = rc.from /\ ~Due(rc) /\ rc.stage # "None"
  <1>1. /\ Good(rc) /\ Follows(rc, cr) /\ Good(cr) /\ rc \in CustomResource
        /\ cr \in CustomResource /\ Home /\ Behind
    BY Copies DEF IInv, Copy
  <1>2. rc.stage # "None" /\ rc.version = rc.from /\ ~Forward(rc) /\ ~Due(rc)
    BY DEF Backward, Forward, Due
  <1>3. /\ Target = rc.target /\ rc.target \in Names
        /\ rc.source \in Names /\ rc.source # rc.target
    BY <1>1, <1>2, NamesOfUpgrade
  <1>4. "None" \notin Within(rc.stage)
    BY <1>1, <1>2, WithinStages DEF CustomResource, Stages
  <1>5. \/ cr.stage = "None" /\ cr.sts = rc.source /\ cr.operand = rc.from
        \/ SameUpgrade(rc, cr) /\ Backward(cr)
    BY <1>1, <1>4 DEF Follows, Backward
  <1>6. Keeps(rc.source, rc.from)
    <2>1. CASE cr.stage = "None" /\ cr.sts = rc.source /\ cr.operand = rc.from
      BY <1>1, <2>1 DEF Home
    <2>2. CASE SameUpgrade(rc, cr) /\ Backward(cr)
      <3>1. cr.stage \in Rolling \/ cr.stage = "Cleanup"
        BY <1>1, <2>2 DEF Backward, CustomResource, Stages, Rolling
      <3>2. Keeps(cr.source, cr.from)
        BY <1>1, <2>2, <3>1 DEF Home
      <3> QED BY <2>2, <3>2 DEF SameUpgrade
    <2> QED BY <1>5, <2>1, <2>2
  <1>7. ~Forward(cache) \/ cr.stage = "Start"
    <2>1. CASE Follows(rc, cache)
      BY <2>1 DEF Follows, Forward, Rolling
    <2>2. CASE rc.stage \in Unlisted /\ SameStatus(rc, cr) /\ SameStatus(rc, cache)
      BY <1>2, <2>2 DEF SameStatus, Forward, Rolling, Unlisted
    <2> QED BY <1>1, <2>1, <2>2 DEF Behind
  <1> QED BY <1>1, <1>2, <1>3, <1>5, <1>6, <1>7

\* A copy at the last stage names the source, which is not in use any more.
LEMMA CleaningCopy ==
    ASSUME IInv, Working, Cleaning(rc)
    PROVE  /\ rc \in CustomResource /\ Good(rc)
           /\ Source = rc.source /\ rc.source \in Names
           /\ cr.sts = rc.sts /\ cr.sts # rc.source
           /\ cr.stage = "None" \/ (cr.stage = "Cleanup" /\ SameUpgrade(rc, cr))
           /\ ~Forward(rc) /\ ~Forward(cache) /\ ~Backward(rc)
           /\ rc.version # rc.from /\ ~Due(rc)
  <1>1. /\ Good(rc) /\ Follows(rc, cr) /\ Good(cr) /\ rc \in CustomResource
        /\ Behind
    BY Copies DEF IInv, Copy
  <1>2. rc.stage = "Cleanup" /\ rc.sts = rc.target /\ rc.version # rc.from
    BY <1>1 DEF Cleaning, Good
  <1>3. ~Forward(rc) /\ ~Backward(rc) /\ ~Due(rc)
    BY <1>2 DEF Forward, Backward, Due, Rolling
  <1>4. ~Forward(cache)
    BY <1>1, <1>2 DEF Behind, SameStatus, Follows, Cleaning, Forward, Rolling
  <1>5. /\ Source = rc.source /\ rc.source \in Names /\ rc.source # rc.target
    BY <1>1, <1>2, NamesOfUpgrade
  <1>6. /\ cr.sts = rc.sts
        /\ cr.stage = "None" \/ (cr.stage = "Cleanup" /\ SameUpgrade(rc, cr))
    BY <1>1, <1>2 DEF Follows, Cleaning, SameUpgrade, Good
  <1> QED BY <1>1, <1>2, <1>3, <1>4, <1>5, <1>6

\* A rollback leads the clients to the source first.
LEMMA rollbackStep ==
    ASSUME IInv, rollback, UNCHANGED <<cache, writes, early, edits, crossed, faults>>
    PROVE  IInv' /\ Moves
  <1>1. /\ pc = "HotRodRollingUpgrade" /\ Working /\ rc.stage # "None"
        /\ rc.version = rc.from /\ svc' = rc.source /\ pc' = "RemoveSelector"
        /\ again' = TRUE /\ UNCHANGED <<cr, watch, rc, listed, queued, clus>>
    BY DEF rollback, RollingBack, Working, crVars
  <1>2. Good(rc) /\ rc \in CustomResource /\ rc.pods = rc.sts
    BY <1>1, Copies DEF IInv, Copy, Path
  <1>3. Backward(rc)
    BY <1>1 DEF Backward
  <1>4. Keeps(rc.source, rc.from) /\ rc.source \in Names /\ ~Due(rc)
    BY <1>1, <1>3, BackwardCopy
  <1>5. TypeOK'
    BY <1>1, <1>4, TypeParts DEF IInv, TypeOK, Steps
  <1>6. Versions' /\ Copy'
    BY <1>1, CopiesKept DEF IInv
  <1>7. Home' /\ Others' /\ TargetReady'
    BY <1>1, ClustersKept DEF IInv, SameStatus
  <1>8. Path' /\ Done'
    BY <1>1, <1>2, <1>3, <1>4 DEF Path, Done
  <1>9. Service'
    BY <1>1, <1>4 DEF Keeps, Service, Serves, Ready
  <1> QED BY <1>1, <1>5, <1>6, <1>7, <1>8, <1>9 DEF IInv, Moves, SameStatus

\* No selector names the cluster that is about to be removed.
LEMMA RemoveSelectorStep ==
    ASSUME IInv, RemoveSelector,
           UNCHANGED <<cache, writes, early, edits, crossed, faults>>
    PROVE  IInv' /\ Moves
  <1>1. /\ pc = "RemoveSelector" /\ Working /\ Proceed("RemoveStatefulSet")
        /\ svc' = Any /\ UNCHANGED clus
    BY DEF RemoveSelector, Working
  <1>2. /\ TypeOK' /\ Versions' /\ Copy' /\ Home' /\ Others' /\ TargetReady'
        /\ pc' = "RemoveStatefulSet" /\ UNCHANGED <<cr, rc, watch, cache, clus, early>>
    BY <1>1, QuietProceed DEF Steps
  <1>3. Path' /\ Done' /\ Service'
    BY <1>1, <1>2 DEF IInv, Path, Done, Service, Working
  <1> QED BY <1>2, <1>3 DEF IInv, Moves, SameStatus

\* The cluster that is removed is not the one that has the entries.
LEMMA RemoveStatefulSetStep ==
    ASSUME IInv, RemoveStatefulSet, ~Overtakes,
           UNCHANGED <<cache, writes, early, edits, crossed, faults>>
    PROVE  IInv' /\ Moves
  <1>1. /\ pc = "RemoveStatefulSet" /\ Working /\ Proceed("RemoveStatus")
        /\ clus' = [clus EXCEPT ![IF RollingBack THEN Target ELSE Source] = NoCluster]
        /\ UNCHANGED svc /\ svc = Any
    BY DEF RemoveStatefulSet, Working, IInv, Service
  <1>2. /\ pc' = "RemoveStatus" /\ UNCHANGED <<cr, watch, rc, listed, again, queued>>
    BY <1>1 DEF Proceed, crVars
  <1>3. Backward(rc) \/ Cleaning(rc)
    BY <1>1 DEF IInv, Path
  <1>4. PICK r \in Names :
           /\ clus' = [clus EXCEPT ![r] = NoCluster]
           /\ r = IF Backward(rc) THEN rc.target ELSE rc.source
    BY <1>1, <1>3, BackwardCopy, CleaningCopy DEF RollingBack
  <1>5. /\ ~Forward(rc) /\ ~Due(rc)
        /\ ~Forward(cache) \/ cr.stage = "Start"
    BY <1>1, <1>3, BackwardCopy, CleaningCopy
  <1>6. clus \in [Names -> Clusters] /\ NoCluster \in Clusters /\ cr.sts \in Names
    BY DEF IInv, TypeOK, CustomResource, NoCluster, Clusters
  <1>7. /\ clus'[r] = NoCluster /\ clus' \in [Names -> Clusters]
        /\ \A c \in Names : c # r => clus'[c] = clus[c]
    BY <1>4, <1>6
  <1>8. TypeOK'
    BY <1>1, <1>2, <1>7, TypeParts DEF IInv, TypeOK, Steps
  <1>9. Versions' /\ Copy'
    BY <1>1, <1>2, CopiesKept DEF IInv
  <1>10. Cleaning(rc) => ~Backward(rc) /\ ~Backward(cr)
    <2>1. Cleaning(rc) => ~RollingBack
      BY DEF Cleaning, RollingBack
    <2> QED BY <1>1, <2>1 DEF Overtakes, Cleaning, Backward
  <1>11. cr.stage # "None" => cr.source \in Names /\ cr.target \in Names
    BY Copies DEF Good
  <1>12. Home'
    <2>1. Home /\ Good(cr) /\ cr \in CustomResource
      BY Copies DEF IInv
    <2>2. CASE Backward(rc)
      <3>1. r = rc.target /\ rc.source # r
        BY <1>1, <1>4, <2>2, BackwardCopy
      <3>2. CASE cr.stage = "None" /\ cr.sts = rc.source
        BY <1>2, <1>6, <1>7, <2>1, <3>1, <3>2 DEF Home, Keeps, Ready, Rolling
      <3>3. CASE SameUpgrade(rc, cr) /\ Backward(cr)
        <4>1. cr.source # r /\ cr.target = r /\ cr.stage # "None"
          BY <3>1, <3>3 DEF SameUpgrade, Backward
        <4>2. ~Exists(cr.target)' /\ ~Cleaning(cr) /\ Backward(cr)
          BY <1>2, <1>7, <3>3, <4>1 DEF Exists, NoCluster, Cleaning, Backward
        <4> QED BY <1>2, <1>7, <1>11, <2>1, <4>1, <4>2
                DEF Home, Keeps, Ready, Exists, Cleaning, Backward
      <3> QED BY <1>1, <2>2, <3>2, <3>3, BackwardCopy
    <2>3. CASE Cleaning(rc)
      <3>1. r = rc.source /\ cr.sts # r
        BY <1>1, <1>4, <1>10, <2>3, CleaningCopy
      <3>2. CASE cr.stage = "None"
        BY <1>2, <1>6, <1>7, <2>1, <3>1, <3>2 DEF Home, Keeps, Ready, Rolling
      <3>3. CASE cr.stage = "Cleanup" /\ SameUpgrade(rc, cr)
        <4>1. cr.source = r /\ cr.target = cr.sts
          BY <2>1, <3>1, <3>3 DEF SameUpgrade, Good
        <4>2. ~Exists(cr.source)' /\ ~Backward(cr)
          BY <1>2, <1>7, <1>10, <2>3, <4>1 DEF Exists, NoCluster
        <4> QED BY <1>2, <1>6, <1>7, <2>1, <3>1, <3>3, <4>1, <4>2
                DEF Home, Keeps, Ready, Exists, Cleaning, Backward, Rolling
      <3> QED BY <1>1, <2>3, <3>2, <3>3, CleaningCopy
    <2> QED BY <1>3, <2>2, <2>3
  <1>13. Others'
    BY <1>2, <1>4, <1>7, <1>11 DEF IInv, Others, Exists, NoCluster
  <1>14. TargetReady'
    BY <1>2, <1>5 DEF TargetReady
  <1>15. Path'
    BY <1>1, <1>2, <1>3, <1>5 DEF IInv, Path, Working
  <1>16. Done'
    BY <1>2, <1>4, <1>7, <1>10 DEF Done, Exists, NoCluster, Backward
  <1>17. Service'
    BY <1>1, <1>2 DEF Service
  <1> QED BY <1>2, <1>8, <1>9, <1>12, <1>13, <1>14, <1>15, <1>16, <1>17
          DEF IInv, Moves, SameStatus

\* The status of the upgrade goes after the cluster that it removes.
LEMMA RemoveStatusStep ==
    ASSUME IInv, RemoveStatus,
           UNCHANGED <<cache, writes, early, edits, crossed, faults>>
    PROVE  IInv' /\ Moves
  <1>1. pc = "RemoveStatus" /\ Working /\ UNCHANGED <<clus, svc>>
    BY DEF RemoveStatus, Working
  <1>2. (Backward(rc) \/ Cleaning(rc)) /\ rc.pods = rc.sts
    BY <1>1 DEF IInv, Path, Working
  <1>3. /\ Backward(rc) => ~Exists(rc.target)
        /\ Cleaning(rc) => ~Exists(rc.source) /\ ~Backward(cr)
    BY <1>1 DEF IInv, Done
  <1>4. CASE Backward(rc)
    <2>1. /\ rc \in CustomResource /\ Good(rc) /\ rc.version = rc.from
          /\ rc.source \in Names /\ rc.target \in Names /\ rc.stage # "None"
      BY <1>1, <1>4, BackwardCopy
    <2>2. rc.from \in Version /\ rc.from # rc.operand
      BY <2>1 DEF Good, CustomResource, Version
    <2> DEFINE after == [NoUpgrade(rc) EXCEPT !.sts = rc.source, !.operand = rc.from,
                                              !.phase = "Running"]
               new == Merged(after)
    <2>3. UpdateThen(after, "AwaitWellFormedCondition")
      BY <2>1 DEF RemoveStatus, RollingBack
    <2>4. /\ after \in CustomResource
          /\ after.stage = "None" /\ after.source = NoName /\ after.target = NoName
          /\ after.from = 0 /\ after.sts = rc.source /\ after.operand = rc.from
          /\ after.phase = "Running" /\ after.version = rc.version
          /\ after.pods = rc.pods
      BY <2>1, <2>2 DEF CustomResource, NoUpgrade, Stages
    <2> HIDE DEF after
    <2>5. after # rc
      BY <2>1, <2>4
    <2>6. CASE Requeue
      BY <1>1, <2>6, QuietRequeue
    <2>7. CASE /\ cache = rc /\ Write(new)
               /\ rc' = new /\ pc' = "AwaitWellFormedCondition"
               /\ UNCHANGED <<listed, again, queued>>
      <3>1. new \in CustomResource /\ cr' = new
        BY <2>1, <2>4, <2>7, Copies, MergedFields DEF Write
      <3>2. /\ rc.source # NoName /\ rc.target # NoName /\ rc.from # 0
        BY <2>1, <2>2, LimitsAssumption DEF Names, NoName, Version
      <3>3. RolledBack(cache, cr, new)
        BY <2>1, <2>2, <2>4, <2>5, <2>7, <3>2, Copies, MergedFields
        DEF RolledBack, Ended
      <3> HIDE DEF new
      <3>4. Home' /\ Others' /\ TargetReady'
        BY <1>1, <1>3, <1>4, <2>7, <3>1, <3>3, ClustersRolledBack, Resting
      <3>5. /\ queued' \in BOOLEAN /\ listed' \in Names \cup {NoName}
            /\ again' \in BOOLEAN /\ rc' \in CustomResource
        BY <2>7, <3>1 DEF IInv, TypeOK
      <3>6. OperatorWrote(cache, cr, new)
        BY <1>2, <1>4, <2>7, <3>3 DEF OperatorWrote
      <3> QED BY <1>1, <2>7, <3>1, <3>4, <3>5, <3>6, WriteEnd
    <2> QED BY <2>3, <2>4, <2>5, <2>6, <2>7, UpdateThenCases
  <1>5. CASE Cleaning(rc)
    <2>1. /\ rc \in CustomResource /\ Good(rc) /\ rc.version # rc.from
          /\ ~Backward(rc) /\ rc.stage = "Cleanup"
      BY <1>1, <1>5, CleaningCopy DEF Cleaning
    <2> DEFINE after == NoUpgrade(rc)
               new == Merged(after)
    <2>2. UpdateThen(after, "AwaitWellFormedCondition")
      BY <2>1 DEF RemoveStatus, RollingBack
    <2>3. /\ after \in CustomResource
          /\ after.stage = "None" /\ after.source = NoName /\ after.target = NoName
          /\ after.from = 0 /\ after.sts = rc.sts /\ after.operand = rc.operand
          /\ after.phase = rc.phase /\ after.version = rc.version
          /\ after.pods = rc.pods
      BY <2>1 DEF CustomResource, NoUpgrade, Stages
    <2> HIDE DEF after
    <2>4. after # rc
      BY <2>1, <2>3
    <2>5. CASE Requeue
      BY <1>1, <2>5, QuietRequeue
    <2>6. CASE /\ cache = rc /\ Write(new)
               /\ rc' = new /\ pc' = "AwaitWellFormedCondition"
               /\ UNCHANGED <<listed, again, queued>>
      <3>1. new \in CustomResource /\ cr' = new
        BY <2>1, <2>3, <2>6, Copies, MergedFields DEF Write
      <3>2. /\ rc.source # NoName /\ rc.target # NoName /\ rc.from # 0
        BY <2>1, LimitsAssumption DEF Good, Names, NoName, Version
      <3>3. CleanedUp(cache, cr, new)
        BY <2>1, <2>3, <2>4, <2>6, <3>2, Copies, MergedFields DEF CleanedUp, Ended
      <3> HIDE DEF new
      <3>4. Home' /\ Others' /\ TargetReady'
        BY <1>1, <1>3, <1>5, <2>1, <2>6, <3>1, <3>3, ClustersCleanedUp, Resting
      <3>5. /\ queued' \in BOOLEAN /\ listed' \in Names \cup {NoName}
            /\ again' \in BOOLEAN /\ rc' \in CustomResource
        BY <2>6, <3>1 DEF IInv, TypeOK
      <3>6. OperatorWrote(cache, cr, new)
        BY <1>2, <1>3, <1>5, <2>6, <3>3 DEF OperatorWrote
      <3> QED BY <1>1, <2>6, <3>1, <3>4, <3>5, <3>6, WriteEnd
    <2> QED BY <2>2, <2>3, <2>4, <2>5, <2>6, UpdateThenCases
  <1> QED BY <1>2, <1>4, <1>5

\* The condition is written over whatever the resource has become.
LEMMA AwaitWellFormedConditionStep ==
    ASSUME IInv, AwaitWellFormedCondition,
           UNCHANGED <<cache, writes, early, edits, crossed, faults>>
    PROVE  IInv' /\ Moves
  <1>1. UNCHANGED <<clus, svc>>
    BY DEF AwaitWellFormedCondition
  <1> DEFINE formed == listed # NoName /\ Ready(listed)
             after == [rc EXCEPT !.wellFormed = formed,
                                 !.phase = IF formed THEN "Running" ELSE @]
             new == Merged(after)
  <1>2. UpdateAndEnd(after, again \/ ~formed)
    BY DEF AwaitWellFormedCondition
  <1>3. rc \in CustomResource
    BY Copies
  <1>4. formed \in BOOLEAN
    OBVIOUS
  <1>5. /\ after \in CustomResource
        /\ after.phase \in {rc.phase, "Running"}
        /\ after.stage = rc.stage /\ after.sts = rc.sts /\ after.operand = rc.operand
        /\ after.source = rc.source /\ after.target = rc.target
        /\ after.from = rc.from /\ after.version = rc.version /\ after.pods = rc.pods
    BY <1>3, <1>4 DEF CustomResource
  <1> HIDE DEF formed, after
  <1>6. CASE Requeue
    BY <1>1, <1>6, QuietRequeue
  <1>7. CASE cache = rc /\ Patch(after) /\ End(again \/ ~formed)
    <2>1. /\ pc' = "idle" /\ rc' \in CustomResource /\ listed' \in Names \cup {NoName}
          /\ again' \in BOOLEAN /\ queued' \in BOOLEAN
      BY <1>7, SettledType DEF End, IInv, TypeOK
    <2>2. CASE after = rc
      <3>1. UNCHANGED <<cr, watch>>
        BY <1>7, <2>2 DEF Patch, crVars
      <3> QED BY <1>1, <2>1, <3>1, QuietEnd DEF IInv, TypeOK
    <2>3. CASE after # rc
      <3>1. new \in CustomResource /\ Write(new)
        BY <1>3, <1>5, <1>7, <2>3, Copies, MergedFields DEF Patch
      <3>2. /\ SameStatus(cr, new) /\ new.version = cr.version /\ new.pods = cr.pods
            /\ new.phase = IF after.phase = rc.phase THEN cr.phase ELSE "Running"
        BY <1>3, <1>5, <2>3, Copies, MergedFields DEF SameStatus
      <3> HIDE DEF new
      <3>3. rc.phase = "Running" => new.phase = cr.phase
        BY <1>5, <3>2
      <3>4. rc.phase # "Running" => rc.stage \in Rolling
        BY <1>3, <1>7, Copies DEF Good, CustomResource, Stages, Rolling, Cleaning
      <3>5. cr.phase # "Running" => cr.stage \in Rolling
        BY Copies DEF Good, CustomResource, Stages, Rolling, Cleaning
      <3>6. Minor(cr, new)
        BY <3>2, <3>5, <1>5 DEF Minor
      <3>7. ASSUME NEW x \in CustomResource, Good(x), Due(x), Chained(x, cr),
                   x = cache \/ (Chained(cache, x) /\ Once(cache, x, cr))
            PROVE  new.phase = cr.phase
        <4>1. CASE rc.phase = "Running"
          BY <3>3, <4>1
        <4>2. CASE rc.phase # "Running"
          <5>1. rc.stage \in Rolling /\ Good(rc) /\ Follows(rc, cr)
            BY <1>7, <3>4, <4>2, Copies
          <5>2. x # cache
            BY <1>7, <3>7, <5>1 DEF Due, Rolling
          <5>3. x.stage = "None" /\ Backward(rc) /\ x.operand = rc.from
            BY <1>7, <3>7, <5>1, <5>2, WithinStages
            DEF Due, Chained, Follows, Forward, Backward, Good, Rolling
          <5>4. CASE cr.stage = "None"
            BY <1>5, <3>2, <5>4, Copies DEF Good
          <5>5. CASE cr.stage # "None"
            BY <1>7, <3>7, <5>1, <5>2, <5>3, <5>5 DEF Once, Rolling
          <5> QED BY <5>4, <5>5
        <4> QED BY <4>1, <4>2
      <3>8. ASSUME NEW x \in CustomResource, Good(x), Chained(x, cr),
                   x = cache \/ (Chained(cache, x) /\ Once(cache, x, cr))
            PROVE  Good(new) /\ Chained(x, new)
        BY <3>1, <3>6, <3>7, <3>8, MinorWrite, Copies
      <3>9. Good(new) /\ Chained(cache, new)
        BY <3>8, Copies
      <3>10. \A i \in 1..Len(watch) : watch[i] \in CustomResource
        BY DEF IInv, TypeOK
      <3>11. \A i \in 1..Len(watch) : Chained(watch[i], new) /\ Once(cache, watch[i], new)
        BY <3>2, <3>8, <3>10 DEF IInv, Versions, Once, SameStatus
      <3>12. Versions'
        BY <3>1, <3>9, <3>11, VersionsWrite DEF IInv
      <3>13. cr' = new /\ watch' \in Seq(CustomResource)
        BY <3>1, Copies, WriteEffect
      <3>14. TypeOK'
        BY <1>1, <2>1, <3>1, <3>13, TypeParts DEF IInv, TypeOK, Steps
      <3>15. Copy' /\ Path' /\ Done' /\ ~Working' /\ pc' # "RemoveStatefulSet"
        BY <2>1, Resting
      <3>16. Home' /\ Others' /\ TargetReady'
        BY <1>1, <3>2, <3>13, <3>15, ClustersKept DEF IInv
      <3>17. Service'
        BY <1>1, <3>15, ServiceKept DEF IInv
      <3> QED BY <3>12, <3>14, <3>15, <3>16, <3>17, <3>2, <3>13 DEF IInv, Moves, SameStatus
    <2> QED BY <2>2, <2>3
  <1> QED BY <1>2, <1>6, <1>7 DEF UpdateAndEnd, Conflict

\* A failed call leaves the stage to be retried.
LEMMA ServerCallFailsStep ==
    ASSUME IInv, ServerCallFails, UNCHANGED <<cache, writes, early, edits, crossed>>
    PROVE  IInv' /\ Moves
  BY QuietWait DEF ServerCallFails, Fault, IInv, TypeOK

\* Every step of the operator that does not overtake a rollback.
LEMMA OperatorStep ==
    ASSUME IInv, ~crossed, ~crossed', Operator
    PROVE  IInv' /\ Moves
  <1>1. UNCHANGED <<cache, writes, early, edits, crossed>> /\ ~Overtakes
    <2>1. crossed \in BOOLEAN
      BY DEF IInv, TypeOK
    <2>2. crossed' = (crossed \/ Overtakes) /\ UNCHANGED <<cache, writes, early, edits>>
      BY DEF Operator, clientVars
    <2>3. crossed = FALSE /\ crossed' = FALSE /\ ~Overtakes
      BY <2>1, <2>2
    <2> QED BY <2>2, <2>3
  <1>2. CASE ServerCallFails
    BY <1>1, <1>2, ServerCallFailsStep
  <1>3. CASE ~ServerCallFails
    <2>1. UNCHANGED <<cache, writes, early, edits, crossed, faults>>
      BY <1>1, <1>3 DEF Operator
    <2> QED
      BY <1>1, <1>3, <2>1, ReconcileStep, ClusterServiceStep, ScheduleStep,
         ClusterStatefulSetStep, PodStatusStep, NothingToUpgradeStep,
         createNewStatefulSetStep, CreateTargetStep, prepareStep, redirectServiceStep,
         syncDataStep, DisconnectSourceStep, updateStageStep, replaceStatefulSetStep,
         cleanupStep, rollbackStep, RemoveSelectorStep, RemoveStatefulSetStep,
         RemoveStatusStep, AwaitWellFormedConditionStep
      DEF Operator
  <1> QED BY <1>2, <1>3

-----------------------------------------------------------------------------
(***************************************************************************)
(* The steps of the other actors.                                          *)
(***************************************************************************)

\* The user asks for a newer version, or takes an upgrade back while its source
\* is there.
LEMMA UserStep ==
    ASSUME IInv, ~crossed, ~crossed', UserSetsVersion
    PROVE  IInv' /\ Moves
  <1>1. PICK v \in Version :
           /\ edits < MaxEdits /\ AdmitVersion(v)
           /\ v < cr.version => Exists(cr.source)
           /\ crossed' = (crossed \/ Resumes(v))
           /\ Write([cr EXCEPT !.version = v]) /\ edits' = edits + 1
    BY DEF UserSetsVersion
  <1>2. /\ UNCHANGED <<cache, queued, pc, rc, listed, again, clus, svc>>
        /\ UNCHANGED <<writes, early, faults>>
    BY DEF UserSetsVersion, reconcileVars, clientVars
  <1> DEFINE new == [cr EXCEPT !.version = v]
  <1>3. /\ new \in CustomResource /\ new.version = v
        /\ SameStatus(cr, new) /\ new.phase = cr.phase /\ new.pods = cr.pods
    BY Copies DEF CustomResource, SameStatus
  <1>4. Write(new)
    BY <1>1
  <1> HIDE DEF new
  <1>5. /\ v \in Nat /\ cr.version \in Nat /\ cr.from \in Nat /\ cr.operand \in Nat
        /\ Good(cr) /\ cr \in CustomResource
    BY Copies DEF CustomResource, Version
  <1>6. \/ /\ v > cr.version
           /\ cr.stage # "None" => cr.version # cr.from /\ v # cr.from
        \/ v < cr.version /\ cr.stage # "None" /\ v = cr.from /\ Exists(cr.source)
    <2>1. ~Resumes(v)
      BY <1>1
    <2>2. CASE v > cr.version
      BY <1>5, <2>1, <2>2 DEF Resumes, Good
    <2>3. CASE v < cr.version /\ cr.stage # "None" /\ v = cr.from
      BY <1>1, <2>3
    <2> QED BY <1>1, <2>2, <2>3 DEF AdmitVersion
  <1>7. Edited(cr, new)
    BY <1>3, <1>6 DEF Edited
  <1>8. /\ Good(new)
        /\ \A x \in CustomResource : Good(x) /\ Follows(x, cr) => Follows(x, new)
        /\ \A x \in CustomResource : Good(x) /\ Chained(x, cr) => Chained(x, new)
    BY <1>3, <1>7, UserWrite, Copies
  <1>9. \A i \in 1..Len(watch) : watch[i] \in CustomResource
    BY DEF IInv, TypeOK
  <1>10. \A i \in 1..Len(watch) : Chained(watch[i], new) /\ Once(cache, watch[i], new)
    BY <1>3, <1>8, <1>9 DEF IInv, Versions, Once, SameStatus
  <1>11. Versions'
    BY <1>2, <1>3, <1>4, <1>8, <1>10, VersionsWrite, Copies DEF IInv
  <1>12. /\ cr' = new /\ watch' \in Seq(CustomResource)
         /\ \A i \in 1..Len(watch') :
               \/ i \in 1..Len(watch) /\ watch'[i] = watch[i]
               \/ i = Len(watch) + 1 /\ watch'[i] = new
    BY <1>3, <1>4, WriteEffect, Copies
  <1>13. Copy'
    <2> SUFFICES ASSUME Working PROVE Good(rc) /\ Follows(rc, new) /\ Behind'
      BY <1>2, <1>12 DEF Copy, Working
    <2>1. Good(rc) /\ Follows(rc, new) /\ Behind
      BY <1>8, Copies DEF IInv, Copy
    <2>2. CASE Follows(rc, cache) /\ \A i \in 1..Len(watch) : Follows(rc, watch[i])
      BY <1>2, <1>12, <2>1, <2>2 DEF Behind
    <2>3. CASE /\ rc.stage \in Unlisted
               /\ SameStatus(rc, cr) /\ SameStatus(rc, cache)
               /\ \A i \in 1..Len(watch) : SameStatus(rc, watch[i])
      <3>1. SameStatus(rc, new)
        BY <1>3, <2>3 DEF SameStatus
      <3>2. ASSUME NEW i \in 1..Len(watch') PROVE SameStatus(rc, watch'[i])
        BY <1>12, <2>3, <3>1
      <3>3. /\ SameStatus(rc, cr)' /\ SameStatus(rc, cache)'
            /\ (\A i \in 1..Len(watch) : SameStatus(rc, watch[i]))'
            /\ (rc.stage \in Unlisted)'
        BY <1>2, <1>12, <2>3, <3>1, <3>2 DEF SameStatus
      <3> QED BY <2>1, <3>3 DEF Behind
    <2> QED BY <2>1, <2>2, <2>3 DEF Behind
  <1>14. crossed' \in BOOLEAN
    BY <1>1
  <1>15. TypeOK'
    BY <1>1, <1>2, <1>3, <1>12, <1>14, LimitsAssumption DEF IInv, TypeOK
  <1>16. Path'
    BY <1>2 DEF IInv, Path, Working
  <1>17. /\ Cleaning(new) => Cleaning(cr)
         /\ Backward(new) /\ ~Backward(cr) => Exists(cr.source)
    BY <1>3, <1>6 DEF Cleaning, Backward, SameStatus
  <1>18. Home'
    BY <1>2, <1>3, <1>12, <1>17 DEF IInv, Home, Keeps, Ready, Exists, SameStatus
  <1>19. Others' /\ TargetReady'
    BY <1>2, <1>3, <1>12
    DEF IInv, Others, TargetReady, Working, Ready, Exists, SameStatus
  <1>20. pc = "RemoveStatus" /\ Cleaning(rc) => ~Backward(new)
    <2> SUFFICES ASSUME pc = "RemoveStatus", Cleaning(rc), Backward(new) PROVE FALSE
      OBVIOUS
    <2>1. Exists(cr.source) /\ ~Exists(rc.source) /\ cr.stage # "None"
      BY <1>3, <1>17 DEF IInv, Done, Backward, SameStatus
    <2>2. cr.source = rc.source
      BY <2>1, CleaningCopy DEF Working, SameUpgrade
    <2> QED BY <2>1, <2>2
  <1>21. Done' /\ Service'
    BY <1>2, <1>12, <1>20 DEF IInv, Done, Service, Serves, Ready, Exists
  <1> QED BY <1>3, <1>11, <1>12, <1>13, <1>15, <1>16, <1>18, <1>19, <1>21
          DEF IInv, Moves

\* The cache takes the next version.
LEMMA InformerStep ==
    ASSUME IInv, InformerDelivers
    PROVE  IInv' /\ Moves
  <1>1. /\ watch # <<>> /\ cache' = Head(watch) /\ watch' = Tail(watch) /\ queued' = TRUE
        /\ UNCHANGED <<cr, pc, rc, listed, again, clus, svc>>
        /\ UNCHANGED <<writes, early, edits, crossed, faults>>
    BY DEF InformerDelivers, reconcileVars, clientVars, budgetVars
  <1>2. /\ Len(watch) \in Nat \ {0} /\ cache' = watch[1] /\ 1 \in 1..Len(watch)
        /\ watch' \in Seq(CustomResource) /\ Len(watch') = Len(watch) - 1
        /\ \A i \in 1..Len(watch') : watch'[i] = watch[i + 1] /\ i + 1 \in 1..Len(watch)
        /\ \A i \in 1..Len(watch) : watch[i] \in CustomResource
    BY <1>1, Copies
  <1>3. TypeOK'
    BY <1>1, <1>2 DEF IInv, TypeOK
  <1>4. Good(cr') /\ Good(cache') /\ Chained(cache', cr')
    BY <1>1, <1>2 DEF IInv, Versions
  <1>5. ASSUME NEW i \in 1..Len(watch')
        PROVE  /\ Good(watch'[i]) /\ Chained(cache', watch'[i]) /\ Chained(watch'[i], cr')
               /\ Once(cache', watch'[i], cr')
    <2>1. /\ watch'[i] = watch[i + 1] /\ i + 1 \in 1..Len(watch) /\ 1 < i + 1
      BY <1>2
    <2>2. /\ Once(cache, watch[1], watch[i + 1]) /\ Once(cache, watch[1], cr)
          /\ Once(cache, watch[i + 1], cr)
      BY <1>2, <2>1 DEF IInv, Versions
    <2>3. Once(watch[1], watch[i + 1], cr)
      BY <2>2 DEF Once
    <2> QED BY <1>1, <1>2, <2>1, <2>3 DEF IInv, Versions
  <1>6. ASSUME NEW i \in 1..Len(watch'), NEW j \in 1..Len(watch'), i < j
        PROVE  Chained(watch'[i], watch'[j]) /\ Once(cache', watch'[i], watch'[j])
    <2>1. /\ watch'[i] = watch[i + 1] /\ i + 1 \in 1..Len(watch) /\ 1 < i + 1
          /\ watch'[j] = watch[j + 1] /\ j + 1 \in 1..Len(watch) /\ 1 < j + 1
          /\ i + 1 < j + 1
      BY <1>2, <1>6
    <2>2. /\ Once(cache, watch[1], watch[i + 1]) /\ Once(cache, watch[1], watch[j + 1])
          /\ Once(cache, watch[i + 1], watch[j + 1])
      BY <1>2, <2>1 DEF IInv, Versions
    <2>3. Once(watch[1], watch[i + 1], watch[j + 1])
      BY <2>2 DEF Once
    <2> QED BY <1>2, <2>1, <2>3 DEF IInv, Versions
  <1>7. Versions'
    BY <1>4, <1>5, <1>6 DEF Versions
  <1>8. Copy'
    BY <1>1, <1>2 DEF IInv, Copy, Behind, Working
  <1>9. Path' /\ Done' /\ Service'
    BY <1>1 DEF IInv, Path, Done, Service, Working, Serves, Ready, Exists
  <1>10. Home' /\ Others'
    BY <1>1 DEF IInv, Home, Keeps, Others, Ready, Exists
  <1>11. TargetReady'
    <2>1. Good(cache) /\ cache \in CustomResource /\ Follows(cache, cache')
          /\ Follows(cache, cr)
      BY <1>2, Copies DEF IInv, Versions, Chained
    <2>2. CASE ~Forward(cache')
      BY <1>1, <2>2 DEF IInv, TargetReady, Working, Ready
    <2>3. CASE Forward(cache) \/ ~Due(cache)
      <3>1. Forward(cache') => Forward(cache)
        BY <1>4, <2>1, <2>3, Kinds
        DEF Follows, Forward, Rolling, Settled, Backward, Cleaning, Good, CustomResource,
            Version
      <3> QED BY <1>1, <3>1 DEF IInv, TargetReady, Working, Ready
    <2>4. CASE Due(cache)
      <3>1. cr.stage \in {"None", "Start"}
        BY <2>1, <2>4 DEF Follows
      <3> QED BY <1>1, <3>1 DEF TargetReady
    <2> QED BY <2>2, <2>3, <2>4
  <1> QED BY <1>3, <1>7, <1>8, <1>9, <1>10, <1>11, <1>1 DEF IInv, Moves, SameStatus

\* A cluster that becomes ready takes nothing away.
LEMMA ClusterStartedStep ==
    ASSUME IInv, ClusterStarted
    PROVE  IInv' /\ Moves
  <1>1. PICK r \in Names : /\ clus[r].state = "starting"
                           /\ clus' = [clus EXCEPT ![r].state = "ready"]
    BY DEF ClusterStarted
  <1>2. /\ UNCHANGED <<cr, watch, cache, pc, rc, listed, again, svc>>
        /\ UNCHANGED <<writes, early, edits, crossed, faults>> /\ queued' = TRUE
    BY DEF ClusterStarted, crVars, reconcileVars, clientVars, budgetVars
  <1>3. clus \in [Names -> Clusters] /\ cr \in CustomResource /\ rc \in CustomResource
    BY DEF IInv, TypeOK
  <1>4. /\ clus' \in [Names -> Clusters]
        /\ \A c \in Names : /\ clus'[c].version = clus[c].version
                            /\ clus'[c].caches = clus[c].caches
                            /\ clus'[c].data = clus[c].data
                            /\ Ready(c) => clus'[c].state = "ready"
                            /\ ~Exists(c) => clus'[c].state = "absent"
                            /\ clus'[c].state = "absent" => ~Exists(c)
    BY <1>1, <1>3 DEF Clusters, Ready, Exists
  <1>5. TypeOK'
    BY <1>2, <1>4, TypeParts DEF IInv, TypeOK
  <1>6. Versions' /\ Copy' /\ Path'
    BY <1>2, CopiesKept DEF IInv, Path, Working
  <1>7. cr.sts \in Names /\ Good(cr)
    BY <1>3, Copies DEF CustomResource
  <1>8. cr.stage # "None" => cr.source \in Names /\ cr.target \in Names
    BY <1>7 DEF Good
  <1>9. Home'
    BY <1>2, <1>4, <1>7, <1>8 DEF IInv, Home, Keeps, Ready, Exists, Rolling
  <1>10. Others'
    BY <1>2, <1>4, <1>8 DEF IInv, Others, Exists
  <1>11. TargetReady'
    BY <1>2, <1>4, <1>8 DEF IInv, TargetReady, Working, Ready
  <1>12. Done'
    <2>1. pc \in {"DisconnectSource", "UpdateStage", "RemoveStatus"} =>
             rc.source \in Names /\ rc.target \in Names
      BY DEF IInv, Path, Copy, Working, Forward, Backward, Cleaning, Good, Rolling
    <2> QED BY <1>2, <1>4, <2>1 DEF IInv, Done, Ready, Exists
  <1>13. Service'
    BY <1>2, <1>4 DEF IInv, Service, Serves, Ready
  <1> QED BY <1>2, <1>5, <1>6, <1>9, <1>10, <1>11, <1>12, <1>13
          DEF IInv, Moves, SameStatus

\* An entry stored while there is no upgrade is stored in the only cluster.
LEMMA ClientStoresStep ==
    ASSUME IInv, ClientStores
    PROVE  /\ IInv' /\ cr' = cr
           /\ early' = IF cr.stage = "None" THEN early \cup {writes + 1} ELSE early
           /\ writes + 1 \in Entry
  <1>1. PICK c \in Selected :
           /\ writes < MaxWrites
           /\ writes' = writes + 1
           /\ early' = IF cr.stage = "None" THEN early \cup {writes + 1} ELSE early
           /\ clus' = [d \in Names |-> IF d \in {c, clus[c].source}
                                       THEN [clus[d] EXCEPT !.data = @ \cup {writes + 1}]
                                       ELSE clus[d]]
    BY DEF ClientStores
  <1>2. /\ UNCHANGED <<cr, watch, cache, pc, rc, listed, again, svc>>
        /\ UNCHANGED <<queued, edits, crossed, faults>>
    BY DEF ClientStores, crVars, reconcileVars, budgetVars
  <1>3. /\ clus \in [Names -> Clusters] /\ cr \in CustomResource /\ rc \in CustomResource
        /\ writes \in 0..MaxWrites /\ early \subseteq 1..writes
    BY DEF IInv, TypeOK
  <1>4. writes + 1 \in Entry /\ writes' \in 0..MaxWrites /\ early' \subseteq 1..writes'
    BY <1>1, <1>3, LimitsAssumption DEF Entry
  <1>5. /\ clus' \in [Names -> Clusters]
        /\ \A d \in Names : /\ clus'[d].version = clus[d].version
                            /\ clus'[d].caches = clus[d].caches
                            /\ clus'[d].state = clus[d].state
                            /\ clus[d].data \subseteq clus'[d].data
                            /\ d = c => writes + 1 \in clus'[d].data
    BY <1>1, <1>3, <1>4 DEF Clusters
  <1>6. TypeOK'
    BY <1>2, <1>4, <1>5 DEF IInv, TypeOK
  <1>7. Versions' /\ Copy' /\ Path'
    BY <1>2, CopiesKept DEF IInv, Path, Working
  <1>8. cr.sts \in Names /\ Good(cr)
    BY <1>3, Copies DEF CustomResource
  <1>9. cr.stage = "None" => c = cr.sts
    <2>1. c \in Names /\ Exists(c)
      BY DEF Selected, Ready, Exists
    <2>2. cr.stage = "None" => c # cr.source /\ c # cr.target
      BY <1>8, <2>1 DEF Good, NoName, Names
    <2> QED BY <2>1, <2>2 DEF IInv, Others
  <1>10. cr.stage # "None" => cr.source \in Names /\ cr.target \in Names /\ early' = early
    BY <1>1, <1>8 DEF Good
  <1>11. Home'
    <2>1. CASE cr.stage = "None"
      BY <1>1, <1>2, <1>5, <1>8, <1>9, <2>1 DEF IInv, Home, Keeps, Ready, Rolling
    <2>2. CASE cr.stage # "None"
      BY <1>2, <1>5, <1>8, <1>10, <2>2 DEF IInv, Home, Keeps, Ready, Exists, Rolling
    <2> QED BY <2>1, <2>2
  <1>12. Others'
    BY <1>2, <1>5, <1>10 DEF IInv, Others, Exists
  <1>13. TargetReady'
    BY <1>2, <1>5, <1>10 DEF IInv, TargetReady, Working, Ready
  <1>14. Done'
    <2>1. pc \in {"DisconnectSource", "UpdateStage", "RemoveStatus"} =>
             rc.source \in Names /\ rc.target \in Names
      BY DEF IInv, Path, Copy, Working, Forward, Backward, Cleaning, Good, Rolling
    <2>2. pc \in {"DisconnectSource", "UpdateStage"} => early' = early
      BY <1>10, ForwardCopy DEF IInv, Path, Working
    <2> QED BY <1>2, <1>5, <2>1, <2>2 DEF IInv, Done, Ready, Exists
  <1>15. Service'
    BY <1>2, <1>5 DEF IInv, Service, Serves, Ready
  <1> QED BY <1>1, <1>2, <1>4, <1>6, <1>7, <1>11, <1>12, <1>13, <1>14, <1>15 DEF IInv

\* A new process reads the resource as it is.
LEMMA CrashStep ==
    ASSUME IInv, OperatorCrashes
    PROVE  IInv' /\ Moves
  <1>1. /\ pc' = "idle" /\ rc' = SettledCR /\ listed' = NoName /\ again' = FALSE
        /\ cache' = cr /\ watch' = <<>> /\ queued' = TRUE
        /\ UNCHANGED <<cr, clus, svc, writes, early, edits, crossed>>
        /\ faults' \subseteq Faults
    BY DEF OperatorCrashes, Fault, clientVars, IInv, TypeOK
  <1>2. TypeOK'
    <2>1. watch' \in Seq(CustomResource) /\ cr' \in CustomResource
          /\ cache' \in CustomResource /\ rc' \in CustomResource
      BY <1>1, SettledType, Copies
    <2> QED BY <1>1, <2>1, TypeParts DEF IInv, TypeOK, Steps
  <1>3. Chained(cr, cr) /\ Good(cr)
    BY Copies, ChainedSelf
  <1>4. Versions'
    BY <1>1, <1>3 DEF Versions
  <1>5. Copy' /\ Path' /\ Done' /\ ~Working' /\ pc' # "RemoveStatefulSet"
    BY <1>1, Resting
  <1>6. Home' /\ Others'
    BY <1>1 DEF IInv, Home, Keeps, Others, Ready, Exists
  <1>7. TargetReady'
    <2>1. CASE ~Forward(cr)
      BY <1>1, <1>5, <2>1 DEF TargetReady
    <2>2. CASE Forward(cache)
      BY <1>1, <2>2 DEF IInv, TargetReady, Ready
    <2>3. CASE Forward(cr) /\ ~Forward(cache)
      <3>1. Due(cache)
        <4>1. cr.stage \in Rolling /\ cr.version # cr.from
          BY <2>3, Copies DEF Forward, Rolling, Good, CustomResource, Version
        <4>2. ~Settled(cache) /\ ~Backward(cache) /\ ~Cleaning(cache)
          BY <4>1, Copies DEF Follows, Rolling, Cleaning
        <4> QED BY <2>3, <4>2, Copies, Kinds
      <3>2. cr.stage \in {"None", "Start"}
        BY <3>1, Copies DEF Follows
      <3> QED BY <1>1, <3>2 DEF TargetReady
    <2> QED BY <2>1, <2>2, <2>3
  <1>8. Service'
    BY <1>1, <1>5, ServiceKept DEF IInv
  <1> QED BY <1>1, <1>2, <1>4, <1>5, <1>6, <1>7, <1>8 DEF IInv, Moves, SameStatus

-----------------------------------------------------------------------------
(***************************************************************************)
(* The theorems.                                                           *)
(***************************************************************************)

\* The invariant holds of a settled cluster.
LEMMA InitIInv == Init => IInv
  <1> SUFFICES ASSUME Init PROVE IInv
    OBVIOUS
  <1>1. /\ cr = SettledCR /\ cache = SettledCR /\ rc = SettledCR /\ watch = <<>>
        /\ pc = "idle" /\ listed = NoName /\ svc = Any /\ early = {} /\ writes = 0
    BY DEF Init
  <1>2. 0 \in Names /\ 1 \in Version
    BY LimitsAssumption DEF Names, Version
  <1>3. /\ clus \in [Names -> Clusters]
        /\ clus[0].state = "ready" /\ clus[0].version = 1 /\ clus[0].caches = "own"
        /\ \A c \in Names : c # 0 => clus[c].state = "absent"
    BY <1>2 DEF Init, Created, NoCluster, Clusters
  <1>4. TypeOK
    <2>1. watch \in Seq(CustomResource) /\ cr \in CustomResource
          /\ cache \in CustomResource /\ rc \in CustomResource
      BY <1>1, SettledType
    <2>2. writes \in 0..MaxWrites /\ early \subseteq 1..writes /\ edits \in 0..MaxEdits
      BY <1>1, LimitsAssumption DEF Init
    <2> QED BY <1>1, <1>3, <2>1, <2>2 DEF Init, TypeOK, Steps
  <1>5. /\ cr.stage = "None" /\ cr.sts = 0 /\ cr.operand = 1
    BY <1>1 DEF SettledCR
  <1>6. Good(SettledCR)
    BY DEF Good, SettledCR, Cleaning, Rolling
  <1>7. Versions
    BY <1>1, <1>6, SettledType, ChainedSelf DEF Versions
  <1>8. Copy /\ Path /\ Done /\ Service
    BY <1>1 DEF Copy, Path, Done, Service, Working
  <1>9. Home /\ Others
    BY <1>1, <1>2, <1>3, <1>5 DEF Home, Keeps, Others, Ready, Exists, Rolling
  <1>10. TargetReady
    BY <1>5 DEF TargetReady
  <1> QED BY <1>4, <1>7, <1>8, <1>9, <1>10 DEF IInv

\* Every step keeps the invariant, until a rollback and an upgrade cross.
LEMMA StepIInv ==
    ASSUME IInv, ~crossed, ~crossed', [Next]_vars
    PROVE  IInv'
  <1>1. CASE Next
    BY <1>1, OperatorStep, UserStep, InformerStep, ClusterStartedStep, ClientStoresStep,
       CrashStep
    DEF Next
  <1>2. CASE UNCHANGED vars
    BY <1>2
    DEF vars, crVars, reconcileVars, clientVars, budgetVars, IInv, TypeOK, Versions, Copy,
        Behind, Path, Home, Keeps, Others, TargetReady, Done, Service, Working, Serves,
        Ready, Exists
  <1> QED BY <1>1, <1>2

\* That they have crossed is not forgotten.
LEMMA CrossedStays ==
    ASSUME crossed, [Next]_vars
    PROVE  crossed'
  BY DEF Next, vars, Operator, UserSetsVersion, InformerDelivers, ClusterStarted,
         ClientStores, OperatorCrashes

\* What the three theorems follow from.
LEMMA UntilCrossed == Spec => [](crossed \/ IInv)
  <1>1. Init => (crossed \/ IInv)
    BY InitIInv
  <1>2. (crossed \/ IInv) /\ [Next]_vars => (crossed \/ IInv)'
    BY StepIInv, CrossedStays
  <1> QED BY <1>1, <1>2, PTL DEF Spec

\* Without service downtime: until a rollback and an upgrade have crossed, at
\* every moment the Service leads to a cluster that is ready and has caches, and
\* to one that has none only while the target is created and prepared.
THEOREM NoDowntime == Spec => []Available
  <1>1. IInv => Available
    <2> SUFFICES ASSUME IInv PROVE Available
      OBVIOUS
    <2>1. cr \in CustomResource /\ Home /\ Good(cr) /\ Service /\ Others
      BY Copies DEF IInv
    <2>2. \E c \in Names : Keeps(c, clus[c].version)
      BY <2>1 DEF Home, Keeps, Good, CustomResource, Stages, Rolling, Cleaning, Backward
    <2>3. \E c \in Selected : clus[c].caches # "absent"
      BY <2>1, <2>2 DEF Service, Serves, Selected, Ready, Keeps
    <2>4. \A c \in Selected :
             clus[c].caches = "absent" => cr.stage \in {"Start", "Prepare"} /\ c = cr.target
      BY <2>1 DEF Selected, Others, Ready, Exists
    <2> QED BY <2>3, <2>4 DEF Available
  <1>2. crossed => Available
    BY DEF Available
  <1> QED BY <1>1, <1>2, UntilCrossed, PTL

\* Until a rollback and an upgrade have crossed, a cluster that the resource
\* names has at every moment all the entries stored before the upgrade.
THEOREM NothingLost == Spec => [](crossed \/ EntriesHeld)
  <1>1. IInv => EntriesHeld
    <2> SUFFICES ASSUME IInv PROVE EntriesHeld
      OBVIOUS
    <2>1. cr \in CustomResource /\ Home /\ Good(cr) /\ TypeOK
      BY Copies DEF IInv
    <2>2. \E c \in {cr.sts, cr.source} \cap Names : Keeps(c, clus[c].version)
      BY <2>1 DEF Home, Keeps, Good, CustomResource, Stages, Rolling, Cleaning, Backward
    <2> QED BY <2>1, <2>2 DEF EntriesHeld, Keeps
  <1> QED BY <1>1, UntilCrossed, PTL

\* What LiveUpgrade sees of the state, given the invariant.
LEMMA Mapping ==
    ASSUME IInv
    PROVE  /\ (IF cr.stage = "None" THEN clus[cr.sts].version ELSE cr.from) =
                 IF cr.stage = "None" THEN cr.operand ELSE cr.from
           /\ (IF cr.stage = "None" THEN early \cap clus[cr.sts].data ELSE early) = early
           /\ cr.operand \in Version
  BY DEF IInv, TypeOK, CustomResource, Home, Keeps, Rolling

\* A write of the operator begins an upgrade, completes it or takes it back, or
\* goes unnoticed.
LEMMA MovesMapped ==
    ASSUME IInv, IInv', Moves, early' = early
    PROVE  [Contract!Next]_(Contract!vars)
  <1> DEFINE ver == IF cr.stage = "None" THEN clus[cr.sts].version ELSE cr.from
             ent == IF cr.stage = "None" THEN early \cap clus[cr.sts].data ELSE early
  <1>1. /\ ver = IF cr.stage = "None" THEN cr.operand ELSE cr.from
        /\ ent = early
    BY Mapping
  <1>2. /\ ver' = IF cr'.stage = "None" THEN cr'.operand ELSE cr'.from
        /\ ent' = early' /\ cr'.operand \in Version
    <2>1. /\ Home' /\ cr' \in CustomResource
      BY DEF IInv, TypeOK
    <2> QED BY <2>1 DEF Home, Keeps, CustomResource, Rolling
  <1>3. ent' = ent
    BY <1>1, <1>2
  <1> HIDE DEF ver, ent
  <1>4. ASSUME (cr'.stage # "None") = (cr.stage # "None"), ver' = ver
        PROVE  UNCHANGED Contract!vars
    BY <1>3, <1>4 DEF Contract!vars, ver, ent
  <1>5. Good(cr) /\ Good(cache) /\ Follows(cache, cr) /\ cr \in CustomResource
    BY Copies
  <1>6. CASE SameStatus(cr, cr')
    BY <1>1, <1>2, <1>4, <1>6 DEF SameStatus
  <1>7. CASE /\ Due(cache) /\ Scheduled(cache, cr, cr')
             /\ cr.stage = "None" \/ cr.operand = cache.version
    <2>1. CASE cr.stage = "None"
      <3>1. cr.operand = cache.operand /\ cr'.stage # "None" /\ cr'.from = cache.operand
        BY <1>5, <1>7, <2>1 DEF Follows, Scheduled
      <3>2. ver' = ver
        BY <1>1, <1>2, <2>1, <3>1
      <3>3. Contract!Begin
        BY <1>3, <2>1, <3>1, <3>2 DEF Contract!Begin, ver, ent
      <3> QED BY <3>3 DEF Contract!Next
    <2>2. CASE cr.stage # "None"
      BY <1>1, <1>2, <1>4, <1>5, <1>7, <2>2 DEF Follows, Scheduled
    <2> QED BY <2>1, <2>2
  <1>8. CASE Forward(cache) /\ cache.stage # "Replace" /\ Advanced(cache, cr, cr')
    <2>1. cr.stage # "None" /\ cr'.stage # "None" /\ cr'.from = cr.from
      BY <1>5, <1>8, WithinStages DEF Follows, Forward, Rolling, Advanced
    <2> QED BY <1>1, <1>2, <1>4, <2>1
  <1>9. CASE Forward(cache) /\ cache.stage = "Replace" /\ Replaced(cache, cr, cr')
    <2>1. cr.stage # "None" /\ cr'.stage # "None" /\ cr'.from = cr.from
      BY <1>5, <1>9, WithinStages DEF Follows, Replaced
    <2> QED BY <1>1, <1>2, <1>4, <2>1
  <1>10. CASE Backward(cache) /\ RolledBack(cache, cr, cr')
    <2>1. cr'.stage = "None" /\ cr'.operand = cache.from
      BY <1>10 DEF RolledBack, Ended
    <2>2. CASE cr.stage = "None"
      <3>1. "None" \notin Within(cache.stage)
        BY <1>10, Copies, WithinStages DEF Backward, CustomResource, Stages
      <3>2. cr.operand = cache.from
        BY <1>5, <1>10, <2>2, <3>1 DEF Follows
      <3>3. ver' = ver
        BY <1>1, <1>2, <2>1, <2>2, <3>2
      <3> QED BY <1>4, <2>1, <2>2, <3>3
    <2>3. CASE cr.stage # "None"
      <3>1. ver' = ver
        BY <1>1, <1>2, <1>5, <1>10, <2>1, <2>3 DEF Follows, SameUpgrade
      <3>2. Contract!Rollback
        BY <1>3, <2>1, <2>3, <3>1 DEF Contract!Rollback, ver, ent
      <3> QED BY <3>2 DEF Contract!Next
    <2> QED BY <2>2, <2>3
  <1>11. CASE Cleaning(cache) /\ CleanedUp(cache, cr, cr')
    <2>1. cr'.stage = "None" /\ cr'.operand = cr.operand
      BY <1>11 DEF CleanedUp, Ended
    <2>2. CASE cr.stage = "None"
      BY <1>1, <1>2, <1>4, <2>1, <2>2
    <2>3. CASE cr.stage # "None"
      <3>1. ver = cr.from /\ ver' = cr.operand /\ cr.operand \in Version
            /\ cr.operand > cr.from
        BY <1>1, <1>2, <1>5, <2>1, <2>3 DEF Good, CustomResource, Version
      <3>2. Contract!Complete
        BY <1>3, <2>1, <2>3, <3>1 DEF Contract!Complete, ver, ent
      <3> QED BY <3>2 DEF Contract!Next
    <2> QED BY <2>2, <2>3
  <1> QED BY <1>6, <1>7, <1>8, <1>9, <1>10, <1>11 DEF Moves, OperatorWrote

\* An entry stored is stored there too, or goes unnoticed.
LEMMA StoresMapped ==
    ASSUME IInv, ClientStores
    PROVE  [Contract!Next]_(Contract!vars)
  <1> DEFINE ver == IF cr.stage = "None" THEN clus[cr.sts].version ELSE cr.from
             ent == IF cr.stage = "None" THEN early \cap clus[cr.sts].data ELSE early
  <1>1. /\ IInv' /\ cr' = cr /\ writes + 1 \in Entry
        /\ early' = IF cr.stage = "None" THEN early \cup {writes + 1} ELSE early
    BY ClientStoresStep
  <1>2. /\ ver = IF cr.stage = "None" THEN cr.operand ELSE cr.from
        /\ ent = early
    BY Mapping
  <1>3. /\ ver' = IF cr'.stage = "None" THEN cr'.operand ELSE cr'.from
        /\ ent' = early'
    <2>1. /\ Home' /\ cr' \in CustomResource
      BY <1>1 DEF IInv, TypeOK
    <2> QED BY <2>1 DEF Home, Keeps, CustomResource, Rolling
  <1>4. ver' = ver
    BY <1>1, <1>2, <1>3
  <1> HIDE DEF ver, ent
  <1>5. CASE cr.stage = "None"
    <2>1. Contract!Store(writes + 1)
      BY <1>1, <1>2, <1>3, <1>4, <1>5 DEF Contract!Store, ver, ent
    <2> QED BY <1>1, <2>1 DEF Contract!Next
  <1>6. CASE cr.stage # "None"
    BY <1>1, <1>2, <1>3, <1>4, <1>6 DEF Contract!vars, ver, ent
  <1> QED BY <1>5, <1>6

\* The stages implement the abstract upgrade: until a rollback and an upgrade
\* have crossed, an upgrade ends with a newer version or, rolled back, with the
\* one it began with, and with every entry stored before it.
THEOREM Implementation == Spec => ImplementsLiveUpgrade
  <1>1. Init => Contract!Init
    <2> SUFFICES ASSUME Init PROVE Contract!Init
      OBVIOUS
    <2>1. IInv /\ cr.stage = "None" /\ early = {}
      BY InitIInv DEF Init, SettledCR
    <2>2. clus[cr.sts].version \in Version
      BY <2>1, Mapping
    <2> QED BY <2>1, <2>2 DEF Contract!Init
  <1>2. /\ crossed \/ IInv
        /\ (crossed \/ IInv)'
        /\ [Next]_vars
        => [Contract!Next \/ crossed']_(Contract!vars)
    <2> SUFFICES ASSUME crossed \/ IInv, crossed' \/ IInv', [Next]_vars, ~crossed'
                 PROVE  [Contract!Next]_(Contract!vars)
      OBVIOUS
    <2>1. IInv /\ IInv' /\ ~crossed
      BY CrossedStays
    <2>2. CASE ClientStores
      BY <2>1, <2>2, StoresMapped
    <2>3. CASE Next /\ ~ClientStores
      <3>1. early' = early
        BY <2>3 DEF Next, Operator, UserSetsVersion, InformerDelivers, ClusterStarted,
                    OperatorCrashes, clientVars
      <3>2. Moves
        BY <2>1, <2>3, OperatorStep, UserStep, InformerStep, ClusterStartedStep, CrashStep
        DEF Next
      <3> QED BY <2>1, <3>1, <3>2, MovesMapped
    <2>4. CASE UNCHANGED vars
      <3>1. Moves /\ early' = early
        BY <2>4 DEF vars, crVars, clientVars, Moves, SameStatus
      <3> QED BY <2>1, <3>1, MovesMapped
    <2> QED BY <2>2, <2>3, <2>4
  <1> QED BY <1>1, <1>2, UntilCrossed, PTL DEF Spec, ImplementsLiveUpgrade
=============================================================================
