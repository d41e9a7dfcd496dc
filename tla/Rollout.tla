------------------------------ MODULE Rollout ------------------------------
(***************************************************************************)
(* How a change to a running cluster reaches its pods.  A user edits the   *)
(* Infinispan resource or an object it refers to (the overlay ConfigMap,   *)
(* the credentials Secret, the keystore Secret); the webhook admits the    *)
(* edit or not; a pass of the pipeline renders the server's files, stores  *)
(* them, and creates the StatefulSet or brings its pod template up to date *)
(* (StatefulSetRollingUpgrade); the StatefulSet controller then replaces,  *)
(* one at a time, the pods of an older template, and each new pod reads    *)
(* the files as they are when it starts.                                   *)
(*                                                                         *)
(* Scaling and the steps of a shutdown upgrade are in ClusterLifecycle:    *)
(* here the upgrade is the deletion of the StatefulSet, in one step.       *)
(***************************************************************************)
EXTENDS Integers, FiniteSets

CONSTANTS
    Pod,          \* the pods of the cluster
    Map,          \* names of overlay ConfigMaps
    MaxVersion,   \* operands are 1..MaxVersion, in release order
    Upstream,     \* per operand, its upstream version
    Stream,       \* per operand, its major.minor stream
    Cve,          \* the operands that only respin the base image
    RollingFrom,  \* first operand that supports InPlaceRolling (16)
    ReloadFrom,   \* first operand that reloads certificates (15.0.7)
    InitialSpecs, \* spec of the new resource, one of these
    MaxEvents,    \* bound on the user's edits and the faults together
    MaxFaults     \* bound on crashes, conflicts and stale reads

Version     == 1..MaxVersion
CustomImage == 0                 \* spec.image; operand v has image v
NoMap       == "none"
Foreign     == -1                \* the checksum of another cluster's overlay
Owners      == {"none", "generated", "user"}  \* of the endpoint credentials
Identities  == Owners \X Nat
NoIds       == <<"none", 0>>
Probes      == {"liveness", "readiness", "startup"}

ASSUME VersionsAssumption ==
    /\ MaxVersion \in Nat \ {0}
    /\ Upstream \in [Version -> Nat] /\ Stream \in [Version -> Nat]
    /\ Cve \subseteq Version
    /\ RollingFrom \in Nat /\ ReloadFrom \in Nat
    /\ MaxEvents \in Nat /\ MaxFaults \in Nat

(***************************************************************************)
(* The parts of spec the pod template depends on.  `knob' stands for every *)
(* part that is compared and assigned (labels, memory, grace period,       *)
(* affinity, tolerations, spread, priority class, the artifacts to         *)
(* download); sa (serviceAccountName), cpu and claim are 0 when unset;     *)
(* `conf' is what only the rendered server configuration depends on.       *)
(***************************************************************************)
Spec0 ==
    [knob : 1..2, sa : 0..1, cpu : 0..2, probes : 1..2, conf : 1..2, custom : BOOLEAN,
     version : Version, type : {"Shutdown", "InPlaceRolling"},
     overlay : Map \cup {NoMap}, auth : Owners, enc : BOOLEAN,
     claim : 0..1]

ASSUME SpecsAssumption == InitialSpecs \subseteq Spec0

VARIABLES
    cr,       \* the Infinispan resource: spec, status.operand, the upgrade,
              \* and whether the upgrade has stopped the servers
    user,     \* the user's objects: overlay texts, credentials, keystore
    stored,   \* the operator's objects: generated credentials, server files
    sts,      \* the StatefulSet: pod template and annotations
    pod,      \* per pod, its template and the files it read when it started
    op,       \* the running pass: its resource, its files, its StatefulSet
    queued,   \* whether a reconcile request is in the work queue
    current,  \* (history) the StatefulSet was created from the present inputs
    hurried,  \* (history) an edit was taken back before the template showed it
    edits, faults

vars == <<cr, user, stored, sts, pod, op, queued, current, hurried, edits, faults>>

Absent == [none |-> TRUE]
Idle   == [pc |-> "idle", i |-> Absent, f |-> Absent, next |-> Absent]

NoOperand == [version |-> 0, image |-> CustomImage, custom |-> FALSE,
              phase |-> "Pending"]

\* What the rendered server configuration depends on.
InfinispanServer(s) == <<s.conf, s.auth # "none", s.enc, s.version>>
Configs   == (1..2) \X BOOLEAN \X BOOLEAN \X Version

Templates ==
    [image : 0..MaxVersion, knob : 1..2, sa : 0..1, cpu : 0..2,
     probes : [Probes -> 1..2], args : BOOLEAN, overlay : Map \cup {NoMap},
     claim : 0..1, auth : Owners, enc : BOOLEAN, stamp : Nat,
     env : [conf : Configs, ids : Identities, keys : Nat]]

StatefulSets ==
    [tmpl : Templates, notes : [overlay : Nat \cup {Foreign}, envs : Configs]]

\* TYPE INVARIANT: in every state of a rollout the resource, the stored
\* files, the StatefulSet and the pods have the shapes the handlers assume,
\* and a pod is only started once its files are stored.
TypeOK ==
    /\ cr.spec \in Spec0
    /\ cr.upgrading \in BOOLEAN /\ cr.down \in BOOLEAN
    /\ cr.operand.phase \in {"Pending", "Running"}
    /\ cr.operand.version \in 0..MaxVersion
    /\ stored.gen \in Nat
    /\ sts # Absent => sts \in StatefulSets
    /\ \A p \in Pod : pod[p] # Absent =>
          /\ pod[p].tmpl \in Templates
          /\ pod[p].files \in [conf : Configs, ids : Identities]
    /\ queued \in BOOLEAN

Init ==
    /\ cr \in [spec : InitialSpecs, operand : {NoOperand}, upgrading : {FALSE}, down : {FALSE}]
    /\ user = [text |-> [m \in Map |-> 1], ids |-> 1, keys |-> 1]
    /\ stored = [gen |-> 0, files |-> Absent]
    /\ sts = Absent
    /\ pod = [p \in Pod |-> Absent]
    /\ op = Idle
    /\ queued = TRUE
    /\ current = FALSE /\ hurried = FALSE
    /\ edits = 0 /\ faults = 0

-----------------------------------------------------------------------------
(***************************************************************************)
(* What a pass computes, from its copy `i' of the resource and the files   *)
(* `f' it rendered.                                                        *)
(***************************************************************************)

Operand(i, phase) ==
    [version |-> i.spec.version, custom |-> i.spec.custom, phase |-> phase,
     image   |-> IF i.spec.custom THEN CustomImage ELSE i.spec.version]

ImageName(i) == IF i.spec.custom THEN CustomImage ELSE i.operand.image

UpgradeRequired(i) ==
    LET o == i.operand IN
    /\ o.phase # "Pending"
    /\ ~ ( /\ i.spec.version \in Cve
           /\ Upstream[o.version] = Upstream[i.spec.version]
           /\ ~i.spec.custom /\ ~o.custom )
    /\ i.spec.version = o.version =>
          IF i.spec.custom THEN o.image # CustomImage ELSE o.custom

\* Whether the keystore's hash is part of the environment.
Hashed(s) == s.enc /\ s.version < ReloadFrom

\* The server is given the overlay as one more configuration file.
BuildServerContainerArgs(s) == s.overlay # NoMap

\* The three probes, from one part of the spec.
PodProbes(s) == [k \in Probes |-> s.probes]

\* The environment of a new pod: the hash of what is rendered, and those that
\* addUserIdentities and addTLS add.
PodEnvsAndHash(s, f) ==
    [conf |-> f.conf, ids |-> f.ids, keys |-> IF Hashed(s) THEN f.keys ELSE 0]

\* ClusterStatefulSetSpec.  The annotations are the operator's one map of
\* default annotations, so a checksum that another cluster left there is
\* stored with this StatefulSet too (`left').
ClusterStatefulSetSpec(i, f, left) ==
    LET s == i.spec IN
    [tmpl |->
       [image |-> ImageName(i), knob |-> s.knob, sa |-> s.sa, cpu |-> s.cpu,
        probes |-> PodProbes(s), args |-> BuildServerContainerArgs(s),
        overlay |-> s.overlay, claim |-> s.claim, auth |-> s.auth,
        enc |-> s.enc, stamp |-> 1, env |-> PodEnvsAndHash(s, f)],
     notes |-> [envs |-> f.conf,
                overlay |-> IF s.overlay = NoMap THEN left ELSE f.text]]

(***************************************************************************)
(* StatefulSetRollingUpgrade: the StatefulSet `t' read from the API server *)
(* with every part compared and, where it differs, assigned.               *)
(***************************************************************************)

\* Mutant: the other two probes are never compared.
ProbesAfterLiveness(probes, wanted) == [probes EXCEPT !["liveness"] = wanted]

\* Of the probes that differ only the first is replaced: `||' stops there.
ProbesAfter(probes, wanted) ==
    LET first == IF probes["liveness"] # wanted THEN "liveness"
                 ELSE IF probes["readiness"] # wanted THEN "readiness"
                 ELSE "startup"
    IN  [probes EXCEPT ![first] = wanted]

\* A respin of the base image, or an upgrade in place.
NewImage(t, i) ==
    /\ t.tmpl.image # i.spec.version
    /\ \/ ~i.spec.custom /\ i.spec.version \in Cve
       \/ i.spec.type = "InPlaceRolling"

\* The checksum of the overlay; 0 is the annotation deleted.
OverlaySum(i, f) == IF i.spec.overlay = NoMap THEN 0 ELSE f.text

\* Mutant: a checksum that goes touches the template as well.
OverlayTouchesAlways(t, i, f) == t.notes.overlay # OverlaySum(i, f)

\* Mutant: a new checksum does not touch the template.
OverlayTouchesNever(t, i, f) == FALSE

\* updateStatefulSetAnnotations: a checksum that changes also touches the
\* template (its updateDate), one that goes does not.
OverlayTouches(t, i, f) == OverlaySum(i, f) \notin {0, t.notes.overlay}

\* The Secret of the credentials volume; a volume that is there follows the
\* name and is never removed.
AuthAfter(t, i) ==
    LET name == IF i.spec.auth = "user" THEN "user" ELSE "generated" IN
    IF t.tmpl.auth = "none" /\ i.spec.auth = "none" THEN "none" ELSE name

\* A new environment replaces the container's, the hashes that were added to
\* it included; those that are wanted are then added again.
EnvAfter(t, i, f) ==
    LET env == IF t.notes.envs = f.conf THEN t.tmpl.env
               ELSE [conf |-> f.conf, ids |-> NoIds, keys |-> 0]
    IN  [env EXCEPT !.ids  = IF i.spec.auth = "none" THEN @ ELSE f.ids,
                    !.keys = IF Hashed(i.spec) THEN f.keys ELSE @]

\* A part of the resources that is not set in the spec is left as it is.
ResourcesAfter(m, s) == IF s.cpu = 0 THEN m.cpu ELSE s.cpu

\* The volume with the dependencies comes and goes; another claim does not
\* replace the one that is mounted.
ApplyExternalDependenciesVolume(m, s) ==
    IF (m.claim = 0) = (s.claim = 0) THEN m.claim ELSE s.claim

\* The keystore and truststore volumes are added and never removed.
AddVolumesForEncryption(m, s) == m.enc \/ s.enc

\* The overlay volume is added, follows the name, and is removed.
applyOverlayConfigVolume(s) == s.overlay

StatefulSetRollingUpgrade(t, i, f) ==
    LET s     == i.spec
        m     == t.tmpl
        env   == EnvAfter(t, i, f)
        touch == \/ m.knob # s.knob
                 \/ s.cpu \notin {0, m.cpu}
                 \/ OverlayTouches(t, i, f)
                 \/ m.env # env
                 \/ m.auth \notin {"none", AuthAfter(t, i)}
    IN  [tmpl |->
           [image   |-> IF NewImage(t, i) THEN s.version ELSE m.image,
            knob    |-> s.knob,
            sa      |-> s.sa,
            cpu     |-> ResourcesAfter(m, s),
            probes  |-> ProbesAfter(m.probes, s.probes),
            args    |-> BuildServerContainerArgs(s),
            overlay |-> applyOverlayConfigVolume(s),
            claim   |-> ApplyExternalDependenciesVolume(m, s),
            auth    |-> AuthAfter(t, i),
            enc     |-> AddVolumesForEncryption(m, s),
            env     |-> env,
            stamp   |-> IF touch THEN m.stamp + 1 ELSE m.stamp],
         notes |-> [overlay |-> OverlaySum(i, f), envs |-> f.conf]]

-----------------------------------------------------------------------------
(***************************************************************************)
(* The pass.                                                               *)
(***************************************************************************)

MayFail        == faults < MaxFaults /\ edits + faults < MaxEvents
Goto(next)     == op' = [op EXCEPT !.pc = next] /\ UNCHANGED queued
EndWith(again) == op' = Idle /\ queued' = (queued \/ again)

\* UpdateInfinispan.  A resource that changed since the pass read it is a
\* conflict, and the pass is retried, unless the informer's cache does not
\* show the change yet; the patch holds the status fields only.
Write(operand, upgrading, then) ==
    \/ /\ cr' = [cr EXCEPT !.operand = operand, !.upgrading = upgrading]
       /\ then
    \/ /\ cr # op.i
       /\ UNCHANGED cr
       /\ EndWith(TRUE)

\* Reconcile, and the pipeline Build puts together.
Begin ==
    /\ op = Idle /\ queued
    /\ queued' = FALSE
    /\ op' = [Idle EXCEPT !.i = cr, !.pc =
                 IF cr.operand.version = 0 THEN "prelim" ELSE "configure"]
    /\ UNCHANGED <<cr, user, stored, sts, pod, current, hurried, edits, faults>>

\* A pass over a resource without an operand only records it.
PreliminaryChecks ==
    /\ op.pc = "prelim"
    /\ Write(Operand(op.i, "Pending"), cr.upgrading, EndWith(TRUE))
    /\ UNCHANGED <<user, stored, sts, pod, current, hurried, edits, faults>>

\* The text of the overlay the resource names, and the user's keystore.
UserConfigMap(s) == IF s.overlay = NoMap THEN 0 ELSE user.text[s.overlay]
Keystore == user.keys

\* The credentials of the endpoints: the user's Secret, or the generated one.
Credentials(s, gen) ==
    CASE s.auth = "none" -> NoIds
      [] s.auth = "user" -> <<"user", user.ids>>
      [] OTHER           -> <<"generated", gen>>

\* The configuration handlers: the files rendered from what is stored now.
\* Generated credentials that the cache does not show are generated anew.
Configure ==
    /\ op.pc = "configure"
    /\ \E missed \in BOOLEAN :
         /\ missed => /\ stored.gen > 0 /\ op.i.spec.auth = "generated"
                      /\ MayFail
         /\ faults' = IF missed THEN faults + 1 ELSE faults
         /\ op' = [op EXCEPT
              !.pc = IF op.i.upgrading THEN "upgrade"
                     ELSE IF op.i.spec.type = "Shutdown" /\ UpgradeRequired(op.i)
                     THEN "schedule"
                     ELSE IF op.i.spec.auth = "generated" THEN "secret"
                     ELSE "files",
              !.f  = [conf |-> InfinispanServer(op.i.spec), keys |-> Keystore,
                      text |-> UserConfigMap(op.i.spec),
                      ids  |-> Credentials(op.i.spec,
                                 IF stored.gen = 0 \/ missed THEN stored.gen + 1
                                 ELSE stored.gen)]]
    /\ UNCHANGED <<cr, user, stored, sts, pod, queued, current, hurried, edits>>

\* ScheduleGracefulShutdownUpgrade.
Schedule ==
    /\ op.pc = "schedule"
    /\ Write(Operand(op.i, "Pending"), TRUE, EndWith(TRUE))
    /\ UNCHANGED <<user, stored, sts, pod, current, hurried, edits, faults>>

\* The shutdown upgrade (ClusterLifecycle): the servers are stopped whatever
\* spec.upgrades.type says by now; the handler that removes the StatefulSet and
\* ends the upgrade is part of the pipeline only while the type is Shutdown.
\* Without it AwaitUpgrade asks for another pass, and there is no StatefulSet
\* to update until the type is set back.
ShutdownUpgrade ==
    /\ op.pc = "upgrade"
    /\ pod' = [p \in Pod |-> Absent]
    /\ \/ /\ op.i.spec.type = "Shutdown"
          /\ cr' = [cr EXCEPT !.upgrading = FALSE, !.down = FALSE]
          /\ sts' = Absent
          /\ current' = FALSE
       \/ /\ op.i.spec.type # "Shutdown"
          /\ cr' = [cr EXCEPT !.down = TRUE]
          /\ UNCHANGED <<sts, current>>
    /\ EndWith(TRUE)
    /\ UNCHANGED <<user, stored, hurried, edits, faults>>

\* UserAuthenticationSecret.  A Secret the pass did not see is overwritten,
\* or, if the cache still misses it, its creation is refused.
StoreIdentities ==
    /\ op.pc = "secret"
    /\ IF op.f.ids[2] = stored.gen
       THEN Goto("files") /\ UNCHANGED <<stored, current>>
       ELSE \/ /\ stored' = [stored EXCEPT !.gen = op.f.ids[2]]
               /\ current' = FALSE
               /\ op' = [op EXCEPT !.pc = "files"]
               /\ queued' = (queued \/ stored.gen > 0)
            \/ stored.gen > 0 /\ EndWith(TRUE) /\ UNCHANGED <<stored, current>>
    /\ UNCHANGED <<cr, user, sts, pod, hurried, edits, faults>>

\* InfinispanSecuritySecret and InfinispanConfigMap.
StoreFiles ==
    /\ op.pc = "files"
    /\ stored' = [stored EXCEPT !.files = [conf |-> op.f.conf, ids |-> op.f.ids]]
    /\ queued' = (queued \/ stored'.files # stored.files)
    /\ op' = [op EXCEPT !.pc = "create"]
    /\ UNCHANGED <<cr, user, sts, pod, current, hurried, edits, faults>>

\* The pass's files are still what the configuration handlers would render,
\* and its operand is not one recorded before the spec changed.
UpToDate ==
    /\ op.i.spec = cr.spec
    /\ op.i.operand = Operand(cr, op.i.operand.phase)
    /\ op.f.text = UserConfigMap(cr.spec) /\ op.f.keys = user.keys
    /\ op.f.ids = Credentials(cr.spec, stored.gen)

\* ClusterStatefulSet, and StatefulSetRollingUpgrade up to its first write
\* (no one else writes the template, so no step comes between the two).
ClusterStatefulSet ==
    /\ op.pc = "create"
    /\ IF sts # Absent THEN UNCHANGED <<sts, current>>
       ELSE /\ \E left \in {0, Foreign} :
                 sts' = ClusterStatefulSetSpec(op.i, op.f, left)
            /\ current' = UpToDate
    /\ LET next == StatefulSetRollingUpgrade(sts', op.i, op.f) IN
       op' = [op EXCEPT !.next = next,
                        !.pc = IF NewImage(sts', op.i) THEN "pending"
                               ELSE IF next # sts' THEN "update"
                               ELSE "formed"]
    /\ UNCHANGED <<cr, user, stored, pod, queued, hurried, edits, faults>>

\* A new image is first announced in the status.
AnnounceImage ==
    /\ op.pc = "pending"
    /\ Write(Operand(op.i, "Pending"), cr.upgrading,
             /\ op' = [op EXCEPT !.pc = "update", !.i = cr']
             /\ queued' = TRUE)
    /\ UNCHANGED <<user, stored, sts, pod, current, hurried, edits, faults>>

\* The API server keeps the service account of a template that names none: the
\* deprecated field beside it, which the operator sends back, still has it
\* (external).  An update that changes nothing wakes no one.
StoredTemplate(next) ==
    [next EXCEPT !.tmpl.sa = IF @ = 0 THEN sts.tmpl.sa ELSE @]

UpdateStatefulSet ==
    /\ op.pc = "update"
    /\ sts' = StoredTemplate(op.next)
    /\ op' = [op EXCEPT !.pc = "formed"]
    /\ queued' = (queued \/ sts' # sts)
    /\ UNCHANGED <<cr, user, stored, pod, current, hurried, edits, faults>>

\* AwaitWellFormedCondition: every pod answers, whatever its template.
AwaitWellFormed ==
    /\ op.pc = "formed"
    /\ IF \A p \in Pod : pod[p] # Absent
       THEN Write([cr.operand EXCEPT !.phase = "Running"], cr.upgrading,
                  EndWith(cr.operand.phase # "Running"))
       ELSE UNCHANGED cr /\ EndWith(TRUE)
    /\ UNCHANGED <<user, stored, sts, pod, current, hurried, edits, faults>>

Reconcile ==
    \/ Begin \/ PreliminaryChecks \/ Configure \/ Schedule \/ ShutdownUpgrade
    \/ StoreIdentities \/ StoreFiles \/ ClusterStatefulSet
    \/ AnnounceImage \/ UpdateStatefulSet \/ AwaitWellFormed

-----------------------------------------------------------------------------
(***************************************************************************)
(* The StatefulSet controller and the kubelet.                             *)
(***************************************************************************)

\* A pod starts from the present template and reads the files of now.
StartPod(p) ==
    /\ sts # Absent /\ pod[p] = Absent /\ ~cr.down
    /\ pod' = [pod EXCEPT ![p] =
         [tmpl |-> sts.tmpl, files |-> stored.files,
          text |-> IF sts.tmpl.overlay = NoMap THEN 0
                   ELSE user.text[sts.tmpl.overlay]]]
    /\ queued' = TRUE
    /\ UNCHANGED <<cr, user, stored, sts, op, current, hurried, edits, faults>>

\* The rolling update: one pod at a time.
ReplacePod(p) ==
    /\ sts # Absent
    /\ \A q \in Pod : pod[q] # Absent
    /\ pod[p].tmpl # sts.tmpl
    /\ pod' = [pod EXCEPT ![p] = Absent]
    /\ queued' = TRUE
    /\ UNCHANGED <<cr, user, stored, sts, op, current, hurried, edits, faults>>

-----------------------------------------------------------------------------
(***************************************************************************)
(* The user and the webhook.                                               *)
(***************************************************************************)

minorStreamMatch(v, w) == Stream[v] = Stream[w]

\* validate and ValidateUpdate, of what concerns the rollout.
ValidateUpdate(old, new) ==
    /\ new.type = "InPlaceRolling" => new.version >= RollingFrom
    /\ new.version >= old.version
    /\ new.type = "InPlaceRolling" =>
          minorStreamMatch(old.version, new.version)

\* What an edit of spec.version and spec.upgrades asks for.
Upgrades == [version : Version, type : {"Shutdown", "InPlaceRolling"}]

Changes(s) ==
    {n \in
        {[s EXCEPT !.knob = k] : k \in 1..2}
        \cup {[s EXCEPT !.sa = a] : a \in 0..1}
        \cup {[s EXCEPT !.cpu = c] : c \in 0..2}
        \cup {[s EXCEPT !.probes = k] : k \in 1..2}
        \cup {[s EXCEPT !.conf = c] : c \in 1..2}
        \cup {[s EXCEPT !.overlay = m] : m \in Map \cup {NoMap}}
        \cup {[s EXCEPT !.auth = a] : a \in Owners}
        \cup {[s EXCEPT !.enc = e] : e \in BOOLEAN}
        \cup {[s EXCEPT !.claim = c] : c \in 0..1}
        \cup {[s EXCEPT !.custom = c] : c \in BOOLEAN}
        \cup {[s EXCEPT !.version = w.version, !.type = w.type] : w \in Upgrades} :
     n # s /\ ValidateUpdate(s, n)}

\* Whether the files of `n' may be those of an earlier resource, with a
\* template that does not show the files of the present one yet.
TakesBack(s, n) ==
    /\ sts # Absent /\ sts.tmpl.env.conf # InfinispanServer(s)
    /\ \/ n.conf # s.conf \/ n.auth # s.auth \/ n.enc # s.enc

UserEdits ==
    /\ edits + faults < MaxEvents
    /\ \E n \in Changes(cr.spec) :
         /\ cr' = [cr EXCEPT !.spec = n]
         /\ hurried' = (hurried \/ TakesBack(cr.spec, n))
    /\ edits' = edits + 1
    /\ queued' = TRUE /\ current' = FALSE
    /\ UNCHANGED <<user, stored, sts, pod, op, faults>>

\* An edit of an object the resource refers to: the watch on ConfigMaps and
\* Secrets finds the resource by the name in its spec.
UserEditsObject ==
    /\ edits + faults < MaxEvents
    /\ \/ \E m \in Map : /\ user' = [user EXCEPT !.text[m] = @ + 1]
                          /\ queued' = (queued \/ cr.spec.overlay = m)
       \/ /\ user' = [user EXCEPT !.ids = @ + 1]
          /\ queued' = (queued \/ cr.spec.auth = "user")
       \/ /\ user' = [user EXCEPT !.keys = @ + 1]
          /\ queued' = (queued \/ cr.spec.enc)
    /\ edits' = edits + 1
    /\ current' = FALSE
    /\ UNCHANGED <<cr, stored, sts, pod, op, hurried, faults>>

\* The operator dies, or its update of the StatefulSet is refused because
\* the StatefulSet changed since it was read; the pass starts over.
PassFails ==
    /\ op # Idle
    /\ MayFail
    /\ faults' = faults + 1
    /\ EndWith(TRUE)
    /\ UNCHANGED <<cr, user, stored, sts, pod, current, hurried, edits>>

Rolls == \E p \in Pod : StartPod(p) \/ ReplacePod(p)

Next ==
    \/ Reconcile
    \/ Rolls
    \/ UserEdits \/ UserEditsObject
    \/ PassFails

Spec == Init /\ [][Next]_vars /\ WF_vars(Reconcile) /\ WF_vars(Rolls)

-----------------------------------------------------------------------------
(***************************************************************************)
(* Properties.                                                             *)
(***************************************************************************)

Settled == op = Idle /\ ~queued

\* The template has, in every part the updates cover, the value that
\* ClusterStatefulSetSpec would give it now.  A service account that is no
\* longer named stays (statefulset_updates.go:143), and so do a cpu, the other
\* claim, credentials and keystores.  The image is compared for InPlaceRolling
\* only, and spec.image is not covered: a creation uses it, the next comparison
\* replaces it by the operand's image (statefulset_updates.go:98).
AsCreated ==
    LET s    == cr.spec
        made == ClusterStatefulSetSpec(cr,
                   [conf |-> InfinispanServer(s), text |-> UserConfigMap(s), keys |-> user.keys,
                    ids |-> Credentials(s, stored.gen)], 0)
        m == made.tmpl
        t == sts.tmpl
    IN  /\ sts.notes = made.notes
        /\ <<t.knob, t.probes, t.args, t.overlay>>
           = <<m.knob, m.probes, m.args, m.overlay>>
        /\ t.env.conf = m.env.conf
        /\ s.auth # "none" => t.auth = m.auth /\ t.env.ids = m.env.ids
        /\ s.enc => t.enc
        /\ Hashed(s) => t.env.keys = m.env.keys
        /\ s.sa # 0 => t.sa = m.sa
        /\ s.cpu # 0 => t.cpu = m.cpu
        /\ (t.claim = 0) = (m.claim = 0)
        /\ s.type = "InPlaceRolling" /\ ~s.custom => t.image = s.version

\* SAFETY: the chain of comparisons leads where a creation would.  When the
\* operator has nothing left to do, the template it reached by updates is as
\* a creation would make it: no part is forgotten, none is left half way
\* (three probes, a replaced environment whose hashes were dropped).  (With
\* the typing.)
Converged == TypeOK /\ (Settled /\ sts # Absent => AsCreated)

\* ACTION PROPERTY: pods restart only for a change.  A StatefulSet created
\* from the present resource, files and credentials is what the next passes
\* ask for: until an input changes they never touch its template, although
\* creation and update are two pieces of code.  One needless restart is the
\* code's: with InPlaceRolling the image of spec.image, which creation used,
\* is replaced by the operand's (statefulset_updates.go:98).
ReplacesImage ==
    /\ cr.spec.custom /\ cr.spec.type = "InPlaceRolling"
    /\ sts.tmpl.image = CustomImage
    /\ sts'.tmpl = [sts.tmpl EXCEPT !.image = cr.spec.version]

RestartOnlyForChange ==
    [][current /\ current' => sts'.tmpl = sts.tmpl \/ ReplacesImage]_vars

\* The upgrade type was changed while a shutdown upgrade was under way.
UpgradeAbandoned == cr.upgrading /\ cr.spec.type # "Shutdown"

\* LIVENESS: a change arrives.  Once the user stops, every pod in the end
\* runs the StatefulSet's template and has read the present overlay, server
\* configuration and credentials: no pod keeps what it read before, an edit
\* that is taken back included.  Two cases are the code's exceptions: the pass
\* that stored the files of an edit failed, and the edit was taken back before
\* the template showed it (the template then matches, and a pod that started in
\* between is not replaced); and an upgrade that is left with the servers
\* stopped because its type was changed meanwhile.
PodsFollow ==
    <>[]((hurried /\ faults > 0) \/ UpgradeAbandoned) \/
    <>[] /\ sts # Absent
         /\ \A p \in Pod :
               /\ pod[p] # Absent
               /\ pod[p].tmpl = sts.tmpl
               /\ pod[p].text = UserConfigMap(cr.spec)
               /\ pod[p].files = [conf |-> InfinispanServer(cr.spec),
                                  ids  |-> Credentials(cr.spec, stored.gen)]

=============================================================================
