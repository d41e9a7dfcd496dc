--------------------------- MODULE RolloutProofs ---------------------------
(***************************************************************************)
(* Theorems about Rollout, for any pods, overlays, operands, initial specs *)
(* and number of edits and faults, edits that are taken back included.     *)
(***************************************************************************)
EXTENDS Rollout, TLAPS

-----------------------------------------------------------------------------
(***************************************************************************)
(* The inductive invariant.                                                *)
(***************************************************************************)
Operands    == [version : 0..MaxVersion, image : 0..MaxVersion, custom : BOOLEAN, phase : {"Pending", "Running"}]
Resources   == [spec : Spec0, operand : Operands, upgrading : BOOLEAN, down : BOOLEAN]
Rendered    == [conf : Configs, keys : Nat, text : Nat, ids : Identities]
ServerFiles == [conf : Configs, ids : Identities]

\* The handlers of a pass: before the files are rendered, with the rendered
\* files, and with a StatefulSet.
Reading   == {"prelim", "configure"}
Preparing == {"upgrade", "schedule", "secret", "files", "create"}
Updating  == {"pending", "update", "formed"}
Passes ==
    {Idle} \cup [pc : Reading, i : Resources, f : {Absent}, next : {Absent}]
           \cup [pc : Preparing, i : Resources, f : Rendered, next : {Absent}]
           \cup [pc : Updating, i : Resources, f : Rendered, next : StatefulSets]

Shape ==
    /\ cr \in Resources
    /\ user \in [text : [Map -> Nat], ids : Nat, keys : Nat]
    /\ stored \in [gen : Nat, files : ServerFiles \cup {Absent}]
    /\ sts \in StatefulSets \cup {Absent}
    /\ pod \in [Pod -> [tmpl : Templates, files : ServerFiles, text : Nat] \cup {Absent}]
    /\ op \in Passes
    /\ queued \in BOOLEAN /\ current \in BOOLEAN /\ hurried \in BOOLEAN
    /\ edits \in Nat /\ faults \in Nat

(* The files are stored before there is a StatefulSet whose pods read them. *)
FilesStored ==
    /\ sts # Absent \/ op.pc \in {"create"} \cup Updating => stored.files # Absent
    /\ op.pc \in Updating => sts # Absent

(* The annotation tells the environment a StatefulSet was given.           *)
Noted(t) == t.notes.envs = t.tmpl.env.conf
EnvNoted ==
    /\ sts # Absent => Noted(sts)
    /\ op.pc \in Updating => Noted(op.next)

(* What a pass has rendered is what its copy of the resource asks for; and *)
(* if nothing was queued since it began, or its inputs are those the       *)
(* StatefulSet was created from, its inputs are the present ones.          *)
PassOK ==
    /\ op.pc \in Preparing => op.f.conf = InfinispanServer(op.i.spec)
    /\ op.pc = "secret" => op.i.spec.auth = "generated" /\ op.f.ids[1] = "generated"
    /\ op.pc \in {"configure"} \cup Preparing /\ (~queued \/ current) =>
          /\ op.i.spec = cr.spec
          /\ op.pc \in Preparing => op.f.text = UserConfigMap(cr.spec)
          /\ op.pc \in Preparing /\ cr.spec.enc => op.f.keys = user.keys
          /\ op.pc \in {"files", "create"} => op.f.ids = Credentials(cr.spec, stored.gen)

(* A StatefulSet `t' that an update for the spec `s', with this overlay,   *)
(* these credentials and this keystore, leaves alone, except that it may   *)
(* replace the image of spec.image.                                        *)
MadeFor(t, s, text, ids, keys) ==
    LET m == t.tmpl IN
    /\ m.image = s.version \/ (s.custom /\ m.image = CustomImage)
    /\ m.knob = s.knob /\ m.sa = s.sa /\ m.cpu = s.cpu /\ m.claim = s.claim
    /\ m.probes = PodProbes(s) /\ m.args = BuildServerContainerArgs(s)
    /\ m.overlay = s.overlay /\ m.auth = s.auth /\ m.enc = s.enc
    /\ m.env = [conf |-> InfinispanServer(s), ids |-> ids, keys |-> IF Hashed(s) THEN keys ELSE 0]
    /\ t.notes.envs = InfinispanServer(s)
    /\ s.overlay # NoMap => t.notes.overlay = text

Made(t) == MadeFor(t, cr.spec, UserConfigMap(cr.spec), Credentials(cr.spec, stored.gen), user.keys)

(* The template `n' is `m' with the operand's image in place of the user's. *)
Replaces(m, n) ==
    /\ cr.spec.custom /\ cr.spec.type = "InPlaceRolling"
    /\ m.image = CustomImage /\ n = [m EXCEPT !.image = cr.spec.version]

(* While no input has changed since the creation, the passes that follow   *)
(* ask for no other template, that of the replaced image excepted.         *)
CurrentOK ==
    current =>
        /\ sts # Absent /\ Made(sts)
        /\ op.pc \in {"pending", "update"} =>
              /\ Made(op.next)
              /\ op.next.tmpl = sts.tmpl \/ Replaces(sts.tmpl, op.next.tmpl)

(* A StatefulSet `t' that has, in every part the updates cover, what a     *)
(* creation for the spec `s' would give it.                                *)
CreatedFor(t, s, text, ids, keys) ==
    LET m == t.tmpl IN
    /\ t.notes = [envs |-> InfinispanServer(s), overlay |-> IF s.overlay = NoMap THEN 0 ELSE text]
    /\ m.knob = s.knob /\ m.probes = PodProbes(s)
    /\ m.args = BuildServerContainerArgs(s) /\ m.overlay = s.overlay
    /\ m.env.conf = InfinispanServer(s)
    /\ s.auth # "none" => m.auth = s.auth /\ m.env.ids = ids
    /\ s.enc => m.enc
    /\ Hashed(s) => m.env.keys = keys
    /\ s.sa # 0 => m.sa = s.sa
    /\ s.cpu # 0 => m.cpu = s.cpu
    /\ (m.claim = 0) = (s.claim = 0)
    /\ s.type = "InPlaceRolling" => m.image = s.version

(* A pass that found nothing to update, or nothing that the API server     *)
(* stores, leaves a StatefulSet as it would be created, unless a request   *)
(* was queued meanwhile.                                                   *)
ConvergedOK ==
    (op = Idle \/ op.pc = "formed" \/ (op.pc = "update" /\ StoredTemplate(op.next) = sts))
        /\ ~queued /\ sts # Absent =>
        CreatedFor(sts, cr.spec, UserConfigMap(cr.spec), Credentials(cr.spec, stored.gen), user.keys)

IInv == Shape /\ FilesStored /\ EnvNoted /\ PassOK /\ CurrentOK /\ ConvergedOK

-----------------------------------------------------------------------------
(***************************************************************************)
(* Types.                                                                  *)
(***************************************************************************)
Pods == [tmpl : Templates, files : ServerFiles, text : Nat]

\* What exists is not taken for absent.
LEMMA AbsentApart ==
    Absent \notin StatefulSets /\ Absent \notin ServerFiles /\ Absent \notin Pods /\ Absent \notin Rendered
  BY DEF Absent, StatefulSets, ServerFiles, Pods, Rendered

\* The step of a pass tells what it has.
LEMMA PassesApart ==
    ASSUME NEW p \in Passes
    PROVE  /\ p.pc \in {"idle"} \cup Reading \cup Preparing \cup Updating
           /\ p.pc = "idle" <=> p = Idle
           /\ p # Idle => p.i \in Resources
           /\ p.pc \in Preparing \cup Updating => p.f \in Rendered
           /\ p.pc \in Updating => p.next \in StatefulSets
           /\ p.pc \in Reading => p.f = Absent
           /\ p.pc \in Reading \cup Preparing => p.next = Absent
           /\ p.pc \in Reading => p \in [pc : Reading, i : Resources, f : {Absent}, next : {Absent}]
           /\ p.pc \in Preparing => p \in [pc : Preparing, i : Resources, f : Rendered, next : {Absent}]
           /\ p.pc \in Updating => p \in [pc : Updating, i : Resources, f : Rendered, next : StatefulSets]
  <1>1. CASE p = Idle
    BY <1>1 DEF Idle, Reading, Preparing, Updating
  <1>2. CASE p \in [pc : Reading, i : Resources, f : {Absent}, next : {Absent}]
    <2>1. p.pc \in Reading /\ p.pc # "idle"
      BY <1>2 DEF Reading
    <2>2. p # Idle
      BY <2>1 DEF Idle
    <2> QED BY <1>2, <2>1, <2>2 DEF Reading, Preparing, Updating
  <1>3. CASE p \in [pc : Preparing, i : Resources, f : Rendered, next : {Absent}]
    <2>1. p.pc \in Preparing /\ p.pc # "idle"
      BY <1>3 DEF Preparing
    <2>2. p # Idle
      BY <2>1 DEF Idle
    <2> QED BY <1>3, <2>1, <2>2 DEF Reading, Preparing, Updating
  <1>4. CASE p \in [pc : Updating, i : Resources, f : Rendered, next : StatefulSets]
    <2>1. p.pc \in Updating /\ p.pc # "idle"
      BY <1>4 DEF Updating
    <2>2. p # Idle
      BY <2>1 DEF Idle
    <2> QED BY <1>4, <2>1, <2>2 DEF Reading, Preparing, Updating
  <1> QED BY <1>1, <1>2, <1>3, <1>4 DEF Passes

\* Every operand is among the images.
LEMMA VersionType == ASSUME NEW v \in Version PROVE v \in 0..MaxVersion
  BY VersionsAssumption DEF Version

\* The fields of a spec.
LEMMA SpecType ==
    ASSUME NEW s \in Spec0
    PROVE  /\ s.version \in Version /\ s.version \in 0..MaxVersion
           /\ s.overlay \in Map \cup {NoMap} /\ s.auth \in Owners
           /\ s.custom \in BOOLEAN /\ s.enc \in BOOLEAN
           /\ s.knob \in 1..2 /\ s.sa \in 0..1 /\ s.cpu \in 0..2 /\ s.probes \in 1..2 /\ s.claim \in 0..1 /\ s.conf \in 1..2
  <1>1. s.version \in Version
    BY DEF Spec0
  <1> QED BY <1>1, VersionType DEF Spec0

\* What the server configuration is rendered from.
LEMMA ConfType == ASSUME NEW s \in Spec0 PROVE InfinispanServer(s) \in Configs
  <1>1. s.conf \in 1..2 /\ (s.auth # "none") \in BOOLEAN /\ s.enc \in BOOLEAN /\ s.version \in Version
    BY SpecType
  <1> QED BY <1>1, Zenon DEF InfinispanServer, Configs

\* An operand recorded in the status.
LEMMA OperandType ==
    ASSUME NEW i \in Resources, NEW phase \in {"Pending", "Running"}
    PROVE  Operand(i, phase) \in Operands
  <1>1. i.spec \in Spec0
    BY DEF Resources
  <1>2. CustomImage \in 0..MaxVersion
    BY VersionsAssumption DEF CustomImage
  <1> QED BY <1>1, <1>2, SpecType DEF Operand, Operands

\* The credentials, the overlay and the keystore a pass reads.
LEMMA InputTypes ==
    ASSUME Shape, NEW s \in Spec0, NEW g \in Nat
    PROVE  Credentials(s, g) \in Identities /\ UserConfigMap(s) \in Nat /\ Keystore \in Nat
  <1>1. user.text \in [Map -> Nat] /\ user.ids \in Nat /\ user.keys \in Nat
    BY DEF Shape
  <1>2. UserConfigMap(s) \in Nat
    BY <1>1, SpecType DEF UserConfigMap
  <1>3. Credentials(s, g) \in Identities
    BY <1>1 DEF Credentials, Identities, NoIds, Owners
  <1> QED BY <1>1, <1>2, <1>3 DEF Keystore

\* The environment of a new pod.
LEMMA EnvType ==
    ASSUME NEW s \in Spec0, NEW f \in Rendered
    PROVE  PodEnvsAndHash(s, f) \in [conf : Configs, ids : Identities, keys : Nat]
  BY DEF PodEnvsAndHash, Rendered

\* What is created has the shape of a StatefulSet and its annotation.
LEMMA CreateType ==
    ASSUME NEW i \in Resources, NEW f \in Rendered, NEW left \in {0, Foreign}
    PROVE  /\ ClusterStatefulSetSpec(i, f, left) \in StatefulSets
           /\ Noted(ClusterStatefulSetSpec(i, f, left))
  <1>1. i.spec \in Spec0
    BY DEF Resources
  <1>2. ImageName(i) \in 0..MaxVersion
    BY VersionsAssumption DEF ImageName, CustomImage, Resources, Operands
  <1>3. PodProbes(i.spec) \in [Probes -> 1..2]
    BY <1>1, SpecType DEF PodProbes
  <1>4. BuildServerContainerArgs(i.spec) \in BOOLEAN
    BY DEF BuildServerContainerArgs
  <1>5. f.conf \in Configs /\ f.text \in Nat
    BY DEF Rendered
  <1> DEFINE c == ClusterStatefulSetSpec(i, f, left)
  <1>6. c.tmpl \in Templates
    BY <1>1, <1>2, <1>3, <1>4, SpecType, EnvType DEF ClusterStatefulSetSpec, Templates
  <1>7. c.notes \in [overlay : Nat \cup {Foreign}, envs : Configs]
    BY <1>5 DEF ClusterStatefulSetSpec
  <1>8. c = [tmpl |-> c.tmpl, notes |-> c.notes]
    BY DEF ClusterStatefulSetSpec
  <1>9. Noted(c)
    BY DEF Noted, ClusterStatefulSetSpec, PodEnvsAndHash
  <1> QED BY <1>6, <1>7, <1>8, <1>9 DEF StatefulSets

\* The probes stay probes.
LEMMA ProbesType ==
    ASSUME NEW q \in [Probes -> 1..2], NEW w \in 1..2
    PROVE  ProbesAfter(q, w) \in [Probes -> 1..2]
  BY DEF ProbesAfter, Probes

\* The environment after an update, and what it was rendered from.
LEMMA EnvAfterType ==
    ASSUME NEW t \in StatefulSets, NEW i \in Resources, NEW f \in Rendered
    PROVE  /\ EnvAfter(t, i, f) \in [conf : Configs, ids : Identities, keys : Nat]
           /\ Noted(t) => EnvAfter(t, i, f).conf = f.conf
  <1>1. t.tmpl.env \in [conf : Configs, ids : Identities, keys : Nat]
    BY DEF StatefulSets, Templates
  <1>2. f.conf \in Configs /\ f.ids \in Identities /\ f.keys \in Nat /\ NoIds \in Identities
    BY DEF Rendered, NoIds, Identities, Owners
  <1> DEFINE e == IF t.notes.envs = f.conf THEN t.tmpl.env
                  ELSE [conf |-> f.conf, ids |-> NoIds, keys |-> 0]
  <1>3. e \in [conf : Configs, ids : Identities, keys : Nat]
    BY <1>1, <1>2
  <1>4. Noted(t) => e.conf = f.conf
    BY DEF Noted
  <1>5. EnvAfter(t, i, f) = [e EXCEPT !.ids  = IF i.spec.auth = "none" THEN @ ELSE f.ids,
                                      !.keys = IF Hashed(i.spec) THEN f.keys ELSE @]
    BY DEF EnvAfter
  <1> HIDE DEF e
  <1> QED BY <1>2, <1>3, <1>4, <1>5

\* An update gives a StatefulSet again, and its annotation.
LEMMA UpdateType ==
    ASSUME NEW t \in StatefulSets, NEW i \in Resources, NEW f \in Rendered
    PROVE  /\ StatefulSetRollingUpgrade(t, i, f) \in StatefulSets
           /\ Noted(t) => Noted(StatefulSetRollingUpgrade(t, i, f))
  <1> DEFINE c == StatefulSetRollingUpgrade(t, i, f)
  <1>1. i.spec \in Spec0
    BY DEF Resources
  <1>2. t.tmpl \in Templates
    BY DEF StatefulSets
  <1>3. ProbesAfter(t.tmpl.probes, i.spec.probes) \in [Probes -> 1..2]
    BY <1>1, <1>2, ProbesType, SpecType DEF Templates
  <1>4. AuthAfter(t, i) \in Owners
    BY DEF AuthAfter, Owners
  <1>5. f.conf \in Configs /\ f.text \in Nat
    BY DEF Rendered
  <1>6. ResourcesAfter(t.tmpl, i.spec) \in 0..2
    BY <1>1, <1>2, SpecType DEF ResourcesAfter, Templates
  <1>7. ApplyExternalDependenciesVolume(t.tmpl, i.spec) \in 0..1
    BY <1>1, <1>2, SpecType DEF ApplyExternalDependenciesVolume, Templates
  <1>8. AddVolumesForEncryption(t.tmpl, i.spec) \in BOOLEAN /\ BuildServerContainerArgs(i.spec) \in BOOLEAN
    BY DEF AddVolumesForEncryption, BuildServerContainerArgs
  <1>9. applyOverlayConfigVolume(i.spec) \in Map \cup {NoMap}
    BY <1>1, SpecType DEF applyOverlayConfigVolume
  <1>10. t.tmpl.stamp \in Nat /\ t.tmpl.stamp + 1 \in Nat /\ t.tmpl.image \in 0..MaxVersion
    BY <1>2 DEF Templates
  <1>11. c.tmpl \in Templates
    BY <1>1, <1>3, <1>4, <1>6, <1>7, <1>8, <1>9, <1>10, SpecType, EnvAfterType
    DEF StatefulSetRollingUpgrade, Templates
  <1>12. c.notes \in [overlay : Nat \cup {Foreign}, envs : Configs]
    BY <1>5 DEF StatefulSetRollingUpgrade, OverlaySum
  <1>13. c = [tmpl |-> c.tmpl, notes |-> c.notes]
    BY DEF StatefulSetRollingUpgrade
  <1>14. Noted(t) => Noted(c)
    BY EnvAfterType DEF Noted, StatefulSetRollingUpgrade
  <1> QED BY <1>11, <1>12, <1>13, <1>14 DEF StatefulSets

-----------------------------------------------------------------------------
(***************************************************************************)
(* Creation and update agree.                                              *)
(***************************************************************************)

\* The probes that an update has nothing to replace in are as wanted.
LEMMA ProbesFixed ==
    ASSUME NEW q \in [Probes -> 1..2], NEW w \in 1..2
    PROVE  ProbesAfter(q, w) = q <=> q = [k \in Probes |-> w]
  <1>1. q = [k \in Probes |-> q[k]]
    OBVIOUS
  <1>2. Probes = {"liveness", "readiness", "startup"}
    BY DEF Probes
  <1>3. CASE q["liveness"] # w
    <2>1. ProbesAfter(q, w) = [q EXCEPT !["liveness"] = w]
      BY <1>3 DEF ProbesAfter
    <2> QED BY <1>2, <1>3, <2>1
  <1>4. CASE q["liveness"] = w /\ q["readiness"] # w
    <2>1. ProbesAfter(q, w) = [q EXCEPT !["readiness"] = w]
      BY <1>4 DEF ProbesAfter
    <2> QED BY <1>2, <1>4, <2>1
  <1>5. CASE q["liveness"] = w /\ q["readiness"] = w
    <2>1. ProbesAfter(q, w) = [q EXCEPT !["startup"] = w]
      BY <1>5 DEF ProbesAfter
    <2>2. ProbesAfter(q, w)["startup"] = w
      BY <1>2, <2>1
    <2> QED BY <1>1, <1>2, <1>5, <2>1, <2>2
  <1> QED BY <1>3, <1>4, <1>5

\* What the API server keeps of the template `t' when it stores `next'.
Kept(next, t) == [next EXCEPT !.tmpl.sa = IF @ = 0 THEN t.tmpl.sa ELSE @]

\* Only the service account may differ from what was sent.
LEMMA KeptFields ==
    ASSUME NEW next \in StatefulSets, NEW t \in StatefulSets, NEW k, k = Kept(next, t)
    PROVE  /\ k \in StatefulSets /\ k.notes = next.notes /\ (Noted(next) => Noted(k))
           /\ k.tmpl.image = next.tmpl.image /\ k.tmpl.knob = next.tmpl.knob /\ k.tmpl.cpu = next.tmpl.cpu
           /\ k.tmpl.probes = next.tmpl.probes /\ k.tmpl.args = next.tmpl.args
           /\ k.tmpl.overlay = next.tmpl.overlay /\ k.tmpl.claim = next.tmpl.claim
           /\ k.tmpl.auth = next.tmpl.auth /\ k.tmpl.enc = next.tmpl.enc /\ k.tmpl.env = next.tmpl.env
           /\ next.tmpl.sa # 0 => k.tmpl.sa = next.tmpl.sa
           /\ next.tmpl.sa = 0 => k.tmpl.sa = t.tmpl.sa
           /\ next.tmpl.sa = t.tmpl.sa => k = next
  <1> DEFINE x == IF next.tmpl.sa = 0 THEN t.tmpl.sa ELSE next.tmpl.sa
             m == [next.tmpl EXCEPT !.sa = x]
  <1>1. next.tmpl \in Templates /\ t.tmpl \in Templates /\ next = [tmpl |-> next.tmpl, notes |-> next.notes]
        /\ next.notes \in [overlay : Nat \cup {Foreign}, envs : Configs]
    BY DEF StatefulSets
  <1>2. k = [tmpl |-> m, notes |-> next.notes]
    BY <1>1 DEF Kept
  <1>3. x \in 0..1
    BY <1>1 DEF Templates
  <1>4. /\ m.image = next.tmpl.image /\ m.knob = next.tmpl.knob /\ m.cpu = next.tmpl.cpu
        /\ m.probes = next.tmpl.probes /\ m.args = next.tmpl.args
        /\ m.overlay = next.tmpl.overlay /\ m.claim = next.tmpl.claim
        /\ m.auth = next.tmpl.auth /\ m.enc = next.tmpl.enc /\ m.env = next.tmpl.env
        /\ m.sa = x /\ m \in Templates
    <2> HIDE DEF x
    <2> QED BY <1>1, <1>3 DEF Templates
  <1>5. next.tmpl.sa = t.tmpl.sa => m = next.tmpl
    BY <1>1 DEF Templates
  <1> HIDE DEF m
  <1>6. k \in StatefulSets /\ (Noted(next) => Noted(k))
    BY <1>1, <1>2, <1>4 DEF StatefulSets, Noted
  <1> QED BY <1>1, <1>2, <1>4, <1>5, <1>6

\* An update that changes nothing has found what a creation would give.
LEMMA FixedIsCreated ==
    ASSUME NEW t \in StatefulSets, NEW i \in Resources, NEW f \in Rendered, NEW keys,
           Noted(t), Kept(StatefulSetRollingUpgrade(t, i, f), t) = t,
           f.conf = InfinispanServer(i.spec), i.spec.enc => f.keys = keys
    PROVE  CreatedFor(t, i.spec, f.text, f.ids, keys)
  <1> DEFINE s == i.spec
             m == t.tmpl
             c == StatefulSetRollingUpgrade(t, i, f)
  <1>1. s \in Spec0 /\ m \in Templates
    BY DEF Resources, StatefulSets
  <1>0. /\ t.notes = c.notes /\ m.image = c.tmpl.image /\ m.knob = c.tmpl.knob /\ m.cpu = c.tmpl.cpu
        /\ m.probes = c.tmpl.probes /\ m.args = c.tmpl.args /\ m.overlay = c.tmpl.overlay
        /\ m.claim = c.tmpl.claim /\ m.auth = c.tmpl.auth /\ m.enc = c.tmpl.enc /\ m.env = c.tmpl.env
        /\ c.tmpl.sa # 0 => m.sa = c.tmpl.sa
    BY UpdateType, KeptFields
  <1>2. t.notes = [overlay |-> OverlaySum(i, f), envs |-> f.conf]
    <2>1. c.notes = [overlay |-> OverlaySum(i, f), envs |-> f.conf]
      BY DEF StatefulSetRollingUpgrade
    <2> QED BY <1>0, <2>1
  <1>3. /\ m.knob = s.knob /\ m.args = BuildServerContainerArgs(s) /\ m.overlay = s.overlay
        /\ m.cpu = ResourcesAfter(m, s) /\ m.probes = ProbesAfter(m.probes, s.probes)
        /\ m.claim = ApplyExternalDependenciesVolume(m, s) /\ m.auth = AuthAfter(t, i)
        /\ m.enc = AddVolumesForEncryption(m, s) /\ m.env = EnvAfter(t, i, f)
    <2>1. /\ c.tmpl.knob = s.knob /\ c.tmpl.args = BuildServerContainerArgs(s) /\ c.tmpl.overlay = s.overlay
          /\ c.tmpl.cpu = ResourcesAfter(m, s) /\ c.tmpl.probes = ProbesAfter(m.probes, s.probes)
          /\ c.tmpl.claim = ApplyExternalDependenciesVolume(m, s) /\ c.tmpl.auth = AuthAfter(t, i)
          /\ c.tmpl.enc = AddVolumesForEncryption(m, s) /\ c.tmpl.env = EnvAfter(t, i, f)
      BY DEF StatefulSetRollingUpgrade, applyOverlayConfigVolume
    <2> QED BY <1>0, <2>1
  <1>4. m.probes = PodProbes(s)
    <2>1. m.probes \in [Probes -> 1..2] /\ s.probes \in 1..2
      BY <1>1, SpecType DEF Templates
    <2> QED BY <1>3, <2>1, ProbesFixed DEF PodProbes
  <1>5. m.env.conf = f.conf
    BY <1>2 DEF Noted
  <1>6. /\ s.auth # "none" => m.env.ids = f.ids
        /\ Hashed(s) => m.env.keys = f.keys
    <2>1. m.env \in [conf : Configs, ids : Identities, keys : Nat]
      BY <1>1 DEF Templates
    <2>2. EnvAfter(t, i, f) = [m.env EXCEPT !.ids  = IF s.auth = "none" THEN @ ELSE f.ids,
                                            !.keys = IF Hashed(s) THEN f.keys ELSE @]
      BY <1>2 DEF EnvAfter
    <2> QED BY <1>3, <2>1, <2>2
  <1>7. s.auth # "none" => m.auth = s.auth
    BY <1>1, <1>3, SpecType DEF AuthAfter, Owners
  <1>8. (m.claim = 0) = (s.claim = 0)
    BY <1>1, <1>3, SpecType DEF ApplyExternalDependenciesVolume, Templates
  <1>9. s.enc => m.enc
    BY <1>3 DEF AddVolumesForEncryption
  <1>10. s.cpu # 0 => m.cpu = s.cpu
    BY <1>3 DEF ResourcesAfter
  <1>11. s.type = "InPlaceRolling" => m.image = s.version
    <2>1. c.tmpl.image = IF NewImage(t, i) THEN s.version ELSE m.image
      BY DEF StatefulSetRollingUpgrade
    <2> QED BY <1>0, <2>1 DEF NewImage
  <1>15. s.sa # 0 => m.sa = s.sa
    <2>1. c.tmpl.sa = s.sa
      BY DEF StatefulSetRollingUpgrade
    <2> QED BY <1>0, <2>1
  <1>12. Hashed(s) => f.keys = keys
    BY DEF Hashed
  <1>13. t.notes = [envs |-> InfinispanServer(s), overlay |-> IF s.overlay = NoMap THEN 0 ELSE f.text]
    BY <1>2 DEF OverlaySum
  <1> HIDE DEF s, m, c
  <1>14. CreatedFor(t, s, f.text, f.ids, keys)
    BY <1>3, <1>4, <1>5, <1>6, <1>7, <1>8, <1>9, <1>10, <1>11, <1>12, <1>13, <1>15 DEF CreatedFor, m, s
  <1> QED BY <1>14 DEF s

\* A creation for a recorded operand makes what an update would leave alone.
LEMMA CreatedIsMade ==
    ASSUME NEW i \in Resources, NEW f \in Rendered, NEW left,
           i.operand = Operand(i, i.operand.phase),
           f.conf = InfinispanServer(i.spec)
    PROVE  MadeFor(ClusterStatefulSetSpec(i, f, left), i.spec, f.text, f.ids, f.keys)
  <1>1. ImageName(i) = IF i.spec.custom THEN CustomImage ELSE i.spec.version
    BY DEF ImageName, Operand
  <1>2. \/ ImageName(i) = i.spec.version
        \/ i.spec.custom /\ ImageName(i) = CustomImage
    BY <1>1
  <1>3. ClusterStatefulSetSpec(i, f, left).tmpl.image = ImageName(i)
    BY DEF ClusterStatefulSetSpec
  <1> QED BY <1>2, <1>3 DEF MadeFor, ClusterStatefulSetSpec, PodEnvsAndHash

\* An update from the inputs a StatefulSet was made for leaves its template alone,
\* unless it replaces the image of spec.image.
LEMMA MadeIsFixed ==
    ASSUME NEW t \in StatefulSets, NEW i \in Resources, NEW f \in Rendered, NEW keys,
           MadeFor(t, i.spec, f.text, f.ids, keys),
           f.conf = InfinispanServer(i.spec), i.spec.enc => f.keys = keys
    PROVE  /\ \/ StatefulSetRollingUpgrade(t, i, f).tmpl = t.tmpl
              \/ /\ i.spec.custom /\ i.spec.type = "InPlaceRolling" /\ t.tmpl.image = CustomImage
                 /\ StatefulSetRollingUpgrade(t, i, f).tmpl = [t.tmpl EXCEPT !.image = i.spec.version]
           /\ MadeFor(StatefulSetRollingUpgrade(t, i, f), i.spec, f.text, f.ids, keys)
  <1> DEFINE s == i.spec
             m == t.tmpl
             c == StatefulSetRollingUpgrade(t, i, f)
  <1>1. s \in Spec0 /\ m \in Templates
    BY DEF Resources, StatefulSets
  <1>2. NewImage(t, i) => s.custom /\ s.type = "InPlaceRolling" /\ m.image = CustomImage
    BY DEF NewImage, MadeFor
  <1>3. /\ m.knob = s.knob /\ m.sa = s.sa /\ m.args = BuildServerContainerArgs(s) /\ m.overlay = s.overlay
        /\ m.cpu = s.cpu /\ m.probes = PodProbes(s) /\ m.claim = s.claim /\ m.auth = s.auth /\ m.enc = s.enc
        /\ t.notes.envs = f.conf
        /\ m.env = [conf |-> f.conf, ids |-> f.ids, keys |-> IF Hashed(s) THEN keys ELSE 0]
        /\ s.overlay # NoMap => t.notes.overlay = f.text
    BY DEF MadeFor
  <1>4. EnvAfter(t, i, f) = m.env
    <2> DEFINE ids == IF s.auth = "none" THEN m.env.ids ELSE f.ids
               sum == IF Hashed(s) THEN f.keys ELSE m.env.keys
    <2>1. EnvAfter(t, i, f) = [m.env EXCEPT !.ids = ids, !.keys = sum]
      BY <1>3 DEF EnvAfter
    <2>2. Hashed(s) => f.keys = keys
      BY DEF Hashed
    <2>3. ids = m.env.ids /\ sum = m.env.keys
      BY <1>3, <2>2
    <2>4. m.env \in [conf : Configs, ids : Identities, keys : Nat]
      BY <1>1 DEF Templates
    <2> HIDE DEF s, m, ids, sum
    <2> QED BY <2>1, <2>3, <2>4
  <1>5. ProbesAfter(m.probes, s.probes) = m.probes
    <2>1. m.probes \in [Probes -> 1..2] /\ s.probes \in 1..2
      BY <1>1, SpecType DEF Templates
    <2> QED BY <1>3, <2>1, ProbesFixed DEF PodProbes
  <1>6. AuthAfter(t, i) = m.auth
    BY <1>1, <1>3, SpecType DEF AuthAfter, Owners
  <1>7. ~OverlayTouches(t, i, f)
    BY <1>3 DEF OverlayTouches, OverlaySum
  <1>8. /\ ResourcesAfter(m, s) = m.cpu /\ ApplyExternalDependenciesVolume(m, s) = m.claim
        /\ AddVolumesForEncryption(m, s) = m.enc
    BY <1>1, <1>3, SpecType DEF ResourcesAfter, ApplyExternalDependenciesVolume, AddVolumesForEncryption, Templates
  <1> DEFINE image == IF NewImage(t, i) THEN s.version ELSE m.image
  <1>9. c.tmpl = [image |-> image, knob |-> m.knob, sa |-> m.sa, cpu |-> m.cpu, probes |-> m.probes,
                  args |-> m.args, overlay |-> m.overlay, claim |-> m.claim, auth |-> m.auth,
                  enc |-> m.enc, env |-> m.env, stamp |-> m.stamp]
    BY <1>3, <1>4, <1>5, <1>6, <1>7, <1>8 DEF StatefulSetRollingUpgrade, applyOverlayConfigVolume
  <1>10. c.tmpl = [m EXCEPT !.image = image]
    <2> HIDE DEF image, m, c
    <2> QED BY <1>1, <1>9 DEF Templates
  <1>11. c.notes = [overlay |-> OverlaySum(i, f), envs |-> f.conf]
    BY DEF StatefulSetRollingUpgrade
  <1>12. image = s.version \/ (s.custom /\ image = CustomImage)
    <2>1. m.image = s.version \/ (s.custom /\ m.image = CustomImage)
      BY Zenon DEF MadeFor
    <2> QED BY <2>1
  <1>13. MadeFor(c, s, f.text, f.ids, keys)
    <2> HIDE DEF image
    <2> QED BY <1>3, <1>9, <1>11, <1>12 DEF MadeFor, OverlaySum
  <1>14. image = m.image => c.tmpl = m
    <2> HIDE DEF image
    <2> QED BY <1>1, <1>10 DEF Templates
  <1> QED BY <1>2, <1>10, <1>13, <1>14

-----------------------------------------------------------------------------
(***************************************************************************)
(* The steps of a pass.                                                    *)
(***************************************************************************)

\* The inputs are the same as long as nobody changes them.
LEMMA InputsSame ==
    ASSUME cr'.spec = cr.spec, user' = user, stored'.gen = stored.gen
    PROVE  /\ UserConfigMap(cr.spec)' = UserConfigMap(cr.spec)
           /\ Credentials(cr.spec, stored.gen)' = Credentials(cr.spec, stored.gen)
           /\ \A t : MadeFor(t, cr.spec, UserConfigMap(cr.spec), Credentials(cr.spec, stored.gen), user.keys)
                     = MadeFor(t, cr'.spec, UserConfigMap(cr.spec)', Credentials(cr.spec, stored.gen)', user'.keys)
  <1>1. UserConfigMap(cr.spec)' = UserConfigMap(cr.spec)
    BY DEF UserConfigMap
  <1>2. Credentials(cr.spec, stored.gen)' = Credentials(cr.spec, stored.gen)
    BY DEF Credentials
  <1> QED BY <1>1, <1>2

\* A write of the status leaves the spec alone.
LEMMA ResourceStatus ==
    ASSUME NEW c \in Resources, NEW o \in Operands, NEW u \in BOOLEAN
    PROVE  /\ [c EXCEPT !.operand = o, !.upgrading = u] \in Resources
           /\ [c EXCEPT !.operand = o, !.upgrading = u].spec = c.spec
           /\ [c EXCEPT !.upgrading = u, !.down = u] \in Resources
           /\ [c EXCEPT !.down = u] \in Resources
           /\ [c EXCEPT !.down = u].spec = c.spec
  BY DEF Resources

\* A pass that ends with a request in the queue leaves everything to the next.
LEMMA EndedStep ==
    ASSUME IInv, op' = Idle, queued' = TRUE, cr' \in Resources, cr'.spec = cr.spec,
           UNCHANGED <<user, stored, sts, current, hurried>>, edits' \in Nat, faults' \in Nat,
           pod' \in [Pod -> [tmpl : Templates, files : ServerFiles, text : Nat] \cup {Absent}]
    PROVE  IInv'
  <1> USE DEF IInv, Reading, Preparing, Updating
  <1>1. op'.pc = "idle" /\ op' \in Passes
    BY DEF Idle, Passes
  <1>2. Shape'
    BY <1>1 DEF Shape
  <1>3. FilesStored' /\ EnvNoted' /\ PassOK' /\ ConvergedOK'
    BY <1>1 DEF FilesStored, EnvNoted, PassOK, ConvergedOK
  <1>4. CurrentOK'
    BY <1>1, InputsSame DEF CurrentOK, Made
  <1> QED BY <1>2, <1>3, <1>4

\* The pass is at one of its steps.
LEMMA AtStep == ASSUME Shape, op.pc # "idle" PROVE op # Idle /\ op.i \in Resources /\ op \in Passes
  BY PassesApart DEF Shape

\* The operand is recorded, and the pass ends.
LEMMA PreliminaryChecksStep == ASSUME IInv, PreliminaryChecks PROVE IInv'
  <1> USE DEF IInv
  <1>1. op.i \in Resources /\ cr \in Resources /\ cr.upgrading \in BOOLEAN
    BY AtStep DEF PreliminaryChecks, Shape, Resources
  <1>2. Operand(op.i, "Pending") \in Operands
    BY <1>1, OperandType
  <1>u. PICK u \in BOOLEAN : u = cr.upgrading
    BY <1>1
  <1>3. cr' \in Resources /\ cr'.spec = cr.spec
    <2>o. PICK o \in Operands : o = Operand(op.i, "Pending")
      BY <1>2
    <2>1. cr' = cr \/ cr' = [cr EXCEPT !.operand = o, !.upgrading = u]
      BY <1>u, <2>o DEF PreliminaryChecks, Write
    <2>2. /\ [cr EXCEPT !.operand = o, !.upgrading = u] \in Resources
          /\ [cr EXCEPT !.operand = o, !.upgrading = u].spec = cr.spec
      BY <1>1, ResourceStatus
    <2> QED BY <1>1, <2>1, <2>2
  <1>4. op' = Idle /\ queued' = TRUE
    BY DEF PreliminaryChecks, Write, EndWith, Shape
  <1> QED BY <1>3, <1>4, EndedStep DEF PreliminaryChecks, Shape

\* The upgrade is recorded, and the pass ends.
LEMMA ScheduleStep == ASSUME IInv, Schedule PROVE IInv'
  <1> USE DEF IInv
  <1>1. op.i \in Resources /\ cr \in Resources
    BY AtStep DEF Schedule, Shape
  <1>2. Operand(op.i, "Pending") \in Operands
    BY <1>1, OperandType
  <1>3. cr' \in Resources /\ cr'.spec = cr.spec
    BY <1>1, <1>2, ResourceStatus DEF Schedule, Write
  <1>4. op' = Idle /\ queued' = TRUE
    BY DEF Schedule, Write, EndWith, Shape
  <1> QED BY <1>3, <1>4, EndedStep DEF Schedule, Shape

\* A pass that fails is repeated.
LEMMA PassFailsStep == ASSUME IInv, PassFails PROVE IInv'
  <1> USE DEF IInv
  <1>1. op' = Idle /\ queued' = TRUE
    BY DEF PassFails, EndWith, Shape
  <1> QED BY <1>1, EndedStep DEF PassFails, Shape

\* A pass begins from the present resource.
LEMMA BeginStep == ASSUME IInv, Begin PROVE IInv'
  <1> USE DEF IInv, Reading, Preparing, Updating
  <1>1. /\ op' \in [pc : Reading, i : Resources, f : {Absent}, next : {Absent}]
        /\ op'.i = cr
    BY DEF Begin, Idle, Shape
  <1>2. op' \in Passes /\ op'.pc \in Reading
    BY <1>1 DEF Passes
  <1>3. op' # Idle
    BY <1>2, PassesApart
  <1>4. Shape'
    BY <1>2 DEF Begin, Shape
  <1>5. FilesStored' /\ EnvNoted' /\ ConvergedOK'
    BY <1>2, <1>3 DEF Begin, FilesStored, EnvNoted, ConvergedOK
  <1>6. PassOK'
    BY <1>1, <1>2 DEF Begin, PassOK
  <1>7. CurrentOK'
    BY <1>2, InputsSame DEF Begin, CurrentOK, Made
  <1> QED BY <1>4, <1>5, <1>6, <1>7

\* The StatefulSet goes, and with it what was said of it.
LEMMA ShutdownUpgradeStep == ASSUME IInv, ShutdownUpgrade PROVE IInv'
  <1> USE DEF IInv, Reading, Preparing, Updating
  <1>1. op' = Idle /\ queued' = TRUE /\ op'.pc = "idle" /\ op' \in Passes
    BY DEF ShutdownUpgrade, EndWith, Shape, Idle, Passes
  <1>2. pod' \in [Pod -> [tmpl : Templates, files : ServerFiles, text : Nat] \cup {Absent}]
        /\ cr \in Resources
    BY DEF ShutdownUpgrade, Shape
  <1>3. CASE cr' = [cr EXCEPT !.upgrading = FALSE, !.down = FALSE] /\ sts' = Absent /\ current' = FALSE
    <2>1. cr' \in Resources
      BY <1>2, <1>3 DEF Resources
    <2>2. Shape'
      BY <1>1, <1>2, <1>3, <2>1 DEF ShutdownUpgrade, Shape
    <2> QED BY <1>1, <1>3, <2>2 DEF ShutdownUpgrade, FilesStored, EnvNoted, PassOK, CurrentOK, ConvergedOK
  <1>4. CASE cr' = [cr EXCEPT !.down = TRUE] /\ UNCHANGED <<sts, current>>
    <2>1. cr' \in Resources /\ cr'.spec = cr.spec
      BY <1>2, <1>4 DEF Resources
    <2> QED BY <1>1, <1>2, <1>4, <2>1, EndedStep DEF ShutdownUpgrade, Shape
  <1> QED BY <1>3, <1>4 DEF ShutdownUpgrade

\* The files of a pass are rendered from its resource and the present objects.
LEMMA ConfigureStep == ASSUME IInv, Configure PROVE IInv'
  <1> USE DEF IInv
  <1>1. PICK missed \in BOOLEAN, P \in Preparing, g \in Nat :
          /\ P = "secret" => op.i.spec.auth = "generated"
          /\ P = "files" => op.i.spec.auth # "generated"
          /\ P # "create"
          /\ op' = [op EXCEPT
                      !.pc = P,
                      !.f = [conf |-> InfinispanServer(op.i.spec), keys |-> Keystore,
                             text |-> UserConfigMap(op.i.spec), ids |-> Credentials(op.i.spec, g)]]
          /\ faults' = IF missed THEN faults + 1 ELSE faults
    <2>1. PICK missed \in BOOLEAN :
            /\ faults' = IF missed THEN faults + 1 ELSE faults
            /\ op' = [op EXCEPT
                 !.pc = IF op.i.upgrading THEN "upgrade"
                        ELSE IF op.i.spec.type = "Shutdown" /\ UpgradeRequired(op.i)
                        THEN "schedule"
                        ELSE IF op.i.spec.auth = "generated" THEN "secret"
                        ELSE "files",
                 !.f  = [conf |-> InfinispanServer(op.i.spec), keys |-> Keystore,
                         text |-> UserConfigMap(op.i.spec),
                         ids  |-> Credentials(op.i.spec,
                                    IF stored.gen = 0 \/ missed THEN stored.gen + 1
                                    ELSE stored.gen)]]
      BY DEF Configure
    <2>2. stored.gen \in Nat
      BY DEF Shape
    <2> DEFINE P == IF op.i.upgrading THEN "upgrade"
                    ELSE IF op.i.spec.type = "Shutdown" /\ UpgradeRequired(op.i)
                    THEN "schedule"
                    ELSE IF op.i.spec.auth = "generated" THEN "secret"
                    ELSE "files"
               g == IF stored.gen = 0 \/ missed THEN stored.gen + 1 ELSE stored.gen
    <2>3. g \in Nat
      BY <2>2
    <2>4. P \in Preparing /\ (P = "secret" => op.i.spec.auth = "generated")
          /\ (P = "files" => op.i.spec.auth # "generated") /\ P # "create"
      BY DEF Preparing
    <2> HIDE DEF P, g
    <2>5. op' = [op EXCEPT
                   !.pc = P,
                   !.f = [conf |-> InfinispanServer(op.i.spec), keys |-> Keystore,
                          text |-> UserConfigMap(op.i.spec), ids |-> Credentials(op.i.spec, g)]]
      BY <2>1 DEF P, g
    <2>6. missed \in BOOLEAN /\ faults' = IF missed THEN faults + 1 ELSE faults
      BY <2>1
    <2> QED BY <2>3, <2>4, <2>5, <2>6, Zenon
  <1>2. /\ op \in [pc : Reading, i : Resources, f : {Absent}, next : {Absent}]
        /\ op.i.spec \in Spec0
    BY PassesApart DEF Configure, Shape, Reading, Resources
  <1> DEFINE F == [conf |-> InfinispanServer(op.i.spec), keys |-> Keystore,
                   text |-> UserConfigMap(op.i.spec), ids |-> Credentials(op.i.spec, g)]
  <1>3. F \in Rendered
    BY <1>2, ConfType, InputTypes DEF Rendered
  <1>4. /\ op' \in [pc : Preparing, i : Resources, f : Rendered, next : {Absent}]
        /\ op'.pc = P /\ op'.i = op.i /\ op'.f = F
    <2> HIDE DEF F
    <2>1. op' = [op EXCEPT !.pc = P, !.f = F]
      BY <1>1 DEF F
    <2> QED BY <1>2, <1>3, <2>1
  <1>5. op' \in Passes /\ op' # Idle
    <2>1. op' \in Passes
      BY <1>4 DEF Passes
    <2>2. op'.pc # "idle"
      BY <1>4 DEF Preparing
    <2> QED BY <2>1, <2>2, PassesApart
  <1>6. UNCHANGED <<cr, user, stored, sts, pod, queued, current, hurried, edits>>
    BY DEF Configure
  <1>7. Shape'
    <2>1. faults' \in Nat
      BY <1>1 DEF Shape
    <2> QED BY <1>5, <1>6, <2>1 DEF Shape
  <1>8. op'.pc \in Preparing /\ op'.pc \notin Updating /\ op'.pc \notin {"create", "pending", "update", "formed"}
    BY <1>1, <1>4 DEF Preparing, Updating
  <1>9. FilesStored' /\ EnvNoted' /\ ConvergedOK'
    BY <1>5, <1>6, <1>8 DEF FilesStored, EnvNoted, ConvergedOK
  <1>10. PassOK'
    <2>1. op'.f.conf = InfinispanServer(op'.i.spec)
      BY <1>4
    <2>2. op'.pc = "secret" => op'.i.spec.auth = "generated" /\ op'.f.ids[1] = "generated"
      <3> SUFFICES ASSUME P = "secret" PROVE op.i.spec.auth = "generated" /\ F.ids[1] = "generated"
        BY <1>4
      <3>1. op.i.spec.auth = "generated"
        BY <1>1
      <3>2. Credentials(op.i.spec, g) = <<"generated", g>>
        BY <3>1 DEF Credentials
      <3> QED BY <3>1, <3>2
    <2>3. ASSUME ~queued' \/ current'
          PROVE  /\ op'.i.spec = cr'.spec
                 /\ op'.f.text = UserConfigMap(cr.spec)'
                 /\ cr'.spec.enc => op'.f.keys = user'.keys
                 /\ op'.pc \in {"files", "create"} => op'.f.ids = Credentials(cr.spec, stored.gen)'
      <3>1. op.i.spec = cr.spec
        BY <1>6, <2>3 DEF Configure, PassOK
      <3>2. /\ UserConfigMap(cr.spec)' = UserConfigMap(cr.spec)
            /\ Credentials(cr.spec, stored.gen)' = Credentials(cr.spec, stored.gen)
        BY <1>6, InputsSame
      <3>3. P = "files" => Credentials(op.i.spec, g) = Credentials(op.i.spec, stored.gen)
        <4> SUFFICES ASSUME P = "files" PROVE Credentials(op.i.spec, g) = Credentials(op.i.spec, stored.gen)
          OBVIOUS
        <4>1. op.i.spec.auth = "none" \/ op.i.spec.auth = "user"
          BY <1>1, <1>2, SpecType DEF Owners
        <4> QED BY <4>1 DEF Credentials
      <3> QED BY <1>1, <1>4, <1>6, <3>1, <3>2, <3>3 DEF Keystore
    <2> QED BY <1>8, <2>1, <2>2, <2>3 DEF PassOK
  <1>11. CurrentOK'
    BY <1>6, <1>8, InputsSame DEF CurrentOK, Made
  <1> QED BY <1>7, <1>9, <1>10, <1>11

\* A pass that goes on with the files it has rendered.
LEMMA PreparedStep ==
    ASSUME NEW P \in Preparing, op \in [pc : Preparing, i : Resources, f : Rendered, next : {Absent}],
           op' = [op EXCEPT !.pc = P]
    PROVE  /\ op' \in Passes /\ op'.pc = P /\ op'.i = op.i /\ op'.f = op.f
           /\ op' # Idle
  <1>1. op' \in [pc : Preparing, i : Resources, f : Rendered, next : {Absent}] /\ op'.pc = P /\ op'.i = op.i /\ op'.f = op.f
    OBVIOUS
  <1>2. op' \in Passes
    BY <1>1 DEF Passes
  <1>3. P # "idle"
    BY DEF Preparing
  <1> QED BY <1>1, <1>2, <1>3, PassesApart

\* The credentials a pass goes on with are the stored ones.
LEMMA StoreIdentitiesStep == ASSUME IInv, StoreIdentities PROVE IInv'
  <1> USE DEF IInv
  <1>1. op \in [pc : Preparing, i : Resources, f : Rendered, next : {Absent}]
    BY PassesApart DEF StoreIdentities, Shape, Preparing
  <1>2. op.f.ids = <<"generated", op.f.ids[2]>> /\ op.f.ids[2] \in Nat /\ op.i.spec.auth = "generated"
    <2>1. op.f.ids \in Owners \X Nat
      BY <1>1 DEF Rendered, Identities
    <2> QED BY <2>1 DEF StoreIdentities, PassOK
  <1>3. CASE stored.gen > 0 /\ EndWith(TRUE) /\ UNCHANGED <<stored, current>>
    BY <1>3, EndedStep DEF StoreIdentities, EndWith, Shape
  <1>4. CASE op' = [op EXCEPT !.pc = "files"] /\ stored' \in [gen : Nat, files : ServerFiles \cup {Absent}]
             /\ stored'.files = stored.files /\ stored'.gen = op.f.ids[2] /\ current' \in BOOLEAN
             /\ queued' \in BOOLEAN /\ (~queued' => ~queued)
             /\ (current' => current /\ stored' = stored)
    <2>1. op' \in Passes /\ op'.pc = "files" /\ op'.i = op.i /\ op'.f = op.f /\ op' # Idle
      BY <1>1, <1>4, PreparedStep DEF Preparing
    <2>2. Shape'
      BY <1>4, <2>1 DEF StoreIdentities, Shape
    <2>3. FilesStored' /\ EnvNoted' /\ ConvergedOK'
      BY <1>4, <2>1 DEF StoreIdentities, FilesStored, EnvNoted, ConvergedOK, Updating
    <2>4. PassOK'
      <3>1. UNCHANGED <<cr, user>>
        BY DEF StoreIdentities
      <3>2. UserConfigMap(cr.spec)' = UserConfigMap(cr.spec)
        BY <3>1 DEF UserConfigMap
      <3>3. op.i.spec = cr.spec => op.f.ids = Credentials(cr.spec, stored.gen)'
        <4> SUFFICES ASSUME op.i.spec = cr.spec PROVE op.f.ids = Credentials(cr.spec, stored.gen)'
          OBVIOUS
        <4>1. Credentials(cr.spec, stored.gen)' = <<"generated", stored'.gen>>
          BY <1>2, <3>1 DEF Credentials
        <4> QED BY <1>2, <1>4, <4>1
      <3>4. ~queued' \/ current' =>
              /\ op.i.spec = cr.spec /\ op.f.text = UserConfigMap(cr.spec)
              /\ cr.spec.enc => op.f.keys = user.keys
        BY <1>4 DEF StoreIdentities, PassOK, Preparing
      <3>5. op.f.conf = InfinispanServer(op.i.spec)
        BY DEF StoreIdentities, PassOK, Preparing
      <3> QED BY <2>1, <3>1, <3>2, <3>3, <3>4, <3>5 DEF PassOK
    <2>5. CurrentOK'
      BY <1>4, <2>1, InputsSame DEF StoreIdentities, CurrentOK, Made
    <2> QED BY <2>2, <2>3, <2>4, <2>5
  <1> QED
    <2>1. stored \in [gen : Nat, files : ServerFiles \cup {Absent}] /\ queued \in BOOLEAN /\ current \in BOOLEAN
      BY DEF Shape
    <2>2. CASE op.f.ids[2] = stored.gen
      BY <1>4, <2>1, <2>2 DEF StoreIdentities, Goto
    <2>3. CASE op.f.ids[2] # stored.gen
      <3>1. CASE stored' = [stored EXCEPT !.gen = op.f.ids[2]] /\ current' = FALSE
                 /\ op' = [op EXCEPT !.pc = "files"] /\ queued' = (queued \/ stored.gen > 0)
        BY <1>2, <1>4, <2>1, <3>1
      <3> QED BY <1>3, <2>3, <3>1 DEF StoreIdentities
    <2> QED BY <2>2, <2>3

\* The files are stored before a StatefulSet is created.
LEMMA StoreFilesStep == ASSUME IInv, StoreFiles PROVE IInv'
  <1> USE DEF IInv
  <1>1. op \in [pc : Preparing, i : Resources, f : Rendered, next : {Absent}]
    BY PassesApart DEF StoreFiles, Shape, Preparing
  <1>2. op' \in Passes /\ op'.pc = "create" /\ op'.i = op.i /\ op'.f = op.f /\ op' # Idle
    BY <1>1, PreparedStep DEF StoreFiles, Preparing
  <1>3. stored' \in [gen : Nat, files : ServerFiles] /\ stored'.gen = stored.gen
    BY <1>1 DEF StoreFiles, Shape, Rendered, ServerFiles
  <1>4. queued' \in BOOLEAN /\ (~queued' => ~queued)
    BY DEF StoreFiles, Shape
  <1>5. Shape'
    BY <1>2, <1>3, <1>4 DEF StoreFiles, Shape
  <1>6. FilesStored'
    <2>1. stored'.files # Absent
      BY <1>3, AbsentApart
    <2> QED BY <1>2, <2>1 DEF FilesStored, Updating
  <1>7. EnvNoted' /\ ConvergedOK'
    BY <1>2 DEF StoreFiles, EnvNoted, ConvergedOK, Updating
  <1>8. PassOK'
    BY <1>2, <1>3, <1>4, InputsSame DEF StoreFiles, PassOK, Preparing
  <1>9. CurrentOK'
    BY <1>2, <1>3, InputsSame DEF StoreFiles, CurrentOK, Made
  <1> QED BY <1>5, <1>6, <1>7, <1>8, <1>9

\* The StatefulSet a pass has in hand, and what it would make of it.
LEMMA UpdatingStep ==
    ASSUME NEW P \in Updating, NEW t \in StatefulSets, op \in Passes, op.pc = "create",
           op' = [op EXCEPT !.next = t, !.pc = P]
    PROVE  /\ op' \in Passes /\ op'.pc = P /\ op'.i = op.i /\ op'.f = op.f /\ op'.next = t
           /\ op' # Idle
  <1>1. op \in [pc : Preparing, i : Resources, f : Rendered, next : {Absent}]
    BY PassesApart DEF Preparing
  <1>2. /\ op' \in [pc : Updating, i : Resources, f : Rendered, next : StatefulSets]
        /\ op'.pc = P /\ op'.i = op.i /\ op'.f = op.f /\ op'.next = t
    BY <1>1
  <1>3. op' \in Passes /\ P # "idle"
    BY <1>2 DEF Passes, Updating
  <1> QED BY <1>2, <1>3, PassesApart

\* The comparison: where the pass works from the present inputs, it ends with nothing to
\* do or with an update, and has none to make to a StatefulSet that was made for them.
LEMMA ClusterStatefulSetStep == ASSUME IInv, ClusterStatefulSet PROVE IInv'
  <1> USE DEF IInv
  <1>1. /\ op \in Passes /\ op.pc = "create" /\ op.i \in Resources /\ op.f \in Rendered
        /\ op.f.conf = InfinispanServer(op.i.spec)
    BY PassesApart DEF ClusterStatefulSet, Shape, Preparing, PassOK
  <1>2. UNCHANGED <<cr, user, stored, pod, queued, hurried, edits, faults>>
    BY DEF ClusterStatefulSet
  <1>3. \/ sts # Absent /\ sts' = sts /\ current' = current
        \/ /\ sts = Absent
           /\ \E left \in {0, Foreign} : sts' = ClusterStatefulSetSpec(op.i, op.f, left)
           /\ current' = UpToDate
    BY DEF ClusterStatefulSet
  <1>4. PICK t : t = sts'
    OBVIOUS
  <1>5. t \in StatefulSets /\ Noted(t) /\ t # Absent
    BY <1>1, <1>3, <1>4, CreateType, AbsentApart DEF Shape, EnvNoted
  <1>6. PICK next : next = StatefulSetRollingUpgrade(t, op.i, op.f)
    OBVIOUS
  <1>7. next \in StatefulSets /\ Noted(next)
    BY <1>1, <1>5, <1>6, UpdateType
  <1>8. PICK P \in Updating :
          /\ op' = [op EXCEPT !.next = next, !.pc = P]
          /\ P = "formed" => next = t
    <2> DEFINE P == IF NewImage(t, op.i) THEN "pending" ELSE IF next # t THEN "update" ELSE "formed"
    <2>1. op' = [op EXCEPT !.next = next, !.pc = P]
      BY <1>4, <1>6 DEF ClusterStatefulSet
    <2>2. P \in Updating /\ (P = "formed" => next = t)
      BY DEF Updating
    <2> HIDE DEF P
    <2> QED BY <2>1, <2>2
  <1>9. op' \in Passes /\ op'.pc = P /\ op'.i = op.i /\ op'.f = op.f /\ op'.next = next /\ op' # Idle
    BY <1>1, <1>7, <1>8, UpdatingStep
  <1>10. Shape'
    <2>1. current' \in BOOLEAN
      BY <1>3 DEF Shape, UpToDate
    <2> QED BY <1>2, <1>4, <1>5, <1>9, <2>1 DEF Shape
  <1>11. FilesStored' /\ EnvNoted' /\ PassOK'
    <2>1. FilesStored'
      BY <1>1, <1>2, <1>4, <1>5, <1>9 DEF FilesStored
    <2>2. EnvNoted'
      BY <1>4, <1>5, <1>7, <1>9 DEF EnvNoted, Noted
    <2>3. PassOK'
      BY <1>9 DEF PassOK, Preparing, Updating
    <2> QED BY <2>1, <2>2, <2>3
  <1>12. /\ UserConfigMap(cr.spec)' = UserConfigMap(cr.spec)
         /\ Credentials(cr.spec, stored.gen)' = Credentials(cr.spec, stored.gen)
    BY <1>2, InputsSame
  <1>13. CurrentOK'
    <2> SUFFICES ASSUME current'
                 PROVE  /\ MadeFor(t, cr.spec, UserConfigMap(cr.spec), Credentials(cr.spec, stored.gen), user.keys)
                        /\ next.tmpl = t.tmpl \/ Replaces(t.tmpl, next.tmpl)
                        /\ MadeFor(next, cr.spec, UserConfigMap(cr.spec), Credentials(cr.spec, stored.gen), user.keys)
      BY <1>2, <1>4, <1>5, <1>9, <1>12 DEF CurrentOK, Made, Replaces
    <2>1. /\ op.i.spec = cr.spec /\ op.f.text = UserConfigMap(cr.spec)
          /\ op.f.ids = Credentials(cr.spec, stored.gen)
          /\ cr.spec.enc => op.f.keys = user.keys
          /\ MadeFor(t, op.i.spec, op.f.text, op.f.ids, user.keys)
      <3>1. CASE sts # Absent /\ sts' = sts /\ current' = current
        <4>1. /\ op.i.spec = cr.spec /\ op.f.text = UserConfigMap(cr.spec)
              /\ op.f.ids = Credentials(cr.spec, stored.gen)
              /\ cr.spec.enc => op.f.keys = user.keys
          BY <1>1, <3>1 DEF PassOK, Preparing
        <4> QED BY <1>4, <3>1, <4>1 DEF CurrentOK, Made
      <3>2. CASE current' = UpToDate /\ \E left \in {0, Foreign} : sts' = ClusterStatefulSetSpec(op.i, op.f, left)
        <4>1. /\ op.i.spec = cr.spec /\ op.f.text = UserConfigMap(cr.spec)
              /\ op.f.ids = Credentials(cr.spec, stored.gen) /\ op.f.keys = user.keys
              /\ op.i.operand = Operand(cr, op.i.operand.phase)
          BY <3>2 DEF UpToDate
        <4>2. op.i.operand = Operand(op.i, op.i.operand.phase)
          BY <4>1 DEF Operand
        <4>3. PICK left \in {0, Foreign} : t = ClusterStatefulSetSpec(op.i, op.f, left)
          BY <1>4, <3>2
        <4>4. MadeFor(t, op.i.spec, op.f.text, op.f.ids, op.f.keys)
          BY <1>1, <4>1, <4>2, <4>3, CreatedIsMade
        <4> QED BY <4>1, <4>4
      <3> QED BY <1>3, <3>1, <3>2
    <2>2. /\ MadeFor(next, op.i.spec, op.f.text, op.f.ids, user.keys)
          /\ \/ next.tmpl = t.tmpl
             \/ /\ op.i.spec.custom /\ op.i.spec.type = "InPlaceRolling" /\ t.tmpl.image = CustomImage
                /\ next.tmpl = [t.tmpl EXCEPT !.image = op.i.spec.version]
      BY <1>1, <1>5, <1>6, <2>1, MadeIsFixed
    <2> QED BY <2>1, <2>2 DEF Replaces
  <1>14. ConvergedOK'
    <2>0. next = t => Kept(next, t) = t
      BY <1>5, KeptFields
    <2> SUFFICES ASSUME Kept(next, t) = t, ~queued
                 PROVE  CreatedFor(t, cr.spec, UserConfigMap(cr.spec), Credentials(cr.spec, stored.gen), user.keys)
      BY <1>2, <1>4, <1>8, <1>9, <1>12, <2>0 DEF ConvergedOK, StoredTemplate, Kept
    <2>1. /\ op.i.spec = cr.spec /\ op.f.text = UserConfigMap(cr.spec)
          /\ op.f.ids = Credentials(cr.spec, stored.gen)
          /\ cr.spec.enc => op.f.keys = user.keys
      BY <1>1 DEF PassOK, Preparing
    <2>2. CreatedFor(t, op.i.spec, op.f.text, op.f.ids, user.keys)
      BY <1>1, <1>5, <1>6, <1>8, <2>1, FixedIsCreated
    <2> QED BY <2>1, <2>2
  <1> QED BY <1>10, <1>11, <1>13, <1>14

\* The image that is announced is the one the update then stores.
LEMMA AnnounceImageStep == ASSUME IInv, AnnounceImage PROVE IInv'
  <1> USE DEF IInv
  <1>1. /\ op \in [pc : Updating, i : Resources, f : Rendered, next : StatefulSets]
        /\ op.i \in Resources /\ cr \in Resources /\ cr.upgrading \in BOOLEAN
    BY PassesApart DEF AnnounceImage, Shape, Updating, Resources
  <1>2. UNCHANGED <<user, stored, sts, pod, current, hurried, edits, faults>> /\ op.pc = "pending"
    BY DEF AnnounceImage
  <1>3. CASE cr # op.i /\ UNCHANGED cr /\ EndWith(TRUE)
    BY <1>1, <1>2, <1>3, EndedStep DEF EndWith, Shape
  <1>4. CASE /\ cr' = [cr EXCEPT !.operand = Operand(op.i, "Pending"), !.upgrading = cr.upgrading]
             /\ op' = [op EXCEPT !.pc = "update", !.i = cr']
             /\ queued' = TRUE
    <2>1. Operand(op.i, "Pending") \in Operands
      BY <1>1, OperandType
    <2>2. cr' \in Resources
      <3>1. PICK o \in Operands, u \in BOOLEAN : cr' = [cr EXCEPT !.operand = o, !.upgrading = u]
        BY <1>1, <1>4, <2>1
      <3> QED BY <1>1, <3>1, ResourceStatus
    <2>3. /\ op' \in [pc : Updating, i : Resources, f : Rendered, next : StatefulSets]
          /\ op'.pc = "update" /\ op'.next = op.next
      <3>1. PICK c \in Resources : c = cr'
        BY <2>2
      <3>2. op' = [op EXCEPT !.pc = "update", !.i = c]
        BY <1>4, <3>1
      <3> QED BY <1>1, <3>2 DEF Updating
    <2>4. op' \in Passes
      BY <2>3 DEF Passes
    <2>5. op' # Idle
      BY <2>3 DEF Idle
    <2>6. cr'.spec = cr.spec
      BY <1>1, <1>4 DEF Resources
    <2>7. Shape'
      BY <1>2, <1>4, <2>2, <2>4 DEF Shape
    <2>8. FilesStored' /\ EnvNoted'
      BY <1>2, <2>3 DEF FilesStored, EnvNoted, Noted, Updating
    <2>9. PassOK' /\ ConvergedOK'
      BY <1>4, <2>3, <2>5 DEF PassOK, ConvergedOK, Preparing
    <2>10. CurrentOK'
      BY <1>2, <2>3, <2>6, InputsSame DEF CurrentOK, Made, Replaces
    <2> QED BY <2>7, <2>8, <2>9, <2>10
  <1> QED BY <1>3, <1>4 DEF AnnounceImage, Write

\* An update is followed by another pass.
LEMMA UpdateStatefulSetStep == ASSUME IInv, UpdateStatefulSet PROVE IInv'
  <1> USE DEF IInv
  <1>1. op \in [pc : Updating, i : Resources, f : Rendered, next : StatefulSets]
    BY PassesApart DEF UpdateStatefulSet, Shape, Updating
  <1>2. /\ op' \in [pc : Updating, i : Resources, f : Rendered, next : StatefulSets]
        /\ op'.pc = "formed" /\ op'.next = op.next
    BY <1>1 DEF UpdateStatefulSet, Updating
  <1>3. op' \in Passes
    BY <1>2 DEF Passes
  <1>4. UNCHANGED <<cr, user, stored, pod, current, hurried, edits, faults>> /\ op.pc = "update"
    BY DEF UpdateStatefulSet
  <1>5. sts \in StatefulSets /\ sts # Absent
    BY <1>4 DEF Shape, FilesStored, Updating
  <1>6. sts' = Kept(op.next, sts) /\ sts' \in StatefulSets /\ sts' # Absent /\ (Noted(op.next) => Noted(sts'))
    BY <1>1, <1>5, KeptFields, AbsentApart DEF UpdateStatefulSet, StoredTemplate, Kept
  <1>7. queued' \in BOOLEAN /\ (~queued' => ~queued /\ sts' = sts)
    BY DEF UpdateStatefulSet, Shape
  <1>8. Shape'
    BY <1>3, <1>4, <1>6, <1>7 DEF Shape
  <1>9. FilesStored' /\ EnvNoted' /\ PassOK'
    BY <1>2, <1>4, <1>6 DEF FilesStored, EnvNoted, Noted, PassOK, Preparing, Updating
  <1>10. ConvergedOK'
    BY <1>2, <1>4, <1>5, <1>7, InputsSame DEF UpdateStatefulSet, ConvergedOK
  <1>11. CurrentOK'
    <2> SUFFICES ASSUME current PROVE Made(sts)'
      BY <1>2, <1>4, <1>6 DEF CurrentOK
    <2>1. Made(op.next) /\ op.next.tmpl.sa = sts.tmpl.sa
      BY <1>4 DEF CurrentOK, Made, MadeFor
    <2>2. sts' = op.next
      BY <1>1, <1>5, <1>6, <2>1, KeptFields
    <2> QED BY <1>4, <2>1, <2>2, InputsSame DEF Made
  <1> QED BY <1>8, <1>9, <1>10, <1>11

\* The last handler changes the phase only.
LEMMA AwaitWellFormedStep == ASSUME IInv, AwaitWellFormed PROVE IInv'
  <1> USE DEF IInv
  <1>1. cr \in Resources /\ cr.upgrading \in BOOLEAN /\ cr.operand \in Operands /\ queued \in BOOLEAN
    BY DEF Shape, Resources
  <1>2. UNCHANGED <<user, stored, sts, pod, current, hurried, edits, faults>> /\ op.pc = "formed"
    BY DEF AwaitWellFormed
  <1>3. CASE UNCHANGED cr /\ EndWith(TRUE)
    BY <1>1, <1>2, <1>3, EndedStep DEF EndWith, Shape
  <1>4. CASE /\ cr' = [cr EXCEPT !.operand = [cr.operand EXCEPT !.phase = "Running"], !.upgrading = cr.upgrading]
             /\ EndWith(cr.operand.phase # "Running")
    <2>1. [cr.operand EXCEPT !.phase = "Running"] \in Operands
      BY <1>1 DEF Operands
    <2>2. cr' \in Resources /\ cr'.spec = cr.spec
      <3>1. PICK o \in Operands, u \in BOOLEAN : cr' = [cr EXCEPT !.operand = o, !.upgrading = u]
        BY <1>1, <1>4, <2>1
      <3> QED BY <1>1, <3>1, ResourceStatus
    <2>3. op' = Idle /\ op' \in Passes /\ op'.pc = "idle" /\ queued' \in BOOLEAN /\ (~queued' => ~queued)
      BY <1>1, <1>4 DEF EndWith, Idle, Passes
    <2>4. Shape'
      BY <1>2, <2>2, <2>3 DEF Shape
    <2>5. FilesStored' /\ EnvNoted' /\ PassOK'
      BY <1>2, <2>3 DEF FilesStored, EnvNoted, PassOK, Updating, Preparing
    <2>6. CurrentOK'
      BY <1>2, <2>2, <2>3, InputsSame DEF CurrentOK, Made
    <2>7. ConvergedOK'
      BY <1>2, <2>2, <2>3, InputsSame DEF ConvergedOK
    <2> QED BY <2>4, <2>5, <2>6, <2>7
  <1> QED BY <1>3, <1>4 DEF AwaitWellFormed, Write

-----------------------------------------------------------------------------
(***************************************************************************)
(* The pods and the user.                                                  *)
(***************************************************************************)

\* A pod that starts or goes puts a request in the queue and changes nothing else.
LEMMA PodsChanged ==
    ASSUME IInv, pod' \in [Pod -> Pods \cup {Absent}], queued' = TRUE,
           UNCHANGED <<cr, user, stored, sts, op, current, hurried, edits, faults>>
    PROVE  IInv'
  <1> USE DEF IInv
  <1>1. Shape'
    BY DEF Shape, Pods
  <1>2. FilesStored' /\ EnvNoted' /\ ConvergedOK'
    BY DEF FilesStored, EnvNoted, ConvergedOK, Noted
  <1>3. PassOK'
    BY InputsSame DEF PassOK
  <1>4. CurrentOK'
    BY InputsSame DEF CurrentOK, Made, Replaces
  <1> QED BY <1>1, <1>2, <1>3, <1>4

\* A pod starts from a template and files that are there.
LEMMA StartPodStep == ASSUME IInv, NEW p \in Pod, StartPod(p) PROVE IInv'
  <1> USE DEF IInv
  <1>1. sts \in StatefulSets /\ stored.files \in ServerFiles
    BY DEF StartPod, Shape, FilesStored
  <1>2. sts.tmpl \in Templates /\ sts.tmpl.overlay \in Map \cup {NoMap}
    BY <1>1 DEF StatefulSets, Templates
  <1>3. user.text \in [Map -> Nat] /\ pod \in [Pod -> Pods \cup {Absent}]
    BY DEF Shape, Pods
  <1>4. PICK x \in Nat : x = IF sts.tmpl.overlay = NoMap THEN 0 ELSE user.text[sts.tmpl.overlay]
    BY <1>2, <1>3
  <1>5. [tmpl |-> sts.tmpl, files |-> stored.files, text |-> x] \in Pods
    BY <1>1, <1>2 DEF Pods
  <1>6. pod' = [pod EXCEPT ![p] = [tmpl |-> sts.tmpl, files |-> stored.files, text |-> x]]
    BY <1>4 DEF StartPod
  <1>7. pod' \in [Pod -> Pods \cup {Absent}]
    BY <1>3, <1>5, <1>6
  <1> QED BY <1>7, PodsChanged DEF StartPod

\* A pod of another template goes.
LEMMA ReplacePodStep == ASSUME IInv, NEW p \in Pod, ReplacePod(p) PROVE IInv'
  <1>1. pod' \in [Pod -> Pods \cup {Absent}]
    BY DEF IInv, ReplacePod, Shape, Pods
  <1> QED BY <1>1, PodsChanged DEF ReplacePod

\* Every edit the webhook admits gives a spec.
LEMMA ChangesType == ASSUME NEW s \in Spec0, NEW n \in Changes(s) PROVE n \in Spec0
  <1> DEFINE S1 == {[s EXCEPT !.knob = k] : k \in 1..2}
             S2 == {[s EXCEPT !.cpu = c] : c \in 0..2}
             S11 == {[s EXCEPT !.sa = a] : a \in 0..1}
             S3 == {[s EXCEPT !.probes = k] : k \in 1..2}
             S4 == {[s EXCEPT !.conf = c] : c \in 1..2}
             S5 == {[s EXCEPT !.overlay = m] : m \in Map \cup {NoMap}}
             S6 == {[s EXCEPT !.auth = a] : a \in Owners}
             S7 == {[s EXCEPT !.enc = e] : e \in BOOLEAN}
             S8 == {[s EXCEPT !.claim = c] : c \in 0..1}
             S9 == {[s EXCEPT !.custom = c] : c \in BOOLEAN}
             S10 == {[s EXCEPT !.version = w.version, !.type = w.type] : w \in Upgrades}
  <1>1. n \in S1 \cup S2 \cup S3 \cup S4 \cup S5 \cup S6 \cup S7 \cup S8 \cup S9 \cup S10 \cup S11
    BY DEF Changes
  <1>2. S1 \subseteq Spec0
    BY DEF Spec0
  <1>3. S2 \subseteq Spec0
    BY DEF Spec0
  <1>4. S3 \subseteq Spec0
    BY DEF Spec0
  <1>5. S4 \subseteq Spec0
    BY DEF Spec0
  <1>6. S5 \subseteq Spec0
    BY DEF Spec0
  <1>7. S6 \subseteq Spec0
    BY DEF Spec0
  <1>8. S7 \subseteq Spec0
    BY DEF Spec0
  <1>9. S8 \subseteq Spec0
    BY DEF Spec0
  <1>10. S9 \subseteq Spec0
    BY DEF Spec0
  <1>11. S10 \subseteq Spec0
    <2>1. ASSUME NEW w \in Upgrades PROVE [s EXCEPT !.version = w.version, !.type = w.type] \in Spec0
      <3>1. w.version \in Version /\ w.type \in {"Shutdown", "InPlaceRolling"}
        BY DEF Upgrades
      <3> QED BY <3>1 DEF Spec0
    <2> QED BY <2>1
  <1>12. S11 \subseteq Spec0
    BY DEF Spec0
  <1> HIDE DEF S1, S2, S3, S4, S5, S6, S7, S8, S9, S10, S11
  <1> QED BY <1>1, <1>2, <1>3, <1>4, <1>5, <1>6, <1>7, <1>8, <1>9, <1>10, <1>11, <1>12

\* An edit of the resource queues it.
LEMMA UserEditsStep == ASSUME IInv, UserEdits PROVE IInv'
  <1> USE DEF IInv
  <1>1. PICK n \in Changes(cr.spec) : cr' = [cr EXCEPT !.spec = n]
    BY DEF UserEdits
  <1>2. cr \in Resources /\ n \in Spec0
    BY ChangesType DEF Shape, Resources
  <1>3. cr' \in Resources
    BY <1>1, <1>2 DEF Resources
  <1>4. UNCHANGED <<user, stored, sts, pod, op, faults>> /\ queued' = TRUE /\ current' = FALSE /\ edits' \in Nat
        /\ hurried' \in BOOLEAN
    BY DEF UserEdits, Shape, TakesBack
  <1>5. Shape'
    BY <1>3, <1>4 DEF Shape
  <1>6. FilesStored' /\ EnvNoted' /\ PassOK' /\ CurrentOK' /\ ConvergedOK'
    BY <1>4 DEF FilesStored, EnvNoted, Noted, PassOK, CurrentOK, ConvergedOK
  <1> QED BY <1>5, <1>6

\* An edit of an object queues the resource that refers to it.
LEMMA UserEditsObjectStep == ASSUME IInv, UserEditsObject PROVE IInv'
  <1> USE DEF IInv
  <1>1. UNCHANGED <<cr, stored, sts, pod, op, hurried, faults>> /\ current' = FALSE /\ edits' \in Nat
    BY DEF UserEditsObject, Shape
  <1>2. user \in [text : [Map -> Nat], ids : Nat, keys : Nat] /\ queued \in BOOLEAN
        /\ cr.spec \in Spec0
    BY DEF Shape, Resources
  <1>3. /\ user' \in [text : [Map -> Nat], ids : Nat, keys : Nat] /\ queued' \in BOOLEAN
        /\ ~queued' =>
             /\ ~queued
             /\ UserConfigMap(cr.spec)' = UserConfigMap(cr.spec)
             /\ Credentials(cr.spec, stored.gen)' = Credentials(cr.spec, stored.gen)
             /\ cr.spec.enc => user'.keys = user.keys
    <2>1. ASSUME NEW m \in Map, user' = [user EXCEPT !.text[m] = @ + 1],
                 queued' = (queued \/ cr.spec.overlay = m)
          PROVE  <1>3!:
      <3>0. user.text \in [Map -> Nat] /\ [user.text EXCEPT ![m] = @ + 1] \in [Map -> Nat]
        BY <1>2
      <3>1. PICK x \in [Map -> Nat] : x = [user.text EXCEPT ![m] = @ + 1]
        BY <3>0, Zenon
      <3>2. user' = [user EXCEPT !.text = x]
        BY <2>1, <3>1
      <3>3. user' \in [text : [Map -> Nat], ids : Nat, keys : Nat] /\ user'.ids = user.ids /\ user'.keys = user.keys
            /\ user'.text = x
        BY <1>2, <3>2
      <3>4. cr.spec.overlay # m => UserConfigMap(cr.spec)' = UserConfigMap(cr.spec)
        BY <1>1, <1>2, <3>1, <3>3, SpecType DEF UserConfigMap
      <3>5. Credentials(cr.spec, stored.gen)' = Credentials(cr.spec, stored.gen)
        BY <1>1, <3>3 DEF Credentials
      <3> QED BY <1>2, <2>1, <3>3, <3>4, <3>5
    <2>2. ASSUME user' = [user EXCEPT !.ids = @ + 1], queued' = (queued \/ cr.spec.auth = "user")
          PROVE  <1>3!:
      <3>1. user' \in [text : [Map -> Nat], ids : Nat, keys : Nat] /\ user'.text = user.text /\ user'.keys = user.keys
        BY <1>2, <2>2
      <3>2. UserConfigMap(cr.spec)' = UserConfigMap(cr.spec)
        BY <1>1, <3>1 DEF UserConfigMap
      <3>3. cr.spec.auth # "user" => Credentials(cr.spec, stored.gen)' = Credentials(cr.spec, stored.gen)
        <4>1. CASE cr.spec.auth = "none"
          BY <1>1, <4>1 DEF Credentials
        <4>2. CASE cr.spec.auth = "generated"
          BY <1>1, <4>2 DEF Credentials
        <4> QED BY <1>2, <4>1, <4>2, SpecType DEF Owners
      <3> QED BY <1>2, <2>2, <3>1, <3>2, <3>3
    <2>3. ASSUME user' = [user EXCEPT !.keys = @ + 1], queued' = (queued \/ cr.spec.enc)
          PROVE  <1>3!:
      <3>1. user' \in [text : [Map -> Nat], ids : Nat, keys : Nat] /\ user'.text = user.text /\ user'.ids = user.ids
        BY <1>2, <2>3
      <3>2. UserConfigMap(cr.spec)' = UserConfigMap(cr.spec)
        BY <1>1, <3>1 DEF UserConfigMap
      <3>3. Credentials(cr.spec, stored.gen)' = Credentials(cr.spec, stored.gen)
        BY <1>1, <3>1 DEF Credentials
      <3> QED BY <1>2, <2>3, <3>1, <3>2, <3>3
    <2> QED BY <2>1, <2>2, <2>3 DEF UserEditsObject
  <1>4. Shape'
    BY <1>1, <1>3 DEF Shape
  <1>5. FilesStored' /\ EnvNoted' /\ CurrentOK'
    BY <1>1 DEF FilesStored, EnvNoted, Noted, CurrentOK
  <1>6. PassOK'
    BY <1>1, <1>3 DEF PassOK
  <1>7. ConvergedOK'
    BY <1>1, <1>3 DEF ConvergedOK, CreatedFor, Hashed, StoredTemplate
  <1> QED BY <1>4, <1>5, <1>6, <1>7

-----------------------------------------------------------------------------
(***************************************************************************)
(* The theorems.                                                           *)
(***************************************************************************)
\* A new resource satisfies the invariant.
LEMMA InitIInv == Init => IInv
  <1> SUFFICES ASSUME Init PROVE IInv
    OBVIOUS
  <1>1. NoOperand \in Operands
    BY VersionsAssumption DEF NoOperand, Operands, CustomImage
  <1>2. cr \in Resources
    BY <1>1, SpecsAssumption DEF Init, Resources
  <1>3. op = Idle /\ op.pc = "idle" /\ op \in Passes
    BY DEF Init, Idle, Passes
  <1>4. user \in [text : [Map -> Nat], ids : Nat, keys : Nat]
    BY DEF Init
  <1>5. Shape
    BY <1>2, <1>3, <1>4 DEF Init, Shape
  <1>6. FilesStored /\ EnvNoted /\ PassOK /\ CurrentOK /\ ConvergedOK
    BY <1>3 DEF Init, FilesStored, EnvNoted, PassOK, CurrentOK, ConvergedOK, Preparing, Updating
  <1> QED BY <1>5, <1>6 DEF IInv

\* So does whatever any step makes of it.
LEMMA StepIInv == IInv /\ [Next]_vars => IInv'
  <1> SUFFICES ASSUME IInv, [Next]_vars PROVE IInv'
    OBVIOUS
  <1>1. CASE Reconcile
    BY <1>1, BeginStep, PreliminaryChecksStep, ConfigureStep, ScheduleStep, ShutdownUpgradeStep,
       StoreIdentitiesStep, StoreFilesStep, ClusterStatefulSetStep, AnnounceImageStep,
       UpdateStatefulSetStep, AwaitWellFormedStep
    DEF Reconcile
  <1>2. CASE Rolls
    BY <1>2, StartPodStep, ReplacePodStep DEF Rolls
  <1>3. CASE UserEdits
    BY <1>3, UserEditsStep
  <1>4. CASE UserEditsObject
    BY <1>4, UserEditsObjectStep
  <1>5. CASE PassFails
    BY <1>5, PassFailsStep
  <1>6. CASE UNCHANGED vars
    <2>1. UNCHANGED <<cr, user, stored, sts, pod, op, queued, current, hurried, edits, faults>>
      BY <1>6 DEF vars
    <2>2. Shape' /\ FilesStored' /\ EnvNoted'
      BY <2>1 DEF IInv, Shape, FilesStored, EnvNoted, Noted
    <2>3. PassOK' /\ CurrentOK' /\ ConvergedOK'
      BY <2>1, InputsSame DEF IInv, PassOK, CurrentOK, Made, Replaces, ConvergedOK, StoredTemplate
    <2> QED BY <2>2, <2>3 DEF IInv
  <1> QED BY <1>1, <1>2, <1>3, <1>4, <1>5, <1>6 DEF Next

\* When the operator has nothing left to do, the updates it made have led to the
\* StatefulSet that a creation would give now, in every part they cover: no edit
\* of the resource, of an overlay, of credentials or of a keystore is missed,
\* whatever order edits, passes, crashes and conflicts came in.
THEOREM UpdatesConverge == Spec => []Converged
  <1>1. IInv => Converged
    <2> SUFFICES ASSUME IInv PROVE Converged
      OBVIOUS
    <2>1. TypeOK
      <3>1. cr.spec \in Spec0 /\ cr.upgrading \in BOOLEAN /\ cr.down \in BOOLEAN /\ cr.operand \in Operands
        BY DEF IInv, Shape, Resources
      <3>2. cr.operand.phase \in {"Pending", "Running"} /\ cr.operand.version \in 0..MaxVersion
        BY <3>1 DEF Operands
      <3>3. \A p \in Pod : pod[p] # Absent =>
               pod[p].tmpl \in Templates /\ pod[p].files \in [conf : Configs, ids : Identities]
        BY DEF IInv, Shape, ServerFiles
      <3> QED BY <3>1, <3>2, <3>3 DEF IInv, Shape, TypeOK
    <2>2. ASSUME Settled, sts # Absent PROVE AsCreated
      <3> DEFINE s == cr.spec
                 f == [conf |-> InfinispanServer(s), text |-> UserConfigMap(s), keys |-> user.keys,
                       ids |-> Credentials(s, stored.gen)]
                 made == ClusterStatefulSetSpec(cr, f, 0)
      <3>1. CreatedFor(sts, s, f.text, f.ids, f.keys)
        BY <2>2 DEF IInv, ConvergedOK, Settled
      <3>3. /\ made.notes = [envs |-> InfinispanServer(s), overlay |-> IF s.overlay = NoMap THEN 0 ELSE f.text]
            /\ made.tmpl.knob = s.knob /\ made.tmpl.sa = s.sa /\ made.tmpl.probes = PodProbes(s) /\ made.tmpl.cpu = s.cpu
            /\ made.tmpl.args = BuildServerContainerArgs(s) /\ made.tmpl.overlay = s.overlay
            /\ made.tmpl.auth = s.auth /\ made.tmpl.claim = s.claim
            /\ made.tmpl.env.conf = InfinispanServer(s) /\ made.tmpl.env.ids = f.ids
            /\ Hashed(s) => made.tmpl.env.keys = f.keys
        BY DEF ClusterStatefulSetSpec, PodEnvsAndHash
      <3> HIDE DEF f, s, made
      <3>4. /\ sts.notes = made.notes
            /\ sts.tmpl.knob = made.tmpl.knob /\ sts.tmpl.probes = made.tmpl.probes
            /\ sts.tmpl.args = made.tmpl.args /\ sts.tmpl.overlay = made.tmpl.overlay
            /\ sts.tmpl.env.conf = made.tmpl.env.conf
            /\ s.auth # "none" => sts.tmpl.auth = made.tmpl.auth /\ sts.tmpl.env.ids = made.tmpl.env.ids
            /\ s.enc => sts.tmpl.enc
            /\ Hashed(s) => sts.tmpl.env.keys = made.tmpl.env.keys
            /\ s.sa # 0 => sts.tmpl.sa = made.tmpl.sa
            /\ s.cpu # 0 => sts.tmpl.cpu = made.tmpl.cpu
            /\ (sts.tmpl.claim = 0) = (made.tmpl.claim = 0)
            /\ s.type = "InPlaceRolling" => sts.tmpl.image = s.version
        BY <3>1, <3>3 DEF CreatedFor
      <3> QED BY <3>4, Zenon DEF AsCreated, made, f, s
    <2> QED BY <2>1, <2>2 DEF Converged
  <1> QED BY <1>1, InitIInv, StepIInv, PTL DEF Spec

\* A StatefulSet that was created from the present resource, files and
\* credentials keeps its template until one of them changes, whatever comes
\* between the steps of the passes, with one exception: with InPlaceRolling the
\* image of spec.image is replaced by the operand's.
THEOREM NoNeedlessRestart == Spec => RestartOnlyForChange
  <1>1. IInv /\ [Next]_vars =>
          [current /\ current' => sts'.tmpl = sts.tmpl \/ ReplacesImage]_vars
    <2> SUFFICES ASSUME IInv, Next, current, current' PROVE sts'.tmpl = sts.tmpl \/ ReplacesImage
      OBVIOUS
    <2>1. CASE UpdateStatefulSet
      <3>1. /\ op.pc = "update" /\ sts' = Kept(op.next, sts)
            /\ op.next \in StatefulSets /\ sts \in StatefulSets
        BY <2>1, PassesApart DEF UpdateStatefulSet, StoredTemplate, Kept, IInv, Shape, CurrentOK, Updating
      <3>2. /\ op.next.tmpl.sa = sts.tmpl.sa
            /\ op.next.tmpl = sts.tmpl \/ Replaces(sts.tmpl, op.next.tmpl)
        BY <3>1 DEF IInv, CurrentOK, Made, MadeFor
      <3>3. sts' = op.next
        BY <3>1, <3>2, KeptFields
      <3> QED BY <3>2, <3>3 DEF Replaces, ReplacesImage
    <2>2. CASE ClusterStatefulSet
      BY <2>2 DEF ClusterStatefulSet, IInv, CurrentOK
    <2>3. CASE ~UpdateStatefulSet /\ ~ClusterStatefulSet
      <3>1. sts' = sts \/ current' = FALSE
        BY <2>3 DEF Next, Reconcile, Rolls, StartPod, ReplacePod, UserEdits, UserEditsObject, PassFails,
                    Begin, PreliminaryChecks, Configure, Schedule, ShutdownUpgrade, StoreIdentities,
                    StoreFiles, AnnounceImage, AwaitWellFormed
      <3> QED BY <3>1
    <2> QED BY <2>1, <2>2, <2>3
  <1> QED BY <1>1, InitIInv, StepIInv, PTL DEF Spec, RestartOnlyForChange
=============================================================================
