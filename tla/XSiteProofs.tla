---------------------------- MODULE XSiteProofs ----------------------------
(***************************************************************************)
(* Theorems about XSite, for any sites, specs, edits, moves and faults.    *)
(***************************************************************************)
EXTENDS XSite, TLAPS

-----------------------------------------------------------------------------
(***************************************************************************)
(* The inductive invariant.                                                *)
(***************************************************************************)
Resources == [spec : AllSpecs, ready : {"unset", "False", "True"}, view : {"unset", "False", "True"}]
Services  == [type : {"ClusterIP", "LoadBalancer", "NodePort"}, ip : Nat]
Deployments == [replicas : 0..1, tls : BOOLEAN]
Routers   == [tls : BOOLEAN, ready : BOOLEAN]
\* The addresses a lookup gives: a balancer's only once it has one.
Found     == {<<"ignored", 0>>, <<"local", 0>>, <<"static", 0>>, <<"route", 0>>, <<"node", 0>>}
             \cup {<<"balancer", n>> : n \in Nat \ {0}}
Configs   == [at : [Site -> Found], tls : BOOLEAN]
\* A pass has a copy of the resource, and a configuration once it made one.
Passes    == {Idle} \cup [pc : {"configure"}, i : AllSpecs, f : {Absent}]
             \cup [pc : {"router", "servers", "view"}, i : AllSpecs, f : Configs]

Shape ==
    /\ cr \in [Site -> Resources]
    /\ svc \in [Site -> Services \cup {Absent}]
    /\ route \subseteq Routes
    /\ dep \in [Site -> Deployments \cup {Absent}]
    /\ router \in [Site -> Routers \cup {Absent}]
    /\ sts \in [Site -> Configs \cup {Absent}]
    /\ servers \in [Site -> Configs \cup {Absent}]
    /\ log \subseteq Damaged /\ due \subseteq Damaged /\ queued \subseteq Site
    /\ op \in [Site -> Passes]
    /\ edits \in Nat /\ moves \in Nat /\ faults \in Nat /\ recoveries \in Nat

(* The configuration of a pass has an address for every site its resource  *)
(* gives a URL for.                                                        *)
Addressed(s) ==
    op[s].pc \in {"router", "servers", "view"} /\ op[s].i.sites /\ op[s].i.remote # "none"
       => \A t \in Site \ {s} : op[s].f.at[t] # Ignored

(* A site whose resource is not the one the pass works from is queued.     *)
Current(s) == op[s] # Idle /\ s \notin queued => cr[s].spec = op[s].i

(* After the router handler, a site that is not queued has the Deployment  *)
(* its resource asks for and the condition its pod deserves.               *)
Recorded(s) ==
    (op[s] = Idle \/ op[s].pc \in {"servers", "view"}) /\ s \notin queued /\ GossipRouterEnabled(cr[s].spec)
       => /\ dep[s] = RouterSpec(cr[s].spec)
          /\ cr[s].ready = "True" <=> RouterReady(s)

SiteOK(s) == Addressed(s) /\ Current(s) /\ Recorded(s)

IInv == Shape /\ \A s \in Site : SiteOK(s)

-----------------------------------------------------------------------------
(***************************************************************************)
(* What the lookups and the steps of a pass give.                          *)
(***************************************************************************)

\* What exists is not taken for absent.
LEMMA AbsentApart ==
    /\ Absent \notin Services /\ Absent \notin Deployments /\ Absent \notin Routers /\ Absent \notin Configs
  BY DEF Absent, Services, Deployments, Routers, Configs

\* A pass that has begun is not idle.
LEMMA PassesApart ==
    ASSUME NEW p \in Passes
    PROVE  /\ p.pc = "idle" <=> p = Idle
           /\ p.pc \in {"idle", "configure", "router", "servers", "view"}
           /\ p.pc = "configure" => p.i \in AllSpecs /\ p.f = Absent
           /\ p.pc \in {"router", "servers", "view"} => p.i \in AllSpecs /\ p.f \in Configs
  <1>1. CASE p = Idle
    BY <1>1 DEF Idle
  <1>2. CASE p \in [pc : {"configure"}, i : AllSpecs, f : {Absent}]
    <2>1. p.pc # "idle"
      BY <1>2
    <2>2. p # Idle
      BY <2>1 DEF Idle
    <2> QED BY <1>2, <2>1, <2>2
  <1>3. CASE p \in [pc : {"router", "servers", "view"}, i : AllSpecs, f : Configs]
    <2>1. p.pc # "idle"
      BY <1>3
    <2>2. p # Idle
      BY <2>1 DEF Idle
    <2> QED BY <1>3, <2>1, <2>2
  <1> QED BY <1>1, <1>2, <1>3 DEF Passes

\* A lookup in the cluster of another site gives real addresses only.
LEMMA LookupFound ==
    ASSUME Shape, NEW t \in Site, NEW a \in appendRemoteLocation(t)
    PROVE  a \in Found /\ a # Ignored
  <1>1. CASE t \in route
    BY <1>1 DEF appendRemoteLocation, Found, Ignored
  <1>2. CASE t \notin route
    <2>1. svc[t] \in Services
      BY <1>2 DEF Shape, appendRemoteLocation
    <2>2. a \in getCrossSiteServiceHostPort(svc[t])
      BY <1>2 DEF appendRemoteLocation
    <2>3. a = <<"node", 0>> \/ (a = <<"balancer", svc[t].ip>> /\ svc[t].ip > 0 /\ svc[t].ip \in Nat)
      BY <2>1, <2>2 DEF getCrossSiteServiceHostPort, Services
    <2>4. a \in Found
      BY <2>3 DEF Found
    <2> QED BY <2>3, <2>4 DEF Ignored
  <1> QED BY <1>1, <1>2

\* The address searchRemoteSites gives for a site is real unless the resource
\* gives no URL for the others.
LEMMA RemoteFound ==
    ASSUME Shape, NEW s \in Site, NEW t \in Site, op[s].i \in AllSpecs, NEW a \in RemoteAddress(s, t)
    PROVE  a \in Found /\ (op[s].i.remote # "none" => a # Ignored)
  BY LookupFound DEF RemoteAddress, Found, Ignored

-----------------------------------------------------------------------------
(***************************************************************************)
(* When a step keeps what holds of a site.                                 *)
(***************************************************************************)

\* A step that leaves the pass, the resource and the router of a site alone
\* keeps what holds of it, even if it queues the site.
LEMMA Untouched ==
    ASSUME NEW t \in Site, SiteOK(t), op'[t] = op[t], cr'[t] = cr[t], dep'[t] = dep[t],
           router'[t] = router[t], t \in queued => t \in queued'
    PROVE  SiteOK(t)'
  <1>1. RouterReady(t)' <=> RouterReady(t)
    BY DEF RouterReady
  <1>2. Addressed(t)'
    BY DEF SiteOK, Addressed
  <1>3. Current(t)'
    BY DEF SiteOK, Current
  <1>4. Recorded(t)'
    BY <1>1 DEF SiteOK, Recorded
  <1> QED BY <1>2, <1>3, <1>4 DEF SiteOK

\* A step that queues a site and leaves its pass alone, or ends it, keeps
\* what holds of it: the pass to come will set the rest right.
LEMMA QueuedAgain ==
    ASSUME NEW t \in Site, SiteOK(t), op'[t] = op[t] \/ op'[t] = Idle, t \in queued'
    PROVE  SiteOK(t)'
  <1>1. Addressed(t)'
    BY DEF SiteOK, Addressed, Idle
  <1> QED BY <1>1 DEF SiteOK, Current, Recorded

\* Ending a pass to be retried leaves the other sites alone.
LEMMA RequeueEffect ==
    ASSUME Shape, NEW s \in Site, Requeue(s)
    PROVE  /\ op' \in [Site -> Passes] /\ queued' \subseteq Site
           /\ op'[s] = Idle /\ s \in queued'
           /\ \A t \in Site \ {s} : op'[t] = op[t] /\ (t \in queued => t \in queued')
  <1>1. op' = [op EXCEPT ![s] = Idle] /\ queued' = queued \cup {s}
    BY DEF Requeue
  <1> QED BY <1>1 DEF Shape, Passes

\* Going on with a pass leaves the other sites alone.
LEMMA GotoEffect ==
    ASSUME Shape, NEW s \in Site, op[s].pc \in {"router", "servers", "view"},
           NEW handler \in {"servers", "view"}, Goto(s, handler)
    PROVE  /\ op' \in [Site -> Passes] /\ UNCHANGED queued
           /\ op'[s].pc = handler /\ op'[s].i = op[s].i /\ op'[s].f = op[s].f
           /\ \A t \in Site \ {s} : op'[t] = op[t]
  <1>1. op[s].i \in AllSpecs /\ op[s].f \in Configs
    BY PassesApart DEF Shape
  <1>2. op[s] \in [pc : {"router", "servers", "view"}, i : AllSpecs, f : Configs]
    <2>1. op[s] \in Passes
      BY DEF Shape
    <2> QED BY <2>1 DEF Passes, Idle
  <1>3. [op[s] EXCEPT !.pc = handler] \in [pc : {"router", "servers", "view"}, i : AllSpecs, f : Configs]
    BY <1>2
  <1>4. op' = [op EXCEPT ![s] = [op[s] EXCEPT !.pc = handler]] /\ op \in [Site -> Passes]
    BY DEF Goto, Shape
  <1>5. op'[s] = [op[s] EXCEPT !.pc = handler] /\ \A t \in Site \ {s} : op'[t] = op[t]
    BY <1>4
  <1>6. op'[s].pc = handler /\ op'[s].i = op[s].i /\ op'[s].f = op[s].f
    BY <1>2, <1>5
  <1>7. op' \in [Site -> Passes]
    BY <1>3, <1>4 DEF Passes
  <1> QED BY <1>5, <1>6, <1>7 DEF Goto

\* A pass that stores a condition leaves the other sites alone.  Unless it
\* queues the site again, the condition was stored already and the pass has
\* worked from the resource that is stored.
LEMMA SetConditionEffect ==
    ASSUME Shape, NEW s \in Site, op[s].pc \in {"router", "servers", "view"},
           NEW condition \in Resources, condition.spec = cr[s].spec,
           NEW then \in {"servers", "end", "requeue"}, SetCondition(s, condition, then)
    PROVE  /\ cr' \in [Site -> Resources] /\ op' \in [Site -> Passes] /\ queued' \subseteq Site
           /\ \A t \in Site \ {s} : cr'[t] = cr[t] /\ op'[t] = op[t] /\ (t \in queued => t \in queued')
           /\ cr'[s].spec = cr[s].spec
           /\ \/ s \in queued' /\ op'[s] = Idle
              \/ /\ cr[s].spec = op[s].i /\ then # "requeue" /\ cr'[s] = condition
                 /\ s \in queued' \/ (s \notin queued /\ condition = cr[s])
                 /\ IF then = "end" THEN op'[s] = Idle
                    ELSE op'[s].pc = then /\ op'[s].i = op[s].i /\ op'[s].f = op[s].f
  <1>1. CASE cr[s].spec # op[s].i \/ then = "requeue"
    <2>1. cr' = cr \/ cr' = [cr EXCEPT ![s] = condition]
      BY <1>1 DEF SetCondition
    <2>2. cr' \in [Site -> Resources] /\ cr'[s].spec = cr[s].spec /\ \A t \in Site \ {s} : cr'[t] = cr[t]
      BY <2>1 DEF Shape
    <2>3. Requeue(s)
      BY <1>1 DEF SetCondition
    <2> QED BY <2>2, <2>3, RequeueEffect
  <1>2. CASE ~(cr[s].spec # op[s].i \/ then = "requeue")
    <2>1. /\ cr' = [cr EXCEPT ![s] = condition]
          /\ op' = [op EXCEPT ![s] = IF then = "end" THEN Idle ELSE [op[s] EXCEPT !.pc = then]]
          /\ queued' = IF condition # cr[s] THEN queued \cup {s} ELSE queued
      BY <1>2 DEF SetCondition
    <2>2. cr' \in [Site -> Resources] /\ cr'[s] = condition /\ \A t \in Site \ {s} : cr'[t] = cr[t]
      BY <2>1 DEF Shape
    <2>3. op[s] \in [pc : {"router", "servers", "view"}, i : AllSpecs, f : Configs]
      <3>1. op[s] \in Passes
        BY DEF Shape
      <3> QED BY <3>1 DEF Passes, Idle
    <2>4. then # "end" => [op[s] EXCEPT !.pc = then] \in [pc : {"router", "servers", "view"}, i : AllSpecs, f : Configs]
      BY <1>2, <2>3
    <2>5. /\ op'[s] = IF then = "end" THEN Idle ELSE [op[s] EXCEPT !.pc = then]
          /\ \A t \in Site \ {s} : op'[t] = op[t]
      BY <2>1 DEF Shape
    <2>6. op' \in [Site -> Passes]
      <3>1. (IF then = "end" THEN Idle ELSE [op[s] EXCEPT !.pc = then]) \in Passes
        BY <2>4 DEF Passes
      <3> QED BY <2>1, <3>1 DEF Shape
    <2>7. IF then = "end" THEN op'[s] = Idle
          ELSE op'[s].pc = then /\ op'[s].i = op[s].i /\ op'[s].f = op[s].f
      BY <2>3, <2>5
    <2>8. /\ queued' \subseteq Site /\ \A t \in Site : t \in queued => t \in queued'
          /\ s \in queued' \/ (s \notin queued /\ condition = cr[s])
      BY <2>1 DEF Shape
    <2> QED BY <1>2, <2>2, <2>5, <2>6, <2>7, <2>8
  <1> QED BY <1>1, <1>2

-----------------------------------------------------------------------------
(***************************************************************************)
(* Every handler of a pass keeps the invariant.                            *)
(***************************************************************************)

\* Exposing a site keeps its Service well typed: its address stays as long
\* as its type does.
LEMMA ExposedType ==
    ASSUME Shape, NEW s \in Site, NEW spec \in AllSpecs
    PROVE  Exposed(s, spec) \in [Site -> Services \cup {Absent}]
  <1>1. ServiceType(spec) \in {"ClusterIP", "LoadBalancer", "NodePort"}
    BY DEF ServiceType, AllSpecs
  <1>2. [type |-> ServiceType(spec), ip |-> 0] \in Services
    BY <1>1 DEF Services
  <1> QED BY <1>2 DEF Exposed, Shape

\* The beginning of a pass.
LEMMA XSiteServiceStep == ASSUME IInv, NEW s \in Site, XSiteService(s) PROVE IInv'
  <1> DEFINE spec == cr[s].spec
             pass == [pc |-> "configure", i |-> spec, f |-> Absent]
  <1>0. Shape /\ \A t \in Site : SiteOK(t)
    BY DEF IInv
  <1>1. spec \in AllSpecs
    BY <1>0 DEF Shape, Resources
  <1>2. pass \in Passes /\ pass.pc = "configure" /\ pass.i = spec /\ pass # Idle
    <2>1. pass \in Passes
      BY <1>1 DEF Passes
    <2> QED BY <2>1, PassesApart
  <1>3. UNCHANGED <<cr, dep, router, sts, servers, log, due, bounds>>
    BY DEF XSiteService
  <1>4. svc' \in [Site -> Services \cup {Absent}] /\ route' \subseteq Routes
    BY <1>0, <1>1, ExposedType DEF XSiteService, Shape
  <1>5. CASE Requeue(s)
    <2>1. \A t \in Site : SiteOK(t)'
      BY <1>0, <1>3, <1>5, RequeueEffect, QueuedAgain, Untouched
    <2> QED BY <1>0, <1>3, <1>4, <1>5, <2>1, RequeueEffect DEF IInv, Shape, bounds
  <1>6. CASE op' = [op EXCEPT ![s] = pass] /\ queued' = queued \ {s}
    <2>1. op'[s] = pass /\ op' \in [Site -> Passes] /\ \A t \in Site \ {s} : op'[t] = op[t]
      BY <1>0, <1>2, <1>6 DEF Shape
    <2>2. SiteOK(s)'
      <3>1. op'[s].pc = "configure" /\ op'[s].i = cr'[s].spec /\ op'[s] # Idle
        BY <1>2, <1>3, <2>1
      <3> QED BY <3>1 DEF SiteOK, Addressed, Current, Recorded
    <2>3. \A t \in Site \ {s} : SiteOK(t)'
      BY <1>0, <1>3, <1>6, <2>1, Untouched
    <2> QED BY <1>0, <1>3, <1>4, <1>6, <2>1, <2>2, <2>3 DEF IInv, Shape, bounds
  <1> QED BY <1>5, <1>6 DEF XSiteService

\* The configuration of a pass is well typed, and has an address for every
\* site its resource gives a URL for.
LEMMA ConfigureStep == ASSUME IInv, NEW s \in Site, Configure(s) PROVE IInv'
  <1>0. Shape /\ \A t \in Site : SiteOK(t)
    BY DEF IInv
  <1>1. op[s].pc = "configure" /\ UNCHANGED <<cr, platform, log, due, bounds>>
    BY DEF Configure
  <1>2. op[s].i \in AllSpecs /\ op[s] # Idle
    <2>1. op[s] \in Passes
      BY <1>0 DEF Shape
    <2> QED BY <1>1, <2>1, PassesApart
  <1>3. CASE Requeue(s)
    <2>1. \A t \in Site : SiteOK(t)'
      BY <1>0, <1>1, <1>3, RequeueEffect, QueuedAgain, Untouched DEF platform
    <2> QED BY <1>0, <1>1, <1>3, <2>1, RequeueEffect DEF IInv, Shape, bounds, platform
  <1>4. ASSUME NEW f \in Configs, op' = [op EXCEPT ![s].pc = "router", ![s].f = f], UNCHANGED queued,
               op[s].i.sites /\ op[s].i.remote # "none" => \A t \in Site \ {s} : f.at[t] # Ignored
        PROVE  IInv'
    <2>1. op[s] \in [pc : {"configure"}, i : AllSpecs, f : {Absent}]
      <3>1. op[s] \in Passes
        BY <1>0 DEF Shape
      <3> QED BY <1>1, <3>1 DEF Passes, Idle
    <2>2. op' = [op EXCEPT ![s] = [[op[s] EXCEPT !.pc = "router"] EXCEPT !.f = f]] /\ op \in [Site -> Passes]
      BY <1>0, <1>4 DEF Shape
    <2>3. op'[s] = [pc |-> "router", i |-> op[s].i, f |-> f] /\ \A t \in Site \ {s} : op'[t] = op[t]
      BY <2>1, <2>2
    <2>4. [pc |-> "router", i |-> op[s].i, f |-> f] \in Passes
      BY <1>2, <1>4 DEF Passes
    <2>5. op' \in [Site -> Passes]
      BY <2>2, <2>3, <2>4
    <2>6. op'[s].pc = "router" /\ op'[s].i = op[s].i /\ op'[s].f = f /\ op'[s] # Idle
      BY <2>3, <2>4, PassesApart
    <2>7. SiteOK(s)'
      <3>1. Addressed(s)'
        BY <1>4, <2>6 DEF Addressed
      <3>2. Current(s)'
        BY <1>0, <1>1, <1>2, <1>4, <2>6 DEF SiteOK, Current
      <3>3. Recorded(s)'
        BY <2>6 DEF Recorded
      <3> QED BY <3>1, <3>2, <3>3 DEF SiteOK
    <2>8. \A t \in Site \ {s} : SiteOK(t)'
      BY <1>0, <1>1, <1>4, <2>3, Untouched DEF platform
    <2> QED BY <1>0, <1>1, <1>4, <2>5, <2>7, <2>8 DEF IInv, Shape, bounds, platform
  <1>5. CASE ~op[s].i.sites
    <2>1. NoSites \in Configs
      BY DEF NoSites, Configs, Found, Ignored
    <2> QED BY <1>4, <1>5, <2>1 DEF Configure
  <1>6. CASE op[s].i.sites /\ ~Requeue(s)
    <2>1. PICK others \in searchRemoteSites(s) :
             /\ op' = [op EXCEPT ![s].pc = "router", ![s].f =
                        [at  |-> [t \in Site |-> IF t = s THEN LocalAddress(s) ELSE others[t]],
                         tls |-> op[s].i.tls]]
             /\ UNCHANGED queued
      BY <1>6 DEF Configure
    <2> DEFINE f == [at  |-> [t \in Site |-> IF t = s THEN LocalAddress(s) ELSE others[t]], tls |-> op[s].i.tls]
    <2>2. \A t \in Site \ {s} : others[t] \in RemoteAddress(s, t)
      BY DEF searchRemoteSites
    <2>3. \A t \in Site \ {s} : others[t] \in Found /\ (op[s].i.remote # "none" => others[t] # Ignored)
      BY <1>0, <1>2, <2>2, RemoteFound
    <2>4. LocalAddress(s) \in Found
      BY DEF LocalAddress, Found, Ignored
    <2>5. op[s].i.tls \in BOOLEAN
      BY <1>2 DEF AllSpecs
    <2>6. f \in Configs /\ \A t \in Site \ {s} : f.at[t] = others[t]
      BY <2>3, <2>4, <2>5 DEF Configs
    <2> HIDE DEF f
    <2> QED BY <1>4, <2>1, <2>3, <2>6 DEF f
  <1> QED BY <1>3, <1>5, <1>6

\* The gossip router: a site that is not queued afterwards has the Deployment
\* its resource asks for, and the condition its pod deserves.
LEMMA GossipRouterStep == ASSUME IInv, NEW s \in Site, GossipRouter(s) PROVE IInv'
  <1>0. Shape /\ \A t \in Site : SiteOK(t)
    BY DEF IInv
  <1>1. op[s].pc = "router" /\ UNCHANGED <<svc, route, router, sts, servers, log, due, bounds>>
    BY DEF GossipRouter
  <1>2. op[s].i \in AllSpecs /\ op[s] # Idle
    <2>1. op[s] \in Passes
      BY <1>0 DEF Shape
    <2> QED BY <1>1, <2>1, PassesApart
  <1>3. Addressed(s) /\ Current(s)
    BY <1>0 DEF SiteOK
  <1>4. CASE ~op[s].i.sites
    <2>1. dep' = [dep EXCEPT ![s] = Absent] /\ Goto(s, "servers") /\ UNCHANGED cr
      BY <1>4 DEF GossipRouter
    <2>2. dep' \in [Site -> Deployments \cup {Absent}] /\ \A t \in Site \ {s} : dep'[t] = dep[t]
      BY <1>0, <2>1 DEF Shape
    <2>3. /\ op' \in [Site -> Passes] /\ UNCHANGED queued
          /\ op'[s].pc = "servers" /\ op'[s].i = op[s].i /\ op'[s].f = op[s].f
          /\ \A t \in Site \ {s} : op'[t] = op[t]
      BY <1>0, <1>1, <2>1, GotoEffect
    <2>4. SiteOK(s)'
      <3>1. Addressed(s)'
        BY <1>1, <1>3, <1>4, <2>3 DEF Addressed
      <3>2. Current(s)'
        BY <1>2, <1>3, <2>1, <2>3 DEF Current
      <3>3. Recorded(s)'
        BY <1>2, <1>3, <1>4, <2>1, <2>3 DEF Current, Recorded, GossipRouterEnabled
      <3> QED BY <3>1, <3>2, <3>3 DEF SiteOK
    <2>5. \A t \in Site \ {s} : SiteOK(t)'
      BY <1>0, <1>1, <2>1, <2>2, <2>3, Untouched
    <2> QED BY <1>0, <1>1, <2>1, <2>2, <2>3, <2>4, <2>5 DEF IInv, Shape, bounds
  <1>5. ASSUME NEW v \in {"True", "False"}, NEW then \in {"servers", "requeue"},
               SetCondition(s, [cr[s] EXCEPT !.ready = v], then),
               dep' \in [Site -> Deployments \cup {Absent}], \A t \in Site \ {s} : dep'[t] = dep[t],
               op[s].i.sites /\ op[s].i.router /\ then = "servers" =>
                  dep'[s] = RouterSpec(op[s].i) /\ (v = "True" <=> RouterReady(s))
        PROVE  IInv'
    <2> DEFINE condition == [cr[s] EXCEPT !.ready = v]
    <2>1. condition \in Resources /\ condition.spec = cr[s].spec /\ condition.ready = v
      <3>1. cr[s] \in Resources
        BY <1>0 DEF Shape
      <3> QED BY <3>1 DEF Resources
    <2> HIDE DEF condition
    <2>2. SetCondition(s, condition, then)
      BY <1>5 DEF condition
    <2>3. /\ cr' \in [Site -> Resources] /\ op' \in [Site -> Passes] /\ queued' \subseteq Site
          /\ \A t \in Site \ {s} : cr'[t] = cr[t] /\ op'[t] = op[t] /\ (t \in queued => t \in queued')
          /\ \/ s \in queued' /\ op'[s] = Idle
             \/ /\ cr[s].spec = op[s].i /\ then = "servers" /\ cr'[s] = condition
                /\ s \in queued' \/ (s \notin queued /\ condition = cr[s])
                /\ op'[s].pc = "servers" /\ op'[s].i = op[s].i /\ op'[s].f = op[s].f
      BY <1>0, <1>1, <2>1, <2>2, SetConditionEffect
    <2>4. SiteOK(s)'
      <3>1. CASE s \in queued' /\ op'[s] = Idle
        BY <1>0, <3>1, QueuedAgain
      <3>2. CASE /\ cr[s].spec = op[s].i /\ then = "servers" /\ cr'[s] = condition
                 /\ op'[s].pc = "servers" /\ op'[s].i = op[s].i /\ op'[s].f = op[s].f
        <4>1. Addressed(s)'
          BY <1>1, <1>3, <3>2 DEF Addressed
        <4>2. Current(s)'
          BY <2>1, <3>2 DEF Current
        <4>3. RouterReady(s)' <=> RouterReady(s)
          BY <1>1 DEF RouterReady
        <4>4. Recorded(s)'
          BY <1>5, <2>1, <3>2, <4>3 DEF Recorded, GossipRouterEnabled, RouterSpec
        <4> QED BY <4>1, <4>2, <4>4 DEF SiteOK
      <3> QED BY <2>3, <3>1, <3>2
    <2>5. \A t \in Site \ {s} : SiteOK(t)'
      BY <1>0, <1>1, <1>5, <2>3, Untouched
    <2> QED BY <1>0, <1>1, <1>5, <2>3, <2>4, <2>5 DEF IInv, Shape, bounds
  <1>6. CASE op[s].i.sites /\ ~op[s].i.router
    <2>1. UNCHANGED dep /\ SetCondition(s, [cr[s] EXCEPT !.ready = IF op[s].i.up THEN "True" ELSE "False"], "servers")
      BY <1>6 DEF GossipRouter
    <2> QED BY <1>0, <1>5, <1>6, <2>1 DEF Shape
  <1>7. CASE op[s].i.sites /\ op[s].i.router
    <2>1. dep' = [dep EXCEPT ![s] = RouterSpec(op[s].i)]
      BY <1>7 DEF GossipRouter
    <2>2. RouterSpec(op[s].i) \in Deployments
      BY <1>2 DEF RouterSpec, AllSpecs, Deployments
    <2>3. /\ dep' \in [Site -> Deployments \cup {Absent}] /\ \A t \in Site \ {s} : dep'[t] = dep[t]
          /\ dep'[s] = RouterSpec(op[s].i)
      BY <1>0, <2>1, <2>2 DEF Shape
    <2>4. CASE RouterReady(s)
      <3>1. SetCondition(s, [cr[s] EXCEPT !.ready = "True"], "servers")
        BY <1>7, <2>4 DEF GossipRouter
      <3> QED BY <1>5, <2>3, <2>4, <3>1
    <2>5. CASE ~RouterReady(s)
      <3>1. SetCondition(s, [cr[s] EXCEPT !.ready = "False"], IF op[s].i.up THEN "requeue" ELSE "servers")
        BY <1>7, <2>5 DEF GossipRouter
      <3> QED BY <1>5, <2>3, <2>5, <3>1
    <2> QED BY <2>4, <2>5
  <1> QED
    <2>1. op[s].i.sites \in BOOLEAN /\ op[s].i.router \in BOOLEAN
      BY <1>2 DEF AllSpecs
    <2> QED BY <1>4, <1>6, <1>7, <2>1

\* Storing the configuration of the servers.
LEMMA ServersStep == ASSUME IInv, NEW s \in Site, Servers(s) PROVE IInv'
  <1>0. Shape /\ \A t \in Site : SiteOK(t)
    BY DEF IInv
  <1>1. op[s].pc = "servers" /\ UNCHANGED <<cr, svc, route, dep, router, servers, log, due, bounds>>
    BY DEF Servers
  <1>2. op[s].f \in Configs /\ op[s] # Idle
    <2>1. op[s] \in Passes
      BY <1>0 DEF Shape
    <2> QED BY <1>1, <2>1, PassesApart
  <1>3. sts' \in [Site -> Configs \cup {Absent}]
    BY <1>0, <1>2 DEF Servers, Shape
  <1>4. SiteOK(s)
    BY <1>0
  <1>5. CASE Requeue(s)
    <2>1. \A t \in Site : SiteOK(t)'
      BY <1>0, <1>1, <1>5, RequeueEffect, QueuedAgain, Untouched
    <2> QED BY <1>0, <1>1, <1>3, <1>5, <2>1, RequeueEffect DEF IInv, Shape, bounds
  <1>6. CASE Goto(s, "view")
    <2>1. /\ op' \in [Site -> Passes] /\ UNCHANGED queued
          /\ op'[s].pc = "view" /\ op'[s].i = op[s].i /\ op'[s].f = op[s].f
          /\ \A t \in Site \ {s} : op'[t] = op[t]
      BY <1>0, <1>1, <1>6, GotoEffect
    <2>2. RouterReady(s)' <=> RouterReady(s)
      BY <1>1 DEF RouterReady
    <2>3. Addressed(s)' /\ Current(s)'
      BY <1>1, <1>2, <1>4, <2>1 DEF SiteOK, Addressed, Current
    <2>4. Recorded(s)'
      BY <1>1, <1>4, <2>1, <2>2 DEF SiteOK, Recorded
    <2>5. \A t \in Site : SiteOK(t)'
      BY <1>0, <1>1, <2>1, <2>3, <2>4, Untouched DEF SiteOK
    <2> QED BY <1>0, <1>1, <1>3, <2>1, <2>5 DEF IInv, Shape, bounds
  <1>7. CASE op' = [op EXCEPT ![s] = Idle] /\ UNCHANGED queued
    <2>1. op' \in [Site -> Passes] /\ op'[s] = Idle /\ \A t \in Site \ {s} : op'[t] = op[t]
      BY <1>0, <1>7 DEF Shape, Passes
    <2>2. RouterReady(s)' <=> RouterReady(s)
      BY <1>1 DEF RouterReady
    <2>3. Addressed(s)' /\ Current(s)'
      BY <2>1 DEF Addressed, Current, Idle
    <2>4. Recorded(s)'
      BY <1>1, <1>4, <1>7, <2>1, <2>2 DEF SiteOK, Recorded
    <2>5. \A t \in Site : SiteOK(t)'
      BY <1>0, <1>1, <1>7, <2>1, <2>3, <2>4, Untouched DEF SiteOK
    <2> QED BY <1>0, <1>1, <1>3, <1>7, <2>1, <2>5 DEF IInv, Shape, bounds
  <1> QED BY <1>5, <1>6, <1>7 DEF Servers

\* The last handler of a pass: a view that was not recorded queues the site
\* again.
LEMMA ViewStep == ASSUME IInv, NEW s \in Site, XSiteViewCondition(s) PROVE IInv'
  <1>0. Shape /\ \A t \in Site : SiteOK(t)
    BY DEF IInv
  <1>1. op[s].pc = "view" /\ UNCHANGED <<platform, log, edits, moves, recoveries>>
    BY DEF XSiteViewCondition
  <1>2. op[s] # Idle /\ SiteOK(s)
    BY <1>0, <1>1 DEF Idle
  <1>3. due' \subseteq Damaged /\ faults' \in Nat
    BY <1>0 DEF XSiteViewCondition, Shape
  <1>4. RouterReady(s)' <=> RouterReady(s)
    BY <1>1 DEF RouterReady, platform
  <1>5. CASE op' = [op EXCEPT ![s] = Idle] /\ UNCHANGED <<cr, queued>>
    <2>1. op' \in [Site -> Passes] /\ op'[s] = Idle /\ \A t \in Site \ {s} : op'[t] = op[t]
      BY <1>0, <1>5 DEF Shape, Passes
    <2>2. Addressed(s)' /\ Current(s)'
      BY <2>1 DEF Addressed, Current, Idle
    <2>3. Recorded(s)'
      BY <1>1, <1>2, <1>4, <1>5, <2>1 DEF SiteOK, Recorded, platform
    <2>4. \A t \in Site : SiteOK(t)'
      BY <1>0, <1>1, <1>5, <2>1, <2>2, <2>3, Untouched DEF SiteOK, platform
    <2> QED BY <1>0, <1>1, <1>3, <1>5, <2>1, <2>4 DEF IInv, Shape, bounds, platform
  <1>6. ASSUME NEW v \in {"True", "False"}, NEW then \in {"end", "requeue"},
               SetCondition(s, [cr[s] EXCEPT !.view = v], then)
        PROVE  IInv'
    <2> DEFINE condition == [cr[s] EXCEPT !.view = v]
    <2>1. condition \in Resources /\ condition.spec = cr[s].spec /\ condition.ready = cr[s].ready
      <3>1. cr[s] \in Resources
        BY <1>0 DEF Shape
      <3> QED BY <3>1 DEF Resources
    <2> HIDE DEF condition
    <2>2. SetCondition(s, condition, then)
      BY <1>6 DEF condition
    <2>3. /\ cr' \in [Site -> Resources] /\ op' \in [Site -> Passes] /\ queued' \subseteq Site
          /\ \A t \in Site \ {s} : cr'[t] = cr[t] /\ op'[t] = op[t] /\ (t \in queued => t \in queued')
          /\ op'[s] = Idle
          /\ s \in queued' \/ (cr'[s] = condition /\ s \notin queued)
      BY <1>0, <1>1, <2>1, <2>2, SetConditionEffect
    <2>4. SiteOK(s)'
      <3>1. CASE s \in queued'
        BY <1>2, <2>3, <3>1, QueuedAgain
      <3>2. CASE cr'[s] = condition /\ s \notin queued
        <4>1. Addressed(s)' /\ Current(s)'
          BY <2>3 DEF Addressed, Current, Idle
        <4>2. Recorded(s)'
          BY <1>1, <1>2, <1>4, <2>1, <3>2 DEF SiteOK, Recorded, platform
        <4> QED BY <4>1, <4>2 DEF SiteOK
      <3> QED BY <2>3, <3>1, <3>2
    <2>5. \A t \in Site \ {s} : SiteOK(t)'
      BY <1>0, <1>1, <2>3, Untouched DEF platform
    <2> QED BY <1>0, <1>1, <1>3, <2>3, <2>4, <2>5 DEF IInv, Shape, bounds, platform
  <1>7. CASE op[s].i.sites
    <2> DEFINE view == IF Site \subseteq SitesView(s) THEN "True" ELSE "False"
    <2>1. SetCondition(s, [cr[s] EXCEPT !.view = view], IF view = "True" THEN "end" ELSE "requeue")
      BY <1>7 DEF XSiteViewCondition
    <2>2. view \in {"True", "False"}
      OBVIOUS
    <2> HIDE DEF view
    <2> QED BY <1>6, <2>1, <2>2
  <1> QED BY <1>5, <1>7 DEF XSiteViewCondition

-----------------------------------------------------------------------------
(***************************************************************************)
(* The platform, the users and the faults keep the invariant.              *)
(***************************************************************************)

\* Load balancers only change the addresses of Services.
LEMMA BalancerStep ==
    ASSUME IInv, NEW s \in Site, BalancerReady(s) \/ BalancerMoves(s) PROVE IInv'
  <1>0. Shape /\ \A t \in Site : SiteOK(t)
    BY DEF IInv
  <1>1. UNCHANGED <<cr, route, dep, router, sts, servers, log, due, op, queued, edits, faults, recoveries>> /\ moves' \in Nat
    BY <1>0 DEF BalancerReady, BalancerMoves, bounds, Shape
  <1>2. svc' \in [Site -> Services \cup {Absent}]
    <2>1. svc[s] \in Services /\ moves \in Nat
      BY <1>0 DEF BalancerReady, BalancerMoves, Shape
    <2>2. \A n \in Nat : [svc[s] EXCEPT !.ip = n] \in Services
      BY <2>1 DEF Services
    <2>3. [svc[s] EXCEPT !.ip = moves + 1] \in Services /\ [svc[s] EXCEPT !.ip = moves + 2] \in Services
      <3>1. moves + 1 \in Nat /\ moves + 2 \in Nat
        BY <2>1
      <3> QED BY <2>2, <3>1
    <2>4. \/ svc' = [svc EXCEPT ![s] = [svc[s] EXCEPT !.ip = moves + 1]]
          \/ svc' = [svc EXCEPT ![s] = [svc[s] EXCEPT !.ip = moves + 2]]
      BY DEF BalancerReady, BalancerMoves
    <2> QED BY <1>0, <2>3, <2>4 DEF Shape
  <1>3. \A t \in Site : SiteOK(t)'
    BY <1>0, <1>1, Untouched
  <1> QED BY <1>0, <1>1, <1>2, <1>3 DEF IInv, Shape

\* The Deployment controller and a crash of the router pod wake the operator.
LEMMA RouterStep ==
    ASSUME IInv, NEW s \in Site, RouterFollows(s) \/ RouterCrashes(s) PROVE IInv'
  <1>0. Shape /\ \A t \in Site : SiteOK(t)
    BY DEF IInv
  <1>1. /\ UNCHANGED <<cr, svc, route, dep, sts, servers, log, due, op, edits, moves, recoveries>> /\ faults' \in Nat
        /\ queued' = queued \cup {s}
    BY <1>0 DEF RouterFollows, RouterCrashes, bounds, Shape
  <1>2. /\ router' \in [Site -> Routers \cup {Absent}]
        /\ \A t \in Site \ {s} : router'[t] = router[t]
    <2>1. CASE dep[s] # Absent /\ router' = [router EXCEPT ![s] = [tls |-> dep[s].tls, ready |-> FALSE]]
      <3>1. dep[s].tls \in BOOLEAN
        BY <1>0, <2>1 DEF Shape, Deployments
      <3>2. [tls |-> dep[s].tls, ready |-> FALSE] \in Routers
        BY <3>1 DEF Routers
      <3> QED BY <1>0, <2>1, <3>2 DEF Shape
    <2>2. ASSUME NEW b \in BOOLEAN, router[s] # Absent, router' = [router EXCEPT ![s].ready = b]
          PROVE  /\ router' \in [Site -> Routers \cup {Absent}]
                 /\ \A t \in Site \ {s} : router'[t] = router[t]
      <3>1. router[s] \in Routers
        BY <1>0, <2>2 DEF Shape
      <3>2. [router[s] EXCEPT !.ready = b] \in Routers
        BY <3>1 DEF Routers
      <3>3. router' = [router EXCEPT ![s] = [router[s] EXCEPT !.ready = b]]
        BY <2>2
      <3> QED BY <1>0, <3>2, <3>3 DEF Shape
    <2>3. CASE router' = [router EXCEPT ![s] = Absent]
      BY <1>0, <2>3 DEF Shape
    <2>4. [tls |-> dep[s].tls, ready |-> FALSE] # Absent
      BY DEF Absent
    <2> QED BY <2>1, <2>2, <2>3, <2>4 DEF RouterFollows, RouterCrashes, RouterReady
  <1>3. \A t \in Site : SiteOK(t)'
    BY <1>0, <1>1, <1>2, Untouched, QueuedAgain
  <1> QED BY <1>0, <1>1, <1>2, <1>3 DEF IInv, Shape

\* Rolled servers, a recovery, a resync, a failed call and a completed
\* keystore: the sites they touch are queued, or keep their pass.
LEMMA WakeStep ==
    ASSUME IInv, NEW s \in Site,
           ServersFollow(s) \/ RecoversFiles(s) \/ Resync(s) \/ PassFails(s) \/ UserCompletesKeys(s)
    PROVE  IInv'
  <1>0. Shape /\ \A t \in Site : SiteOK(t)
    BY DEF IInv
  <1>1. /\ UNCHANGED <<cr, svc, route, dep, router, sts>>
        /\ servers' \in [Site -> Configs \cup {Absent}] /\ log' \subseteq Damaged /\ due' \subseteq Damaged
        /\ edits' \in Nat /\ moves' \in Nat /\ faults' \in Nat /\ recoveries' \in Nat
    BY <1>0 DEF ServersFollow, RecoversFiles, Resync, PassFails, UserCompletesKeys, platform, bounds, PodsOf, Shape
  <1>2. CASE PassFails(s)
    <2>1. Requeue(s)
      BY <1>2 DEF PassFails
    <2>2. \A t \in Site : SiteOK(t)'
      BY <1>0, <1>1, <2>1, RequeueEffect, QueuedAgain, Untouched
    <2> QED BY <1>0, <1>1, <2>1, <2>2, RequeueEffect DEF IInv, Shape
  <1>3. CASE ~PassFails(s)
    <2>1. UNCHANGED op /\ queued' \subseteq Site /\ queued \subseteq queued'
      BY <1>0, <1>3 DEF ServersFollow, RecoversFiles, Resync, UserCompletesKeys, Shape
    <2>2. \A t \in Site : SiteOK(t)'
      BY <1>0, <1>1, <2>1, Untouched
    <2> QED BY <1>0, <1>1, <2>1, <2>2 DEF IInv, Shape
  <1> QED BY <1>2, <1>3

\* An edit of a resource queues its site.
LEMMA UserEditsStep == ASSUME IInv, NEW s \in Site, UserEdits(s) PROVE IInv'
  <1>0. Shape /\ \A t \in Site : SiteOK(t)
    BY DEF IInv
  <1>1. /\ UNCHANGED <<platform, log, due, op, moves, faults, recoveries>> /\ edits' \in Nat
        /\ queued' = queued \cup {s}
    BY <1>0 DEF UserEdits, Shape
  <1>2. PICK spec \in Edits : cr' = [cr EXCEPT ![s].spec = spec]
    BY DEF UserEdits
  <1>3. cr' \in [Site -> Resources] /\ \A t \in Site \ {s} : cr'[t] = cr[t]
    <2>1. cr[s] \in Resources /\ spec \in AllSpecs
      BY <1>0, SpecsAssumption DEF Shape
    <2>2. [cr[s] EXCEPT !.spec = spec] \in Resources
      BY <2>1 DEF Resources
    <2>3. cr' = [cr EXCEPT ![s] = [cr[s] EXCEPT !.spec = spec]]
      BY <1>2
    <2> QED BY <1>0, <2>2, <2>3 DEF Shape
  <1>4. \A t \in Site : SiteOK(t)'
    BY <1>0, <1>1, <1>3, Untouched, QueuedAgain DEF platform
  <1> QED BY <1>0, <1>1, <1>3, <1>4 DEF IInv, Shape, platform

-----------------------------------------------------------------------------
(***************************************************************************)
(* The theorems.                                                           *)
(***************************************************************************)

\* The initial state satisfies the invariant: every site is queued.
LEMMA InitIInv == Init => IInv
  <1> SUFFICES ASSUME Init PROVE IInv
    OBVIOUS
  <1>1. PICK start \in Starts : cr = [s \in Site |-> [spec |-> start[s], ready |-> "unset", view |-> "unset"]]
    BY DEF Init
  <1>2. cr \in [Site -> Resources]
    <2>1. \A s \in Site : start[s] \in AllSpecs
      BY SpecsAssumption
    <2>2. \A s \in Site : [spec |-> start[s], ready |-> "unset", view |-> "unset"] \in Resources
      BY <2>1 DEF Resources
    <2> QED BY <1>1, <2>2
  <1>3. Shape
    BY <1>2 DEF Init, Shape, Passes
  <1>4. \A s \in Site : SiteOK(s)
    BY DEF Init, SiteOK, Addressed, Current, Recorded, Idle
  <1> QED BY <1>3, <1>4 DEF IInv

\* Every step keeps the invariant.
LEMMA StepIInv == IInv /\ [Next]_vars => IInv'
  <1> SUFFICES ASSUME IInv, [Next]_vars PROVE IInv'
    OBVIOUS
  <1>1. CASE Next
    BY <1>1, XSiteServiceStep, ConfigureStep, GossipRouterStep, ServersStep, ViewStep, BalancerStep,
       RouterStep, WakeStep, UserEditsStep
    DEF Next, Reconcile, Platform
  <1>2. CASE UNCHANGED vars
    <2>1. UNCHANGED <<cr, svc, route, dep, router, sts, servers, log, due, op, queued, edits, moves, faults, recoveries>>
      BY <1>2 DEF vars, platform, bounds
    <2>2. \A t \in Site : SiteOK(t)'
      BY <2>1, Untouched DEF IInv
    <2> QED BY <2>1, <2>2 DEF IInv, Shape
  <1> QED BY <1>1, <1>2

\* What a lookup gives is an address a configuration can hold.
LEMMA FoundAddresses ==
    ASSUME NEW a \in Found
    PROVE  a \in Addresses /\ (a[1] = "balancer" => a[2] > 0)
  BY DEF Found, Addresses

\* The shape of the state implies its type invariant.
LEMMA ShapeTypeOK == ASSUME Shape PROVE TypeOK
  <1>1. ASSUME NEW s \in Site, NEW c \in {sts[s], servers[s]}, c # Absent
        PROVE  c.at \in [Site -> Addresses] /\ \A t \in Site : c.at[t][1] = "balancer" => c.at[t][2] > 0
    <2>1. c \in Configs
      BY <1>1 DEF Shape
    <2>2. c.at \in [Site -> Found]
      BY <2>1 DEF Configs
    <2> QED BY <2>2, FoundAddresses
  <1>2. \A s \in Site :
           /\ cr[s].spec \in AllSpecs
           /\ cr[s].ready \in {"unset", "False", "True"}
           /\ cr[s].view \in {"unset", "False", "True"}
    BY DEF Shape, Resources
  <1>3. \A s \in Site : svc[s] # Absent => svc[s].type \in {"ClusterIP", "LoadBalancer", "NodePort"}
    BY DEF Shape, Services
  <1>4. \A s \in Site :
           /\ dep[s] # Absent => dep[s] \in [replicas : 0..1, tls : BOOLEAN]
           /\ router[s] # Absent => router[s] \in [tls : BOOLEAN, ready : BOOLEAN]
    BY DEF Shape, Deployments, Routers
  <1> QED BY <1>1, <1>2, <1>3, <1>4 DEF Shape, TypeOK

\* The condition GossipRouterReady of a settled site tells the truth about
\* its router, for any number of sites, edits, crashes and failed calls.
THEOREM RouterConditionTruthful == Spec => []RouterTruthful
  <1>1. IInv => RouterTruthful
    <2> SUFFICES ASSUME IInv, NEW s \in Site, op[s] = Idle, s \notin queued,
                        GossipRouterEnabled(cr[s].spec), RouterSettled(s)
                 PROVE  cr[s].ready = "True" <=>
                           cr[s].spec.up /\ router[s] = [tls |-> cr[s].spec.tls, ready |-> TRUE]
      BY ShapeTypeOK DEF RouterTruthful, IInv
    <2>1. dep[s] = RouterSpec(cr[s].spec) /\ (cr[s].ready = "True" <=> RouterReady(s))
      BY DEF IInv, SiteOK, Recorded
    <2>2. cr[s].spec.up \in BOOLEAN /\ cr[s].spec.tls \in BOOLEAN
      BY DEF IInv, Shape, Resources, AllSpecs
    <2>3. dep[s].tls = cr[s].spec.tls /\ dep[s].replicas = (IF cr[s].spec.up THEN 1 ELSE 0) /\ dep[s] # Absent
      BY <2>1 DEF RouterSpec, Absent
    <2>4. CASE cr[s].spec.up
      <3>1. router[s] # Absent /\ router[s].tls = cr[s].spec.tls
        BY <2>3, <2>4 DEF RouterSettled
      <3>2. router[s] \in Routers
        BY <3>1 DEF IInv, Shape
      <3>3. router[s].ready = TRUE <=> router[s] = [tls |-> cr[s].spec.tls, ready |-> TRUE]
        <4>1. router[s] = [tls |-> router[s].tls, ready |-> router[s].ready]
          BY <3>2 DEF Routers
        <4>2. ASSUME router[s].ready = TRUE
              PROVE  router[s] = [tls |-> cr[s].spec.tls, ready |-> TRUE]
          BY <3>1, <4>1, <4>2, Zenon
        <4>3. ASSUME router[s] = [tls |-> cr[s].spec.tls, ready |-> TRUE]
              PROVE  router[s].ready = TRUE
          BY <4>3
        <4> QED BY <4>2, <4>3
      <3> QED BY <2>1, <2>4, <3>1, <3>2, <3>3 DEF RouterReady, Routers
    <2>5. CASE ~cr[s].spec.up
      BY <2>1, <2>3, <2>5 DEF RouterSettled, RouterReady
    <2> QED BY <2>2, <2>4, <2>5
  <1> QED BY <1>1, InitIInv, StepIInv, PTL DEF Spec

\* Only the handler of the servers stores a configuration, and it stores the
\* one its pass made.
LEMMA StoresConfiguration ==
    ASSUME Shape, Next, NEW s \in Site, sts'[s] # sts[s]
    PROVE  op[s].pc = "servers" /\ sts'[s] = (IF op[s].i.up THEN op[s].f ELSE Absent)
  <1>1. PICK u \in Site : Servers(u)
    BY DEF Next, Reconcile, Platform, XSiteService, Configure, GossipRouter, XSiteViewCondition,
           BalancerReady, RouterFollows, ServersFollow, Resync, BalancerMoves, RouterCrashes,
           RecoversFiles, PassFails, UserEdits, UserCompletesKeys, platform
  <1>2. sts' = [sts EXCEPT ![u] = IF op[u].i.up THEN op[u].f ELSE Absent] /\ op[u].pc = "servers"
    BY <1>1 DEF Servers
  <1>3. u = s
    BY <1>2 DEF Shape
  <1> QED BY <1>2, <1>3 DEF Shape

\* No roll takes a site out of the servers' configuration as long as the
\* resource gives a URL for it: a failed lookup never costs a connection.
THEOREM ConnectionsKept == Spec => SitesKept
  <1> DEFINE Kept == \A s, t \in Site :
                       (/\ s # t /\ sts[s] # Absent /\ sts'[s] # Absent
                        /\ sts[s].at[t] # Ignored /\ sts'[s].at[t] = Ignored)
                       => \/ ~op[s].i.sites \/ op[s].i.remote = "none"
  <1>1. IInv /\ [Next]_vars => [Kept]_vars
    <2> SUFFICES ASSUME IInv, Next, NEW s \in Site, NEW t \in Site, s # t, sts'[s] # Absent,
                        sts[s].at[t] # Ignored, sts'[s].at[t] = Ignored
                 PROVE  ~op[s].i.sites \/ op[s].i.remote = "none"
      OBVIOUS
    <2>1. sts'[s] # sts[s]
      OBVIOUS
    <2>2. op[s].pc = "servers" /\ sts'[s] = op[s].f
      BY <2>1, StoresConfiguration DEF IInv
    <2>3. Addressed(s)
      BY DEF IInv, SiteOK
    <2> QED BY <2>2, <2>3 DEF Addressed
  <1> QED BY <1>1, InitIInv, StepIInv, PTL DEF Spec, SitesKept
=============================================================================
