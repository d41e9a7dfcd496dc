------------------------------- MODULE XSite -------------------------------
(***************************************************************************)
(* Cross-site replication.  Each site is one Infinispan resource with its  *)
(* own operator, on a Kubernetes cluster of its own.  A pass exposes the   *)
(* site (Service, Route), looks up the addresses of the other sites,       *)
(* starts the gossip router, rolls the servers when their configuration    *)
(* changed, and records whether the servers see every site.  The operators *)
(* only meet through the objects they read in each other's cluster.        *)
(*                                                                         *)
(* Upgrades, during which the router is left alone, and the steps of a     *)
(* graceful shutdown are in ClusterLifecycle; a roll is in Rollout.  Here  *)
(* each is one step.                                                       *)
(***************************************************************************)
EXTENDS Integers, Sequences, FiniteSets

CONSTANTS
    Site,       \* the sites, every one listed in the resource of the others
    Routes,     \* the sites whose platform has Routes (OpenShift)
    Edits,      \* the specs a user may change a resource to
    Starts,     \* what the first specs of the sites may be
    Keyless,    \* the sites whose keystore Secret is incomplete at first
    Edited,     \* the sites whose resource is edited
    Damaged,    \* the pods, <<site, ordinal>>, whose file store may break
    MaxEvents,  \* bound on edits, moves, faults and recoveries together
    MaxEdits,   \* bound on the users' edits
    MaxMoves,   \* bound on new load balancer addresses
    MaxFaults,  \* bound on failed calls and router crashes
    MaxRecoveries \* bound on recoveries of a file store

ASSUME SitesAssumption ==
    /\ Routes \subseteq Site /\ Keyless \subseteq Site
    /\ Edited \subseteq Site /\ Damaged \subseteq Site \X Nat
    /\ MaxEvents \in Nat /\ MaxEdits \in Nat /\ MaxMoves \in Nat
    /\ MaxFaults \in Nat /\ MaxRecoveries \in Nat

(***************************************************************************)
(* spec.  `remote' says how the locations of the other sites are written:  *)
(* the URL of a Kubernetes API, a static host, or no URL, which names the  *)
(* cluster itself and adds no router.                                      *)
(***************************************************************************)
AllSpecs ==
    [sites : BOOLEAN, expose : {"Route", "LoadBalancer", "NodePort", "ClusterIP"},
     router : BOOLEAN, tls : BOOLEAN, up : BOOLEAN,
     remote : {"api", "static", "none"}]

ASSUME SpecsAssumption == Edits \subseteq AllSpecs /\ Starts \subseteq [Site -> AllSpecs]

VARIABLES
    cr,      \* per site, the resource: spec and the two conditions
    keys,    \* per site, whether its keystore Secret is complete
    svc,     \* per site, the site Service: its type and balancer address
    route,   \* the sites that have a Route
    dep,     \* per site, the gossip router Deployment
    router,  \* per site, the gossip router pod
    sts,     \* per site, the configuration stored for the servers
    servers, \* per site, the configuration the servers run with
    log,     \* the pods that logged a recovery (ISPN000643)
    due,     \* (history) the pods that recovered and whose site was not pushed
    op,      \* per site, the running pass: its resource and configuration
    queued,  \* the sites with a reconcile request in the work queue
    edits, moves, faults, recoveries

platform == <<svc, route, dep, router, sts, servers>>
bounds   == <<edits, moves, faults, recoveries>>
vars     == <<cr, keys, platform, log, due, op, queued, bounds>>

Free    == edits + moves + faults + recoveries < MaxEvents
MayFail == faults < MaxFaults /\ Free

Absent == [none |-> TRUE]
Idle   == [pc |-> "idle", i |-> Absent, f |-> Absent]

\* The addresses a configuration can hold for a site's router.
Ignored    == <<"ignored", 0>>
Addresses  == {"ignored", "local", "static", "route", "node"} \X {0}
              \cup {"balancer"} \X Nat

\* TYPE INVARIANT: in every state the operators of the sites reach, each
\* Service, router and configuration has the shape the handlers assume; a
\* balancer address in a configuration was really handed out.
TypeOK ==
    /\ \A s \in Site :
         /\ cr[s].spec \in AllSpecs
         /\ cr[s].ready \in {"unset", "False", "True"}
         /\ cr[s].view \in {"unset", "False", "True"}
         /\ svc[s] # Absent =>
              svc[s].type \in {"ClusterIP", "LoadBalancer", "NodePort"}
         /\ dep[s] # Absent => dep[s] \in [replicas : 0..1, tls : BOOLEAN]
         /\ router[s] # Absent => router[s] \in [tls : BOOLEAN, ready : BOOLEAN]
         /\ \A c \in {sts[s], servers[s]} : c # Absent =>
              /\ c.at \in [Site -> Addresses]
              /\ \A t \in Site : c.at[t][1] = "balancer" => c.at[t][2] > 0
    /\ route \subseteq Routes
    /\ log \subseteq Damaged /\ due \subseteq Damaged /\ queued \subseteq Site

Init ==
    /\ \E start \in Starts : cr = [s \in Site |->
         [spec |-> start[s], ready |-> "unset", view |-> "unset"]]
    /\ keys = [s \in Site |-> s \notin Keyless]
    /\ svc = [s \in Site |-> Absent]
    /\ route = {}
    /\ dep = [s \in Site |-> Absent]
    /\ router = [s \in Site |-> Absent]
    /\ sts = [s \in Site |-> Absent]
    /\ servers = [s \in Site |-> Absent]
    /\ log = {} /\ due = {}
    /\ op = [s \in Site |-> Idle]
    /\ queued = Site
    /\ edits = 0 /\ moves = 0 /\ faults = 0 /\ recoveries = 0

-----------------------------------------------------------------------------
(***************************************************************************)
(* The handlers of a pass, in the order Build gives them.                  *)
(***************************************************************************)

Goto(s, handler) == op' = [op EXCEPT ![s].pc = handler] /\ UNCHANGED queued

\* Requeue and Stop: a pass that returns an error is retried as well.
Requeue(s) == op' = [op EXCEPT ![s] = Idle] /\ queued' = queued \cup {s}

\* UpdateInfinispan of one condition.  A resource that changed since the pass
\* read it is a conflict.  A change of the resource wakes the operator.
SetCondition(s, condition, then) ==
    IF cr[s].spec # op[s].i \/ then = "requeue"
    THEN /\ cr' = IF cr[s].spec = op[s].i THEN [cr EXCEPT ![s] = condition] ELSE cr
         /\ Requeue(s)
    ELSE /\ cr' = [cr EXCEPT ![s] = condition]
         /\ op' = [op EXCEPT ![s] = IF then = "end" THEN Idle
                                    ELSE [@ EXCEPT !.pc = then]]
         /\ queued' = IF condition # cr[s] THEN queued \cup {s} ELSE queued

\* The address of a Service from outside its cluster; none before the load
\* balancer has one.
getCrossSiteServiceHostPort(service) ==
    CASE service.type = "NodePort"     -> {<<"node", 0>>}
      [] service.type = "LoadBalancer" /\ service.ip > 0 ->
                                          {<<"balancer", service.ip>>}
      [] OTHER -> {}

\* Looks site t up in its own cluster: its Route, or else its Service.
appendRemoteLocation(t) ==
    IF t \in route THEN {<<"route", 0>>}
    ELSE IF svc[t] = Absent THEN {}
    ELSE getCrossSiteServiceHostPort(svc[t])

GossipRouterEnabled(spec) == spec.sites /\ spec.router

ServiceType(spec) == IF spec.expose = "Route" THEN "ClusterIP" ELSE spec.expose

Exposed(s, spec) ==
    [svc EXCEPT ![s] = IF @ # Absent /\ @.type = ServiceType(spec) THEN @
                       ELSE [type |-> ServiceType(spec), ip |-> 0]]

\* (a bug) A site is exposed once it has found the others.
XSiteServiceLater(s) ==
    /\ op[s] = Idle /\ s \in queued
    /\ IF \A t \in Site \ {s} : appendRemoteLocation(t) # {}
       THEN /\ svc' = Exposed(s, cr[s].spec)
            /\ op' = [op EXCEPT ![s] =
                       [pc |-> "configure", i |-> cr[s].spec, f |-> Absent]]
            /\ queued' = queued \ {s}
       ELSE UNCHANGED svc /\ Requeue(s)
    /\ UNCHANGED <<cr, keys, route, dep, router, sts, servers, log, due, bounds>>

\* A pass begins.  Before anything is configured it removes the Service and
\* the Route of a site without a router, or creates or updates them, so that
\* the other sites find this one however far it gets.  The Route of a site
\* that stopped using Routes stays.
XSiteService(s) ==
    LET spec == cr[s].spec
        next == [op EXCEPT ![s] = [pc |-> "configure", i |-> spec, f |-> Absent]] IN
    /\ op[s] = Idle /\ s \in queued
    /\ IF ~GossipRouterEnabled(spec)
       THEN /\ svc' = [svc EXCEPT ![s] = Absent]
            /\ route' = route \ {s}
            /\ op' = next /\ queued' = queued \ {s}
       ELSE IF spec.expose = "Route" /\ s \notin Routes
       THEN Requeue(s) /\ UNCHANGED <<svc, route>>
       ELSE /\ svc' = Exposed(s, spec)
            /\ route' = IF spec.expose = "Route" THEN route \cup {s} ELSE route
            /\ op' = next /\ queued' = queued \ {s}
    /\ UNCHANGED <<cr, keys, dep, router, sts, servers, log, due, bounds>>

\* The addresses of the other sites, or none: one failed lookup fails all.
RemoteAddress(s, t) ==
    CASE op[s].i.remote = "none"   -> {Ignored}
      [] op[s].i.remote = "static" -> {<<"static", 0>>}
      [] OTHER -> appendRemoteLocation(t)

\* (a bug) A site that is not found is left out.
searchRemoteSitesLenient(s) ==
    {[t \in Site \ {s} |-> IF RemoteAddress(s, t) = {} THEN Ignored
                           ELSE CHOOSE a \in RemoteAddress(s, t) : TRUE]}

searchRemoteSites(s) ==
    IF \E t \in Site \ {s} : RemoteAddress(s, t) = {} THEN {}
    ELSE {[t \in Site \ {s} |-> CHOOSE a \in RemoteAddress(s, t) : TRUE]}

LocalAddress(s) == IF op[s].i.router THEN <<"local", 0>> ELSE Ignored

\* Its own balancer address is awaited too, though the name is what is used.
LocalReady(s) ==
    op[s].i.router =>
       /\ svc[s] # Absent
       /\ svc[s].type = "LoadBalancer" => svc[s].ip > 0

NoSites == [at |-> [t \in Site |-> Ignored], tls |-> FALSE]

\* TransportTLS and GossipRouterTLS: without a complete keystore the pass
\* goes no further.  Nothing watches these Secrets: the retry finds them.
TransportTLS(s) == op[s].i.tls => keys[s]

Configure(s) ==
    LET spec  == op[s].i
        found == searchRemoteSites(s) IN
    /\ op[s].pc = "configure"
    /\ IF ~spec.sites
       THEN /\ op' = [op EXCEPT ![s].f = NoSites, ![s].pc = "router"]
            /\ UNCHANGED queued
       ELSE IF ~LocalReady(s) \/ found = {} \/ ~TransportTLS(s)
       THEN Requeue(s)
       ELSE /\ \E others \in found :
                 op' = [op EXCEPT ![s].pc = "router", ![s].f =
                   [at  |-> [t \in Site |-> IF t = s THEN LocalAddress(s)
                                            ELSE others[t]],
                    tls |-> spec.tls]]
            /\ UNCHANGED queued
    /\ UNCHANGED <<cr, keys, platform, log, due, bounds>>

RouterReady(s) == router[s] # Absent /\ router[s].ready

\* The Deployment of the router: stopped with the cluster, and with the
\* keystore of an encrypted site.
RouterSpec(spec) == [replicas |-> IF spec.up THEN 1 ELSE 0, tls |-> spec.tls]

\* (a bug) The condition follows the Deployment, not its pod.
GossipRouterUnready(s) ==
    /\ op[s].pc = "router"
    /\ dep' = [dep EXCEPT ![s] = RouterSpec(op[s].i)]
    /\ SetCondition(s, [cr[s] EXCEPT !.ready = "True"], "servers")
    /\ UNCHANGED <<keys, svc, route, router, sts, servers, log, due, bounds>>

\* The Deployment of a site without sites is deleted; the one of a site
\* whose router was disabled is only no longer looked at.
GossipRouter(s) ==
    LET spec == op[s].i
        set(v, then) == SetCondition(s, [cr[s] EXCEPT !.ready = v], then) IN
    /\ op[s].pc = "router"
    /\ \/ /\ ~spec.sites
          /\ dep' = [dep EXCEPT ![s] = Absent]
          /\ Goto(s, "servers")
          /\ UNCHANGED cr
       \/ /\ spec.sites /\ ~spec.router
          /\ set(IF spec.up THEN "True" ELSE "False", "servers")
          /\ UNCHANGED dep
       \/ /\ spec.sites /\ spec.router
          /\ dep' = [dep EXCEPT ![s] = RouterSpec(spec)]
          /\ IF RouterReady(s) THEN set("True", "servers")
             ELSE set("False", IF spec.up THEN "requeue" ELSE "servers")
    /\ UNCHANGED <<keys, svc, route, router, sts, servers, log, due, bounds>>

\* ClusterStatefulSet to AwaitWellFormedCondition: the configuration is
\* stored, and the pass waits for the servers that run with it.  At scale
\* zero the servers are stopped.
Servers(s) ==
    /\ op[s].pc = "servers"
    /\ sts' = [sts EXCEPT ![s] = IF op[s].i.up THEN op[s].f ELSE Absent]
    /\ IF op[s].i.up
       THEN IF servers[s] = op[s].f THEN Goto(s, "view")
            ELSE Requeue(s)
       ELSE op' = [op EXCEPT ![s] = Idle] /\ UNCHANGED queued
    /\ UNCHANGED <<cr, keys, svc, route, dep, router, servers, log, due, bounds>>

-----------------------------------------------------------------------------
(***************************************************************************)
(* What the servers see (external): two sites see each other when the      *)
(* servers of both are connected to a common router.                       *)
(***************************************************************************)

Works(address, t, tls) ==
    \/ address[1] \in {"local", "static"}
    \/ address[1] = "route" /\ t \in route /\ tls
    \/ address[1] = "node" /\ svc[t].type \in {"NodePort", "LoadBalancer"}
    \/ /\ address[1] = "balancer" /\ svc[t].type = "LoadBalancer"
       /\ address[2] = svc[t].ip

Reaches(s, t) ==
    /\ servers[s] # Absent /\ svc[t] # Absent /\ RouterReady(t)
    /\ servers[s].tls = router[t].tls
    /\ Works(servers[s].at[t], t, servers[s].tls)

SitesView(s) ==
    {s} \cup {u \in Site : \E t \in Site : Reaches(s, t) /\ Reaches(u, t)}

\* The pods of a site.  The list of pods is sorted by name: ordinal 0 leads.
PodsOf(s) == {pod \in Damaged : pod[1] = s}

\* (a bug) The state is only pushed by the pass that sees the view form.
XSiteViewConditionOnce(s) ==
    LET view == IF Site \subseteq SitesView(s) THEN "True" ELSE "False" IN
    /\ op[s].pc = "view"
    /\ ~op[s].i.sites =>
         op' = [op EXCEPT ![s] = Idle] /\ UNCHANGED <<cr, queued, due, faults>>
    /\ op[s].i.sites =>
         /\ SetCondition(s, [cr[s] EXCEPT !.view = view],
                         IF view = "True" THEN "end" ELSE "requeue")
         /\ \/ view = "True" /\ <<s, 0>> \in log /\ cr[s].view # "True"
               /\ due' = due \ PodsOf(s) /\ UNCHANGED faults
            \/ ~(view = "True" /\ <<s, 0>> \in log /\ cr[s].view # "True")
               /\ UNCHANGED <<due, faults>>
    /\ UNCHANGED <<keys, platform, log, edits, moves, recoveries>>

\* Every pass that finds the view formed reads the log of the first pod and,
\* after a recovery, pushes the state; a failed push is logged.
XSiteViewCondition(s) ==
    LET view == IF Site \subseteq SitesView(s) THEN "True" ELSE "False"
        push == view = "True" /\ <<s, 0>> \in log IN
    /\ op[s].pc = "view"
    /\ IF op[s].i.sites
       THEN /\ SetCondition(s, [cr[s] EXCEPT !.view = view],
                            IF view = "True" THEN "end" ELSE "requeue")
            /\ \/ due' = (IF push THEN due \ PodsOf(s) ELSE due) /\ UNCHANGED faults
               \/ /\ push /\ MayFail
                  /\ faults' = faults + 1 /\ UNCHANGED due
       ELSE op' = [op EXCEPT ![s] = Idle] /\ UNCHANGED <<cr, queued, due, faults>>
    /\ UNCHANGED <<keys, platform, log, edits, moves, recoveries>>

Reconcile(s) ==
    \/ XSiteService(s) \/ Configure(s) \/ GossipRouter(s)
    \/ Servers(s) \/ XSiteViewCondition(s)

-----------------------------------------------------------------------------
(***************************************************************************)
(* The platform and the users.                                             *)
(***************************************************************************)

\* The load balancer gets its address some time after the Service.
BalancerReady(s) ==
    /\ svc[s] # Absent /\ svc[s].type = "LoadBalancer" /\ svc[s].ip = 0
    /\ svc' = [svc EXCEPT ![s].ip = moves + 1]
    /\ UNCHANGED <<cr, keys, route, dep, router, sts, servers, log, due, op,
                   queued, bounds>>

\* A load balancer is replaced: nobody watches a Service.
BalancerMoves(s) ==
    /\ moves < MaxMoves /\ Free
    /\ svc[s] # Absent /\ svc[s].ip > 0
    /\ moves' = moves + 1
    /\ svc' = [svc EXCEPT ![s].ip = moves + 2]
    /\ UNCHANGED <<cr, keys, route, dep, router, sts, servers, log, due, op,
                   queued, edits, faults, recoveries>>

\* The Deployment controller starts, replaces and stops the router pod; the
\* Deployment's status changes with it and wakes its owner.
RouterFollows(s) ==
    /\ LET wanted == dep[s] # Absent /\ dep[s].replicas = 1 IN
       \/ /\ wanted
          /\ router[s] # Absent => router[s].tls # dep[s].tls
          /\ router' = [router EXCEPT ![s] = [tls |-> dep[s].tls, ready |-> FALSE]]
       \/ /\ wanted
          /\ router[s] = [tls |-> dep[s].tls, ready |-> FALSE]
          /\ router' = [router EXCEPT ![s].ready = TRUE]
       \/ /\ ~wanted /\ router[s] # Absent
          /\ router' = [router EXCEPT ![s] = Absent]
    /\ queued' = queued \cup {s}
    /\ UNCHANGED <<cr, keys, svc, route, dep, sts, servers, log, due, op, bounds>>

RouterCrashes(s) ==
    /\ MayFail /\ RouterReady(s)
    /\ faults' = faults + 1
    /\ router' = [router EXCEPT ![s].ready = FALSE]
    /\ queued' = queued \cup {s}
    /\ UNCHANGED <<cr, keys, svc, route, dep, sts, servers, log, due, op, edits,
                   moves, recoveries>>

\* The servers roll; a new pod has a new log.
ServersFollow(s) ==
    /\ servers[s] # sts[s]
    /\ servers' = [servers EXCEPT ![s] = sts[s]]
    /\ log' = log \ PodsOf(s)
    /\ queued' = queued \cup {s}
    /\ UNCHANGED <<cr, keys, svc, route, dep, router, sts, due, op, bounds>>

\* A pod restarts on a damaged file store and recovers it.
RecoversFiles(s) ==
    /\ recoveries < MaxRecoveries /\ Free /\ servers[s] # Absent
    /\ recoveries' = recoveries + 1
    /\ \E pod \in PodsOf(s) : log' = log \cup {pod} /\ due' = due \cup {pod}
    /\ queued' = queued \cup {s}
    /\ UNCHANGED <<cr, keys, platform, op, edits, moves, faults>>

\* The informers list everything again, every ten hours.
Resync(s) ==
    /\ op[s] = Idle /\ s \notin queued
    /\ queued' = queued \cup {s}
    /\ UNCHANGED <<cr, keys, platform, log, due, op, bounds>>

\* A call of the pass fails, or the operator crashes; either way it begins
\* again from the queue.
PassFails(s) ==
    /\ MayFail /\ op[s] # Idle
    /\ faults' = faults + 1
    /\ Requeue(s)
    /\ UNCHANGED <<cr, keys, platform, log, due, edits, moves, recoveries>>

\* The webhook: a Route needs encryption.
ValidateSites(spec) == spec.sites /\ spec.expose = "Route" => spec.tls

UserEdits(s) ==
    /\ s \in Edited /\ edits < MaxEdits /\ Free
    /\ edits' = edits + 1
    /\ \E spec \in Edits \ {cr[s].spec} :
         /\ ValidateSites(spec)
         /\ cr' = [cr EXCEPT ![s].spec = spec]
    /\ queued' = queued \cup {s}
    /\ UNCHANGED <<keys, platform, log, due, op, moves, faults, recoveries>>

UserCompletesKeys(s) ==
    /\ cr[s].spec.tls /\ ~keys[s]
    /\ keys' = [keys EXCEPT ![s] = TRUE]
    /\ UNCHANGED <<cr, platform, log, due, op, queued, bounds>>

Platform(s) == BalancerReady(s) \/ RouterFollows(s) \/ ServersFollow(s)

Next == \E s \in Site :
    \/ Reconcile(s) \/ Platform(s) \/ Resync(s)
    \/ BalancerMoves(s) \/ RouterCrashes(s) \/ RecoversFiles(s) \/ PassFails(s)
    \/ UserEdits(s) \/ UserCompletesKeys(s)

Spec ==
    /\ Init /\ [][Next]_vars
    /\ \A s \in Site : /\ WF_vars(Reconcile(s)) /\ WF_vars(Platform(s))
                       /\ WF_vars(Resync(s))

-----------------------------------------------------------------------------
(***************************************************************************)
(* Properties.                                                             *)
(***************************************************************************)

\* The resources describe sites that can be connected, and nothing outside
\* the operators stands in the way: an API lookup needs a router and a
\* reachable Service on the other side, and a Route that was left behind by
\* a site without encryption leads nowhere.
Connectable ==
    /\ \A s \in Site : LET spec == cr[s].spec IN
         /\ spec.sites /\ spec.up
         /\ spec.tls => keys[s]
         /\ spec.router /\ spec.expose = "Route" => s \in Routes
         /\ \A t \in Site : cr[t].spec.tls = spec.tls
         /\ spec.remote = "api" => \A t \in Site \ {s} :
              /\ cr[t].spec.router
              /\ cr[t].spec.expose = "ClusterIP" => t \in route
              /\ t \in route => spec.tls
    /\ \E t \in Site :
         /\ cr[t].spec.router
         /\ \A s \in Site \ {t} : cr[s].spec.remote # "none"

Linked(s) == cr[s].view = "True" /\ SitesView(s) = Site

\* LIVENESS: the sites find each other.  Each operator waits for addresses
\* only the other one can create, yet neither blocks the other; and after a
\* moved balancer, a failure, or an edit that was taken back (the router, the
\* sites or the encryption removed and restored, the cluster stopped and
\* started) both end with servers that see every site and a condition that
\* says so.  An edit after which the sites cannot be connected ends the claim.
SitesConnect == <>[]Connectable => <>[](\A s \in Site : Linked(s))

\* LIVENESS: the state of a site whose first pod recovered its files is pushed
\* to the others, though nothing remembers a push that failed, unless the log
\* that tells of the recovery went with its pod.
RecoveryPushed ==
    <>[]Connectable => <>[](\A s \in Site : <<s, 0>> \notin due \cap log)

\* LIVENESS, of every pod, as the code's own comment has it: if any recovery
\* has occurred the state is pushed.  Only the first pod's log is read: where
\* another pod recovers, this does not hold, and no run checks it.
EveryRecoveryPushed == <>[]Connectable => <>[](due \cap log = {})

\* SAFETY: a failed lookup never costs a connection.  A roll may change the
\* address of a site, but as long as the resource gives a URL for it no
\* roll takes the site out of the servers' configuration.
SitesKept ==
    [][\A s, t \in Site :
         (/\ s # t /\ sts[s] # Absent /\ sts'[s] # Absent
          /\ sts[s].at[t] # Ignored /\ sts'[s].at[t] = Ignored)
         => \/ ~op[s].i.sites \/ op[s].i.remote = "none"]_vars

\* The router pod is the one its Deployment asks for.
RouterSettled(s) ==
    IF dep[s] # Absent /\ dep[s].replicas = 1
    THEN router[s] # Absent /\ router[s].tls = dep[s].tls
    ELSE router[s] = Absent

\* SAFETY: when neither a site's operator nor the Deployment controller has
\* anything left to do, the condition GossipRouterReady of a site that runs a
\* router is true exactly when the pod, with the encryption the resource
\* asks for, is ready: no crash or edit on the way is missed.  (With the
\* typing of the state.)
RouterTruthful ==
    TypeOK /\ \A s \in Site :
       /\ op[s] = Idle /\ s \notin queued
       /\ GossipRouterEnabled(cr[s].spec) /\ RouterSettled(s)
       => ( cr[s].ready = "True" <=>
              cr[s].spec.up /\ router[s] = [tls |-> cr[s].spec.tls, ready |-> TRUE] )
=============================================================================
