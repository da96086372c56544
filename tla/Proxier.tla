-------------------------------- MODULE Proxier --------------------------------
(* The IPVS proxier of a node (pkg/proxy/ipvs): handlers that record changes, *)
(* one synchronisation at a time that turns the maps into virtual and real   *)
(* servers of the kernel, and a timer that removes the real servers that     *)
(* drain.  The kernel keeps its state when the process restarts.             *)
(*                                                                           *)
(* Handlers only write the trackers, which a synchronisation reads in its    *)
(* first two steps, so their steps are taken while it is before those.       *)
EXTENDS ProxyTrackers

CONSTANTS
    InitialImports,    \* the ServiceImports when the node starts
    InitialSlices,     \* the EndpointSlices when the node starts
    InitialServers,    \* the virtual servers an earlier process may have left
    ImportsOf,         \* Service -> the objects a ServiceImport may become
    SlicesOf,          \* Slice -> the objects an EndpointSlice may become
    NoDevice,          \* the dummy device does not exist
    Unread,            \* the addresses of the device could not be listed
    Kinds,             \* the disturbances that happen
    MaxDisturbances    \* how many of them happen

ASSUME ProxierAssumption ==
    /\ InitialImports \in [Service -> Imports \cup {NoObject}]
    /\ InitialSlices \in [Slice -> SliceObjects \cup {NoObject}]
    /\ \A s \in Service : ImportsOf[s] \subseteq Imports \cup {NoObject}
    /\ \A x \in Slice : SlicesOf[x] \subseteq SliceObjects \cup {NoObject}
    /\ \A servers \in InitialServers : \A vs \in DOMAIN servers : \A rs \in DOMAIN servers[vs] :
           servers[vs][rs] \in [weight : {0, 1}, conns : {0, 1}]
    /\ MaxDisturbances \in Nat

VARIABLES
    apiImports,    \* the ServiceImports of the API server
    apiSlices,     \* the EndpointSlices of the API server
    running,       \* the process runs
    synced,        \* the informers whose first list has been handled
    initialSync,   \* the next synchronisation is the first one
    queued,        \* a synchronisation has been asked for
    sync,          \* the synchronisation under way
    ipvs,          \* virtual server -> real server -> [weight, conns]
    bound,         \* the addresses of the dummy device
    rsList,        \* the real servers in graceful termination
    reborn,        \* those whose virtual server was deleted meanwhile, or whose weight was reset
    budget         \* disturbances left

kernelVars == <<ipvs, bound>>
apiVars == <<apiImports, apiSlices>>
vars == <<trackerVars, apiVars, running, synced, initialSync, queued, sync, kernelVars, rsList,
          reborn, budget>>

Idle == [at |-> "idle"]

(* The virtual server CanUseIPVSProxier tries *)
Probe == <<"198.51.100.0", 20000, "TCP">>

Disturb(kind) == budget > 0 /\ kind \in Kinds /\ budget' = budget - 1

initialized == synced = {"imports", "slices"}

Without(f, k) == [x \in DOMAIN f \ {k} |-> f[x]]

With(f, k, v) == [x \in DOMAIN f \cup {k} |-> IF x = k THEN v ELSE f[x]]

Init ==
    /\ TrackerInit
    /\ apiImports = InitialImports
    /\ apiSlices = InitialSlices
    /\ running = TRUE
    /\ synced = {}
    /\ initialSync = TRUE
    /\ queued = FALSE
    /\ sync = Idle
    /\ ipvs \in InitialServers
    /\ bound = IF ipvs = Empty THEN NoDevice ELSE {vs[1] : vs \in DOMAIN ipvs}
    /\ rsList = {}
    /\ reborn = {}
    /\ budget = MaxDisturbances

-----------------------------------------------------------------------------
(* The environment: the objects change, and clients connect and disconnect.  *)
(* No two imports of the API server have one address at a time.              *)
Address(si) == IF si = NoObject THEN NoIP ELSE si.ip

ImportChanges ==
    /\ Disturb("import")
    /\ \E s \in Service : \E si \in ImportsOf[s] \ {apiImports[s]} :
           /\ si # NoObject => \A u \in Service \ {s} : Address(apiImports[u]) # si.ip
           /\ apiImports' = [apiImports EXCEPT ![s] = si]
    /\ UNCHANGED <<trackerVars, apiSlices, running, synced, initialSync, queued, sync, kernelVars,
                   rsList, reborn>>

SliceChanges ==
    /\ Disturb("slice")
    /\ \E x \in Slice : \E slice \in SlicesOf[x] \ {apiSlices[x]} :
           apiSlices' = [apiSlices EXCEPT ![x] = slice]
    /\ UNCHANGED <<trackerVars, apiImports, running, synced, initialSync, queued, sync, kernelVars,
                   rsList, reborn>>

(* A new connection only goes to a real server that has a weight.  Only TCP  *)
(* connections are waited for (IsRsGracefulTerminationNeeded).               *)
Connections(vs, rs) ==
    /\ vs[3] = "TCP"
    /\ \/ ipvs[vs][rs].conns = 0 /\ ipvs[vs][rs].weight > 0
       \/ ipvs[vs][rs].conns = 1
    /\ ipvs' = [ipvs EXCEPT ![vs][rs].conns = 1 - @]
    /\ UNCHANGED <<trackerVars, apiVars, running, synced, initialSync, queued, sync, bound, rsList,
                   reborn, budget>>

-----------------------------------------------------------------------------
(* The informers and the handlers. *)
BeforeCheckout == running /\ sync.at \in {"idle", "endpoints"}

HandleImport(s) ==
    /\ BeforeCheckout
    /\ imports[s] # apiImports[s]
    /\ OnServiceImport(s, apiImports[s])
    /\ queued' = (queued \/ (initialized /\ \E u \in Service : items'[u] # NoObject))
    /\ UNCHANGED <<apiVars, running, synced, initialSync, sync, kernelVars, rsList, reborn, budget>>

HandleSlice(x) ==
    /\ BeforeCheckout
    /\ slices[x] # apiSlices[x]
    /\ OnEndpointSlice(x, apiSlices[x])
    /\ queued' = (queued \/ (initialized /\ pending' # pending))
    /\ UNCHANGED <<apiVars, running, synced, initialSync, sync, kernelVars, rsList, reborn, budget>>

(* The first list of an informer has been handled: the handler runs          *)
(* syncProxyRules itself.                                                    *)
OnSynced(informer) ==
    /\ BeforeCheckout
    /\ informer \notin synced
    /\ IF informer = "imports" THEN imports = apiImports ELSE slices = apiSlices
    /\ synced' = synced \cup {informer}
    /\ queued' = TRUE
    /\ UNCHANGED <<trackerVars, apiVars, running, initialSync, sync, kernelVars, rsList, reborn,
                   budget>>

-----------------------------------------------------------------------------
(* syncProxyRules, until it has read the maps.  It is asked for, or its      *)
(* period is over.                                                           *)
SyncRefused ==
    /\ running /\ sync = Idle /\ ~initialized
    /\ queued' = FALSE
    /\ UNCHANGED <<trackerVars, apiVars, running, synced, initialSync, sync, kernelVars, rsList,
                   reborn, budget>>

SyncBeginsUnready ==
    /\ running /\ sync = Idle
    /\ SyncServices
    /\ queued' = FALSE
    /\ sync' = [at |-> "endpoints"]
    /\ UNCHANGED <<apiVars, running, synced, initialSync, kernelVars, rsList, reborn, budget>>

SyncBegins ==
    /\ running /\ sync = Idle /\ initialized
    /\ SyncServices
    /\ queued' = FALSE
    /\ sync' = [at |-> "endpoints"]
    /\ UNCHANGED <<apiVars, running, synced, initialSync, kernelVars, rsList, reborn, budget>>

SyncReads ==
    /\ sync.at = "endpoints"
    /\ SyncEndpoints
    /\ sync' = [at |-> "device"]
    /\ UNCHANGED <<apiVars, running, synced, initialSync, queued, kernelVars, rsList, reborn, budget>>

(* EnsureDummyDevice and ensureIPSet, whose failure ends the synchronisation, *)
(* and GetLocalAddresses, whose failure does not                             *)
Begun(was) ==
    sync' = [at |-> "ports", active |-> {}, was |-> was,
             todo |-> UNION {{<<s, p>> : p \in DOMAIN svcPortMap[s]} : s \in Service}]

EnsureDummyDevice ==
    /\ sync.at = "device"
    /\ \/ /\ bound' = IF bound = NoDevice THEN {} ELSE bound
          /\ \/ Begun(bound') /\ UNCHANGED budget
             \/ Begun(Unread) /\ Disturb("failure")
          /\ UNCHANGED initialSync
       \/ /\ Disturb("failure")
          /\ sync' = Idle
          /\ initialSync' = FALSE
          /\ UNCHANGED bound
    /\ UNCHANGED <<trackerVars, apiVars, running, synced, queued, ipvs, rsList, reborn>>

-----------------------------------------------------------------------------
(* One port: syncService, and syncEndpoint up to its loops.  A failure at    *)
(* any of the calls leaves the rest of the port out; the virtual server      *)
(* counts as active once its address is bound.                               *)
VirtualServer(q) ==
    <<svcPortMap[q[1]][q[2]].ip, svcPortMap[q[1]][q[2]].port, svcPortMap[q[1]][q[2]].proto>>

RealServers(eps) == {<<e.addr, e.num>> : e \in eps}

Added(vs) == IF vs \in DOMAIN ipvs THEN ipvs ELSE With(ipvs, vs, Empty)

PortLeft(q, active) == sync' = [sync EXCEPT !.todo = @ \ {q}, !.active = @ \cup active]

syncService(q) ==
    LET vs     == VirtualServer(q)
        toBind == sync.was = Unread \/ vs[1] \notin sync.was
    IN  /\ sync.at = "ports"
        /\ \/ PortLeft(q, {}) /\ ipvs' \in (IF toBind THEN {ipvs, Added(vs)} ELSE {ipvs})
              /\ Disturb("failure") /\ UNCHANGED bound
           \/ PortLeft(q, {vs}) /\ ipvs' = Added(vs) /\ bound' = bound \cup {vs[1]}
              /\ Disturb("failure")
           \/ /\ q[2] \notin DOMAIN endpointsMap[q[1]]
              /\ PortLeft(q, {vs}) /\ ipvs' = Added(vs) /\ bound' = bound \cup {vs[1]}
              /\ UNCHANGED budget
           \/ /\ q[2] \in DOMAIN endpointsMap[q[1]]
              /\ ipvs' = Added(vs) /\ bound' = bound \cup {vs[1]} /\ UNCHANGED budget
              /\ \E new \in {RealServers(CategorizeEndpoints(endpointsMap[q[1]][q[2]]))} :
                     sync' = [at |-> "create", todo |-> sync.todo \ {q}, was |-> sync.was,
                              active |-> sync.active \cup {vs}, vs |-> vs, left |-> new, new |-> new,
                              cur |-> [rs \in DOMAIN ipvs'[vs] |-> ipvs'[vs][rs].weight]]
        /\ UNCHANGED <<trackerVars, apiVars, running, synced, initialSync, queued, rsList, reborn>>

-----------------------------------------------------------------------------
(* The loops of syncEndpoint, one real server at a time *)
Turn == CHOOSE rs \in sync.left : TRUE

Here == <<sync.vs, Turn>>

Done(at) == sync' = [sync EXCEPT !.at = at, !.left = @ \ {Turn}]

New == [weight |-> 1, conns |-> 0]

(* A real server that is there: on the first synchronisation its weight is   *)
(* reset if any weight differs; if it drains it is taken out and put back.   *)
CreateExisting ==
    /\ sync.at = "create" /\ sync.left # {} /\ Turn \in DOMAIN sync.cur
    /\ IF initialSync /\ (\E rs \in DOMAIN sync.cur : sync.cur[rs] # 1) /\ Turn \in DOMAIN ipvs[sync.vs]
       THEN \/ ipvs' = [ipvs EXCEPT ![sync.vs][Turn].weight = 1] /\ UNCHANGED budget
            \/ Disturb("failure") /\ UNCHANGED ipvs
       ELSE UNCHANGED <<ipvs, budget>>
    /\ IF Here \in rsList THEN sync' = [sync EXCEPT !.at = "move"] ELSE Done("create")
    /\ UNCHANGED <<trackerVars, apiVars, running, synced, initialSync, queued, bound, rsList, reborn>>

(* MoveRSOutofGracefulDeleteList, up to its last statement *)
MoveRSOutofGracefulDeleteList ==
    /\ sync.at = "move"
    /\ \/ /\ Turn \in DOMAIN ipvs[sync.vs]
          /\ ipvs' = [ipvs EXCEPT ![sync.vs] = Without(@, Turn)]
          /\ sync' = [sync EXCEPT !.at = "readd"]
          /\ UNCHANGED <<reborn, budget>>
       \/ /\ Turn \in DOMAIN ipvs[sync.vs]
          /\ Disturb("failure")
          /\ reborn' = reborn \cup {item \in {Here} \cap rsList : ipvs[sync.vs][Turn].weight # 0}
          /\ Done("create")
          /\ UNCHANGED ipvs
       \/ /\ Turn \notin DOMAIN ipvs[sync.vs]
          /\ Done("create")
          /\ UNCHANGED <<ipvs, reborn, budget>>
    /\ UNCHANGED <<trackerVars, apiVars, running, synced, initialSync, queued, bound, rsList>>

AddRealServer ==
    /\ \/ sync.at = "readd"
       \/ sync.at = "create" /\ sync.left # {} /\ Turn \notin DOMAIN sync.cur
    /\ rsList' = IF sync.at = "readd" THEN rsList \ {Here} ELSE rsList
    /\ reborn' = reborn \cap rsList'
    /\ \/ /\ Turn \notin DOMAIN ipvs[sync.vs]
          /\ ipvs' = [ipvs EXCEPT ![sync.vs] = With(@, Turn, New)]
          /\ UNCHANGED budget
       \/ Disturb("failure") /\ UNCHANGED ipvs
    /\ Done("create")
    /\ UNCHANGED <<trackerVars, apiVars, running, synced, initialSync, queued, bound>>

DeleteOld ==
    /\ sync.at = "create" /\ sync.left = {}
    /\ sync' = [sync EXCEPT !.at = "delete", !.left = DOMAIN sync.cur \ sync.new]
    /\ UNCHANGED <<trackerVars, apiVars, running, synced, initialSync, queued, kernelVars, rsList,
                   reborn, budget>>

-----------------------------------------------------------------------------
(* graceful_termination.go *)
DrainingUdp(vs, rs) == vs[3] # "TCP" /\ ipvs[vs][rs].conns # 0

Draining(vs, rs) == vs[3] = "TCP" /\ ipvs[vs][rs].conns # 0

Removed(vs, rs) == [ipvs EXCEPT ![vs] = Without(@, rs)]

DrainAtFullWeight(vs, rs) == ipvs

Drain(vs, rs) == [ipvs EXCEPT ![vs][rs].weight = 0]

(* GracefulDeleteRS, for a real server that is not yet terminating: delete   *)
(* it, or give it the weight 0 and list it.  Whatever deleteRsFunc fails     *)
(* with, the weight is tried next.                                           *)
GracefulDeleteRS ==
    /\ sync.at = "delete" /\ sync.left # {}
    /\ \/ /\ Here \in rsList \/ Turn \notin DOMAIN ipvs[sync.vs]
          /\ UNCHANGED <<ipvs, rsList, budget>>
       \/ /\ Here \notin rsList /\ Turn \in DOMAIN ipvs[sync.vs]
          /\ \/ /\ ~Draining(sync.vs, Turn)
                /\ ipvs' = Removed(sync.vs, Turn)
                /\ UNCHANGED <<rsList, budget>>
             \/ /\ IF Draining(sync.vs, Turn) THEN UNCHANGED budget ELSE Disturb("failure")
                /\ ipvs' = Drain(sync.vs, Turn)
                /\ rsList' = rsList \cup {Here}
             \/ Disturb("failure") /\ UNCHANGED <<ipvs, rsList>>
    /\ Done("delete")
    /\ UNCHANGED <<trackerVars, apiVars, running, synced, initialSync, queued, bound, reborn>>

PortDone ==
    /\ sync.at = "delete" /\ sync.left = {}
    /\ sync' = [at |-> "ports", todo |-> sync.todo, active |-> sync.active, was |-> sync.was]
    /\ UNCHANGED <<trackerVars, apiVars, running, synced, initialSync, queued, kernelVars, rsList,
                   reborn, budget>>

(* tryDeleteRs, for one real server of the list: it goes when it has no      *)
(* connection left, and the entry of one that is not there goes.  The entry  *)
(* of one whose virtual server is not there stays: listing fails.            *)
tryDeleteRs(vs, rs) ==
    /\ running /\ <<vs, rs>> \in rsList /\ vs \in DOMAIN ipvs
    /\ rs \in DOMAIN ipvs[vs] => ~Draining(vs, rs)
    /\ ipvs' = IF rs \in DOMAIN ipvs[vs] THEN Removed(vs, rs) ELSE ipvs
    /\ rsList' = rsList \ {<<vs, rs>>}
    /\ reborn' = reborn \ {<<vs, rs>>}
    /\ UNCHANGED <<trackerVars, apiVars, running, synced, initialSync, queued, sync, bound, budget>>

-----------------------------------------------------------------------------
(* superfluousAddresses *)
SuperfluousReversed == IF sync.was = Unread THEN {} ELSE {vs[1] : vs \in sync.active} \ sync.was

Superfluous == IF sync.was = Unread THEN {} ELSE sync.was \ {vs[1] : vs \in sync.active}

(* The end of syncProxyRules: addresses and virtual servers that no port     *)
(* took go, except those whose removal fails.                                *)
cleanLegacyService ==
    LET legacy == DOMAIN ipvs \ sync.active
    IN  /\ sync.at = "ports" /\ sync.todo = {}
        /\ \E addresses \in SUBSET Superfluous, servers \in SUBSET legacy :
               /\ IF addresses = Superfluous /\ servers = legacy THEN UNCHANGED budget
                  ELSE Disturb("failure")
               /\ bound' = bound \ addresses
               /\ ipvs' = [vs \in DOMAIN ipvs \ servers |-> ipvs[vs]]
               /\ reborn' = reborn \cup {item \in rsList : item[1] \in servers}
        /\ sync' = Idle
        /\ initialSync' = FALSE
        /\ UNCHANGED <<trackerVars, apiVars, running, synced, queued, rsList>>

-----------------------------------------------------------------------------
(* The process stops and starts; between, --cleanup may run.  A start on a   *)
(* node without virtual servers probes the kernel with one; one that cannot  *)
(* be deleted ends the start.                                                *)
Crash ==
    /\ running
    /\ Disturb("crash")
    /\ running' = FALSE
    /\ synced' = {} /\ initialSync' = TRUE /\ queued' = FALSE
    /\ sync' = Idle /\ rsList' = {} /\ reborn' = {}
    /\ TrackersRestart
    /\ UNCHANGED <<apiVars, kernelVars>>

CanUseIPVSProxier ==
    /\ ~running
    /\ \/ running' = TRUE /\ UNCHANGED <<ipvs, budget>>
       \/ /\ ipvs = Empty /\ Disturb("failure")
          /\ ipvs' \in {ipvs, With(Empty, Probe, Empty)}
          /\ UNCHANGED running
    /\ UNCHANGED <<trackerVars, apiVars, synced, initialSync, queued, sync, bound, rsList, reborn>>

CleanupLeftovers ==
    /\ ~running
    /\ Disturb("cleanup")
    /\ ipvs' \in {ipvs, Empty}
    /\ bound' \in {bound, NoDevice}
    /\ UNCHANGED <<trackerVars, apiVars, running, synced, initialSync, queued, sync, rsList, reborn>>

-----------------------------------------------------------------------------
Environment ==
    \/ ImportChanges \/ SliceChanges
    \/ \E vs \in DOMAIN ipvs : \E rs \in DOMAIN ipvs[vs] : Connections(vs, rs)

Handler ==
    \/ \E s \in Service : HandleImport(s)
    \/ \E x \in Slice : HandleSlice(x)
    \/ \E informer \in {"imports", "slices"} : OnSynced(informer)

syncProxyRules ==
    \/ SyncRefused \/ SyncBegins \/ SyncReads \/ EnsureDummyDevice
    \/ sync.at = "ports" /\ \E q \in sync.todo : syncService(q)
    \/ CreateExisting \/ MoveRSOutofGracefulDeleteList \/ AddRealServer
    \/ DeleteOld \/ GracefulDeleteRS \/ PortDone \/ cleanLegacyService

Timer == \E item \in rsList : tryDeleteRs(item[1], item[2])

Process == Crash \/ CanUseIPVSProxier \/ CleanupLeftovers

Next == Environment \/ Handler \/ syncProxyRules \/ Timer \/ Process

(* The informers deliver, the runner calls syncProxyRules at least once a    *)
(* period, and a stopped process is started again.  Nothing is asked of the  *)
(* clients or of the timer.  The handlers never wait for a synchronisation:  *)
(* only this model takes their steps between two, hence their strong         *)
(* fairness.                                                                 *)
Fairness ==
    /\ SF_vars(Handler)
    /\ WF_vars(syncProxyRules)
    /\ WF_vars(CanUseIPVSProxier)

Spec == Init /\ [][Next]_vars /\ Fairness

-----------------------------------------------------------------------------
(* The state is that of the proxier and of the kernel. *)
ProxierTypeOK ==
    /\ TypeOK
    /\ synced \subseteq {"imports", "slices"}
    /\ sync.at \in {"idle", "endpoints", "device", "ports", "create", "move", "readd", "delete"}
    /\ sync.at # "idle" => running /\ initialized
    /\ \A vs \in DOMAIN ipvs : \A rs \in DOMAIN ipvs[vs] :
           ipvs[vs][rs] \in [weight : {0, 1}, conns : {0, 1}]
    /\ reborn \subseteq rsList
    /\ budget \in 0..MaxDisturbances

(* The timer only ever takes away what drains: a real server in the          *)
(* termination list has the weight 0, unless its virtual server was deleted  *)
(* and made again after it was listed (the list keeps the entry,             *)
(* graceful_termination.go:163), it is just being taken out of the list, or  *)
(* the first synchronisation reset its weight (proxier.go:1502) and then     *)
(* could not take it out.                                                    *)
TerminationSound ==
    \A item \in rsList :
        /\ item[1] \in DOMAIN ipvs
        /\ item[1] \in DOMAIN ipvs => item[2] \in DOMAIN ipvs[item[1]]
        => \/ ipvs[item[1]][item[2]].weight = 0
           \/ item \in reborn
           \/ sync.at = "move" /\ item = Here

(* An established TCP connection is never cut while its service exists,      *)
(* except when the endpoint it is with comes back while it drains            *)
(* (MoveRSOutofGracefulDeleteList): endpoints that go are drained.           *)
ConnectionsKept ==
    [][\A vs \in DOMAIN ipvs : \A rs \in DOMAIN ipvs[vs] :
           /\ vs \in DOMAIN ipvs' /\ vs[3] = "TCP" /\ ipvs[vs][rs].conns # 0
           /\ rs \notin DOMAIN ipvs'[vs]
           => sync.at = "move" /\ <<vs, rs>> = Here]_vars

Ports == UNION {{<<s, p>> : p \in DOMAIN svcPortMap[s]} : s \in Service}

Live(vs) == {rs \in DOMAIN ipvs[vs] : ipvs[vs][rs].weight > 0}

EndpointsOf(q) ==
    IF q[2] \in DOMAIN endpointsMap[q[1]]
    THEN RealServers(CategorizeEndpoints(endpointsMap[q[1]][q[2]])) ELSE {}

Heard ==
    /\ imports = apiImports /\ slices = apiSlices
    /\ \A s \in Service : items[s] = NoObject
    /\ \A x \in Slice : pending[x] = NoObject

Converged ==
    /\ Heard
    /\ DOMAIN ipvs = {VirtualServer(q) : q \in Ports}
    /\ bound = {VirtualServer(q)[1] : q \in Ports}
    /\ \A q \in Ports : q[2] \in DOMAIN endpointsMap[q[1]] =>
           /\ Live(VirtualServer(q)) = EndpointsOf(q)
           /\ \A rs \in DOMAIN ipvs[VirtualServer(q)] \ EndpointsOf(q) : <<VirtualServer(q), rs>> \in rsList

(* An endpoint that was draining when the process stopped and has come back: *)
(* only the first synchronisation after a start resets weights, and it may   *)
(* end before it gets there.                                                 *)
WeightLost ==
    /\ ~initialSync
    /\ \E vs \in DOMAIN ipvs : \E rs \in DOMAIN ipvs[vs] :
           ipvs[vs][rs].weight = 0 /\ <<vs, rs>> \notin rsList

(* An endpoint that takes connections and left before its old entry in the   *)
(* termination list did: it is taken to be draining already.                 *)
TakenForDraining ==
    \E item \in reborn : item[1] \in DOMAIN ipvs /\ item[2] \in Live(item[1])

(* Once nothing changes any more, the kernel has a virtual server and a      *)
(* bound address for each service port and nothing else, and each balances   *)
(* over the ready endpoints of its port exactly, whatever calls failed, and  *)
(* whenever the process restarted or the timer ran before (syncProxyRules).  *)
(* Three things stay wrong: a weight lost with the first synchronisation, a  *)
(* server taken for draining that clients keep busy, and a port that has no  *)
(* endpoints, which is left as it is (proxier.go:1435).                      *)
KernelConverges == <>[](Converged \/ WeightLost \/ TakenForDraining)
=============================================================================
