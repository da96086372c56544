-------------------------- MODULE InterClusterTunnel --------------------------
(***************************************************************************)
(* The tunnels between clusters.  The elected cnf pod of every cluster, its*)
(* agent, publishes a Peer with its WireGuard key in the hub and connects  *)
(* to the Peers it hears of.  The hub's agent also gives a cluster that has*)
(* none its block of the tunnel network: it puts the block into the Peer it*)
(* got from its lister, connects, and then stores the Peer.                *)
(*                                                                         *)
(* Agents crash and return with a new key, informers lag, API, device and  *)
(* route calls fail, and clusters leave.                                   *)
(***************************************************************************)
EXTENDS CIDRBlocks, Sequences

CONSTANTS
    Child,            \* the clusters besides the hub
    Public,           \* those with a public endpoint
    SpecCIDR,         \* the CIDR each child is configured with, or NoCIDR
    Network,          \* the hub's CIDR, the network to be divided
    Settled,          \* CIDRs of further Peers, which stay as they are
    Started,          \* the clusters whose agents run at the start
    Disturbed,        \* the clusters whose agents disturbances hit
    Kinds,            \* the kinds of disturbance that happen
    MaxDisturbances   \* bound: how many of them

Hub     == "hub"
Cluster == Child \cup {Hub}
Private == Child \ Public
Allotted == {c \in Private : SpecCIDR[c] = NoCIDR}    \* whose blocks the hub chooses
Bits    == divideTunnelNetwork(Network.bits)

\* The hub's CIDR is the address of a network, which its blocks divide.
ASSUME NetworkAssumption ==
    /\ Hub \notin Child /\ Public \subseteq Child
    /\ Network \in [ip : Nat, bits : 0 .. 24] /\ Width(Bits) \in Nat \ {0}
    /\ Bits # 0 =>
          /\ 2 ^ (32 - Bits) \in Nat
          /\ 2 ^ (Bits - Network.bits) \in Nat \ {0}
          /\ Width(Network.bits) = 2 ^ (Bits - Network.bits) * Width(Bits)
          /\ Network.ip = (Network.ip \div Width(Network.bits)) * Width(Network.bits)

CIDR == [ip : Nat, bits : {-1} \cup (0 .. 24)]

ASSUME StartAssumption ==
    /\ SpecCIDR \in [Child -> CIDR]
    /\ Started \subseteq Cluster /\ MaxDisturbances \in Nat

Absent  == [key |-> 0, cidr |-> NoCIDR]        \* no such Peer
Nothing == [at |-> 0, obj |-> Absent]

VARIABLES
    log,        \* per cluster, the versions its Peer has had in the hub
    up,         \* what the agent of a cluster is doing
    key,        \* its current WireGuard key, the number of its starts
    seen,       \* the version of its own Peer an agent found when it registered
    cache,      \* per agent, its lister: version and content of every Peer
    queue,      \* per agent, its work queue
    writing,    \* the Peers that handlers of the hub are about to store
    conn,       \* per agent, interConnections: the key a cluster was connected with
    dev,        \* per agent, the allowed CIDRs of its WireGuard device and their keys
    routes,     \* per agent, the routes into the device
    annotated,  \* per agent, the node CIDR annotation the handler wrote on its own pod
    known,      \* per child, the cluster CIDR its agent read from the hub
    dropped,    \* history: the hub's lister lost a block that was not stored
    budget      \* disturbances that may still happen

agentVars == <<cache, queue, conn, dev, routes, known>>
vars == <<log, up, key, seen, writing, annotated, dropped, budget, agentVars>>

-----------------------------------------------------------------------------
API(c) == IF log[c] = << >> THEN Absent ELSE log[c][Len(log[c])]

Running(a) == up[a] = "running"

Disturb(kind) == kind \in Kinds /\ budget > 0 /\ budget' = budget - 1

-----------------------------------------------------------------------------
(* The enqueue filter: a peer that can be dialled is for the children, the *)
(* others are for the hub and for children that can be dialled.            *)
Wanted(a, c) == IF c = Hub \/ c \in Public THEN a # Hub ELSE a = Hub \/ a \in Public

\* What an agent reads from its lister: the rest of it makes no difference and is left out.
Read(a, c) == Wanted(a, c) \/ (a = Hub /\ c \in Child)

ApplyPeerConfig(a) ==
    [key |-> key[a], cidr |-> IF a = Hub THEN Network ELSE SpecCIDR[a]]

\* The agents of Started have published their Peers and heard of each other.
Init ==
    /\ key = [c \in Cluster |-> IF c \in Started THEN 1 ELSE 0]
    /\ log = [c \in Cluster |-> IF c \in Started THEN <<ApplyPeerConfig(c)>> ELSE << >>]
    /\ up = [c \in Cluster |-> IF c \in Started THEN "running" ELSE "down"]
    /\ seen = [c \in Cluster |-> 0]
    /\ cache = [a \in Cluster |-> [c \in Cluster |->
          IF a \in Started /\ c \in Started /\ Read(a, c)
          THEN [at |-> 1, obj |-> ApplyPeerConfig(c)] ELSE Nothing]]
    /\ queue = [a \in Cluster |-> {c \in Started : a \in Started /\ Wanted(a, c)}]
    /\ writing = [c \in Cluster |-> Nothing]
    /\ conn = [a \in Cluster |-> [c \in Cluster |-> 0]]
    /\ dev = [a \in Cluster |-> {}] /\ routes = [a \in Cluster |-> {}]
    /\ annotated = [a \in Cluster |-> NoCIDR]
    /\ known = [a \in Cluster |-> NoCIDR]
    /\ dropped = FALSE /\ budget = MaxDisturbances

-----------------------------------------------------------------------------
\* A new pod has a new device, without peers and routes, and a new key.
NewTunnel(a) ==
    /\ up[a] = "down"
    /\ up' = [up EXCEPT ![a] = "starting"]
    /\ key' = [key EXCEPT ![a] = @ + 1]
    /\ conn' = [conn EXCEPT ![a] = [c \in Cluster |-> 0]]
    /\ dev' = [dev EXCEPT ![a] = {}] /\ routes' = [routes EXCEPT ![a] = {}]
    /\ cache' = [cache EXCEPT ![a] = [c \in Cluster |-> Nothing]]
    /\ queue' = [queue EXCEPT ![a] = {}]
    /\ known' = [known EXCEPT ![a] = NoCIDR]
    /\ writing' = IF a = Hub THEN [c \in Cluster |-> Nothing] ELSE writing
    /\ UNCHANGED <<log, seen, annotated, dropped, budget>>

\* The Peer is stored, the informer lists and the controller starts.
Published(a) ==
    /\ log' = [log EXCEPT ![a] = Append(@, ApplyPeerConfig(a))]
    /\ up' = [up EXCEPT ![a] = "running"]
    /\ LET Peers == {c \in Cluster : c = a \/ API(c) # Absent}
       IN  /\ cache' = [cache EXCEPT ![a] = [c \in Cluster |->
                  CASE ~Read(a, c) -> Nothing
                    [] c = a       -> [at |-> Len(log[c]) + 1, obj |-> ApplyPeerConfig(a)]
                    [] OTHER       -> [at |-> Len(log[c]), obj |-> API(c)]]]
           /\ queue' = [queue EXCEPT ![a] = {c \in Peers : Wanted(a, c)}]
    /\ UNCHANGED <<key, writing, conn, dev, routes, annotated, known, dropped>>

\* ApplyPeerWithRetry creates the Peer, or finds it and updates what it found.
CreatePeer(a) ==
    /\ up[a] = "starting" /\ API(a) = Absent
    /\ Published(a)
    /\ UNCHANGED <<seen, budget>>

GetPeer(a) ==
    /\ up[a] = "starting" /\ API(a) # Absent
    /\ up' = [up EXCEPT ![a] = "updating"]
    /\ seen' = [seen EXCEPT ![a] = Len(log[a])]
    /\ UNCHANGED <<log, key, writing, annotated, dropped, budget, agentVars>>

UpdatePeer(a) ==
    /\ up[a] = "updating" /\ seen[a] = Len(log[a])
    /\ Published(a)
    /\ UNCHANGED <<seen, budget>>

\* A conflict or a failed call is not retried: Start returns, nothing runs.
Refused(a) ==
    /\ up' = [up EXCEPT ![a] = "refused"]
    /\ UNCHANGED <<log, key, seen, writing, annotated, dropped, agentVars>>

PeerConflicts(a) ==
    /\ up[a] = "updating" /\ seen[a] # Len(log[a])
    /\ Refused(a) /\ UNCHANGED budget

PeerFails(a) ==
    /\ up[a] \in {"starting", "updating"}
    /\ Disturb("failure") /\ Refused(a)

-----------------------------------------------------------------------------
\* Mutant: only a Peer that is new is enqueued.
DeliverAdded(a, c) ==
    /\ Running(a) /\ Read(a, c) /\ cache[a][c].at < Len(log[c])
    /\ LET at == cache[a][c].at + 1
       IN  cache' = [cache EXCEPT ![a][c] = [at |-> at, obj |-> log[c][at]]]
    /\ queue' = IF Wanted(a, c) /\ cache[a][c].at = 0
                THEN [queue EXCEPT ![a] = @ \cup {c}] ELSE queue
    /\ UNCHANGED <<log, up, key, seen, writing, conn, dev, routes, annotated, known,
                   dropped, budget>>

\* The informer puts the next version of a Peer into the lister.
Deliver(a, c) ==
    /\ Running(a) /\ Read(a, c) /\ cache[a][c].at < Len(log[c])
    /\ LET at == cache[a][c].at + 1
       IN  cache' = [cache EXCEPT ![a][c] = [at |-> at, obj |-> log[c][at]]]
    /\ queue' = IF Wanted(a, c) THEN [queue EXCEPT ![a] = @ \cup {c}] ELSE queue
    /\ UNCHANGED <<log, up, key, seen, writing, conn, dev, routes, annotated, known,
                   dropped, budget>>

\* The watch is lost: the informer lists again, replaces all it held and tells of the
\* versions it had not seen.  A child, which changes nothing in its lister, just catches up.
Relist ==
    /\ Running(Hub) /\ Disturb("relist")
    /\ cache' = [cache EXCEPT ![Hub] = [c \in Cluster |->
                    IF c \in Child THEN [at |-> Len(log[c]), obj |-> API(c)] ELSE Nothing]]
    /\ queue' = [queue EXCEPT ![Hub] = @ \cup {c \in Child :
                    Wanted(Hub, c) /\ cache[Hub][c].at # Len(log[c])}]
    /\ dropped' = (dropped \/ \E c \in Child :
                    cache[Hub][c].at = Len(log[c]) /\ cache[Hub][c].obj # API(c))
    /\ UNCHANGED <<log, up, key, seen, writing, conn, dev, routes, annotated, known>>

existingCIDR == Settled \cup {cache[Hub][c].obj.cidr : c \in Child}

\* Mutant: the hub allocates whether or not the Peer has a block.
AllocatedAlways(a, c) ==
    LET obj == cache[a][c].obj
    IN  IF a = Hub
        THEN [obj EXCEPT !.cidr = FindTunnelAvailableCIDR(Network, existingCIDR)]
        ELSE obj

\* The Peer the handler works with; at the hub it has a block from here on.
Allocated(a, c) ==
    LET obj == cache[a][c].obj
    IN  IF a = Hub /\ obj.cidr = NoCIDR
        THEN [obj EXCEPT !.cidr = FindTunnelAvailableCIDR(Network, existingCIDR)]
        ELSE obj

Handling(a, c) ==
    Running(a) /\ c \in queue[a] /\ (a = Hub => writing[c] = Nothing)

\* Mutant: a Peer that is gone is passed over.
HandleGoneSkipped(a, c) ==
    /\ Handling(a, c) /\ cache[a][c].obj = Absent
    /\ queue' = [queue EXCEPT ![a] = @ \ {c}]
    /\ UNCHANGED <<log, up, key, seen, writing, annotated, dropped, budget, cache, conn, dev,
                   routes, known>>

\* A Peer that is gone is recycled through a nil pointer: the process ends.
HandleGone(a, c) ==
    /\ Handling(a, c) /\ cache[a][c].obj = Absent
    /\ up' = [up EXCEPT ![a] = "down"]
    /\ UNCHANGED <<log, key, seen, writing, annotated, dropped, budget, agentVars>>

\* AddInterClusterTunnel: not to itself, and not when the same key is recorded.
Connects(a, c, peer) == a # c /\ conn[a][c] # peer.key

Tunnel(c, peer) == [of |-> c, key |-> peer.key, cidr |-> peer.cidr]

Disconnected(a, c) == {d \in dev[a] : d.of # c \/ d.key # conn[a][c]}

\* The device moves an allowed CIDR from the peer that had it.
AddInterClusterTunnel(a, c, peer) ==
    IF Connects(a, c, peer)
    THEN /\ conn' = [conn EXCEPT ![a][c] = peer.key]
         /\ dev' = [dev EXCEPT ![a] =
                {d \in Disconnected(a, c) : d.cidr # peer.cidr}
                    \cup {Tunnel(c, peer)}]
    ELSE UNCHANGED <<conn, dev>>

\* Mutant: the handler works on a copy of what the lister returned.
PrepareCopy(a, c, peer) ==
    /\ Handling(a, c) /\ cache[a][c].obj # Absent /\ peer.cidr # NoCIDR
    /\ annotated' = IF a # Hub /\ c # Hub
                    THEN [annotated EXCEPT ![a] = peer.cidr] ELSE annotated
    /\ UNCHANGED <<log, up, key, seen, known, dropped, cache>>

\* The part before the calls on the device; a child waits for a block.
Prepare(a, c, peer) ==
    /\ Handling(a, c) /\ cache[a][c].obj # Absent /\ peer.cidr # NoCIDR
    /\ cache' = [cache EXCEPT ![a][c].obj = peer]
    /\ annotated' = IF a # Hub /\ c # Hub
                    THEN [annotated EXCEPT ![a] = peer.cidr] ELSE annotated
    /\ UNCHANGED <<log, up, key, seen, known, dropped>>

\* Mutant: a new block is stored before the tunnel is configured.
HandleStoresFirst(a, c) ==
    LET peer   == Allocated(a, c)
        noCIDR == peer # cache[a][c].obj
    IN  /\ Prepare(a, c, peer)
        /\ IF noCIDR THEN UNCHANGED <<conn, dev>> ELSE AddInterClusterTunnel(a, c, peer)
        /\ routes' = [routes EXCEPT ![a] = @ \cup {peer.cidr}]
        /\ queue' = [queue EXCEPT ![a] = @ \ {c}]
        /\ writing' = IF noCIDR
                      THEN [writing EXCEPT ![c] = [at |-> cache[a][c].at, obj |-> peer]]
                      ELSE writing
        /\ UNCHANGED budget

Handle(a, c) ==
    LET peer   == Allocated(a, c)
        noCIDR == peer # cache[a][c].obj
    IN  /\ Prepare(a, c, peer)
        /\ AddInterClusterTunnel(a, c, peer)
        /\ routes' = [routes EXCEPT ![a] = @ \cup {peer.cidr}]
        /\ queue' = [queue EXCEPT ![a] = @ \ {c}]
        /\ writing' = IF noCIDR
                      THEN [writing EXCEPT ![c] = [at |-> cache[a][c].at, obj |-> peer]]
                      ELSE writing
        /\ UNCHANGED budget

\* The device refuses the peer: the connection is already recorded.
DeviceFails(a, c) ==
    LET peer == Allocated(a, c)
    IN  /\ Disturb("failure")
        /\ Prepare(a, c, peer) /\ Connects(a, c, peer)
        /\ conn' = [conn EXCEPT ![a][c] = peer.key]
        /\ dev' = [dev EXCEPT ![a] = Disconnected(a, c)]
        /\ UNCHANGED <<queue, writing, routes>>

RouteFails(a, c) ==
    LET peer == Allocated(a, c)
    IN  /\ Disturb("failure")
        /\ Prepare(a, c, peer)
        /\ AddInterClusterTunnel(a, c, peer)
        /\ UNCHANGED <<queue, writing, routes>>

Written(c) ==
    /\ writing[c] # Nothing
    /\ writing' = [writing EXCEPT ![c] = Nothing]
    /\ UNCHANGED <<up, key, seen, annotated, dropped, cache, conn, dev, routes, known>>

\* The Update that stores the block; a newer version in the hub makes it a conflict.
WriteBack(c) ==
    /\ Running(Hub) /\ Written(c)
    /\ IF writing[c].at = Len(log[c])
       THEN log' = [log EXCEPT ![c] = Append(@, writing[c].obj)] /\ UNCHANGED queue
       ELSE queue' = [queue EXCEPT ![Hub] = @ \cup {c}] /\ UNCHANGED log
    /\ UNCHANGED budget

WriteBackFails(c) ==
    /\ Running(Hub) /\ Written(c)
    /\ queue' = [queue EXCEPT ![Hub] = @ \cup {c}]
    /\ Disturb("failure") /\ UNCHANGED log

-----------------------------------------------------------------------------
\* WaitGetCIDRFromHubclient reads the hub until both CIDRs are there.
WaitGetCIDRFromHubclient(a) ==
    /\ Running(a) /\ known[a] = NoCIDR
    /\ API(Hub).cidr # NoCIDR /\ API(a).cidr # NoCIDR
    /\ known' = [known EXCEPT ![a] = API(a).cidr]
    /\ UNCHANGED <<log, up, key, seen, writing, annotated, dropped, budget, cache, queue, conn,
                   dev, routes>>

\* An agent's pod is replaced, by a restart or by the election of another pod.  Before
\* its Peer is published this would only repeat the start.
Crash(a) ==
    /\ up[a] \in {"running", "refused"} /\ Disturb("crash")
    /\ up' = [up EXCEPT ![a] = "down"]
    /\ UNCHANGED <<log, key, seen, writing, annotated, dropped, agentVars>>

\* A child cluster is taken out of service and its Peer is deleted.
Leave(c) ==
    /\ up[c] # "left" /\ API(c) # Absent /\ Disturb("leave")
    /\ up' = [up EXCEPT ![c] = "left"]
    /\ log' = [log EXCEPT ![c] = Append(@, Absent)]
    /\ UNCHANGED <<key, seen, writing, annotated, dropped, agentVars>>

-----------------------------------------------------------------------------
Register(a) ==
    NewTunnel(a) \/ CreatePeer(a) \/ GetPeer(a) \/ UpdatePeer(a) \/ PeerConflicts(a)

Work(a, c) == Deliver(a, c) \/ Handle(a, c) \/ HandleGone(a, c)

Watches == {w \in Cluster \X Cluster : Read(w[1], w[2])}

System ==
    \/ \E a \in Cluster : Register(a)
    \/ \E w \in Watches : Work(w[1], w[2])
    \/ \E c \in Child : WriteBack(c) \/ WaitGetCIDRFromHubclient(c)

Disturbances ==
    \/ Relist \/ \E a \in Disturbed : PeerFails(a) \/ Crash(a)
    \/ \E w \in Watches : w[1] \in Disturbed
                          /\ (DeviceFails(w[1], w[2]) \/ RouteFails(w[1], w[2]))
    \/ \E c \in Child : WriteBackFails(c) \/ (c \in Disturbed /\ Leave(c))

Next == System \/ Disturbances

(* Pods are restarted, watches deliver, workers take their keys and calls  *)
(* return: as long as one of these can happen, one does.                   *)
Fairness == WF_vars(System)

Spec == Init /\ [][Next]_vars /\ Fairness

-----------------------------------------------------------------------------
Peer    == [key : Nat, cidr : CIDR]
Version == [at : Nat, obj : Peer]

\* The variables have their types, and the hub stores a block only for a Peer it has
\* connected to.
TypeOK ==
    /\ log \in [Cluster -> Seq(Peer)]
    /\ up \in [Cluster -> {"down", "starting", "updating", "running", "refused", "left"}]
    /\ key \in [Cluster -> Nat] /\ seen \in [Cluster -> Nat]
    /\ cache \in [Cluster -> [Cluster -> Version]]
    /\ queue \in [Cluster -> SUBSET Cluster]
    /\ writing \in [Cluster -> Version]
    /\ \A c \in Cluster : writing[c] # Nothing =>
          writing[c].obj.cidr # NoCIDR /\ conn[Hub][c] = writing[c].obj.key
    /\ conn \in [Cluster -> [Cluster -> Nat]]
    /\ \A a \in Cluster : \A d \in dev[a] : d.of # a /\ d.key \in 1 .. key[d.of] /\ d.cidr # NoCIDR
    /\ budget \in 0 .. MaxDisturbances

(* The blocks the hub holds for two clusters it allocates for never overlap,
   whatever the hub's lister lags behind, whoever restarts or leaves and
   whichever call fails (intertunnel_controller.go, Handle), unless its
   informer lists again and so takes a block out of the lister before the
   Update that stores it.                                                   *)
NoOverlapUnlessDropped ==
    ~dropped => \A c, d \in Allotted :
        c # d /\ API(c).cidr # NoCIDR /\ API(d).cidr # NoCIDR
            => ~isOverlappingCIDR(API(c).cidr, API(d).cidr)

(* Once a Peer has a block it keeps it for as long as its agent keeps its
   key: no late Update of the hub changes what an agent may have read.      *)
BlockKept ==
    \A c \in Child : \A i \in 1 .. Len(log[c]) - 1 :
        log[c][i].cidr # NoCIDR /\ log[c][i + 1].key = log[c][i].key
            => log[c][i + 1].cidr = log[c][i].cidr

(* The hub hands out a block outside its network only when every block of
   the network is taken: the loop of findAvailableCIDR does not stop there. *)
OutsideOnlyWhenFull ==
    [][\A c \in Private :
          writing'[c] # writing[c] /\ writing'[c] # Nothing
              => \/ Inside(writing'[c].obj.cidr, Network)
                 \/ \A b \in BlocksOf(Network, Bits) : Taken(b, existingCIDR)]_vars

\* What a block of a running cluster needs: both devices, the route, and one view of it.
Joined(c) ==
    LET cidr == API(c).cidr
    IN  /\ cidr # NoCIDR /\ known[c] = cidr
        /\ [of |-> c, key |-> key[c], cidr |-> cidr] \in dev[Hub] /\ cidr \in routes[Hub]
        /\ [of |-> Hub, key |-> key[Hub], cidr |-> Network] \in dev[c] /\ Network \in routes[c]

\* The hub is connected under a block it has not stored: no retry stores it.
NotStored(c) == conn[Hub][c] = key[c] /\ API(c).cidr = NoCIDR

\* The connection is recorded and the device does not have it: no retry configures it.
NotConfigured(a, c) ==
    conn[a][c] = key[c] /\ \A d \in dev[a] : d.of # c \/ d.key # key[c]

(* Every private cluster whose agent runs, and the hub, end up with a block
   both know and with tunnels and routes to each other, unless one of two
   retries was skipped, the one of a failed Update or of a failed call on
   the device, or the lister lost a block that was not stored.              *)
JoinedUnlessSkipped ==
    <>[]\A c \in Private :
            Running(c) /\ Running(Hub)
                => \/ Joined(c)
                   \/ dropped \/ NotStored(c) \/ NotConfigured(Hub, c) \/ NotConfigured(c, Hub)

(* The hub's device ends up without the key of a cluster that has left.     *)
LeftForgotten ==
    <>[]\A c \in Private :
            up[c] = "left" /\ Running(Hub) => \A d \in dev[Hub] : d.of # c
=============================================================================
