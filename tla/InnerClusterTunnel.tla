-------------------------- MODULE InnerClusterTunnel --------------------------
(***************************************************************************)
(* The tunnels inside a cluster.  One cnf pod runs on every node; those of *)
(* the control plane elect a leader.  The leader gives every pod a block of*)
(* the cluster's CIDR, as an annotation, and connects to it; every other   *)
(* pod sends the tunnel network to the leader, which it knows from the     *)
(* election or by its label.                                               *)
(*                                                                         *)
(* Processes crash and return with a new key, leases are lost by leaders   *)
(* that go on running, calls fail, pods are drained and replaced.  An      *)
(* informer lags; it shows the latest version of a pod, not those between. *)
(***************************************************************************)
EXTENDS CIDRBlocks, Sequences

CONSTANTS
    Pod, Candidate,   \* the cnf pods, and those on nodes of the control plane
    NodeOf,           \* their nodes
    Leader,           \* the leader at the start
    ClusterCIDR,      \* the cluster's block, as the hub gave it
    TunnelCIDR,       \* the network of all clusters
    Scenario          \* bound: the pods at the start with their blocks, and the
                      \* disturbances that may follow, kind and pod, in this order

Nobody   == "nobody"
NodeBits == divideClusterNetwork(ClusterCIDR.bits)
Blocks   == {Block(ClusterCIDR, NodeBits, i) : i \in Tries(NodeBits)}

\* The cluster's block is the address of a network, which the blocks of the nodes divide.
ASSUME NetworkAssumption ==
    /\ ClusterCIDR \in [ip : Nat, bits : 0 .. 24] /\ Width(NodeBits) \in Nat \ {0}
    /\ NodeBits # 0 =>
          /\ 2 ^ (32 - NodeBits) \in Nat
          /\ 2 ^ (NodeBits - ClusterCIDR.bits) \in Nat \ {0}
          /\ Width(ClusterCIDR.bits) = 2 ^ (NodeBits - ClusterCIDR.bits) * Width(NodeBits)
          /\ ClusterCIDR.ip = (ClusterCIDR.ip \div Width(ClusterCIDR.bits)) * Width(ClusterCIDR.bits)

\* The leader has a block at the start, and the blocks of the pods are disjoint.
ASSUME StartAssumption ==
    /\ Nobody \notin Pod /\ Candidate \subseteq Pod /\ Leader \in Candidate
    /\ \A sc \in Scenario :
          /\ DOMAIN sc.first \subseteq Pod
          /\ Leader \in DOMAIN sc.first /\ sc.first[Leader] # NoCIDR
          /\ \A p \in DOMAIN sc.first : sc.first[p] \in Blocks \cup {NoCIDR}
          /\ \A p, q \in DOMAIN sc.first : p # q /\ NoCIDR \notin {sc.first[p], sc.first[q]} =>
                ~isOverlappingCIDR(sc.first[p], sc.first[q])

Absent == [rev |-> 0, phase |-> "absent", key |-> 0, leader |-> FALSE, node |-> NoCIDR,
           tunnel |-> NoCIDR, service |-> FALSE]
NoTask == [pod |-> Nobody, object |-> Absent]
NoLink == [peer |-> <<Nobody, 0>>, cidr |-> NoCIDR]

Down == [up |-> FALSE, role |-> "none", configured |-> FALSE, served |-> FALSE, ctrl |-> "off",
         leaderCtx |-> FALSE, reported |-> Nobody, currentLeader |-> Nobody, queue |-> {},
         new |-> {}, existing |-> {}, task |-> NoTask, used |-> NoCIDR]

VARIABLES
    pod,       \* the pods of the API server: annotations, label, phase
    lease,     \* the holder of the lease
    proc,      \* the processes: role in the election, the controller and its fields
    cache,     \* per process, its lister
    conn,      \* per process, innerConnections: per node
    via,       \* per process, its device: the peer that each allowed CIDR goes to
    astray,    \* history: a block was stored by a leader without the lease, or over another
    scenario   \* what is left of the scenario

vars == <<pod, lease, proc, cache, conn, via, astray, scenario>>

Node == {NodeOf[p] : p \in Pod}
Existing == {p \in Pod : pod[p].phase # "absent"}

Disturb(kind, p) ==
    /\ scenario.steps # << >> /\ Head(scenario.steps) = <<kind, p>>
    /\ scenario' = [scenario EXCEPT !.steps = Tail(@)]

\* A write that changes a pod makes a new version of it.
Versioned(f) ==
    [p \in Pod |-> IF f[p] \in {pod[p], Absent} THEN f[p] ELSE [f[p] EXCEPT !.rev = @ + 1]]

-----------------------------------------------------------------------------
(* The informers: the processes whose controller runs are to hear of the new *)
(* versions of these pods.                                                   *)
Notified(pr, qs) ==
    [p \in Pod |-> IF pr[p].ctrl = "on" THEN [pr[p] EXCEPT !.new = @ \cup qs] ELSE pr[p]]

\* The controller is started: its informer lists the pods.
Start(pr, p) == [pr EXCEPT ![p].ctrl = "on", ![p].new = Existing]
Listed(p) == cache' = [cache EXCEPT ![p] = pod']

Booted(p) == [Down EXCEPT !.up = TRUE, !.role = IF p \in Candidate THEN "candidate" ELSE "worker"]

(* Leader has been elected and all pods with a block have settled. A pod     *)
(* without has just turned to the leader, which has yet to hear of it.       *)
Fresh == {p \in DOMAIN scenario.first : scenario.first[p] = NoCIDR}
Old == DOMAIN scenario.first \ Fresh

FirstPod(p) ==
    CASE p \in Old   -> [rev |-> 1, phase |-> "alive", key |-> 1, leader |-> p = Leader,
                         node |-> scenario.first[p], tunnel |-> TunnelCIDR, service |-> TRUE]
      [] p \in Fresh -> [Absent EXCEPT !.rev = 1, !.phase = "alive", !.key = 1]
      [] OTHER       -> Absent

Follower(p) ==
    [Booted(p) EXCEPT !.ctrl = "on", !.currentLeader = Leader, !.used = scenario.first[p],
                      !.reported = IF p \in Candidate THEN Leader ELSE Nobody,
                      !.queue = IF p \in Fresh THEN {Leader} ELSE {}]

Links(p) ==
    CASE p = Leader         -> {[peer |-> <<q, 1>>, cidr |-> scenario.first[q]] : q \in Old \ {p}}
      [] p \in Old \ {Leader} -> {[peer |-> <<Leader, 1>>, cidr |-> TunnelCIDR]}
      [] OTHER              -> {}

Init ==
    /\ scenario \in Scenario
    /\ pod = [p \in Pod |-> FirstPod(p)]
    /\ lease = Leader
    /\ proc = [p \in Pod |->
         CASE p = Leader -> [Follower(p) EXCEPT !.role = "leading", !.configured = TRUE, !.served = TRUE,
                               !.leaderCtx = TRUE, !.new = Fresh,
                               !.existing = {scenario.first[q] : q \in Old}]
           [] p \in DOMAIN scenario.first \ {Leader} -> Follower(p)
           [] OTHER -> Down]
    /\ cache = [p \in Pod |-> [q \in Pod |->
         IF p \in DOMAIN scenario.first /\ q \in Old THEN pod[q] ELSE Absent]]
    /\ conn = [p \in Pod |-> [n \in Node |->
         CHOOSE l \in Links(p) \cup {NoLink} :
             IF l = NoLink THEN \A k \in Links(p) : NodeOf[k.peer[1]] # n
                           ELSE NodeOf[l.peer[1]] = n]]
    /\ via = [p \in Pod |-> [c \in {l.cidr : l \in Links(p)} |->
                               (CHOOSE l \in Links(p) : l.cidr = c).peer]]
    /\ astray = FALSE

-----------------------------------------------------------------------------
(* The WireGuard device. A CIDR is allowed for one peer only: the last one.  *)
Removed(device, peers) ==
    [c \in {d \in DOMAIN device : device[d] \notin peers} |-> device[c]]

Configured(device, peer, cidr) ==
    [c \in DOMAIN device \cup {cidr} |-> IF c = cidr THEN peer ELSE device[c]]

RecycleAllResources(p) ==
    /\ conn' = [conn EXCEPT ![p] = [n \in Node |-> NoLink]]
    /\ via' = [via EXCEPT ![p] = Removed(@, {conn[p][n].peer : n \in Node})]

-----------------------------------------------------------------------------
(* The process starts: NewTunnel makes a new key, Init publishes it; Run     *)
(* enters the election or starts the controller.                             *)
Boot(p) ==
    /\ pod[p].phase # "absent" /\ ~proc[p].up
    /\ pod' = Versioned([pod EXCEPT ![p].key = @ + 1])
    /\ LET boot == [proc EXCEPT ![p] = Booted(p)]
       IN  IF p \in Candidate THEN proc' = Notified(boot, {p}) /\ UNCHANGED cache
                              ELSE proc' = Notified(Start(boot, p), {p}) /\ Listed(p)
    /\ UNCHANGED <<lease, conn, via, astray, scenario>>

(* OnStartedLeading up to the hub's answer. The Peer or the label may not be *)
(* written: Start only logs it.                                              *)
Elected(p) ==
    /\ proc[p].role = "candidate" /\ lease = Nobody
    /\ lease' = p
    /\ RecycleAllResources(p)

OnStartedLeading(p) ==
    /\ Elected(p)
    /\ pod' = Versioned([pod EXCEPT ![p].leader = TRUE])
    /\ proc' = Notified([proc EXCEPT ![p].role = "leading", ![p].reported = p,
                                     ![p].currentLeader = p], {p})
    /\ UNCHANGED <<cache, astray, scenario>>

LabelFails(p) ==
    /\ Disturb("failure", p)
    /\ Elected(p)
    /\ proc' = [proc EXCEPT ![p].role = "leading", ![p].reported = p, ![p].currentLeader = p]
    /\ UNCHANGED <<pod, cache, astray>>

\* innerTunnelControllerOnce
StartOnce(pr, p, changed) ==
    IF proc[p].ctrl = "off" THEN proc' = Notified(Start(pr, p), changed) /\ Listed(p)
                            ELSE proc' = Notified(pr, changed) /\ UNCHANGED cache

\* Mutant: the blocks of the existing pods are not read.
ConfigWithoutExisting(p) ==
    /\ proc[p].role = "leading" /\ ~proc[p].configured
    /\ pod' = Versioned([pod EXCEPT ![p].tunnel = TunnelCIDR])
    /\ LET pr == [proc EXCEPT ![p].configured = TRUE, ![p].queue = @ \cup Existing,
                              ![p].leaderCtx = proc[p].ctrl = "off"]
       IN  StartOnce(pr, p, {p})
    /\ UNCHANGED <<lease, conn, via, astray, scenario>>

(* ConfigWithExistingCIDR, the existing pods enqueued, and the controller    *)
(* started, once, with the context of the leader.                            *)
ConfigWithExistingCIDR(p) ==
    /\ proc[p].role = "leading" /\ ~proc[p].configured
    /\ pod' = Versioned([pod EXCEPT ![p].tunnel = TunnelCIDR])
    /\ LET pr == [proc EXCEPT ![p].configured = TRUE, ![p].queue = @ \cup Existing,
                              ![p].existing = {pod[q].node : q \in Existing} \ {NoCIDR},
                              ![p].leaderCtx = proc[p].ctrl = "off"]
       IN  StartOnce(pr, p, {p})
    /\ UNCHANGED <<lease, conn, via, astray, scenario>>

\* The leader's syncer writes the service CIDR to all pods, at some time after its start;
\* it may have nothing to change.
updateServiceCIDRToCNFPod(p) ==
    /\ proc[p].role = "leading" /\ ~proc[p].served /\ \E q \in Existing : ~pod[q].service
    /\ pod' = Versioned([q \in Pod |-> IF q \in Existing THEN [pod[q] EXCEPT !.service = TRUE] ELSE pod[q]])
    /\ proc' = Notified([proc EXCEPT ![p].served = TRUE], {q \in Existing : ~pod[q].service})
    /\ UNCHANGED <<lease, cache, conn, via, astray, scenario>>

\* OnNewLeader: forget the tunnels and the label, turn to the new leader.
NewLeader(p, role) ==
    /\ RecycleAllResources(p)
    /\ pod' = Versioned([pod EXCEPT ![p].leader = FALSE])
    /\ LET pr == [proc EXCEPT ![p].role = role, ![p].reported = lease, ![p].currentLeader = lease,
                              ![p].queue = @ \cup ({lease} \cap Existing)]
       IN  StartOnce(pr, p, IF pod[p].leader THEN {p} ELSE {})
    /\ UNCHANGED <<lease, astray, scenario>>

OnNewLeader(p) ==
    /\ proc[p].role = "candidate" /\ lease \notin {Nobody, p, proc[p].reported}
    /\ NewLeader(p, "candidate")

(* The election ends for a leader that finds it lost the lease, and so does  *)
(* what it started with its context; the process goes on. It may have seen   *)
(* its successor before.                                                     *)
OnStoppedLeading(p) ==
    /\ proc[p].role = "leading" /\ lease # p
    /\ proc' = [proc EXCEPT ![p].role = "ended",
                            ![p].ctrl = IF proc[p].leaderCtx THEN "stopped" ELSE @,
                            ![p].new = IF proc[p].leaderCtx THEN {} ELSE @,
                            ![p].queue = IF proc[p].leaderCtx THEN @ \cap {proc[p].task.pod} ELSE @]
    /\ UNCHANGED <<pod, lease, cache, conn, via, astray, scenario>>

SuccessorSeen(p) ==
    /\ proc[p].role = "leading" /\ lease \notin {Nobody, p, proc[p].reported}
    /\ NewLeader(p, "leading")

Expire ==
    /\ lease # Nobody /\ proc[lease].role # "leading"
    /\ lease' = Nobody
    /\ UNCHANGED <<pod, proc, cache, conn, via, astray, scenario>>

-----------------------------------------------------------------------------
IsLeader(p) == proc[p].currentLeader = p

(* The event filter. A change of the leader is acted upon but not remembered.*)
ShouldHandlerPod(p, q, o) ==
    LET known  == proc[p].currentLeader
        leader == IF o.leader THEN q ELSE known
    IN  [set     |-> IF known = Nobody THEN leader ELSE known,
         recycle |-> known # Nobody /\ leader # known,
         handle  |-> leader = p \/ (leader = q /\ q # p)]

(* Versions that a process has no use for wait until it has. The event of a  *)
(* version that the store holds, changed by the handler or not, leaves it.   *)
Deliver(p, q) ==
    /\ q \in proc[p].new /\ (IsLeader(p) \/ (q \in Candidate \ {p}))
    /\ LET seen   == IF pod[q] = Absent THEN cache[p][q] ELSE pod[q]
           should == ShouldHandlerPod(p, q, seen)
           enters == should.handle /\ (pod[q] = Absent \/ pod[q].key # 0)
       IN  /\ proc' = [proc EXCEPT ![p].new = @ \ {q}, ![p].currentLeader = should.set,
                                   ![p].queue = IF enters THEN @ \cup {q} ELSE @]
           /\ IF should.recycle THEN RecycleAllResources(p) ELSE UNCHANGED <<conn, via>>
    /\ cache' = [cache EXCEPT ![p][q] = IF pod[q].rev = @.rev THEN @ ELSE pod[q]]
    /\ UNCHANGED <<pod, lease, astray, scenario>>

-----------------------------------------------------------------------------
(* Handle. The leader's pod is reached with the tunnel network, the others   *)
(* by the leader with their blocks.                                          *)
SecondaryCIDR(p, o) == IF IsLeader(p) THEN o.node ELSE o.tunnel

Handling(p, q) == q \in proc[p].queue /\ proc[p].ctrl # "off" /\ proc[p].task = NoTask

HandleGone(p, q) ==
    /\ Handling(p, q) /\ cache[p][q] = Absent
    /\ proc' = [proc EXCEPT ![p].queue = @ \ {q}]
    /\ UNCHANGED <<pod, lease, cache, conn, via, astray, scenario>>

\* It would panic for a pod without a block, which no scenario drains.
recycleResources(p, q) ==
    /\ Handling(p, q) /\ cache[p][q].phase = "dying"
    /\ proc' = [proc EXCEPT ![p].queue = @ \ {q}]
    /\ IF conn[p][NodeOf[q]] = NoLink
       THEN UNCHANGED <<conn, via>>
       ELSE /\ conn' = [conn EXCEPT ![p][NodeOf[q]] = NoLink]
            /\ via' = [via EXCEPT ![p] = Removed(@, {<<q, cache[p][q].key>>})]
    /\ UNCHANGED <<pod, lease, cache, astray, scenario>>

\* Mutant: before the cluster's CIDR and the existing blocks are known.
SpawnAtOnce(p, q) ==
    /\ Handling(p, q) /\ cache[p][q].phase = "alive"
    /\ IsLeader(p) /\ cache[p][q].node = NoCIDR
    /\ LET cidr   == FindClusterAvailableCIDR(ClusterCIDR, proc[p].existing)
           object == [cache[p][q] EXCEPT !.node = cidr, !.tunnel = TunnelCIDR]
       IN  /\ cidr # NoCIDR
           /\ proc' = [proc EXCEPT ![p].task = [pod |-> q, object |-> object]]
           /\ cache' = [cache EXCEPT ![p][q] = object]
    /\ UNCHANGED <<pod, lease, conn, via, astray, scenario>>

(* SpawnNewCIDRForNRIPod: a block is chosen and put into the lister's pod,   *)
(* which the handler goes on with.                                           *)
SpawnNewCIDRForNRIPod(p, q) ==
    /\ Handling(p, q) /\ cache[p][q].phase = "alive"
    /\ IsLeader(p) /\ proc[p].configured /\ cache[p][q].node = NoCIDR
    /\ LET cidr   == FindClusterAvailableCIDR(ClusterCIDR, proc[p].existing)
           object == [cache[p][q] EXCEPT !.node = cidr, !.tunnel = TunnelCIDR]
       IN  /\ cidr # NoCIDR
           /\ proc' = [proc EXCEPT ![p].task = [pod |-> q, object |-> object]]
           /\ cache' = [cache EXCEPT ![p][q] = object]
    /\ UNCHANGED <<pod, lease, conn, via, astray, scenario>>

(* The service CIDR, which the leader copies from any pod and the others     *)
(* wait for; then the tunnel and its route.                                  *)
Served(q, o, isLeader) ==
    o.service \/ (isLeader /\ pod[q] # Absent /\ \E r \in Existing : pod[r].service)

\* Mutant: a pod that is connected is left alone, whatever its key.
AddWhateverKey(p, q, o, cidr, device) ==
    LET n    == NodeOf[q]
        peer == <<q, o.key>>
    IN  IF p = q \/ conn[p][n].peer[1] = q
        THEN UNCHANGED <<conn, via>>
        ELSE /\ conn' = [conn EXCEPT ![p][n] = [peer |-> peer, cidr |-> cidr]]
             /\ LET old == Removed(via[p], {conn[p][n].peer})
                IN  via' = [via EXCEPT ![p] = IF device THEN Configured(old, peer, cidr) ELSE old]

AddInnerClusterTunnel(p, q, o, cidr, device) ==
    LET n    == NodeOf[q]
        peer == <<q, o.key>>
    IN  IF p = q \/ conn[p][n].peer = peer
        THEN UNCHANGED <<conn, via>>
        ELSE /\ conn' = [conn EXCEPT ![p][n] = [peer |-> peer, cidr |-> cidr]]
             /\ LET old == Removed(via[p], {conn[p][n].peer})
                IN  via' = [via EXCEPT ![p] = IF device THEN Configured(old, peer, cidr) ELSE old]

\* The rest of Handle with the object o; stored is what the handler has written so far.
Finish(p, q, o, stored, done) ==
    LET served == [stored EXCEPT ![q].service = TRUE]
        new    == Versioned(IF o.service THEN stored ELSE served)
    IN  /\ pod' = new
        /\ cache' = IF o.service \/ cache[p][q].rev # o.rev THEN cache
                    ELSE [cache EXCEPT ![p][q].service = TRUE]
        /\ proc' = Notified(done, {r \in {q} : new[r] # pod[r]})

(* The block is stored and counted as existing; its own block is all the     *)
(* leader wants. The handler is still that of a leader, whoever leads now.   *)
BlockStored(p) ==
    LET q      == proc[p].task.pod
        o      == proc[p].task.object
        stored == [pod EXCEPT ![q].node = o.node, ![q].tunnel = TunnelCIDR]
        kept   == [proc EXCEPT ![p].task = NoTask, ![p].existing = @ \cup {o.node}]
    IN  /\ proc[p].task # NoTask /\ pod[q] # Absent
        /\ IF p # q /\ Served(q, o, TRUE)
           THEN /\ Finish(p, q, o, stored, [kept EXCEPT ![p].queue = @ \ {q}])
                /\ AddInnerClusterTunnel(p, q, o, o.node, TRUE)
           ELSE /\ pod' = Versioned(stored)
                /\ proc' = Notified([kept EXCEPT ![p].queue = IF p = q THEN @ \ {q} ELSE @], {q})
                /\ UNCHANGED <<cache, conn, via>>
        /\ astray' = (astray \/ lease # p \/ pod[q].node # NoCIDR)
        /\ UNCHANGED <<lease, scenario>>

BlockNotStored(p) ==
    /\ proc[p].task # NoTask
    /\ IF pod[proc[p].task.pod] = Absent THEN UNCHANGED scenario ELSE Disturb("failure", p)
    /\ proc' = [proc EXCEPT ![p].task = NoTask]
    /\ UNCHANGED <<pod, lease, cache, conn, via, astray>>

Ready(p, q) ==
    /\ Handling(p, q) /\ cache[p][q].phase = "alive" /\ cache[p][q].key # 0
    /\ SecondaryCIDR(p, cache[p][q]) # NoCIDR
    /\ Served(q, cache[p][q], IsLeader(p))

HandleReady(p, q) ==
    /\ Ready(p, q)
    /\ Finish(p, q, cache[p][q], pod, [proc EXCEPT ![p].queue = @ \ {q}])
    /\ AddInnerClusterTunnel(p, q, cache[p][q], SecondaryCIDR(p, cache[p][q]), TRUE)
    /\ UNCHANGED <<lease, astray, scenario>>

\* The device refuses: the connection is noted all the same, and the retry skips it.
DeviceFails(p, q) ==
    /\ Disturb("failure", p)
    /\ Ready(p, q) /\ p # q /\ conn[p][NodeOf[q]].peer # <<q, cache[p][q].key>>
    /\ Finish(p, q, cache[p][q], pod, proc)
    /\ AddInnerClusterTunnel(p, q, cache[p][q], SecondaryCIDR(p, cache[p][q]), FALSE)
    /\ UNCHANGED <<lease, astray>>

-----------------------------------------------------------------------------
\* waitForCIDRReady: the node's engine takes the block once all of it is there.
waitForCIDRReady(p) ==
    /\ proc[p].up /\ proc[p].used = NoCIDR
    /\ pod[p].node # NoCIDR /\ pod[p].tunnel # NoCIDR /\ pod[p].service
    /\ proc' = [proc EXCEPT ![p].used = pod[p].node]
    /\ UNCHANGED <<pod, lease, cache, conn, via, astray, scenario>>

-----------------------------------------------------------------------------
(* Disturbances. *)
Stopped(p) ==
    /\ cache' = [cache EXCEPT ![p] = [q \in Pod |-> Absent]]
    /\ conn' = [conn EXCEPT ![p] = [n \in Node |-> NoLink]]
    /\ via' = [via EXCEPT ![p] = [c \in {} |-> NoLink.peer]]

Crash(p) ==
    /\ Disturb("crash", p)
    /\ proc[p].up
    /\ proc' = [proc EXCEPT ![p] = Down]
    /\ Stopped(p)
    /\ UNCHANGED <<pod, lease, astray>>

LoseLease(p) ==
    /\ Disturb("lease", p)
    /\ lease = p /\ proc[p].role = "leading"
    /\ lease' = Nobody
    /\ UNCHANGED <<pod, proc, cache, conn, via, astray>>

\* The pod is being deleted; its process ends and the pod with it; a new one takes its place.
Drain(p) ==
    /\ Disturb("drain", p)
    /\ pod[p].phase = "alive"
    /\ pod' = Versioned([pod EXCEPT ![p].phase = "dying"])
    /\ proc' = Notified(proc, {p})
    /\ UNCHANGED <<lease, cache, conn, via, astray>>

Goes(p) ==
    /\ pod[p].phase = "dying"
    /\ pod' = [pod EXCEPT ![p] = Absent]
    /\ proc' = Notified([proc EXCEPT ![p] = Down], {p})
    /\ Stopped(p)
    /\ UNCHANGED <<lease, astray, scenario>>

Comes(p) ==
    /\ p \notin DOMAIN scenario.first /\ pod[p] = Absent
    /\ \E q \in DOMAIN scenario.first : NodeOf[q] = NodeOf[p] /\ pod[q] = Absent
    /\ pod' = Versioned([pod EXCEPT ![p].phase = "alive"])
    /\ proc' = Notified(proc, {p})
    /\ UNCHANGED <<lease, cache, conn, via, astray, scenario>>

-----------------------------------------------------------------------------
startLeaderElection(p) ==
    OnStartedLeading(p) \/ OnNewLeader(p) \/ OnStoppedLeading(p) \/ SuccessorSeen(p)

Handle(p, q) ==
    \/ HandleGone(p, q) \/ recycleResources(p, q)
    \/ SpawnNewCIDRForNRIPod(p, q) \/ HandleReady(p, q)

System ==
    \/ Expire
    \/ \E p \in Pod : \/ Boot(p) \/ startLeaderElection(p) \/ ConfigWithExistingCIDR(p)
                      \/ updateServiceCIDRToCNFPod(p) \/ BlockStored(p) \/ waitForCIDRReady(p)
                      \/ Goes(p) \/ Comes(p)
    \/ \E p, q \in Pod : Deliver(p, q) \/ Handle(p, q)

(* Every ten minutes the informers show the handlers what their stores hold. *)
(* A bound: all of them at once, when nothing else is left to happen.        *)
Quiet == scenario.steps = << >> /\ (\A p \in Pod : proc[p].queue = {}) /\ ~ENABLED System

Shown(p) == {q \in Pod : proc[p].ctrl = "on" /\ cache[p][q] # Absent}
Told(p) == {q \in Shown(p) : ShouldHandlerPod(p, q, cache[p][q]).handle}
Upset == {p \in Pod : \E q \in Shown(p) : ShouldHandlerPod(p, q, cache[p][q]).recycle}

Resync ==
    /\ Quiet
    /\ proc' = [p \in Pod |-> [proc[p] EXCEPT !.queue = @ \cup Told(p)]]
    /\ conn' = [p \in Pod |-> IF p \in Upset THEN [n \in Node |-> NoLink] ELSE conn[p]]
    /\ via' = [p \in Pod |->
         IF p \in Upset THEN Removed(via[p], {conn[p][n].peer : n \in Node}) ELSE via[p]]
    /\ UNCHANGED <<pod, lease, cache, astray, scenario>>

Disturbances ==
    \/ \E p \in Pod : LabelFails(p) \/ BlockNotStored(p) \/ Crash(p) \/ LoseLease(p) \/ Drain(p)
    \/ \E p, q \in Pod : DeviceFails(p, q)

Next == System \/ Resync \/ Disturbances

\* The processes run on and the informers resync; Resync waits until System has stopped,
\* so that one condition is as good as one for each.
Spec == Init /\ [][Next]_vars /\ WF_vars(System \/ Resync)

-----------------------------------------------------------------------------
(* Properties *)

(* The types of the pods and processes; a process that is down holds nothing,*)
(* and one at work on a block is the leader by its own account, has asked    *)
(* for the existing blocks, and has the pod in its queue.                    *)
TypeOK ==
    /\ lease \in Candidate \cup {Nobody}
    /\ \A p \in Pod :
          /\ pod[p].phase \in {"absent", "alive", "dying"}
          /\ pod[p].phase = "absent" => pod[p] = Absent
          /\ proc[p].role \in {"none", "worker", "candidate", "leading", "ended"}
          /\ proc[p].ctrl \in {"off", "on", "stopped"}
          /\ {proc[p].currentLeader, proc[p].reported} \subseteq Candidate \cup {Nobody}
          /\ ~proc[p].up => proc[p] = Down /\ DOMAIN via[p] = {}
          /\ proc[p].task # NoTask =>
                /\ proc[p].configured /\ proc[p].task.pod \in proc[p].queue
                /\ proc[p].task.object.node \notin proc[p].existing \cup {NoCIDR}
          /\ \A n \in Node : conn[p][n] # NoLink => NodeOf[conn[p][n].peer[1]] = n

(* No two nodes hand out addresses of one block, unless a leader that had    *)
(* lost the lease stored one, or one whose lister was behind stored it over  *)
(* the block of a pod, which goes on using what nobody counts any more       *)
(* (SpawnNewCIDRForNRIPod looks at neither).                                 *)
UsedDisjointUnlessAstray ==
    astray \/ \A p, q \in Pod : p # q /\ NoCIDR \notin {proc[p].used, proc[q].used} =>
                ~isOverlappingCIDR(proc[p].used, proc[q].used)

\* The leader's device sends the block of p to p, and that of p the tunnel network to the leader.
Inward(p) ==
    /\ proc[p].used \in DOMAIN via[lease]
    /\ via[lease][proc[p].used] = <<p, pod[p].key>>

Outward(p) ==
    /\ TunnelCIDR \in DOMAIN via[p]
    /\ via[p][TunnelCIDR] = <<lease, pod[lease].key>>

\* A worker keeps the first leader it saw; a leader that lost the lease keeps nothing running.
Misled(p) == p \notin Candidate /\ proc[p].currentLeader # lease
Zombie(p) == proc[p].role = "ended"

\* The connection of p to q was noted before the device refused it.
NotConfigured(p, q) ==
    LET peer == <<q, pod[q].key>>
    IN  conn[p][NodeOf[q]].peer = peer /\ \A c \in DOMAIN via[p] : via[p][c] # peer

\* The leader gave p another block after p had taken its own.
Overridden(p) == proc[p].used # pod[p].node

\* Some pod other than the leader's has the leader's label: at every resync all recycle.
Contested == \E q \in Existing \ {lease} : pod[q].leader

(* Once the disturbances end, either every candidate is a former leader that *)
(* never enters the election again (startLeaderElection returns), or there   *)
(* is a leader, every other pod has taken a block, the leader's device sends *)
(* that block to it and its device the tunnel network to the leader          *)
(* (innerTunnelController.Handle).  The exceptions are what the code does    *)
(* not repair: a block that was given anew, a connection noted before the    *)
(* device refused it, a second pod with the leader's label, and a worker     *)
(* that keeps the leader it saw first.                                       *)
LinkedUnlessMisled ==
    <>[](\/ \A p \in Candidate \cap Existing : Zombie(p)
         \/ /\ lease # Nobody
            /\ \A p \in Existing \ {lease} :
                  /\ proc[p].used # NoCIDR
                  /\ Inward(p) \/ Contested \/ Overridden(p) \/ NotConfigured(lease, p)
                  /\ Outward(p) \/ Contested \/ Misled(p) \/ Zombie(p) \/ NotConfigured(p, lease))

(* Once the disturbances end, every pod but the leader and former leaders    *)
(* sends the tunnel network to the leader that holds the lease: a pod that   *)
(* sees another leader reconnects to it ("leader has changed, recycle all    *)
(* tunnels and reconnect to new leader", innertunnel_controller.go:289).     *)
ReconnectsToLeader ==
    <>[](lease # Nobody => \A p \in Existing \ {lease} : Outward(p) \/ Zombie(p))
=============================================================================
