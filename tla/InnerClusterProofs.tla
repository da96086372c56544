-------------------------- MODULE InnerClusterProofs --------------------------
(***************************************************************************)
(* The blocks of the nodes: for any pods, cluster's block and disturbances, *)
(* no two nodes use one block unless one was stored by a leader without    *)
(* the lease or over another block.                                        *)
(*                                                                         *)
(* The argument rests on what the holder of the lease counts.  A process   *)
(* that lost the lease never gets it back before it restarts, so one that  *)
(* holds it has read the blocks of all pods after every other leader's     *)
(* last write, and has counted its own since.                              *)
(***************************************************************************)
EXTENDS InnerClusterTunnel, WellFoundedInduction, TLAPS

PodObject ==
    [rev : Nat, phase : {"absent", "alive", "dying"}, key : Nat, leader : BOOLEAN,
     node : Blocks \cup {NoCIDR}, tunnel : {NoCIDR, TunnelCIDR}, service : BOOLEAN]

Process ==
    [up : BOOLEAN, role : {"none", "worker", "candidate", "leading", "ended"}, configured : BOOLEAN,
     served : BOOLEAN, ctrl : {"off", "on", "stopped"}, leaderCtx : BOOLEAN,
     reported : Candidate \cup {Nobody}, currentLeader : Candidate \cup {Nobody},
     queue : SUBSET Pod, new : SUBSET Pod, existing : SUBSET Blocks,
     task : [pod : Pod \cup {Nobody}, object : PodObject], used : Blocks \cup {NoCIDR}]

\* A block is chosen once the existing ones are known, and avoids them.
Sound(x) ==
    /\ x \in Process
    /\ ~x.up => x = Down
    /\ x.configured => x.role \in {"leading", "ended"}
    /\ x.task # NoTask =>
          /\ x.configured /\ x.task.pod \in x.queue /\ NodeBits # 0
          /\ x.task.object.node \in Blocks /\ ~Taken(x.task.object.node, x.existing)

Pods ==
    /\ pod \in [Pod -> PodObject]
    /\ \A p \in Pod : pod[p].phase = "absent" => pod[p] = Absent

Processes ==
    /\ proc \in [Pod -> Process]
    /\ \A p \in Pod : Sound(proc[p])
    /\ \A p \in Pod : proc[p].up => pod[p].phase # "absent"
    /\ \A p \in Pod : proc[p].role = "candidate" => p \in Candidate

Listers == cache \in [Pod -> [Pod -> PodObject]]

\* A connection of this node, if it is one.
Leads(link, n) == link # NoLink => NodeOf[link.peer[1]] = n

Devices ==
    /\ conn = [p \in Pod |-> [n \in Node |-> conn[p][n]]]
    /\ via = [p \in Pod |-> via[p]]
    /\ \A p \in Pod : ~proc[p].up => DOMAIN via[p] = {}
    /\ \A p \in Pod : \A n \in Node : Leads(conn[p][n], n)

\* A node uses the block its pod has; these are disjoint, and all known to the leader.
Counted ==
    /\ \A p \in Pod : proc[p].used \in {NoCIDR, pod[p].node}
    /\ \A p, q \in Pod : p # q /\ NoCIDR \notin {pod[p].node, pod[q].node} =>
          ~isOverlappingCIDR(pod[p].node, pod[q].node)
    /\ \A p \in Pod : lease = p /\ proc[p].configured =>
          \A q \in Pod : pod[q].node \in proc[p].existing \cup {NoCIDR}

Inv ==
    /\ Pods /\ Processes /\ Listers /\ Devices
    /\ lease \in Candidate \cup {Nobody}
    /\ ~astray => Counted

-----------------------------------------------------------------------------
(* The search of a block. *)

(* The empty CIDR is none of the blocks. *)
LEMMA NoBlock == NoCIDR \notin Blocks
<1>1. NodeBits # -1
  BY NetworkAssumption DEF NodeBits, divideClusterNetwork
<1>2. \A b \in Blocks : b.bits = NodeBits
  BY DEF Blocks, Block
<1>3. NoCIDR.bits = -1
  BY Zenon DEF NoCIDR
<1> QED
  BY <1>1, <1>2, <1>3, Zenon

(* A block that FindClusterAvailableCIDR returns overlaps no existing one. *)
LEMMA FreeBlock ==
    ASSUME NEW existing, NEW b, b = FindClusterAvailableCIDR(ClusterCIDR, existing), b # NoCIDR
    PROVE  NodeBits # 0 /\ b \in Blocks /\ ~Taken(b, existing)
<1> DEFINE Free(i) == ~Taken(Block(ClusterCIDR, NodeBits, i), existing)
           First(i) == Free(i) /\ \A j \in 0 .. i - 1 : Taken(Block(ClusterCIDR, NodeBits, j), existing)
           T == {i \in Tries(NodeBits) : Free(i)}
<1>1. NodeBits # 0 /\ b = findAvailableCIDR(ClusterCIDR, existing, NodeBits)
  BY Zenon DEF FindClusterAvailableCIDR, NodeBits
<1>2. T # {}
  BY <1>1, Zenon DEF findAvailableCIDR
<1>3. 2 ^ (32 - NodeBits) \in Nat
  BY <1>1, NetworkAssumption, Zenon
<1>4. T \subseteq Nat
  BY DEF Tries
<1>5. PICK x \in T : \A y \in T : ~(<<y, x>> \in OpToRel(<, Nat))
  BY <1>2, <1>4, WFMin, NatLessThanWellFounded, Zenon
<1>6. \A y \in T : ~(y < x)
  BY <1>4, <1>5, Zenon DEF OpToRel
<1>7. ASSUME NEW j \in 0 .. x - 1 PROVE Taken(Block(ClusterCIDR, NodeBits, j), existing)
  <2>1. x \in Tries(NodeBits)
    BY Zenon
  <2>2. j \in Tries(NodeBits) /\ j < x
    BY <1>3, <2>1 DEF Tries
  <2> QED
    BY <1>6, <2>2, Zenon
<1>8. x \in Tries(NodeBits) /\ First(x)
  BY <1>7, Zenon
<1>9. b = Block(ClusterCIDR, NodeBits, CHOOSE i \in Tries(NodeBits) : First(i))
  BY <1>1, <1>2, Zenon DEF findAvailableCIDR
<1>10. PICK i \in Tries(NodeBits) : b = Block(ClusterCIDR, NodeBits, i) /\ First(i)
  BY <1>8, <1>9, Zenon
<1> QED
  BY <1>1, <1>10, Zenon DEF Blocks

(* The start of a block is where its trimming leaves it. *)
LEMMA TrimmedBlock ==
    ASSUME NodeBits # 0, NEW b \in Blocks
    PROVE  Trimmed(b, b.bits) = b
<1> DEFINE W == Width(NodeBits)
           N == 2 ^ (NodeBits - ClusterCIDR.bits)
           M == Width(ClusterCIDR.bits)
           k == ClusterCIDR.ip \div M
<1>1. /\ W \in Nat /\ W > 0 /\ N \in Nat /\ N > 0 /\ M = N * W
      /\ ClusterCIDR.ip \in Nat /\ ClusterCIDR.ip = k * M
  BY NetworkAssumption
<1>2. PICK i \in Nat : b = [ip |-> ClusterCIDR.ip + i * W, bits |-> NodeBits]
  BY DEF Blocks, Block, Tries
<1> HIDE DEF W, N
<1>3. M \in Nat /\ M > 0
  BY <1>1
<1>4. k \in Int
  BY <1>1, <1>3
<1> HIDE DEF k, M
<1>5. ClusterCIDR.ip = (k * N) * W /\ k * N \in Int
  BY <1>1, <1>4
<1>6. b.ip = (k * N + i) * W
  BY <1>1, <1>2, <1>5
<1>7. ((k * N + i) * W) \div W = k * N + i
  BY <1>1, <1>5
<1>8. (b.ip \div W) * W = b.ip
  BY <1>6, <1>7, Zenon
<1> QED
  BY <1>2, <1>8, Zenon DEF Trimmed, W

(* A block that is not taken is another one than the existing blocks and   *)
(* overlaps none of them.                                                  *)
LEMMA FreeOfExisting ==
    ASSUME NodeBits # 0, NEW b \in Blocks, NEW existing, ~Taken(b, existing),
           NEW e \in existing, e \in Blocks
    PROVE  ~isOverlappingCIDR(e, b) /\ ~isOverlappingCIDR(b, e) /\ e # b
<1>1. e \in Blocks /\ e # NoCIDR
  BY NoBlock, Zenon
<1>2. Trimmed(e, b.bits) = e
  <2>1. b.bits = e.bits
    BY <1>1 DEF Blocks, Block
  <2> QED
    BY <1>1, <2>1, TrimmedBlock, Zenon
<1>3. ~isOverlappingCIDR(e, b)
  BY <1>1, <1>2, Zenon DEF Taken
<1> QED
  BY <1>3, Zenon DEF isOverlappingCIDR, Contains

-----------------------------------------------------------------------------
(* The steps the actions are made of. *)

Put(f, p, x) == [f EXCEPT ![p] = x]
Hearing(x, qs) == [x EXCEPT !.new = @ \cup qs]

\* Two versions of a process, the later one first, that differ in nothing the blocks depend on.
Alike(x, y) ==
    /\ x.up = y.up /\ x.configured = y.configured /\ x.existing = y.existing /\ x.used = y.used
    /\ x.role = "candidate" => y.role = "candidate"

\* The process of p becomes x; what processes are to hear of may change too.
Turned(p, x) ==
    /\ proc' \in [Pod -> Process]
    /\ \A r \in Pod : Sound(proc'[r]) /\ Alike(proc'[r], IF r = p THEN x ELSE proc[r])

(* A process that is told of new versions is as sound as before. *)
LEMMA ToldProcess ==
    ASSUME NEW x, Sound(x), NEW qs \in SUBSET Pod, x.ctrl = "on"
    PROVE  Sound(Hearing(x, qs)) /\ Alike(Hearing(x, qs), x)
<1> DEFINE y == Hearing(x, qs)
<1>1. x \in Process
  BY Zenon DEF Sound
<1>2. /\ y \in Process /\ y.up = x.up /\ y.role = x.role /\ y.configured = x.configured
      /\ y.task = x.task /\ y.queue = x.queue /\ y.existing = x.existing /\ y.used = x.used
  BY <1>1, Zenon DEF Process, Hearing
<1>3. x.up
  <2>1. Down.ctrl = "off"
    BY Zenon DEF Down
  <2> QED
    BY <2>1, Zenon DEF Sound
<1> HIDE DEF y
<1>4. Sound(y)
  BY <1>2, <1>3, Zenon DEF Sound
<1>5. Alike(y, x)
  BY <1>2, Zenon DEF Alike
<1> QED
  BY <1>4, <1>5, Zenon DEF y

(* The processes when one of them changes. *)
LEMMA PutStep ==
    ASSUME Processes, NEW p \in Pod, NEW x, Sound(x), proc' = Put(proc, p, x)
    PROVE  Turned(p, x)
<1>1. proc' \in [Pod -> Process]
  BY Zenon DEF Processes, Put, Sound
<1>2. \A r \in Pod : proc'[r] = IF r = p THEN x ELSE proc[r]
  BY Zenon DEF Processes, Put
<1>3. \A r \in Pod : Sound(proc'[r])
  BY <1>2, Zenon DEF Processes
<1>4. \A r \in Pod : Alike(proc'[r], IF r = p THEN x ELSE proc[r])
  BY <1>2, Zenon DEF Alike
<1> QED
  BY <1>1, <1>3, <1>4, Zenon DEF Turned

(* The processes when one of them changes and they are told of new versions. *)
LEMMA NotifyStep ==
    ASSUME Processes, NEW p \in Pod, NEW x, Sound(x), NEW qs \in SUBSET Pod,
           proc' = Notified(Put(proc, p, x), qs)
    PROVE  Turned(p, x)
<1> DEFINE pr == Put(proc, p, x)
<1>1. \A r \in Pod : pr[r] = IF r = p THEN x ELSE proc[r]
  BY Zenon DEF Processes, Put
<1>2. \A r \in Pod : Sound(pr[r])
  BY <1>1, Zenon DEF Processes
<1> HIDE DEF pr
<1>3. proc' = [r \in Pod |-> proc'[r]]
  BY Zenon DEF Notified, pr
<1>4. ASSUME NEW r \in Pod PROVE Sound(proc'[r]) /\ Alike(proc'[r], pr[r])
  <2>1. CASE pr[r].ctrl = "on"
    <3>1. proc'[r] = Hearing(pr[r], qs)
      BY <2>1, Zenon DEF Notified, pr, Hearing
    <3>2. Sound(pr[r])
      BY <1>2, Zenon
    <3> QED
      BY <2>1, <3>1, <3>2, ToldProcess, Zenon
  <2>2. CASE pr[r].ctrl # "on"
    <3>1. proc'[r] = pr[r]
      BY <2>2, Zenon DEF Notified, pr
    <3> QED
      BY <1>2, <3>1, Zenon DEF Alike
  <2> QED
    BY <2>1, <2>2, Zenon
<1>5. proc' \in [Pod -> Process]
  BY <1>3, <1>4, Zenon DEF Sound
<1> QED
  BY <1>1, <1>4, <1>5, Zenon DEF Turned

(* The processes when they are told of new versions. *)
LEMMA TellStep ==
    ASSUME Processes, NEW p \in Pod, NEW qs \in SUBSET Pod, proc' = Notified(proc, qs)
    PROVE  Turned(p, proc[p])
<1>1. Put(proc, p, proc[p]) = proc
  BY Zenon DEF Processes, Put
<1>2. Sound(proc[p])
  BY Zenon DEF Processes
<1> QED
  BY <1>1, <1>2, NotifyStep, Zenon

(* A new version of a pod is its old one but for the number. *)
LEMMA VersionedPods ==
    ASSUME NEW f \in [Pod -> PodObject], \A p \in Pod : f[p].phase = "absent" => f[p] = Absent
    PROVE  /\ Versioned(f) \in [Pod -> PodObject]
           /\ \A p \in Pod :
                 /\ Versioned(f)[p].phase = "absent" => Versioned(f)[p] = Absent
                 /\ Versioned(f)[p].node = f[p].node
                 /\ Versioned(f)[p].phase = f[p].phase
<1>1. ASSUME NEW p \in Pod
      PROVE  /\ Versioned(f)[p] \in PodObject
             /\ Versioned(f)[p].phase = "absent" => Versioned(f)[p] = Absent
             /\ Versioned(f)[p].node = f[p].node
             /\ Versioned(f)[p].phase = f[p].phase
  <2>1. f[p] \in PodObject
    BY Zenon
  <2>2. CASE f[p] \in {pod[p], Absent}
    <3>1. Versioned(f)[p] = f[p]
      BY <2>2, Zenon DEF Versioned
    <3> QED
      BY <2>1, <3>1, Zenon
  <2>3. CASE f[p] \notin {pod[p], Absent}
    <3>1. Versioned(f)[p] = [f[p] EXCEPT !.rev = @ + 1]
      BY <2>3, Zenon DEF Versioned
    <3>2. /\ [f[p] EXCEPT !.rev = @ + 1] \in PodObject
          /\ [f[p] EXCEPT !.rev = @ + 1].node = f[p].node
          /\ [f[p] EXCEPT !.rev = @ + 1].phase = f[p].phase
      BY <2>1 DEF PodObject
    <3>3. f[p].phase # "absent"
      BY <2>3, Zenon
    <3> QED
      BY <3>1, <3>2, <3>3, Zenon
  <2> QED
    BY <2>2, <2>3, Zenon
<1>2. Versioned(f) \in [Pod -> PodObject]
  <2>1. Versioned(f) = [p \in Pod |-> Versioned(f)[p]]
    BY Zenon DEF Versioned
  <2> QED
    BY <1>1, <2>1, Zenon
<1> QED
  BY <1>1, <1>2, Zenon

\* The pod q becomes y, and the others stay, in their blocks and phases.
Written(q, y) ==
    \A r \in Pod : /\ pod'[r].node = IF r = q THEN y.node ELSE pod[r].node
                  /\ pod'[r].phase = IF r = q THEN y.phase ELSE pod[r].phase

(* The pods when one of them is changed. *)
LEMMA PodStep ==
    ASSUME Pods, NEW p \in Pod, NEW y \in PodObject, y.phase = "absent" => y = Absent,
           pod' = Versioned(Put(pod, p, y))
    PROVE  /\ Pods'
           /\ Written(p, y)
<1> DEFINE f == Put(pod, p, y)
<1>1. f \in [Pod -> PodObject]
  BY Zenon DEF Pods, Put
<1>2. \A q \in Pod : f[q] = IF q = p THEN y ELSE pod[q]
  BY Zenon DEF Pods, Put
<1>3. \A q \in Pod : f[q].phase = "absent" => f[q] = Absent
  BY <1>2, Zenon DEF Pods
<1> HIDE DEF f
<1>4. /\ pod' \in [Pod -> PodObject]
      /\ \A q \in Pod : /\ pod'[q].phase = "absent" => pod'[q] = Absent
                       /\ pod'[q].node = f[q].node /\ pod'[q].phase = f[q].phase
  BY <1>1, <1>3, VersionedPods, Zenon DEF f
<1> QED
  BY <1>2, <1>4, Zenon DEF Pods, Written

\* The tunnels of p change, in its connections and in its device.
Rewired(p) ==
    /\ conn' = [r \in Pod |-> [n \in Node |-> conn'[r][n]]]
    /\ via' = [r \in Pod |-> via'[r]]
    /\ \A r \in Pod : \A n \in Node : Leads(conn'[r][n], n)
    /\ \A r \in Pod : r # p => via'[r] = via[r]
    /\ ~proc'[p].up => DOMAIN via'[p] = {}

(* The tunnels stay. *)
LEMMA TunnelsKept ==
    ASSUME Devices, NEW p \in Pod, UNCHANGED <<conn, via>>, proc'[p].up \/ ~proc[p].up
    PROVE  Rewired(p)
BY Zenon DEF Devices, Rewired

\* The tunnels of p become these.
Replaced(p, links, device) ==
    conn' = Put(conn, p, links) /\ via' = Put(via, p, device)

(* The tunnels of a pod are replaced. *)
LEMMA TunnelsReplaced ==
    ASSUME Devices, NEW p \in Pod, NEW links, NEW device, Replaced(p, links, device),
           links = [n \in Node |-> links[n]],
           \A n \in Node : Leads(links[n], n),
           ~proc'[p].up => DOMAIN device = {}
    PROVE  Rewired(p)
<1>1. DOMAIN conn = Pod /\ DOMAIN via = Pod
  BY Zenon DEF Devices
<1>2. \A r \in Pod : /\ conn'[r] = IF r = p THEN links ELSE conn[r]
                   /\ via'[r] = IF r = p THEN device ELSE via[r]
  BY <1>1, Zenon DEF Replaced, Put
<1>3. \A r \in Pod : conn[r] = [n \in Node |-> conn[r][n]]
  BY Zenon DEF Devices
<1>4. \A r \in Pod : conn'[r] = [n \in Node |-> conn'[r][n]]
  BY <1>2, <1>3, Zenon
<1>5. conn' = [r \in Pod |-> conn'[r]] /\ via' = [r \in Pod |-> via'[r]]
  BY <1>1, Zenon DEF Replaced, Put
<1>6. conn' = [r \in Pod |-> [n \in Node |-> conn'[r][n]]]
  BY <1>4, <1>5, Zenon
<1>7. \A r \in Pod : \A n \in Node : Leads(conn'[r][n], n)
  BY <1>2, Zenon DEF Devices
<1> QED
  BY <1>2, <1>5, <1>6, <1>7, Zenon DEF Rewired

(* RecycleAllResources removes what it noted as connections. *)
LEMMA TunnelsRecycled ==
    ASSUME Devices, NEW p \in Pod, RecycleAllResources(p), proc'[p].up \/ ~proc[p].up
    PROVE  Rewired(p)
<1> DEFINE links == [n \in Node |-> NoLink]
           device == Removed(via[p], {conn[p][n].peer : n \in Node})
<1>1. Replaced(p, links, device)
  BY Zenon DEF RecycleAllResources, Replaced, Put
<1>2. ~proc'[p].up => DOMAIN device = {}
  BY Zenon DEF Devices, Removed
<1>3. links = [n \in Node |-> links[n]] /\ \A n \in Node : Leads(links[n], n)
  BY Zenon DEF Leads
<1> HIDE DEF links, device
<1> QED
  BY <1>1, <1>2, <1>3, TunnelsReplaced, Zenon

(* The tunnels of a process end with it. *)
LEMMA TunnelsStopped ==
    ASSUME Devices, NEW p \in Pod, Stopped(p)
    PROVE  Rewired(p)
<1> DEFINE links == [n \in Node |-> NoLink]
           device == [c \in {} |-> NoLink.peer]
<1>1. Replaced(p, links, device)
  BY Zenon DEF Stopped, Replaced, Put
<1>2. DOMAIN device = {}
  BY Zenon
<1>3. links = [n \in Node |-> links[n]] /\ \A n \in Node : Leads(links[n], n)
  BY Zenon DEF Leads
<1> HIDE DEF links, device
<1> QED
  BY <1>1, <1>2, <1>3, TunnelsReplaced, Zenon

(* AddInnerClusterTunnel connects to the node of the pod. *)
LEMMA TunnelsAdded ==
    ASSUME Devices, NEW p \in Pod, NEW q \in Pod, NEW o, NEW cidr, NEW device,
           AddInnerClusterTunnel(p, q, o, cidr, device), proc'[p].up
    PROVE  Rewired(p)
<1> DEFINE n == NodeOf[q]
           peer == <<q, o.key>>
           link == [peer |-> peer, cidr |-> cidr]
           links == [conn[p] EXCEPT ![n] = link]
           old == Removed(via[p], {conn[p][n].peer})
           new == IF device THEN Configured(old, peer, cidr) ELSE old
<1>1. CASE UNCHANGED <<conn, via>>
  BY <1>1, TunnelsKept, Zenon
<1>2. CASE /\ conn' = [conn EXCEPT ![p][n] = link]
           /\ via' = [via EXCEPT ![p] = new]
  <2>1. Replaced(p, links, new)
    BY <1>2, Zenon DEF Replaced, Put
  <2>2. Leads(link, n)
    BY Zenon DEF Leads
  <2>3. conn[p] = [m \in Node |-> conn[p][m]]
    BY Zenon DEF Devices
  <2>4. n \in Node
    BY Zenon DEF Node
  <2> HIDE DEF n, link
  <2>5. links = [m \in Node |-> links[m]]
    BY <2>3, Zenon
  <2>6. \A m \in Node : links[m] = IF m = n THEN link ELSE conn[p][m]
    BY <2>3, Zenon
  <2>7. \A m \in Node : Leads(links[m], m)
    BY <2>2, <2>6, Zenon DEF Devices
  <2> HIDE DEF links, new
  <2> QED
    BY <2>1, <2>5, <2>7, TunnelsReplaced, Zenon
<1> QED
  BY <1>1, <1>2, Zenon DEF AddInnerClusterTunnel

\* No pod but p goes, and p stays if its process runs, as a candidate or not.
Lasting(p, x) ==
    /\ \A q \in Pod : q # p /\ pod'[q].phase = "absent" => pod[q].phase = "absent"
    /\ x.up => pod'[p].phase # "absent"
    /\ x.role = "candidate" => p \in Candidate

(* The parts of the invariant, put together for a step of p. *)
LEMMA PartsKept ==
    ASSUME Inv, NEW p \in Pod, NEW x, Turned(p, x), Lasting(p, x), Pods', Listers', Rewired(p),
           lease' \in Candidate \cup {Nobody}, ~astray' => Counted'
    PROVE  Inv'
<1>1. \A r \in Pod : proc'[r].up = (IF r = p THEN x ELSE proc[r]).up
  BY Zenon DEF Turned, Alike
<1>2. proc'[p].up = x.up /\ \A r \in Pod : r # p => proc'[r].up = proc[r].up
  BY <1>1, Zenon
<1>3. Processes'
  <2>1. \A r \in Pod : proc'[r].up => pod'[r].phase # "absent"
    BY <1>2, Zenon DEF Inv, Processes, Lasting
  <2>2. \A r \in Pod : Alike(proc'[r], IF r = p THEN x ELSE proc[r])
    BY Zenon DEF Turned
  <2>3. \A r \in Pod : proc'[r].role = "candidate" => r \in Candidate
    BY <2>2, Zenon DEF Alike, Inv, Processes, Lasting
  <2> QED
    BY <2>1, <2>3, Zenon DEF Turned, Processes
<1>4. Devices'
  <2>1. \A r \in Pod : ~proc'[r].up => DOMAIN via'[r] = {}
    BY <1>2, Zenon DEF Inv, Devices, Rewired
  <2> QED
    BY <2>1, Zenon DEF Devices, Rewired
<1> QED
  BY <1>3, <1>4, Zenon DEF Inv

\* What p, now x, and the leader may do while the blocks stay counted.
Counting(p, x) ==
    /\ \A q \in Pod : q # p => pod'[q].node = pod[q].node
    /\ pod'[p].node \in {pod[p].node, NoCIDR}
    /\ x.used \in {NoCIDR, pod'[p].node} \/ (x.used = proc[p].used /\ pod'[p].node = pod[p].node)
    /\ lease' \in {lease, Nobody, p}
    /\ lease' = p /\ x.configured =>
          \/ lease = p /\ proc[p].configured /\ x.existing = proc[p].existing
          \/ \A q \in Pod : pod[q].node \in x.existing \cup {NoCIDR}

(* A step that stores no block leaves the blocks counted. *)
LEMMA CountedStep ==
    ASSUME Counted, NEW p \in Pod, NEW x, Turned(p, x), Counting(p, x)
    PROVE  Counted'
<1>1. \A q \in Pod : pod'[q].node \in {pod[q].node, NoCIDR}
  BY Zenon DEF Counting
<1>2. \A r \in Pod : Alike(proc'[r], IF r = p THEN x ELSE proc[r])
  BY Zenon DEF Turned
<1>3. Alike(proc'[p], x) /\ \A r \in Pod : r # p => Alike(proc'[r], proc[r])
  BY <1>2, Zenon
<1>4. ASSUME NEW r \in Pod PROVE proc'[r].used \in {NoCIDR, pod'[r].node}
  <2>1. CASE r = p
    BY <1>3, <2>1, Zenon DEF Alike, Counting, Counted
  <2>2. CASE r # p
    BY <1>3, <2>2, Zenon DEF Alike, Counting, Counted
  <2> QED
    BY <2>1, <2>2, Zenon
<1>5. ASSUME NEW q \in Pod, NEW r \in Pod, q # r, NoCIDR \notin {pod'[q].node, pod'[r].node}
      PROVE  ~isOverlappingCIDR(pod'[q].node, pod'[r].node)
  <2>1. pod'[q].node = pod[q].node /\ pod'[r].node = pod[r].node
    BY <1>1, <1>5, Zenon
  <2> QED
    BY <1>5, <2>1, Zenon DEF Counted
<1>6. ASSUME NEW r \in Pod, lease' = r, proc'[r].configured, NEW q \in Pod
      PROVE  pod'[q].node \in proc'[r].existing \cup {NoCIDR}
  <2>1. CASE r = p
    <3>1. proc'[p].existing = x.existing /\ x.configured
      BY <1>3, <1>6, <2>1, Zenon DEF Alike
    <3>2. pod[q].node \in x.existing \cup {NoCIDR}
      BY <1>6, <2>1, <3>1, Zenon DEF Counting, Counted
    <3> QED
      BY <1>1, <2>1, <3>1, <3>2, Zenon
  <2>2. CASE r # p
    <3>1. proc'[r].existing = proc[r].existing /\ proc[r].configured
      BY <1>3, <1>6, <2>2, Zenon DEF Alike
    <3>2. lease = r
      BY <1>6, <2>2, StartAssumption, Zenon DEF Counting
    <3>3. pod[q].node \in proc[r].existing \cup {NoCIDR}
      BY <3>1, <3>2, Zenon DEF Counted
    <3> QED
      BY <1>1, <3>1, <3>3, Zenon
  <2> QED
    BY <2>1, <2>2, Zenon
<1>7. /\ \A r \in Pod : proc'[r].used \in {NoCIDR, pod'[r].node}
      /\ \A q, r \in Pod : q # r /\ NoCIDR \notin {pod'[q].node, pod'[r].node} =>
            ~isOverlappingCIDR(pod'[q].node, pod'[r].node)
      /\ \A r \in Pod : lease' = r /\ proc'[r].configured =>
            \A q \in Pod : pod'[q].node \in proc'[r].existing \cup {NoCIDR}
  BY <1>4, <1>5, <1>6, Zenon
<1> QED
  BY <1>7, Zenon DEF Counted

\* No block changes and no pod goes.
NodesKept ==
    \A q \in Pod : pod'[q].node = pod[q].node /\ (pod'[q].phase = "absent" => pod[q].phase = "absent")

(* A step that concerns no block, nor the lease but for losing it. *)
LEMMA PlainStep ==
    ASSUME Inv, NEW p \in Pod, NEW x, Turned(p, x), Alike(x, proc[p]), NodesKept, Pods', Listers',
           Rewired(p), lease' \in {lease, Nobody}, astray' = astray
    PROVE  Inv'
<1>1. Lasting(p, x)
  BY Zenon DEF Lasting, NodesKept, Alike, Inv, Processes
<1>2. Counting(p, x)
  BY StartAssumption, Zenon DEF Counting, NodesKept, Alike
<1>3. ~astray' => Counted'
  BY <1>2, CountedStep, Zenon DEF Inv
<1>4. lease' \in Candidate \cup {Nobody}
  BY Zenon DEF Inv
<1> QED
  BY <1>1, <1>3, <1>4, PartsKept, Zenon

(* What the invariant says of one process. *)
LEMMA ProcessFacts ==
    ASSUME Inv, NEW p \in Pod
    PROVE  /\ Sound(proc[p]) /\ proc[p] \in Process
           /\ proc[p].up => pod[p].phase # "absent"
           /\ \/ proc[p].ctrl # "off" \/ proc[p].role \in {"candidate", "leading"}
              \/ proc[p].task # NoTask
              => proc[p].up
<1>1. Sound(proc[p]) /\ (proc[p].up => pod[p].phase # "absent")
  BY Zenon DEF Inv, Processes
<1>2. Down.ctrl = "off" /\ Down.role = "none" /\ Down.task = NoTask
  BY Zenon DEF Down
<1> QED
  BY <1>1, <1>2, Zenon DEF Sound

(* What the invariant says of pods and listers. *)
LEMMA PodFacts ==
    ASSUME Inv
    PROVE  /\ \A p \in Pod : pod[p] \in PodObject /\ (pod[p].phase = "absent" <=> pod[p] = Absent)
           /\ \A p, q \in Pod : cache[p][q] \in PodObject
           /\ Absent \in PodObject /\ Absent.phase = "absent" /\ Absent.node = NoCIDR
<1>1. Absent \in PodObject /\ Absent.phase = "absent" /\ Absent.node = NoCIDR
  BY Zenon DEF Absent, PodObject
<1> QED
  BY <1>1, Zenon DEF Inv, Pods, Listers

(* A process that changes nothing about blocks stays sound. *)
LEMMA SoundChange ==
    ASSUME NEW x, Sound(x), x.up, NEW y \in Process, Alike(y, x),
           x.configured => y.role \in {"leading", "ended"},
           y.task = NoTask \/ (y.task = x.task /\ y.task.pod \in y.queue)
    PROVE  Sound(y)
BY Zenon DEF Sound, Alike

(* A step of one process in which nothing else changes. *)
LEMMA OwnStep ==
    ASSUME Inv, NEW p \in Pod, NEW x, Sound(x), Alike(x, proc[p]), proc' = Put(proc, p, x),
           UNCHANGED <<pod, lease, cache, conn, via, astray>>
    PROVE  Inv'
<1>1. Turned(p, x)
  BY PutStep, Zenon DEF Inv
<1>2. proc'[p].up = proc[p].up
  BY <1>1, Zenon DEF Turned, Alike
<1>3. Rewired(p)
  BY <1>2, TunnelsKept, Zenon DEF Inv
<1>4. Pods' /\ Listers' /\ NodesKept
  BY Zenon DEF Inv, Pods, Listers, NodesKept
<1> QED
  BY <1>1, <1>3, <1>4, PlainStep, Zenon

-----------------------------------------------------------------------------
(* The inductive invariant. *)

(* A handler finds the pod gone. *)
LEMMA GoneStep ==
    ASSUME Inv, NEW p \in Pod, NEW q \in Pod, HandleGone(p, q)
    PROVE  Inv'
<1> DEFINE x == [proc[p] EXCEPT !.queue = @ \ {q}]
<1>1. Sound(proc[p]) /\ proc[p] \in Process /\ proc[p].up /\ proc[p].task = NoTask
  BY ProcessFacts, Zenon DEF HandleGone, Handling
<1>2. x \in Process /\ Alike(x, proc[p]) /\ x.role = proc[p].role /\ x.task = proc[p].task
  BY <1>1, Zenon DEF Process, Alike
<1>3. proc' = Put(proc, p, x)
  BY Zenon DEF HandleGone, Put
<1> HIDE DEF x
<1>4. Sound(x)
  BY <1>1, <1>2, SoundChange, Zenon DEF Sound
<1> QED
  BY <1>2, <1>3, <1>4, OwnStep, Zenon DEF HandleGone

(* A leader that lost the lease ends what it started with its context. *)
LEMMA StoppedLeadingStep ==
    ASSUME Inv, NEW p \in Pod, OnStoppedLeading(p)
    PROVE  Inv'
<1> DEFINE x == [proc[p] EXCEPT !.role = "ended",
                                !.ctrl = IF proc[p].leaderCtx THEN "stopped" ELSE @,
                                !.new = IF proc[p].leaderCtx THEN {} ELSE @,
                                !.queue = IF proc[p].leaderCtx THEN @ \cap {proc[p].task.pod} ELSE @]
<1>1. Sound(proc[p]) /\ proc[p] \in Process /\ proc[p].up
  BY ProcessFacts, Zenon DEF OnStoppedLeading
<1>2. x \in Process /\ Alike(x, proc[p]) /\ x.role = "ended" /\ x.task = proc[p].task
  BY <1>1 DEF Process, Alike
<1>3. x.queue = IF proc[p].leaderCtx THEN proc[p].queue \cap {proc[p].task.pod} ELSE proc[p].queue
  BY <1>1, Zenon DEF Process
<1>4. proc' = Put(proc, p, x)
  BY Zenon DEF OnStoppedLeading, Put
<1> HIDE DEF x
<1>5. x.task # NoTask => x.task.pod \in x.queue
  BY <1>1, <1>2, <1>3, Zenon DEF Sound
<1>6. Sound(x)
  BY <1>1, <1>2, <1>5, SoundChange, Zenon
<1> QED
  BY <1>2, <1>4, <1>6, OwnStep, Zenon DEF OnStoppedLeading

(* A block is not stored. *)
LEMMA NotStoredStep ==
    ASSUME Inv, NEW p \in Pod, BlockNotStored(p)
    PROVE  Inv'
<1> DEFINE x == [proc[p] EXCEPT !.task = NoTask]
<1>1. Sound(proc[p]) /\ proc[p] \in Process /\ proc[p].up
  BY ProcessFacts, Zenon DEF BlockNotStored
<1>2. NoTask \in [pod : Pod \cup {Nobody}, object : PodObject]
  BY PodFacts, Zenon DEF NoTask
<1>3. x \in Process /\ Alike(x, proc[p]) /\ x.role = proc[p].role /\ x.task = NoTask
  BY <1>1, <1>2, Zenon DEF Process, Alike
<1>4. proc' = Put(proc, p, x)
  BY Zenon DEF BlockNotStored, Put
<1> HIDE DEF x
<1>5. Sound(x)
  BY <1>1, <1>3, SoundChange, Zenon DEF Sound
<1> QED
  BY <1>3, <1>4, <1>5, OwnStep, Zenon DEF BlockNotStored

(* The holder loses the lease, or it runs out. *)
LEMMA LeaseLostStep ==
    ASSUME Inv, lease' = Nobody, UNCHANGED <<pod, proc, cache, conn, via, astray>>
    PROVE  Inv'
<1>1. Pods' /\ Processes' /\ Listers' /\ Devices'
  BY Zenon DEF Inv, Pods, Processes, Listers, Devices
<1>2. Counted => Counted'
  BY StartAssumption, Zenon DEF Counted
<1> QED
  BY <1>1, <1>2, Zenon DEF Inv

(* waitForCIDRReady takes the block the pod has. *)
LEMMA ReadyStep ==
    ASSUME Inv, NEW p \in Pod, waitForCIDRReady(p)
    PROVE  Inv'
<1> DEFINE x == [proc[p] EXCEPT !.used = pod[p].node]
<1>1. Sound(proc[p]) /\ proc[p] \in Process /\ proc[p].up /\ pod[p].phase # "absent"
  BY ProcessFacts, Zenon DEF waitForCIDRReady
<1>2. pod[p].node \in Blocks \cup {NoCIDR}
  BY Zenon DEF Inv, Pods, PodObject
<1>3. /\ x \in Process /\ x.up = proc[p].up /\ x.configured = proc[p].configured
      /\ x.existing = proc[p].existing /\ x.used = pod[p].node /\ x.role = proc[p].role
      /\ x.task = proc[p].task /\ x.queue = proc[p].queue
  BY <1>1, <1>2, Zenon DEF Process
<1>4. proc' = Put(proc, p, x)
  BY Zenon DEF waitForCIDRReady, Put
<1> HIDE DEF x
<1>5. Sound(x)
  BY <1>1, <1>3, Zenon DEF Sound
<1>6. Turned(p, x)
  BY <1>4, <1>5, PutStep, Zenon DEF Inv
<1>7. Rewired(p)
  <2>1. proc'[p].up
    BY <1>1, <1>3, <1>6, Zenon DEF Turned, Alike
  <2> QED
    BY <2>1, TunnelsKept, Zenon DEF Inv, waitForCIDRReady
<1>8. Pods' /\ Listers' /\ Lasting(p, x)
  BY <1>1, <1>3, Zenon DEF Inv, Pods, Processes, Listers, Lasting, waitForCIDRReady
<1>9. Counting(p, x)
  BY <1>3, Zenon DEF Counting, waitForCIDRReady
<1>10. ~astray' => Counted'
  BY <1>6, <1>9, CountedStep, Zenon DEF Inv, waitForCIDRReady
<1>11. lease' \in Candidate \cup {Nobody}
  BY Zenon DEF Inv, waitForCIDRReady
<1> QED
  BY <1>6, <1>7, <1>8, <1>10, <1>11, PartsKept, Zenon

(* A process that is down is sound. *)
LEMMA DownSound ==
    Sound(Down) /\ ~Down.up /\ Down.used = NoCIDR /\ ~Down.configured /\ Down.role = "none"
<1>1. Absent \in PodObject
  BY Zenon DEF Absent, PodObject
<1>2. NoTask \in [pod : Pod \cup {Nobody}, object : PodObject]
  BY <1>1, Zenon DEF NoTask
<1>3. Down \in Process
  BY <1>2, Zenon DEF Down, Process
<1>4. ~Down.up /\ Down.used = NoCIDR /\ ~Down.configured /\ Down.task = NoTask /\ Down.role = "none"
  BY Zenon DEF Down
<1> QED
  BY <1>3, <1>4, Zenon DEF Sound

(* A process ends, and its pod with it or not. *)
LEMMA EndStep ==
    ASSUME Inv, NEW p \in Pod, Turned(p, Down), Stopped(p), Pods', UNCHANGED <<lease, astray>>,
           \A q \in Pod : q # p => pod'[q] = pod[q], pod'[p].node \in {pod[p].node, NoCIDR}
    PROVE  Inv'
<1>1. Listers'
  <2>1. [q \in Pod |-> Absent] \in [Pod -> PodObject]
    BY PodFacts, Zenon
  <2> QED
    BY <2>1, Zenon DEF Inv, Listers, Stopped
<1>2. Rewired(p)
  BY TunnelsStopped, Zenon DEF Inv
<1>3. Lasting(p, Down)
  BY DownSound, Zenon DEF Lasting
<1>4. Counting(p, Down)
  BY DownSound, Zenon DEF Counting
<1>5. ~astray' => Counted'
  BY <1>4, CountedStep, Zenon DEF Inv
<1> QED
  BY <1>1, <1>2, <1>3, <1>5, PartsKept, Zenon DEF Inv

(* A process crashes. *)
LEMMA CrashStep ==
    ASSUME Inv, NEW p \in Pod, Crash(p)
    PROVE  Inv'
<1>1. proc' = Put(proc, p, Down)
  BY Zenon DEF Crash, Put
<1>2. Turned(p, Down)
  BY <1>1, DownSound, PutStep, Zenon DEF Inv
<1>3. Pods'
  BY Zenon DEF Inv, Pods, Crash
<1> QED
  BY <1>2, <1>3, EndStep, Zenon DEF Crash

(* A pod that is being deleted goes. *)
LEMMA GoesStep ==
    ASSUME Inv, NEW p \in Pod, Goes(p)
    PROVE  Inv'
<1>1. proc' = Notified(Put(proc, p, Down), {p})
  BY Zenon DEF Goes, Put
<1>2. Turned(p, Down)
  BY <1>1, DownSound, NotifyStep, Zenon DEF Inv
<1>3. DOMAIN pod = Pod
  BY Zenon DEF Inv, Pods
<1>4. pod'[p] = Absent /\ \A q \in Pod : q # p => pod'[q] = pod[q]
  BY <1>3, Zenon DEF Goes
<1>5. pod' \in [Pod -> PodObject]
  BY PodFacts, Zenon DEF Inv, Pods, Goes
<1>6. Pods'
  BY <1>4, <1>5, Zenon DEF Inv, Pods
<1> QED
  BY <1>2, <1>4, <1>6, PodFacts, EndStep, Zenon DEF Goes

(* A pod is written, but not its block. *)
LEMMA WriteStep ==
    ASSUME Inv, NEW p \in Pod, NEW x, Turned(p, x), Alike(x, proc[p]),
           NEW q \in Pod, NEW y \in PodObject, y.phase # "absent", y.node = pod[q].node,
           pod' = Versioned(Put(pod, q, y)), Listers', Rewired(p),
           lease' \in {lease, Nobody}, astray' = astray
    PROVE  Inv'
<1>1. Pods'
  BY PodStep, Zenon DEF Inv
<1>2. NodesKept
  <2>1. Written(q, y)
    BY PodStep, Zenon DEF Inv
  <2> QED
    BY <2>1, Zenon DEF NodesKept, Written
<1> QED
  BY <1>1, <1>2, PlainStep, Zenon

(* A pod is to be deleted, or takes the place of one that is gone. *)
LEMMA PhaseStep ==
    ASSUME Inv, NEW p \in Pod, NEW phase \in {"alive", "dying"},
           pod' = Versioned([pod EXCEPT ![p].phase = phase]), proc' = Notified(proc, {p}),
           UNCHANGED <<lease, cache, conn, via, astray>>
    PROVE  Inv'
<1> DEFINE y == [pod[p] EXCEPT !.phase = phase]
<1>1. pod[p] \in PodObject
  BY PodFacts, Zenon
<1>2. y \in PodObject /\ y.phase # "absent" /\ y.node = pod[p].node
  BY <1>1, Zenon DEF PodObject
<1>3. pod' = Versioned(Put(pod, p, y))
  BY Zenon DEF Put
<1>4. Turned(p, proc[p])
  BY TellStep, Zenon DEF Inv
<1>5. Alike(proc[p], proc[p])
  BY Zenon DEF Alike
<1>6. Rewired(p)
  <2>1. proc'[p].up = proc[p].up
    BY <1>4, Zenon DEF Turned, Alike
  <2> QED
    BY <2>1, TunnelsKept, Zenon DEF Inv
<1>7. Listers'
  BY Zenon DEF Inv, Listers
<1> HIDE DEF y
<1> QED
  BY <1>2, <1>3, <1>4, <1>5, <1>6, <1>7, WriteStep, Zenon

(* A process that has started is sound and has no block yet. *)
LEMMA BootedSound ==
    ASSUME NEW p \in Pod, NEW ctrl \in {"off", "on"}, NEW new \in SUBSET Pod, NEW x,
           x = [Booted(p) EXCEPT !.ctrl = ctrl, !.new = new]
    PROVE  /\ Sound(x) /\ x.up /\ ~x.configured /\ x.used = NoCIDR
           /\ x.role = "candidate" => p \in Candidate
<1>1. Down \in Process /\ Down.task = NoTask
  BY DownSound, Zenon DEF Sound, Down
<1> DEFINE role == IF p \in Candidate THEN "candidate" ELSE "worker"
<1>2. role \in {"candidate", "worker"} /\ (role = "candidate" => p \in Candidate)
  BY Zenon
<1>3. x = [Down EXCEPT !.up = TRUE, !.role = role, !.ctrl = ctrl, !.new = new]
  BY Zenon DEF Booted, Down
<1> HIDE DEF role
<1>4. /\ x \in Process /\ x.up /\ x.configured = Down.configured /\ x.used = Down.used
      /\ x.task = Down.task /\ x.role = role
  BY <1>1, <1>2, <1>3 DEF Process
<1>5. ~x.configured /\ x.used = NoCIDR /\ x.task = NoTask
  BY <1>1, <1>4, DownSound, Zenon
<1> QED
  BY <1>2, <1>4, <1>5, Zenon DEF Sound

(* A process starts, with a new key. *)
LEMMA BootStep ==
    ASSUME Inv, NEW p \in Pod, Boot(p)
    PROVE  Inv'
<1> DEFINE y == [pod[p] EXCEPT !.key = @ + 1]
           ctrl == IF p \in Candidate THEN "off" ELSE "on"
           new == IF p \in Candidate THEN {} ELSE Existing
           x == [Booted(p) EXCEPT !.ctrl = ctrl, !.new = new]
<1>1. pod[p] \in PodObject /\ pod[p].phase # "absent"
  BY PodFacts, Zenon DEF Boot
<1>2. y \in PodObject /\ y.phase = pod[p].phase /\ y.node = pod[p].node
  BY <1>1 DEF PodObject
<1>3. pod' = Versioned(Put(pod, p, y))
  BY Zenon DEF Boot, Put
<1>4. proc' = Notified(Put(proc, p, x), {p})
  <2>1. DOMAIN proc = Pod
    BY Zenon DEF Inv, Processes
  <2>2. CASE p \in Candidate
    <3>1. x = Booted(p)
      <4> DEFINE b == Booted(p)
      <4>1. ctrl = "off" /\ new = {}
        BY <2>2, Zenon
      <4>2. b.ctrl = "off" /\ b.new = {}
        BY Zenon DEF Booted, Down
      <4>3. b = [f \in DOMAIN b |-> b[f]]
        BY Zenon DEF Booted, Down
      <4> HIDE DEF b
      <4>4. [b EXCEPT !.ctrl = "off", !.new = {}] = b
        BY <4>2, <4>3, Zenon
      <4> QED
        BY <4>1, <4>4, Zenon DEF b
    <3> QED
      BY <2>2, <3>1, Zenon DEF Boot, Put
  <2>3. CASE p \notin Candidate
    <3>1. Start(Put(proc, p, Booted(p)), p) = Put(proc, p, x)
      BY <2>1, <2>3, Zenon DEF Start, Put
    <3> QED
      BY <2>3, <3>1, Zenon DEF Boot, Put
  <2> QED
    BY <2>2, <2>3, Zenon
<1>5. ctrl \in {"off", "on"} /\ new \in SUBSET Pod
  BY Zenon DEF Existing
<1> HIDE DEF y, ctrl, new
<1>6. /\ Sound(x) /\ x.up /\ ~x.configured /\ x.used = NoCIDR
      /\ x.role = "candidate" => p \in Candidate
  BY <1>5, BootedSound, Zenon
<1> HIDE DEF x
<1>7. Turned(p, x)
  BY <1>4, <1>6, NotifyStep, Zenon DEF Inv
<1>8. Pods'
  BY <1>1, <1>2, <1>3, PodStep, Zenon DEF Inv
<1>9. Written(p, y)
  BY <1>1, <1>2, <1>3, PodStep, Zenon DEF Inv
<1>10. Lasting(p, x)
  BY <1>1, <1>2, <1>6, <1>9, Zenon DEF Lasting, Written
<1>11. Counting(p, x)
  BY <1>2, <1>6, <1>9, Zenon DEF Counting, Written, Boot
<1>12. ~astray' => Counted'
  BY <1>7, <1>11, CountedStep, Zenon DEF Inv, Boot
<1>13. Listers'
  BY <1>8, Zenon DEF Inv, Pods, Listers, Listed, Boot
<1>14. Rewired(p)
  <2>1. proc'[p].up
    BY <1>6, <1>7, Zenon DEF Turned, Alike
  <2> QED
    BY <2>1, TunnelsKept, Zenon DEF Inv, Boot
<1> QED
  BY <1>7, <1>8, <1>10, <1>12, <1>13, <1>14, PartsKept, Zenon DEF Inv, Boot

(* A process that becomes the leader has yet to ask for the blocks. *)
LEMMA ElectedSound ==
    ASSUME Inv, NEW p \in Pod, Elected(p), NEW x,
           x = [proc[p] EXCEPT !.role = "leading", !.reported = p, !.currentLeader = p]
    PROVE  Sound(x) /\ Alike(x, proc[p]) /\ x.up /\ ~x.configured /\ p \in Candidate
<1>1. /\ Sound(proc[p]) /\ proc[p] \in Process /\ proc[p].up /\ proc[p].role = "candidate"
      /\ p \in Candidate
  BY ProcessFacts, Zenon DEF Elected, Inv, Processes
<1>2. ~proc[p].configured /\ proc[p].task = NoTask
  BY <1>1, Zenon DEF Sound
<1>3. /\ x \in Process /\ Alike(x, proc[p]) /\ x.role = "leading" /\ x.task = proc[p].task
  BY <1>1, Zenon DEF Process, Alike
<1>4. Sound(x)
  BY <1>1, <1>2, <1>3, SoundChange, Zenon
<1> QED
  BY <1>1, <1>2, <1>3, <1>4, Zenon DEF Alike

(* A candidate gets the lease. *)
LEMMA ElectedStep ==
    ASSUME Inv, NEW p \in Pod, Elected(p), NEW x, Turned(p, x), Alike(x, proc[p]), x.up,
           ~x.configured, p \in Candidate, NodesKept, Pods', Listers', astray' = astray
    PROVE  Inv'
<1>1. Rewired(p)
  <2>1. proc'[p].up
    BY Zenon DEF Turned, Alike
  <2> QED
    BY <2>1, TunnelsRecycled, Zenon DEF Inv, Elected
<1>2. Lasting(p, x)
  BY Zenon DEF Lasting, NodesKept, Alike, Inv, Processes
<1>3. Counting(p, x)
  BY Zenon DEF Counting, NodesKept, Alike, Elected
<1>4. ~astray' => Counted'
  BY <1>3, CountedStep, Zenon DEF Inv
<1> QED
  BY <1>1, <1>2, <1>4, PartsKept, Zenon DEF Elected

(* The elected leader's label is written. *)
LEMMA StartedLeadingStep ==
    ASSUME Inv, NEW p \in Pod, OnStartedLeading(p)
    PROVE  Inv'
<1> DEFINE x == [proc[p] EXCEPT !.role = "leading", !.reported = p, !.currentLeader = p]
           y == [pod[p] EXCEPT !.leader = TRUE]
<1>1. Sound(x) /\ Alike(x, proc[p]) /\ x.up /\ ~x.configured /\ p \in Candidate
  BY ElectedSound, Zenon DEF OnStartedLeading
<1>2. proc' = Notified(Put(proc, p, x), {p})
  <2>1. DOMAIN proc = Pod
    BY Zenon DEF Inv, Processes
  <2>2. [proc EXCEPT ![p].role = "leading", ![p].reported = p, ![p].currentLeader = p] = Put(proc, p, x)
    BY <2>1, Zenon DEF Put
  <2> QED
    BY <2>2, Zenon DEF OnStartedLeading
<1>3. y \in PodObject /\ y.phase = pod[p].phase /\ y.node = pod[p].node
  <2>1. pod[p] \in PodObject
    BY PodFacts, Zenon
  <2> QED
    BY <2>1, Zenon DEF PodObject
<1>4. pod' = Versioned(Put(pod, p, y))
  BY Zenon DEF OnStartedLeading, Put
<1>5. pod[p].phase # "absent"
  BY <1>1, Zenon DEF Alike, Inv, Processes
<1> HIDE DEF x, y
<1>6. Turned(p, x)
  BY <1>1, <1>2, NotifyStep, Zenon DEF Inv
<1>7. Pods' /\ NodesKept
  <2>1. /\ Pods'
        /\ Written(p, y)
    BY <1>3, <1>4, <1>5, PodStep, Zenon DEF Inv
  <2> QED
    BY <1>3, <2>1, Zenon DEF NodesKept, Written
<1>8. Listers'
  BY Zenon DEF Inv, Listers, OnStartedLeading
<1> QED
  BY <1>1, <1>6, <1>7, <1>8, ElectedStep, Zenon DEF OnStartedLeading

(* The label is not written: Start only logs it. *)
LEMMA LabelFailsStep ==
    ASSUME Inv, NEW p \in Pod, LabelFails(p)
    PROVE  Inv'
<1> DEFINE x == [proc[p] EXCEPT !.role = "leading", !.reported = p, !.currentLeader = p]
<1>1. Sound(x) /\ Alike(x, proc[p]) /\ x.up /\ ~x.configured /\ p \in Candidate
  BY ElectedSound, Zenon DEF LabelFails
<1>2. proc' = Put(proc, p, x)
  <2>1. DOMAIN proc = Pod
    BY Zenon DEF Inv, Processes
  <2> QED
    BY <2>1, Zenon DEF Put, LabelFails
<1> HIDE DEF x
<1>3. Turned(p, x)
  BY <1>1, <1>2, PutStep, Zenon DEF Inv
<1>4. Pods' /\ NodesKept /\ Listers'
  BY Zenon DEF Inv, Pods, NodesKept, Listers, LabelFails
<1> QED
  BY <1>1, <1>3, <1>4, ElectedStep, Zenon DEF LabelFails

(* innerTunnelControllerOnce starts the controller or finds it started. *)
LEMMA StartOnceStep ==
    ASSUME Inv, NEW p \in Pod, NEW x, Sound(x), x.up, NEW changed \in SUBSET Pod, Pods',
           StartOnce(Put(proc, p, x), p, changed)
    PROVE  Turned(p, x) /\ Listers'
<1>1. CASE proc[p].ctrl = "off"
  <2> DEFINE z == [x EXCEPT !.ctrl = "on", !.new = Existing]
  <2>1. x \in Process /\ Existing \in SUBSET Pod
    BY Zenon DEF Sound, Existing
  <2>2. /\ z \in Process /\ Alike(z, x) /\ z.role = x.role /\ z.task = x.task /\ z.queue = x.queue
    BY <2>1, Zenon DEF Process, Alike
  <2>3. Start(Put(proc, p, x), p) = Put(proc, p, z)
    <3>1. DOMAIN proc = Pod
      BY Zenon DEF Inv, Processes
    <3> QED
      BY <3>1, Zenon DEF Start, Put
  <2> HIDE DEF z
  <2>4. Sound(z)
    BY <2>2, SoundChange, Zenon DEF Sound
  <2>5. proc' = Notified(Put(proc, p, z), changed) /\ cache' = [cache EXCEPT ![p] = pod']
    BY <1>1, <2>3, Zenon DEF StartOnce, Listed
  <2>6. Turned(p, z)
    BY <2>4, <2>5, NotifyStep, Zenon DEF Inv
  <2>7. Turned(p, x)
    <3>1. \A r \in Pod : Alike(proc'[r], IF r = p THEN z ELSE proc[r])
      BY <2>6, Zenon DEF Turned
    <3>2. \A r \in Pod : Alike(proc'[r], IF r = p THEN x ELSE proc[r])
      BY <2>2, <3>1, Zenon DEF Alike
    <3> QED
      BY <2>6, <3>2, Zenon DEF Turned
  <2>8. Listers'
    BY <2>5, Zenon DEF Inv, Pods, Listers
  <2> QED
    BY <2>7, <2>8, Zenon
<1>2. CASE proc[p].ctrl # "off"
  <2>1. proc' = Notified(Put(proc, p, x), changed) /\ UNCHANGED cache
    BY <1>2, Zenon DEF StartOnce
  <2>2. Turned(p, x)
    BY <2>1, NotifyStep, Zenon DEF Inv
  <2> QED
    BY <2>1, <2>2, Zenon DEF Inv, Listers
<1> QED
  BY <1>1, <1>2, Zenon

(* A leader reads the blocks of all pods. *)
LEMMA ConfigStep ==
    ASSUME Inv, NEW p \in Pod, ConfigWithExistingCIDR(p)
    PROVE  Inv'
<1> DEFINE known == {pod[q].node : q \in Existing} \ {NoCIDR}
           ctx == proc[p].ctrl = "off"
           x == [proc[p] EXCEPT !.configured = TRUE, !.queue = @ \cup Existing,
                                !.existing = known, !.leaderCtx = ctx]
           y == [pod[p] EXCEPT !.tunnel = TunnelCIDR]
<1>1. /\ Sound(proc[p]) /\ proc[p] \in Process /\ proc[p].up /\ proc[p].role = "leading"
      /\ ~proc[p].configured /\ pod[p].phase # "absent"
  BY ProcessFacts, Zenon DEF ConfigWithExistingCIDR
<1>2. proc[p].task = NoTask
  BY <1>1, Zenon DEF Sound
<1>3. y \in PodObject /\ y.phase = pod[p].phase /\ y.node = pod[p].node
  <2>1. pod[p] \in PodObject
    BY PodFacts, Zenon
  <2> QED
    BY <2>1, Zenon DEF PodObject
<1>4. pod' = Versioned(Put(pod, p, y))
  BY Zenon DEF ConfigWithExistingCIDR, Put
<1>5. \A q \in Pod : pod[q].node \in Blocks \cup {NoCIDR}
  BY Zenon DEF Inv, Pods, PodObject
<1>6. known \in SUBSET Blocks /\ Existing \in SUBSET Pod /\ ctx \in BOOLEAN
  BY <1>5, Zenon DEF Existing
<1>7. \A q \in Pod : pod[q].node \in known \cup {NoCIDR}
  BY PodFacts, Zenon DEF Existing
<1>8. StartOnce(Put(proc, p, x), p, {p})
  <2>1. DOMAIN proc = Pod
    BY Zenon DEF Inv, Processes
  <2>2. Put(proc, p, x) = [proc EXCEPT ![p].configured = TRUE, ![p].queue = @ \cup Existing,
                              ![p].existing = known, ![p].leaderCtx = ctx]
    BY <2>1, Zenon DEF Put
  <2> QED
    BY <2>2, Zenon DEF ConfigWithExistingCIDR
<1> HIDE DEF known, ctx, y
<1>9. /\ x \in Process /\ x.up = proc[p].up /\ x.role = proc[p].role /\ x.task = proc[p].task
      /\ x.existing = known /\ x.used = proc[p].used
  BY <1>1, <1>6, Zenon DEF Process
<1> HIDE DEF x
<1>10. Sound(x) /\ x.up
  BY <1>1, <1>2, <1>9, Zenon DEF Sound
<1>11. Pods'
  BY <1>1, <1>3, <1>4, PodStep, Zenon DEF Inv
<1>12. Written(p, y)
  BY <1>1, <1>3, <1>4, PodStep, Zenon DEF Inv
<1>13. Turned(p, x) /\ Listers'
  BY <1>8, <1>10, <1>11, StartOnceStep, Zenon
<1>14. Rewired(p)
  <2>1. proc'[p].up
    BY <1>10, <1>13, Zenon DEF Turned, Alike
  <2> QED
    BY <2>1, TunnelsKept, Zenon DEF Inv, ConfigWithExistingCIDR
<1>15. Lasting(p, x)
  BY <1>1, <1>3, <1>9, <1>12, Zenon DEF Lasting, Written
<1>16. Counting(p, x)
  BY <1>3, <1>7, <1>9, <1>12, Zenon DEF Counting, Written, ConfigWithExistingCIDR
<1>17. ~astray' => Counted'
  BY <1>13, <1>16, CountedStep, Zenon DEF Inv, ConfigWithExistingCIDR
<1> QED
  BY <1>11, <1>13, <1>14, <1>15, <1>17, PartsKept, Zenon DEF Inv, ConfigWithExistingCIDR

(* A process sees another leader. *)
LEMMA NewLeaderStep ==
    ASSUME Inv, NEW p \in Pod, NEW role \in {"candidate", "leading"}, proc[p].role = role,
           NewLeader(p, role)
    PROVE  Inv'
<1> DEFINE x == [proc[p] EXCEPT !.role = role, !.reported = lease, !.currentLeader = lease,
                                !.queue = @ \cup ({lease} \cap Existing)]
           y == [pod[p] EXCEPT !.leader = FALSE]
           changed == IF pod[p].leader THEN {p} ELSE {}
<1>1. /\ Sound(proc[p]) /\ proc[p] \in Process /\ proc[p].up /\ pod[p].phase # "absent"
      /\ lease \in Candidate \cup {Nobody} /\ Existing \in SUBSET Pod
  BY ProcessFacts, Zenon DEF Inv, Existing
<1>2. y \in PodObject /\ y.phase = pod[p].phase /\ y.node = pod[p].node
  <2>1. pod[p] \in PodObject
    BY PodFacts, Zenon
  <2> QED
    BY <2>1, Zenon DEF PodObject
<1>3. pod' = Versioned(Put(pod, p, y))
  BY Zenon DEF NewLeader, Put
<1>4. StartOnce(Put(proc, p, x), p, changed)
  <2>1. DOMAIN proc = Pod
    BY Zenon DEF Inv, Processes
  <2>2. Put(proc, p, x) = [proc EXCEPT ![p].role = role, ![p].reported = lease,
                              ![p].currentLeader = lease, ![p].queue = @ \cup ({lease} \cap Existing)]
    BY <2>1, Zenon DEF Put
  <2> QED
    BY <2>2, Zenon DEF NewLeader
<1>5. changed \in SUBSET Pod
  BY Zenon
<1> HIDE DEF y, changed
<1>6. /\ x \in Process /\ Alike(x, proc[p]) /\ x.role = role /\ x.task = proc[p].task
      /\ x.queue = proc[p].queue \cup ({lease} \cap Existing)
  BY <1>1, Zenon DEF Process, Alike
<1> HIDE DEF x
<1>7. Sound(x) /\ x.up
  <2>1. x.task # NoTask => x.task.pod \in x.queue
    BY <1>1, <1>6, Zenon DEF Sound
  <2>2. proc[p].configured => x.role \in {"leading", "ended"}
    BY <1>1, <1>6, Zenon DEF Sound
  <2> QED
    BY <1>1, <1>6, <2>1, <2>2, SoundChange, Zenon DEF Alike
<1>8. Pods'
  BY <1>1, <1>2, <1>3, PodStep, Zenon DEF Inv
<1>9. Turned(p, x) /\ Listers'
  BY <1>4, <1>5, <1>7, <1>8, StartOnceStep, Zenon
<1>10. Rewired(p)
  <2>1. proc'[p].up
    BY <1>7, <1>9, Zenon DEF Turned, Alike
  <2> QED
    BY <2>1, TunnelsRecycled, Zenon DEF Inv, NewLeader
<1> QED
  BY <1>1, <1>2, <1>3, <1>6, <1>9, <1>10, WriteStep, Zenon DEF NewLeader

(* The leader's syncer writes the service CIDR to all pods. *)
LEMMA ServiceStep ==
    ASSUME Inv, NEW p \in Pod, updateServiceCIDRToCNFPod(p)
    PROVE  Inv'
<1> DEFINE x == [proc[p] EXCEPT !.served = TRUE]
           f == [q \in Pod |-> IF q \in Existing THEN [pod[q] EXCEPT !.service = TRUE] ELSE pod[q]]
           qs == {q \in Existing : ~pod[q].service}
<1>1. Sound(proc[p]) /\ proc[p] \in Process /\ proc[p].up
  BY ProcessFacts, Zenon DEF updateServiceCIDRToCNFPod
<1>2. /\ x \in Process /\ Alike(x, proc[p]) /\ x.role = proc[p].role /\ x.task = proc[p].task
      /\ x.queue = proc[p].queue
  BY <1>1, Zenon DEF Process, Alike
<1>3. proc' = Notified(Put(proc, p, x), qs)
  BY Zenon DEF updateServiceCIDRToCNFPod, Put
<1>4. qs \in SUBSET Pod
  BY Zenon DEF Existing
<1> HIDE DEF x, qs
<1>5. Sound(x)
  BY <1>1, <1>2, SoundChange, Zenon DEF Sound
<1>6. Turned(p, x)
  BY <1>3, <1>4, <1>5, NotifyStep, Zenon DEF Inv
<1>7. ASSUME NEW q \in Pod
      PROVE  f[q] \in PodObject /\ f[q].node = pod[q].node /\ f[q].phase = pod[q].phase
  <2>1. pod[q] \in PodObject
    BY PodFacts, Zenon
  <2>2. /\ [pod[q] EXCEPT !.service = TRUE] \in PodObject
        /\ [pod[q] EXCEPT !.service = TRUE].node = pod[q].node
        /\ [pod[q] EXCEPT !.service = TRUE].phase = pod[q].phase
    BY <2>1, Zenon DEF PodObject
  <2> QED
    BY <2>1, <2>2, Zenon
<1>8. \A q \in Pod : f[q].phase = "absent" => f[q] = Absent
  BY <1>7, PodFacts, Zenon DEF Existing
<1>9. f \in [Pod -> PodObject] /\ pod' = Versioned(f)
  BY <1>7, Zenon DEF updateServiceCIDRToCNFPod
<1> HIDE DEF f
<1>10. Pods' /\ \A q \in Pod : pod'[q].node = f[q].node /\ pod'[q].phase = f[q].phase
  BY <1>8, <1>9, VersionedPods, Zenon DEF Pods
<1>11. NodesKept
  BY <1>7, <1>10, Zenon DEF NodesKept
<1>12. Rewired(p)
  <2>1. proc'[p].up
    BY <1>1, <1>2, <1>6, Zenon DEF Turned, Alike
  <2> QED
    BY <2>1, TunnelsKept, Zenon DEF Inv, updateServiceCIDRToCNFPod
<1>13. Listers'
  BY Zenon DEF Inv, Listers, updateServiceCIDRToCNFPod
<1> QED
  BY <1>2, <1>6, <1>10, <1>11, <1>12, <1>13, PlainStep, Zenon DEF updateServiceCIDRToCNFPod

(* An event reaches the handlers of a process. *)
LEMMA DeliverStep ==
    ASSUME Inv, NEW p \in Pod, NEW q \in Pod, Deliver(p, q)
    PROVE  Inv'
<1> DEFINE seen == IF pod[q] = Absent THEN cache[p][q] ELSE pod[q]
           should == ShouldHandlerPod(p, q, seen)
           enters == should.handle /\ (pod[q] = Absent \/ pod[q].key # 0)
           set == should.set
           x == [proc[p] EXCEPT !.new = @ \ {q}, !.currentLeader = set,
                                !.queue = IF enters THEN @ \cup {q} ELSE @]
<1>1. Sound(proc[p]) /\ proc[p] \in Process /\ q \in proc[p].new
  BY ProcessFacts, Zenon DEF Deliver
<1>2. proc[p].up
  <2>1. Down.new = {}
    BY Zenon DEF Down
  <2> QED
    BY <1>1, <2>1, Zenon DEF Sound
<1>3. set \in Candidate \cup {Nobody}
  <2>1. proc[p].currentLeader \in Candidate \cup {Nobody}
    BY <1>1, Zenon DEF Process
  <2>2. proc[p].currentLeader = Nobody => q \in Candidate
    BY StartAssumption, Zenon DEF Deliver, IsLeader
  <2>3. set = IF proc[p].currentLeader = Nobody
              THEN IF seen.leader THEN q ELSE proc[p].currentLeader ELSE proc[p].currentLeader
    BY Zenon DEF ShouldHandlerPod
  <2> QED
    BY <2>1, <2>2, <2>3, Zenon
<1>4. proc' = Put(proc, p, x)
  <2>1. DOMAIN proc = Pod
    BY Zenon DEF Inv, Processes
  <2>2. proc' = [proc EXCEPT ![p].new = @ \ {q}, ![p].currentLeader = set,
                             ![p].queue = IF enters THEN @ \cup {q} ELSE @]
    BY Zenon DEF Deliver
  <2> HIDE DEF set, enters
  <2> QED
    BY <2>1, <2>2, Zenon DEF Put
<1>5. IF should.recycle THEN RecycleAllResources(p) ELSE UNCHANGED <<conn, via>>
  BY Zenon DEF Deliver
<1> HIDE DEF set, enters, should
<1>6. /\ x \in Process /\ Alike(x, proc[p]) /\ x.role = proc[p].role /\ x.task = proc[p].task
      /\ x.queue = IF enters THEN proc[p].queue \cup {q} ELSE proc[p].queue
  BY <1>1, <1>3 DEF Process, Alike
<1> HIDE DEF x
<1>7. Sound(x)
  <2>1. x.task # NoTask => x.task.pod \in x.queue
    BY <1>1, <1>6, Zenon DEF Sound
  <2>2. proc[p].configured => x.role \in {"leading", "ended"}
    BY <1>1, <1>6, Zenon DEF Sound
  <2> QED
    BY <1>1, <1>2, <1>6, <2>1, <2>2, SoundChange, Zenon
<1>8. Turned(p, x)
  BY <1>4, <1>7, PutStep, Zenon DEF Inv
<1>9. Rewired(p)
  <2>1. proc'[p].up
    BY <1>2, <1>6, <1>8, Zenon DEF Turned, Alike
  <2>2. CASE RecycleAllResources(p)
    BY <2>1, <2>2, TunnelsRecycled, Zenon DEF Inv
  <2>3. CASE UNCHANGED <<conn, via>>
    BY <2>1, <2>3, TunnelsKept, Zenon DEF Inv
  <2> QED
    BY <1>5, <2>2, <2>3, Zenon
<1>10. Listers'
  <2>1. pod[q] \in PodObject /\ cache \in [Pod -> [Pod -> PodObject]]
    BY PodFacts, Zenon DEF Inv, Listers
  <2> QED
    BY <2>1, Zenon DEF Deliver, Listers
<1>11. Pods' /\ NodesKept
  BY Zenon DEF Inv, Pods, NodesKept, Deliver
<1> QED
  BY <1>6, <1>8, <1>9, <1>10, <1>11, PlainStep, Zenon DEF Deliver

(* A handler ends the tunnel to a pod that is being deleted. *)
LEMMA RecycleStep ==
    ASSUME Inv, NEW p \in Pod, NEW q \in Pod, recycleResources(p, q)
    PROVE  Inv'
<1> DEFINE x == [proc[p] EXCEPT !.queue = @ \ {q}]
           m == NodeOf[q]
           links == [conn[p] EXCEPT ![m] = NoLink]
           device == Removed(via[p], {<<q, cache[p][q].key>>})
<1>1. Sound(proc[p]) /\ proc[p] \in Process /\ proc[p].up /\ proc[p].task = NoTask
  BY ProcessFacts, Zenon DEF recycleResources, Handling
<1>2. x \in Process /\ Alike(x, proc[p]) /\ x.role = proc[p].role /\ x.task = proc[p].task
  BY <1>1, Zenon DEF Process, Alike
<1>3. proc' = Put(proc, p, x)
  BY Zenon DEF recycleResources, Put
<1> HIDE DEF x
<1>4. Sound(x)
  BY <1>1, <1>2, SoundChange, Zenon DEF Sound
<1>5. Turned(p, x)
  BY <1>3, <1>4, PutStep, Zenon DEF Inv
<1>6. proc'[p].up
  BY <1>1, <1>2, <1>5, Zenon DEF Turned, Alike
<1>7. Rewired(p)
  <2>1. CASE UNCHANGED <<conn, via>>
    BY <1>6, <2>1, TunnelsKept, Zenon DEF Inv
  <2>2. CASE conn' = [conn EXCEPT ![p][m] = NoLink] /\ via' = [via EXCEPT ![p] = device]
    <3>1. Replaced(p, links, device)
      BY <2>2, Zenon DEF Replaced, Put
    <3>2. conn[p] = [n \in Node |-> conn[p][n]] /\ \A n \in Node : Leads(conn[p][n], n)
      BY Zenon DEF Inv, Devices
    <3> HIDE DEF m, device
    <3>3. links = [n \in Node |-> links[n]]
      BY <3>2, Zenon
    <3>4. \A n \in Node : links[n] = IF n = m THEN NoLink ELSE conn[p][n]
      BY <3>2, Zenon
    <3>5. \A n \in Node : Leads(NoLink, n)
      BY Zenon DEF Leads
    <3>6. \A n \in Node : Leads(links[n], n)
      BY <3>2, <3>4, <3>5, Zenon
    <3> HIDE DEF links
    <3> QED
      BY <1>6, <3>1, <3>3, <3>6, TunnelsReplaced, Zenon DEF Inv
  <2> QED
    BY <2>1, <2>2, Zenon DEF recycleResources
<1>8. Pods' /\ NodesKept /\ Listers'
  BY Zenon DEF Inv, Pods, NodesKept, Listers, recycleResources
<1> QED
  BY <1>2, <1>5, <1>7, <1>8, PlainStep, Zenon DEF recycleResources

(* A leader chooses a block for a pod. *)
LEMMA SpawnStep ==
    ASSUME Inv, NEW p \in Pod, NEW q \in Pod, SpawnNewCIDRForNRIPod(p, q)
    PROVE  Inv'
<1> DEFINE cidr == FindClusterAvailableCIDR(ClusterCIDR, proc[p].existing)
           object == [cache[p][q] EXCEPT !.node = cidr, !.tunnel = TunnelCIDR]
           task == [pod |-> q, object |-> object]
           x == [proc[p] EXCEPT !.task = task]
<1>1. /\ Sound(proc[p]) /\ proc[p] \in Process /\ proc[p].up /\ proc[p].configured
      /\ q \in proc[p].queue /\ cidr # NoCIDR
  BY ProcessFacts, Zenon DEF SpawnNewCIDRForNRIPod, Handling
<1>2. NodeBits # 0 /\ cidr \in Blocks /\ ~Taken(cidr, proc[p].existing)
  BY <1>1, FreeBlock, Zenon
<1>3. proc' = Put(proc, p, x) /\ cache' = [cache EXCEPT ![p][q] = object]
  BY Zenon DEF SpawnNewCIDRForNRIPod, Put
<1> HIDE DEF cidr
<1>4. object \in PodObject /\ object.node = cidr
  <2>1. cache[p][q] \in PodObject
    BY PodFacts, Zenon
  <2> QED
    BY <1>2, <2>1, Zenon DEF PodObject
<1> HIDE DEF object
<1>5. task \in [pod : Pod \cup {Nobody}, object : PodObject] /\ task.pod = q /\ task.object = object
  BY <1>4, Zenon
<1> HIDE DEF task
<1>6. /\ x \in Process /\ Alike(x, proc[p]) /\ x.role = proc[p].role /\ x.task = task
      /\ x.queue = proc[p].queue
  BY <1>1, <1>5, Zenon DEF Process, Alike
<1> HIDE DEF x
<1>7. Sound(x)
  BY <1>1, <1>2, <1>4, <1>5, <1>6, Zenon DEF Sound, Alike
<1>8. Turned(p, x)
  BY <1>3, <1>7, PutStep, Zenon DEF Inv
<1>9. Rewired(p)
  <2>1. proc'[p].up
    BY <1>1, <1>6, <1>8, Zenon DEF Turned, Alike
  <2> QED
    BY <2>1, TunnelsKept, Zenon DEF Inv, SpawnNewCIDRForNRIPod
<1>10. Listers'
  <2>1. cache \in [Pod -> [Pod -> PodObject]]
    BY Zenon DEF Inv, Listers
  <2> QED
    BY <1>3, <1>4, <2>1, Zenon DEF Listers
<1>11. Pods' /\ NodesKept
  BY Zenon DEF Inv, Pods, NodesKept, SpawnNewCIDRForNRIPod
<1> QED
  BY <1>6, <1>8, <1>9, <1>10, <1>11, PlainStep, Zenon DEF SpawnNewCIDRForNRIPod

(* The rest of a handler writes the service CIDR if the pod has none. *)
LEMMA FinishStep ==
    ASSUME Inv, NEW p \in Pod, NEW q \in Pod, NEW o, NEW x, Sound(x), NEW y \in PodObject,
           y.phase = "absent" => y = Absent /\ o.service,
           Finish(p, q, o, Put(pod, q, y), Put(proc, p, x))
    PROVE  /\ Turned(p, x) /\ Listers' /\ Pods'
           /\ Written(q, y)
<1> DEFINE z == IF o.service THEN y ELSE [y EXCEPT !.service = TRUE]
           new == IF o.service THEN Put(pod, q, y) ELSE [Put(pod, q, y) EXCEPT ![q].service = TRUE]
           qs == {r \in {q} : Versioned(new)[r] # pod[r]}
<1>1. z \in PodObject /\ z.node = y.node /\ z.phase = y.phase
  BY Zenon DEF PodObject
<1>2. z.phase = "absent" => z = Absent
  BY <1>1, Zenon
<1>3. new = Put(pod, q, z)
  <2>1. DOMAIN pod = Pod
    BY Zenon DEF Inv, Pods
  <2> QED
    BY <2>1, Zenon DEF Put
<1>4. pod' = Versioned(new) /\ proc' = Notified(Put(proc, p, x), qs)
  BY Zenon DEF Finish
<1>5. qs \in SUBSET Pod
  BY Zenon
<1> HIDE DEF z, new, qs
<1>6. Turned(p, x)
  BY <1>4, <1>5, NotifyStep, Zenon DEF Inv
<1>7. /\ Pods'
      /\ Written(q, z)
  BY <1>1, <1>2, <1>3, <1>4, PodStep, Zenon DEF Inv
<1>8. Listers'
  <2>1. cache \in [Pod -> [Pod -> PodObject]]
    BY Zenon DEF Inv, Listers
  <2>2. [cache[p][q] EXCEPT !.service = TRUE] \in PodObject
    <3>1. cache[p][q] \in PodObject
      BY PodFacts, Zenon
    <3> QED
      BY <3>1, Zenon DEF PodObject
  <2>3. [cache EXCEPT ![p][q].service = TRUE] \in [Pod -> [Pod -> PodObject]]
    BY <2>1, <2>2, Zenon
  <2> QED
    BY <2>1, <2>3, Zenon DEF Listers, Finish
<1> QED
  BY <1>1, <1>6, <1>7, <1>8, Zenon DEF Written

(* A handler that needs no block goes on to connect, whatever the device does. *)
LEMMA ConnectStep ==
    ASSUME Inv, NEW p \in Pod, NEW q \in Pod, Ready(p, q), NEW x, Sound(x), Alike(x, proc[p]),
           Finish(p, q, cache[p][q], pod, Put(proc, p, x)), NEW cidr, NEW device,
           AddInnerClusterTunnel(p, q, cache[p][q], cidr, device), UNCHANGED <<lease, astray>>
    PROVE  Inv'
<1> SUFFICES ASSUME NEW o, o = cache[p][q], NEW y, y = pod[q] PROVE Inv'
  BY Zenon
<1>1. Put(pod, q, y) = pod
  BY Zenon DEF Inv, Pods, Put
<1>2. y \in PodObject /\ (y.phase = "absent" => y = Absent)
  BY PodFacts, Zenon
<1>3. y.phase = "absent" => y = Absent /\ o.service
  BY <1>2, Zenon DEF Ready, Served
<1>4. proc[p].up
  BY ProcessFacts, Zenon DEF Ready, Handling
<1>5. Finish(p, q, o, Put(pod, q, y), Put(proc, p, x))
  BY <1>1, Zenon
<1>6. /\ Turned(p, x) /\ Listers' /\ Pods'
      /\ Written(q, y)
  BY <1>2, <1>3, <1>5, FinishStep, Zenon
<1>7. NodesKept
  BY <1>6, Zenon DEF NodesKept, Written
<1>8. Rewired(p)
  <2>1. proc'[p].up
    BY <1>4, <1>6, Zenon DEF Turned, Alike
  <2> QED
    BY <2>1, TunnelsAdded, Zenon DEF Inv
<1> QED
  BY <1>6, <1>7, <1>8, PlainStep, Zenon

(* A handler that needs no block connects and is done. *)
LEMMA HandleReadyStep ==
    ASSUME Inv, NEW p \in Pod, NEW q \in Pod, HandleReady(p, q)
    PROVE  Inv'
<1> DEFINE x == [proc[p] EXCEPT !.queue = @ \ {q}]
<1>1. Sound(proc[p]) /\ proc[p] \in Process /\ proc[p].up /\ proc[p].task = NoTask
  BY ProcessFacts, Zenon DEF HandleReady, Ready, Handling
<1>2. x \in Process /\ Alike(x, proc[p]) /\ x.role = proc[p].role /\ x.task = proc[p].task
  BY <1>1, Zenon DEF Process, Alike
<1>3. Finish(p, q, cache[p][q], pod, Put(proc, p, x))
  BY Zenon DEF HandleReady, Put
<1> HIDE DEF x
<1>4. Sound(x)
  BY <1>1, <1>2, SoundChange, Zenon DEF Sound
<1> QED
  BY <1>2, <1>3, <1>4, ConnectStep, Zenon DEF HandleReady

(* The device refuses the connection, and the handler is to try again. *)
LEMMA DeviceFailsStep ==
    ASSUME Inv, NEW p \in Pod, NEW q \in Pod, DeviceFails(p, q)
    PROVE  Inv'
<1>1. Put(proc, p, proc[p]) = proc
  BY Zenon DEF Inv, Processes, Put
<1>2. Sound(proc[p]) /\ Alike(proc[p], proc[p])
  BY Zenon DEF Inv, Processes, Alike
<1>3. Finish(p, q, cache[p][q], pod, Put(proc, p, proc[p]))
  BY <1>1, Zenon DEF DeviceFails
<1> QED
  BY <1>2, <1>3, ConnectStep, Zenon DEF DeviceFails

(* The holder of the lease gives a pod without a block one that it chose   *)
(* among those it does not count: it is disjoint from all others.          *)
LEMMA BlockCounted ==
    ASSUME Inv, Counted, NEW p \in Pod, NEW q \in Pod, NEW b \in Blocks, NEW x, NEW y,
           Turned(p, x), Written(q, y), y.node = b, lease = p, lease' = p, pod[q].node = NoCIDR,
           proc[p].configured, NodeBits # 0, ~Taken(b, proc[p].existing),
           x.used = proc[p].used, x.existing = proc[p].existing \cup {b}
    PROVE  Counted'
<1>1. proc[p].existing \in SUBSET Blocks
  BY ProcessFacts, Zenon DEF Process
<1>2. \A r \in Pod : pod[r].node \in proc[p].existing \cup {NoCIDR}
  BY Zenon DEF Counted
<1>3. pod'[q].node = b /\ \A r \in Pod : r # q => pod'[r].node = pod[r].node
  BY Zenon DEF Written
<1>4. \A r \in Pod : Alike(proc'[r], IF r = p THEN x ELSE proc[r])
  BY Zenon DEF Turned
<1>5. Alike(proc'[p], x) /\ \A r \in Pod : r # p => Alike(proc'[r], proc[r])
  BY <1>4, Zenon
<1>6. ASSUME NEW r \in Pod PROVE proc'[r].used \in {NoCIDR, pod'[r].node}
  <2>1. proc'[r].used = proc[r].used
    BY <1>5, Zenon DEF Alike
  <2>2. proc[r].used \in {NoCIDR, pod[r].node}
    BY Zenon DEF Counted
  <2> QED
    BY <1>3, <2>1, <2>2, Zenon
<1>7. ASSUME NEW r \in Pod, r # q, pod[r].node # NoCIDR
      PROVE  ~isOverlappingCIDR(pod[r].node, b) /\ ~isOverlappingCIDR(b, pod[r].node)
  <2>1. pod[r].node \in proc[p].existing
    BY <1>2, <1>7, Zenon
  <2>2. pod[r].node \in Blocks
    BY <1>1, <2>1, Zenon
  <2> QED
    BY <2>1, <2>2, FreeOfExisting, Zenon
<1>8. ASSUME NEW r \in Pod, NEW s \in Pod, r # s, NoCIDR \notin {pod'[r].node, pod'[s].node}
      PROVE  ~isOverlappingCIDR(pod'[r].node, pod'[s].node)
  <2>1. CASE r = q
    BY <1>3, <1>7, <1>8, <2>1, Zenon
  <2>2. CASE s = q
    BY <1>3, <1>7, <1>8, <2>2, Zenon
  <2>3. CASE r # q /\ s # q
    BY <1>3, <1>8, <2>3, Zenon DEF Counted
  <2> QED
    BY <2>1, <2>2, <2>3, Zenon
<1>9. ASSUME NEW r \in Pod, lease' = r, NEW s \in Pod
      PROVE  pod'[s].node \in proc'[r].existing \cup {NoCIDR}
  <2>1. proc'[r].existing = proc[p].existing \cup {b}
    BY <1>5, <1>9, Zenon DEF Alike
  <2> QED
    BY <1>2, <1>3, <2>1, Zenon
<1>10. /\ \A r \in Pod : proc'[r].used \in {NoCIDR, pod'[r].node}
       /\ \A r, s \in Pod : r # s /\ NoCIDR \notin {pod'[r].node, pod'[s].node} =>
             ~isOverlappingCIDR(pod'[r].node, pod'[s].node)
       /\ \A r \in Pod : lease' = r /\ proc'[r].configured =>
             \A s \in Pod : pod'[s].node \in proc'[r].existing \cup {NoCIDR}
  BY <1>6, <1>8, <1>9, Zenon
<1> QED
  BY <1>10, Zenon DEF Counted

(* A block is stored. *)
LEMMA StoredStep ==
    ASSUME Inv, NEW p \in Pod, BlockStored(p)
    PROVE  Inv'
<1> SUFFICES ASSUME NEW q, q = proc[p].task.pod, NEW o, o = proc[p].task.object PROVE Inv'
  BY Zenon
<1> DEFINE y == [pod[q] EXCEPT !.node = o.node, !.tunnel = TunnelCIDR]
           ready == p # q /\ Served(q, o, TRUE)
           queue == IF ready \/ p = q THEN proc[p].queue \ {q} ELSE proc[p].queue
           x == [proc[p] EXCEPT !.task = NoTask, !.existing = @ \cup {o.node}, !.queue = queue]
<1>1. /\ Sound(proc[p]) /\ proc[p] \in Process /\ proc[p].up
      /\ proc[p].task # NoTask /\ pod[q] # Absent
  BY ProcessFacts, Zenon DEF BlockStored
<1>2. /\ proc[p].configured /\ NodeBits # 0 /\ o.node \in Blocks /\ ~Taken(o.node, proc[p].existing)
      /\ q \in proc[p].queue
  BY <1>1, Zenon DEF Sound
<1>3. q \in Pod /\ proc[p].queue \in SUBSET Pod /\ proc[p].existing \in SUBSET Blocks
  BY <1>1, <1>2, Zenon DEF Process
<1>4. NoTask \in [pod : Pod \cup {Nobody}, object : PodObject]
  BY PodFacts, Zenon DEF NoTask
<1>5. queue \in SUBSET Pod
  BY <1>3, Zenon
<1>6. /\ x \in Process /\ x.up = proc[p].up /\ x.configured = proc[p].configured
      /\ x.role = proc[p].role /\ x.task = NoTask /\ x.used = proc[p].used
      /\ x.existing = proc[p].existing \cup {o.node}
  <2> HIDE DEF queue
  <2> QED
    BY <1>1, <1>2, <1>3, <1>4, <1>5, Zenon DEF Process
<1>7. y \in PodObject /\ y.node = o.node /\ y.phase = pod[q].phase
  <2>1. pod[q] \in PodObject
    BY <1>3, PodFacts, Zenon
  <2> QED
    BY <1>2, <2>1, Zenon DEF PodObject
<1>8. y.phase # "absent"
  BY <1>1, <1>3, <1>7, PodFacts, Zenon
<1>9. Sound(x)
  BY <1>1, <1>6, Zenon DEF Sound
<1>10. [pod EXCEPT ![q].node = o.node, ![q].tunnel = TunnelCIDR] = Put(pod, q, y)
  <2>1. DOMAIN pod = Pod
    BY Zenon DEF Inv, Pods
  <2> QED
    BY <1>3, <2>1, Zenon DEF Put
<1> DEFINE kept == [proc EXCEPT ![p].task = NoTask, ![p].existing = @ \cup {o.node}]
<1>11. DOMAIN proc = Pod
  BY Zenon DEF Inv, Processes
<1>12. astray' = (astray \/ lease # p \/ pod[q].node # NoCIDR) /\ lease' = lease
  BY Zenon DEF BlockStored
<1>13. Turned(p, x) /\ Listers' /\ Pods' /\ Written(q, y) /\ Rewired(p)
  <2>1. CASE ready
    <3>1. [kept EXCEPT ![p].queue = @ \ {q}] = Put(proc, p, x)
      BY <1>11, <2>1, Zenon DEF Put
    <3>2. /\ Finish(p, q, o, [pod EXCEPT ![q].node = o.node, ![q].tunnel = TunnelCIDR],
                    [kept EXCEPT ![p].queue = @ \ {q}])
          /\ AddInnerClusterTunnel(p, q, o, o.node, TRUE)
      BY <2>1, Zenon DEF BlockStored
    <3>3. Finish(p, q, o, Put(pod, q, y), Put(proc, p, x))
      BY <1>10, <3>1, <3>2, Zenon
    <3> HIDE DEF y, x, ready
    <3>4. Turned(p, x) /\ Listers' /\ Pods' /\ Written(q, y)
      BY <1>3, <1>7, <1>8, <1>9, <3>3, FinishStep, Zenon
    <3>5. proc'[p].up
      BY <1>1, <1>6, <3>4, Zenon DEF Turned, Alike
    <3> QED
      BY <1>3, <3>2, <3>4, <3>5, TunnelsAdded, Zenon DEF Inv
  <2>2. CASE ~ready
    <3>1. [kept EXCEPT ![p].queue = IF p = q THEN @ \ {q} ELSE @] = Put(proc, p, x)
      BY <1>11, <2>2, Zenon DEF Put
    <3>2. /\ pod' = Versioned([pod EXCEPT ![q].node = o.node, ![q].tunnel = TunnelCIDR])
          /\ proc' = Notified([kept EXCEPT ![p].queue = IF p = q THEN @ \ {q} ELSE @], {q})
          /\ UNCHANGED <<cache, conn, via>>
      BY <2>2, Zenon DEF BlockStored
    <3>3. pod' = Versioned(Put(pod, q, y)) /\ proc' = Notified(Put(proc, p, x), {q})
      BY <1>10, <3>1, <3>2, Zenon
    <3> HIDE DEF y, x, ready
    <3>4. Turned(p, x)
      <4>1. {q} \in SUBSET Pod
        BY <1>3, Zenon
      <4> QED
        BY <1>9, <3>3, <4>1, NotifyStep, Zenon DEF Inv
    <3>5. Pods' /\ Written(q, y)
      BY <1>3, <1>7, <1>8, <3>3, PodStep, Zenon DEF Inv
    <3>6. Rewired(p)
      <4>1. proc'[p].up
        BY <1>1, <1>6, <3>4, Zenon DEF Turned, Alike
      <4> QED
        BY <3>2, <4>1, TunnelsKept, Zenon DEF Inv
    <3>7. Listers'
      BY <3>2, Zenon DEF Inv, Listers
    <3> QED
      BY <3>4, <3>5, <3>6, <3>7, Zenon
  <2> QED
    BY <2>1, <2>2, Zenon
<1> HIDE DEF x, y
<1>14. Lasting(p, x)
  BY <1>1, <1>6, <1>7, <1>8, <1>13, ProcessFacts, Zenon DEF Lasting, Written, Inv, Processes
<1>15. ~astray' => Counted'
  <2> SUFFICES ASSUME ~astray' PROVE Counted'
    BY Zenon
  <2>1. Counted /\ lease = p /\ lease' = p /\ pod[q].node = NoCIDR
    BY <1>12, Zenon DEF Inv
  <2> QED
    BY <1>2, <1>3, <1>6, <1>7, <1>13, <2>1, BlockCounted, Zenon
<1> QED
  BY <1>12, <1>13, <1>14, <1>15, PartsKept, Zenon DEF Inv

(* At a resync the handlers are shown what their stores hold. *)
LEMMA ResyncStep ==
    ASSUME Inv, Resync
    PROVE  Inv'
<1>1. \A p \in Pod : proc'[p] = [proc[p] EXCEPT !.queue = @ \cup Told(p)]
  BY Zenon DEF Resync
<1>2. ASSUME NEW p \in Pod
      PROVE  Sound(proc'[p]) /\ Alike(proc'[p], proc[p])
  <2> DEFINE told == Told(p)
             x == [proc[p] EXCEPT !.queue = @ \cup told]
  <2>1. proc[p] \in Process /\ Sound(proc[p]) /\ told \in SUBSET Pod
    BY ProcessFacts, Zenon DEF Told, Shown
  <2>2. ~proc[p].up => told = {}
    BY ProcessFacts, Zenon DEF Told, Shown
  <2>3. proc'[p] = x
    BY <1>1, Zenon
  <2> HIDE DEF told
  <2>4. /\ x \in Process /\ Alike(x, proc[p]) /\ x.role = proc[p].role /\ x.task = proc[p].task
        /\ x.queue = proc[p].queue \cup told
    BY <2>1, Zenon DEF Process, Alike
  <2>5. told = {} => x = proc[p]
    <3>1. proc[p] = [f \in DOMAIN proc[p] |-> proc[p][f]]
      BY <2>1, Zenon DEF Process
    <3> QED
      BY <3>1, Zenon
  <2> HIDE DEF x
  <2>6. CASE proc[p].up
    <3>1. x.task # NoTask => x.task.pod \in x.queue
      BY <2>1, <2>4, Zenon DEF Sound
    <3>2. proc[p].configured => x.role \in {"leading", "ended"}
      BY <2>1, <2>4, Zenon DEF Sound
    <3>3. Sound(x)
      BY <2>1, <2>4, <2>6, <3>1, <3>2, SoundChange, Zenon
    <3> QED
      BY <2>3, <2>4, <3>3, Zenon
  <2>7. CASE ~proc[p].up
    BY <2>1, <2>2, <2>3, <2>4, <2>5, <2>7, Zenon
  <2> QED
    BY <2>6, <2>7, Zenon
<1>3. Processes'
  <2>1. proc' = [p \in Pod |-> proc'[p]]
    BY Zenon DEF Resync
  <2>2. proc' \in [Pod -> Process]
    BY <1>2, <2>1, Zenon DEF Sound
  <2>3. \A p \in Pod : proc'[p].up => pod'[p].phase # "absent"
    BY <1>2, Zenon DEF Alike, Inv, Processes, Resync
  <2>4. \A p \in Pod : proc'[p].role = "candidate" => p \in Candidate
    BY <1>2, Zenon DEF Alike, Inv, Processes
  <2> QED
    BY <1>2, <2>2, <2>3, <2>4, Zenon DEF Processes
<1>4. Pods' /\ Listers' /\ lease' \in Candidate \cup {Nobody}
  BY Zenon DEF Inv, Pods, Listers, Resync
<1>5. Devices'
  <2>1. \A p \in Pod : conn'[p] = IF p \in Upset THEN [n \in Node |-> NoLink] ELSE conn[p]
    BY Zenon DEF Resync
  <2>2. \A p \in Pod : conn[p] = [n \in Node |-> conn[p][n]]
    BY Zenon DEF Inv, Devices
  <2>3. \A p \in Pod : conn'[p] = [n \in Node |-> conn'[p][n]]
    BY <2>1, <2>2, Zenon
  <2>4. conn' = [p \in Pod |-> conn'[p]] /\ via' = [p \in Pod |-> via'[p]]
    BY Zenon DEF Resync
  <2>5. conn' = [p \in Pod |-> [n \in Node |-> conn'[p][n]]]
    BY <2>3, <2>4, Zenon
  <2>6. ASSUME NEW p \in Pod, ~proc'[p].up PROVE DOMAIN via'[p] = {}
    <3>1. DOMAIN via[p] = {}
      BY <1>2, <2>6, Zenon DEF Alike, Inv, Devices
    <3> QED
      BY <3>1, Zenon DEF Resync, Removed
  <2>7. ASSUME NEW p \in Pod, NEW n \in Node PROVE Leads(conn'[p][n], n)
    <3>1. conn'[p][n] = NoLink \/ conn'[p][n] = conn[p][n]
      BY <2>1, Zenon
    <3>2. Leads(NoLink, n)
      BY Zenon DEF Leads
    <3> QED
      BY <3>1, <3>2, Zenon DEF Inv, Devices
  <2> QED
    BY <2>4, <2>5, <2>6, <2>7, Zenon DEF Devices
<1>6. Counted => Counted'
  <2>1. \A p \in Pod : /\ proc'[p].used = proc[p].used
                     /\ proc'[p].configured = proc[p].configured
                     /\ proc'[p].existing = proc[p].existing
    BY <1>2, Zenon DEF Alike
  <2> QED
    BY <2>1, Zenon DEF Counted, Resync
<1> QED
  BY <1>3, <1>4, <1>5, <1>6, Zenon DEF Inv, Resync

(* The processes at the start. *)
LEMMA FollowerSound ==
    ASSUME NEW p \in Pod, scenario.first[p] \in Blocks \cup {NoCIDR}
    PROVE  /\ Follower(p) \in Process /\ Follower(p).up /\ ~Follower(p).configured
           /\ Follower(p).task = NoTask /\ Follower(p).used = scenario.first[p]
           /\ Follower(p).role = "candidate" => p \in Candidate
<1> DEFINE b == Booted(p)
           reported == IF p \in Candidate THEN Leader ELSE Nobody
           queue == IF p \in Fresh THEN {Leader} ELSE {}
<1>1. Down \in Process
  BY DownSound, Zenon DEF Sound
<1>2. Down.task = NoTask
  BY Zenon DEF Down
<1>3. /\ b \in Process /\ b.up /\ b.configured = Down.configured /\ b.task = Down.task
      /\ b.role = "candidate" => p \in Candidate
  BY <1>1, Zenon DEF Booted, Process
<1>4. reported \in Candidate \cup {Nobody} /\ queue \in SUBSET Pod /\ Leader \in Candidate
  BY StartAssumption, Zenon
<1>5. Follower(p) = [b EXCEPT !.ctrl = "on", !.currentLeader = Leader, !.used = scenario.first[p],
                              !.reported = reported, !.queue = queue]
  BY Zenon DEF Follower
<1> DEFINE c == [b EXCEPT !.ctrl = "on", !.currentLeader = Leader, !.used = scenario.first[p]]
           d == [c EXCEPT !.reported = reported, !.queue = queue]
<1>6. Follower(p) = d
  BY <1>5, Zenon
<1> HIDE DEF b, reported, queue
<1>7. /\ c \in Process /\ c.up = b.up /\ c.configured = b.configured /\ c.task = b.task
      /\ c.used = scenario.first[p] /\ c.role = b.role
  BY <1>3, <1>4, Zenon DEF Process
<1> HIDE DEF c
<1>8. /\ d \in Process /\ d.up = c.up /\ d.configured = c.configured /\ d.task = c.task
      /\ d.used = c.used /\ d.role = c.role
  BY <1>4, <1>7, Zenon DEF Process
<1> HIDE DEF d
<1> QED
  BY <1>2, <1>3, <1>6, <1>7, <1>8, DownSound, Zenon

FirstLeader(known, new) ==
    [Follower(Leader) EXCEPT !.role = "leading", !.configured = TRUE, !.served = TRUE,
                             !.leaderCtx = TRUE, !.new = new, !.existing = known]

(* The leader at the start counts the blocks that are there. *)
LEMMA LeaderSound ==
    ASSUME NEW known, known \subseteq Blocks, NEW new, new \subseteq Pod,
           scenario.first[Leader] \in Blocks \cup {NoCIDR}
    PROVE  /\ Sound(FirstLeader(known, new)) /\ FirstLeader(known, new).up
           /\ FirstLeader(known, new).used = scenario.first[Leader]
           /\ FirstLeader(known, new).existing = known /\ FirstLeader(known, new).role = "leading"
<1> DEFINE b == Follower(Leader)
<1>1. /\ b \in Process /\ b.up /\ b.task = NoTask /\ b.used = scenario.first[Leader]
  BY FollowerSound, StartAssumption, Zenon
<1> HIDE DEF b
<1> DEFINE c == [b EXCEPT !.role = "leading", !.configured = TRUE, !.served = TRUE]
           d == [c EXCEPT !.leaderCtx = TRUE, !.new = new, !.existing = known]
<1>2. FirstLeader(known, new) = d
  BY Zenon DEF b, FirstLeader
<1>3. c \in Process /\ c.up = b.up /\ c.task = b.task /\ c.used = b.used /\ c.role = "leading"
  BY <1>1, Zenon DEF Process
<1> HIDE DEF c
<1>4. /\ d \in Process /\ d.up = c.up /\ d.task = c.task /\ d.used = c.used /\ d.role = c.role
      /\ d.existing = known
  BY <1>3, Zenon DEF Process
<1> HIDE DEF d
<1> QED
  BY <1>1, <1>2, <1>3, <1>4, Zenon DEF Sound

(* The pods at the start. *)
LEMMA FirstPods ==
    ASSUME scenario \in Scenario, NEW p \in Pod
    PROVE  /\ FirstPod(p) \in PodObject
           /\ FirstPod(p).phase = "absent" => FirstPod(p) = Absent
           /\ FirstPod(p).phase = "absent" <=> p \notin DOMAIN scenario.first
           /\ FirstPod(p).node = IF p \in DOMAIN scenario.first THEN scenario.first[p] ELSE NoCIDR
<1>1. \A q \in DOMAIN scenario.first : scenario.first[q] \in Blocks \cup {NoCIDR}
  BY StartAssumption, Zenon
<1>2. Absent \in PodObject /\ Absent.phase = "absent" /\ Absent.node = NoCIDR
  BY Zenon DEF Absent, PodObject
<1>3. CASE p \in Old
  <2> DEFINE y == [rev |-> 1, phase |-> "alive", key |-> 1, leader |-> p = Leader,
                   node |-> scenario.first[p], tunnel |-> TunnelCIDR, service |-> TRUE]
  <2>1. FirstPod(p) = y
    BY <1>3, Zenon DEF FirstPod, Fresh, Old
  <2>2. p \in DOMAIN scenario.first /\ (p = Leader) \in BOOLEAN
    BY <1>3, Zenon DEF Old
  <2>3. y \in PodObject
    BY <1>1, <2>2, Zenon DEF PodObject
  <2>4. y.phase = "alive" /\ y.node = scenario.first[p]
    BY Zenon
  <2> QED
    BY <2>1, <2>2, <2>3, <2>4, Zenon
<1>4. CASE p \in Fresh
  <2> DEFINE y == [Absent EXCEPT !.rev = 1, !.phase = "alive", !.key = 1]
  <2>1. FirstPod(p) = y
    BY <1>4, Zenon DEF FirstPod, Fresh, Old
  <2>2. p \in DOMAIN scenario.first /\ scenario.first[p] = NoCIDR
    BY <1>4, Zenon DEF Fresh
  <2>3. y \in PodObject /\ y.phase = "alive" /\ y.node = Absent.node
    BY <1>2, Zenon DEF PodObject
  <2> HIDE DEF y
  <2> QED
    BY <1>2, <2>1, <2>2, <2>3, Zenon
<1>5. CASE p \notin Old /\ p \notin Fresh
  <2>1. FirstPod(p) = Absent
    BY <1>5, Zenon DEF FirstPod
  <2>2. p \notin DOMAIN scenario.first
    BY <1>5, Zenon DEF Old
  <2> QED
    BY <1>2, <2>1, <2>2, Zenon
<1> QED
  BY <1>3, <1>4, <1>5, Zenon

(* The states the scenarios start with. *)
LEMMA InitInv ==
    ASSUME Init
    PROVE  Inv
<1> DEFINE D == DOMAIN scenario.first
           known == {scenario.first[q] : q \in Old}
           x == FirstLeader(known, Fresh)
<1>1. /\ scenario \in Scenario /\ D \subseteq Pod /\ Leader \in D /\ scenario.first[Leader] # NoCIDR
      /\ \A p \in D : scenario.first[p] \in Blocks \cup {NoCIDR}
      /\ \A p, q \in D : p # q /\ NoCIDR \notin {scenario.first[p], scenario.first[q]} =>
            ~isOverlappingCIDR(scenario.first[p], scenario.first[q])
  BY StartAssumption, Zenon DEF Init
<1>2. pod = [p \in Pod |-> FirstPod(p)] /\ lease = Leader /\ ~astray
  BY Zenon DEF Init
<1>3. ASSUME NEW p \in Pod
      PROVE  /\ pod[p] \in PodObject
             /\ pod[p].phase = "absent" => pod[p] = Absent
             /\ pod[p].phase = "absent" <=> p \notin D
             /\ pod[p].node = IF p \in D THEN scenario.first[p] ELSE NoCIDR
  BY <1>1, <1>2, FirstPods, Zenon
<1>4. Pods
  BY <1>2, <1>3, Zenon DEF Pods
<1>5. known \subseteq Blocks /\ Fresh \subseteq Pod
  BY <1>1, Zenon DEF Old, Fresh
<1>6. \A p \in Pod : proc[p] = CASE p = Leader -> x
                               [] p \in D \ {Leader} -> Follower(p)
                               [] OTHER -> Down
  BY Zenon DEF Init, FirstLeader
<1>7. /\ Sound(x) /\ x.up /\ x.used = scenario.first[Leader] /\ x.existing = known
      /\ x.role = "leading"
  <2>1. scenario.first[Leader] \in Blocks \cup {NoCIDR}
    BY <1>1, Zenon
  <2> HIDE DEF known
  <2> QED
    BY <1>5, <2>1, LeaderSound, Zenon
<1>8. ASSUME NEW p \in D
      PROVE  /\ Follower(p) \in Process /\ Follower(p).up /\ ~Follower(p).configured
             /\ Follower(p).task = NoTask /\ Follower(p).used = scenario.first[p]
             /\ Follower(p).role = "candidate" => p \in Candidate
  <2>1. p \in Pod /\ scenario.first[p] \in Blocks \cup {NoCIDR}
    BY <1>1, Zenon
  <2> QED
    BY <2>1, FollowerSound, Zenon
<1> HIDE DEF x
<1>9. proc[Leader] = x
  BY <1>1, <1>6, Zenon
<1>10. \A p \in Pod : p \in D /\ p # Leader => proc[p] = Follower(p)
  BY <1>6, Zenon
<1>11. \A p \in Pod : p \notin D => proc[p] = Down
  BY <1>1, <1>6, Zenon
<1>12. ASSUME NEW p \in Pod
       PROVE  /\ Sound(proc[p]) /\ (proc[p].up <=> p \in D)
              /\ proc[p].role = "candidate" => p \in Candidate
              /\ proc[p].used = IF p \in D THEN scenario.first[p] ELSE NoCIDR
  <2>1. CASE p = Leader
    BY <1>1, <1>7, <1>9, <2>1, Zenon
  <2>2. CASE p \in D /\ p # Leader
    <3>1. Sound(Follower(p))
      BY <1>8, <2>2, Zenon DEF Sound
    <3> QED
      BY <1>8, <1>10, <2>2, <3>1, Zenon
  <2>3. CASE p \notin D
    BY <1>11, <2>3, DownSound, Zenon
  <2> QED
    BY <2>1, <2>2, <2>3, Zenon
<1>13. Processes
  <2>1. proc = [p \in Pod |-> proc[p]]
    BY Zenon DEF Init
  <2>2. proc \in [Pod -> Process]
    BY <1>12, <2>1, Zenon DEF Sound
  <2> QED
    BY <1>3, <1>12, <2>2, Zenon DEF Processes
<1>14. Listers
  <2>1. cache = [p \in Pod |-> [q \in Pod |-> IF p \in D /\ q \in Old THEN pod[q] ELSE Absent]]
    BY Zenon DEF Init
  <2>2. Absent \in PodObject
    BY Zenon DEF Absent, PodObject
  <2> QED
    BY <1>3, <2>1, <2>2, Zenon DEF Listers
<1>15. Devices
  <2>1. /\ conn = [p \in Pod |-> [n \in Node |-> conn[p][n]]]
        /\ via = [p \in Pod |-> via[p]]
    <3> DEFINE First(p, n) ==
                 CHOOSE l \in Links(p) \cup {NoLink} :
                     IF l = NoLink THEN \A k \in Links(p) : NodeOf[k.peer[1]] # n
                                   ELSE NodeOf[l.peer[1]] = n
    <3>1. conn = [p \in Pod |-> [n \in Node |-> First(p, n)]] /\ via = [p \in Pod |-> via[p]]
      BY Zenon DEF Init
    <3> HIDE DEF First
    <3>2. \A p \in Pod : conn[p] = [n \in Node |-> conn[p][n]]
      BY <3>1, Zenon
    <3>3. conn = [p \in Pod |-> conn[p]]
      BY <3>1, Zenon
    <3> QED
      BY <3>1, <3>2, <3>3, Zenon
  <2>2. ASSUME NEW p \in Pod, ~proc[p].up PROVE DOMAIN via[p] = {}
    <3>1. p \notin Old /\ p # Leader
      BY <1>1, <1>12, <2>2, Zenon DEF Old
    <3>2. Links(p) = {}
      BY <3>1, Zenon DEF Links
    <3>3. DOMAIN via[p] = {l.cidr : l \in Links(p)}
      BY Zenon DEF Init
    <3> QED
      BY <3>2, <3>3, Zenon
  <2>3. ASSUME NEW p \in Pod, NEW n \in Node PROVE Leads(conn[p][n], n)
    <3> DEFINE Fits(l) == IF l = NoLink THEN \A k \in Links(p) : NodeOf[k.peer[1]] # n
                                        ELSE NodeOf[l.peer[1]] = n
    <3>1. conn[p][n] = CHOOSE l \in Links(p) \cup {NoLink} : Fits(l)
      BY Zenon DEF Init
    <3>2. \A k \in Links(p) : k # NoLink
      <4>1. \A k \in Links(p) : k.peer[2] = 1
        BY DEF Links
      <4>2. NoLink.peer[2] = 0
        BY Zenon DEF NoLink
      <4> QED
        BY <4>1, <4>2
    <3>3. \E l \in Links(p) \cup {NoLink} : Fits(l)
      BY <3>2, Zenon
    <3>4. Fits(conn[p][n])
      <4> HIDE DEF Fits
      <4> QED
        BY <3>1, <3>3, Zenon
    <3> QED
      BY <3>4, Zenon DEF Leads
  <2> QED
    BY <2>1, <2>2, <2>3, Zenon DEF Devices
<1>16. Counted
  <2>1. \A p \in Pod : proc[p].used \in {NoCIDR, pod[p].node}
    BY <1>3, <1>12, Zenon
  <2>2. ASSUME NEW p \in Pod, NEW q \in Pod, p # q, NoCIDR \notin {pod[p].node, pod[q].node}
        PROVE  ~isOverlappingCIDR(pod[p].node, pod[q].node)
    <3>1. p \in D /\ q \in D /\ pod[p].node = scenario.first[p] /\ pod[q].node = scenario.first[q]
      BY <1>3, <2>2, Zenon
    <3> QED
      BY <1>1, <2>2, <3>1, Zenon
  <2>3. ASSUME NEW q \in Pod PROVE pod[q].node \in known \cup {NoCIDR}
    BY <1>3, Zenon DEF Old, Fresh
  <2> QED
    BY <1>2, <1>7, <1>9, <2>1, <2>2, <2>3, Zenon DEF Counted
<1> QED
  BY <1>2, <1>4, <1>13, <1>14, <1>15, <1>16, StartAssumption, Zenon DEF Inv

(* Every step preserves the invariant. *)
LEMMA NextInv ==
    ASSUME Inv, [Next]_vars
    PROVE  Inv'
<1>1. CASE UNCHANGED vars
  BY <1>1, Zenon DEF vars, Inv, Pods, Processes, Listers, Devices, Counted
<1>2. CASE Expire
  BY <1>2, LeaseLostStep, Zenon DEF Expire
<1>3. ASSUME NEW p \in Pod,
             \/ Boot(p) \/ startLeaderElection(p) \/ ConfigWithExistingCIDR(p)
             \/ updateServiceCIDRToCNFPod(p) \/ BlockStored(p) \/ waitForCIDRReady(p)
             \/ Goes(p) \/ Comes(p)
      PROVE  Inv'
  <2>1. CASE startLeaderElection(p)
    <3>1. CASE OnNewLeader(p)
      BY <3>1, NewLeaderStep, Zenon DEF OnNewLeader
    <3>2. CASE SuccessorSeen(p)
      BY <3>2, NewLeaderStep, Zenon DEF SuccessorSeen
    <3> QED
      BY <2>1, <3>1, <3>2, StartedLeadingStep, StoppedLeadingStep, Zenon DEF startLeaderElection
  <2>2. CASE Comes(p)
    BY <2>2, PhaseStep, Zenon DEF Comes
  <2> QED
    BY <1>3, <2>1, <2>2, BootStep, ConfigStep, ServiceStep, StoredStep, ReadyStep, GoesStep, Zenon
<1>4. ASSUME NEW p \in Pod, NEW q \in Pod, Deliver(p, q) \/ Handle(p, q)
      PROVE  Inv'
  BY <1>4, DeliverStep, GoneStep, RecycleStep, SpawnStep, HandleReadyStep, Zenon DEF Handle
<1>5. ASSUME NEW p \in Pod,
             LabelFails(p) \/ BlockNotStored(p) \/ Crash(p) \/ LoseLease(p) \/ Drain(p)
      PROVE  Inv'
  <2>1. CASE LoseLease(p)
    BY <2>1, LeaseLostStep, Zenon DEF LoseLease
  <2>2. CASE Drain(p)
    BY <2>2, PhaseStep, Zenon DEF Drain
  <2> QED
    BY <1>5, <2>1, <2>2, LabelFailsStep, NotStoredStep, CrashStep, Zenon
<1>6. CASE System
  BY <1>2, <1>3, <1>4, <1>6, Zenon DEF System
<1>7. CASE Disturbances
  BY <1>5, <1>7, DeviceFailsStep, Zenon DEF Disturbances
<1> QED
  BY <1>1, <1>6, <1>7, ResyncStep, Zenon DEF Next

(* The inductive invariant of the pods, the processes, their listers and   *)
(* devices: until a block goes astray a node uses the block its pod has,   *)
(* these are disjoint, and a holder of the lease that has asked for the    *)
(* existing ones counts them all (ConfigWithExistingCIDR,                  *)
(* SpawnNewCIDRForNRIPod).                                                 *)
THEOREM Invariance == Spec => []Inv
<1>1. Init => Inv
  BY InitInv, Zenon
<1>2. Inv /\ [Next]_vars => Inv'
  BY NextInv, Zenon
<1> QED
  BY <1>1, <1>2, PTL DEF Spec

(* No two nodes hand out addresses of one block, unless a leader that had  *)
(* lost the lease stored one or a leader stored one over another           *)
(* (SpawnNewCIDRForNRIPod, waitForCIDRReady).                              *)
THEOREM UsedDisjoint == Spec => []UsedDisjointUnlessAstray
<1>1. Inv => UsedDisjointUnlessAstray
  <2> SUFFICES ASSUME Inv, ~astray, NEW p \in Pod, NEW q \in Pod, p # q,
                      NoCIDR \notin {proc[p].used, proc[q].used}
               PROVE  ~isOverlappingCIDR(proc[p].used, proc[q].used)
    BY Zenon DEF UsedDisjointUnlessAstray
  <2>1. Counted
    BY Zenon DEF Inv
  <2>2. proc[p].used = pod[p].node /\ proc[q].used = pod[q].node
    BY <2>1, Zenon DEF Counted
  <2> QED
    BY <2>1, <2>2, Zenon DEF Counted
<1> QED
  BY <1>1, Invariance, PTL

(* The pods and processes have their types: a process that is down holds   *)
(* nothing, one at work on a block has asked for the existing ones and has *)
(* chosen another (SpawnNewCIDRForNRIPod), and a connection is kept under  *)
(* the node of its pod (AddInnerClusterTunnel).                            *)
THEOREM TypeCorrect == Spec => []TypeOK
<1>1. Inv => TypeOK
  <2> SUFFICES ASSUME Inv PROVE TypeOK
    BY Zenon
  <2>1. lease \in Candidate \cup {Nobody}
    BY Zenon DEF Inv
  <2>2. ASSUME NEW p \in Pod
        PROVE  /\ pod[p].phase \in {"absent", "alive", "dying"}
               /\ pod[p].phase = "absent" => pod[p] = Absent
    BY PodFacts, Zenon DEF PodObject
  <2>3. ASSUME NEW p \in Pod
        PROVE  /\ proc[p].role \in {"none", "worker", "candidate", "leading", "ended"}
               /\ proc[p].ctrl \in {"off", "on", "stopped"}
               /\ proc[p].currentLeader \in Candidate \cup {Nobody}
               /\ proc[p].reported \in Candidate \cup {Nobody}
               /\ proc[p].existing \in SUBSET Blocks
    <3>1. proc[p] \in Process
      BY ProcessFacts, Zenon
    <3> QED
      BY <3>1, Zenon DEF Process
  <2>4. ASSUME NEW p \in Pod, ~proc[p].up PROVE proc[p] = Down /\ DOMAIN via[p] = {}
    BY <2>4, Zenon DEF Inv, Processes, Sound, Devices
  <2>5. ASSUME NEW p \in Pod, proc[p].task # NoTask
        PROVE  /\ proc[p].configured /\ proc[p].task.pod \in proc[p].queue
               /\ proc[p].task.object.node \notin proc[p].existing \cup {NoCIDR}
    <3> DEFINE b == proc[p].task.object.node
    <3>1. /\ proc[p].configured /\ proc[p].task.pod \in proc[p].queue /\ NodeBits # 0
          /\ b \in Blocks /\ ~Taken(b, proc[p].existing)
      BY <2>5, Zenon DEF Inv, Processes, Sound
    <3> HIDE DEF b
    <3>2. b \notin proc[p].existing
      BY <3>1, FreeOfExisting, Zenon
    <3> QED
      BY <3>1, <3>2, NoBlock, Zenon DEF b
  <2>6. \A p \in Pod : \A n \in Node : conn[p][n] # NoLink => NodeOf[conn[p][n].peer[1]] = n
    BY Zenon DEF Inv, Devices, Leads
  <2>7. \A p \in Pod : {proc[p].currentLeader, proc[p].reported} \subseteq Candidate \cup {Nobody}
    BY <2>3, Zenon
  <2> QED
    BY <2>1, <2>2, <2>3, <2>4, <2>5, <2>6, <2>7, Zenon DEF TypeOK
<1> QED
  BY <1>1, Invariance, PTL
=============================================================================
