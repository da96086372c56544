-------------------------- MODULE InterClusterProofs --------------------------
(***************************************************************************)
(* The blocks the hub hands out: for any clusters, network, settled blocks *)
(* and disturbances, the blocks of two clusters whose blocks the hub       *)
(* chooses do not overlap unless the hub's informer dropped one, the block *)
(* of a Peer is kept for as long as its key, and the hub leaves its network*)
(* only when every block of it is taken.                                   *)
(*                                                                         *)
(* The argument rests on the objects in the hub's lister.  Each is the     *)
(* version of its Peer that the informer has reached, with a block if that *)
(* version has none.  An allocation avoids the blocks of all of them, and  *)
(* the versions the informer has not reached yet have the same block or    *)
(* none.                                                                   *)
(***************************************************************************)
EXTENDS InterClusterTunnel, WellFoundedInduction, TLAPS

HubBlocks == {Block(Network, Bits, i) : i \in Nat}

CIDRs  == HubBlocks \cup {NoCIDR, Network} \cup {SpecCIDR[c] : c \in Child}
Object == [key : Nat, cidr : CIDRs]
Status == {"down", "starting", "updating", "running", "refused", "left"}
Starting == {"starting", "updating"}

Held(c) == cache[Hub][c]

Shapes ==
    /\ log \in [Cluster -> Seq(Object)]
    /\ up \in [Cluster -> Status]
    /\ key \in [Cluster -> Nat]
    /\ cache \in [Cluster -> [Cluster -> [at : Nat, obj : Object]]]
    /\ writing \in [Cluster -> [at : Nat, obj : Object]]
    /\ dropped \in BOOLEAN

\* A version without a key is a deletion, and a start brings a key that is new.
Keyed ==
    \A c \in Cluster :
        /\ up[c] \in Starting => key[c] # 0
        /\ \A i \in DOMAIN log[c] :
              /\ log[c][i].key <= key[c]
              /\ up[c] \in Starting => log[c][i].key < key[c]
              /\ log[c][i].key = 0 => log[c][i] = Absent

\* The CIDRs of a cluster the hub allocates for are blocks of the hub's network.
Fitted ==
    \A c \in Allotted :
        /\ \A i \in DOMAIN log[c] : log[c][i].cidr \in HubBlocks \cup {NoCIDR}
        /\ Held(c).obj.cidr \in HubBlocks \cup {NoCIDR}
        /\ writing[c].obj.cidr \in HubBlocks \cup {NoCIDR}

\* What the hub is about to store is a version that had no block, with one.
WriteMeant(c) ==
    writing[c] # Nothing =>
        /\ writing[c].at \in DOMAIN log[c]
        /\ writing[c].obj.key = log[c][writing[c].at].key
        /\ writing[c].obj.key # 0
        /\ log[c][writing[c].at].cidr = NoCIDR

\* The lister has a version of the log, perhaps with a block that is not there.
Listed(c) ==
    /\ Held(c).at <= Len(log[c])
    /\ Held(c).obj.key = 0 => Held(c).obj = Absent
    /\ Held(c).at = 0 => Held(c).obj = Absent
    /\ Held(c).at # 0 =>
          /\ Held(c).obj.key = log[c][Held(c).at].key
          /\ log[c][Held(c).at].cidr # NoCIDR => Held(c).obj.cidr = log[c][Held(c).at].cidr

\* The versions the lister has not reached have its block or none, and none after none.
Behind(c) ==
    \A i \in DOMAIN log[c] : i > Held(c).at /\ log[c][i].cidr # NoCIDR =>
        /\ log[c][i].cidr = Held(c).obj.cidr
        /\ \A j \in DOMAIN log[c] : Held(c).at < j /\ j < i => log[c][j].cidr = log[c][i].cidr

\* What is about to be stored is what the lister holds, or is out of date.
WriteCurrent(c) ==
    writing[c] # Nothing =>
        /\ writing[c].at <= Held(c).at
        /\ writing[c].at = Held(c).at => writing[c].obj = Held(c).obj

Disjoint ==
    \A c, d \in Allotted :
        c # d /\ Held(c).obj.cidr # NoCIDR /\ Held(d).obj.cidr # NoCIDR
            => ~isOverlappingCIDR(Held(c).obj.cidr, Held(d).obj.cidr)

IInv ==
    /\ Shapes /\ Keyed /\ Fitted
    /\ \A c \in Child : WriteMeant(c)
    /\ up[Hub] \in Starting => \A c \in Cluster : writing[c] = Nothing
    /\ Running(Hub) => \A c \in Child : Listed(c)
    /\ Running(Hub) /\ ~dropped =>
          Disjoint /\ \A c \in Allotted : Behind(c) /\ WriteCurrent(c)
    /\ NoOverlapUnlessDropped
    /\ BlockKept

-----------------------------------------------------------------------------
(* The search of a block. *)

(* A set of natural numbers that is not empty has a least element. *)
LEMMA LeastNatural ==
    ASSUME NEW T, T \subseteq Nat, T # {}
    PROVE  \E x \in T : \A y \in T : x <= y
<1>1. PICK x \in T : \A y \in T : ~(<<y, x>> \in OpToRel(<, Nat))
  BY WFMin, NatLessThanWellFounded, Zenon
<1>2. \A y \in T : ~(y < x)
  BY <1>1, Zenon DEF OpToRel
<1> QED
  BY <1>2

(* A block that findAvailableCIDR returns overlaps no existing one. *)
LEMMA FreeBlock ==
    ASSUME Bits # 0, NEW existing, NEW b, b = findAvailableCIDR(Network, existing, Bits), b # NoCIDR
    PROVE  \E i \in Nat :
               /\ b = Block(Network, Bits, i) /\ ~Taken(b, existing)
               /\ \A j \in 0 .. i - 1 : Taken(Block(Network, Bits, j), existing)
<1> DEFINE Free == {i \in Tries(Bits) : ~Taken(Block(Network, Bits, i), existing)}
           First(i) == /\ i \in Tries(Bits)
                       /\ ~Taken(Block(Network, Bits, i), existing)
                       /\ \A j \in 0 .. i - 1 : Taken(Block(Network, Bits, j), existing)
<1>1. Tries(Bits) \subseteq Nat
  BY DEF Tries
<1>2. Free # {}
  BY Zenon DEF findAvailableCIDR
<1>3. PICK x \in Free : \A y \in Free : x <= y
  BY <1>1, <1>2, LeastNatural, Zenon
<1>4. ASSUME NEW j \in 0 .. x - 1 PROVE j \in Tries(Bits)
  BY <1>1, <1>3, NetworkAssumption DEF Tries
<1>5. First(x)
  BY <1>1, <1>3, <1>4
<1>6. b = Block(Network, Bits, CHOOSE i \in Tries(Bits) :
                   /\ ~Taken(Block(Network, Bits, i), existing)
                   /\ \A j \in 0 .. i - 1 : Taken(Block(Network, Bits, j), existing))
  BY <1>2, Zenon DEF findAvailableCIDR
<1>7. PICK i \in Tries(Bits) :
         /\ b = Block(Network, Bits, i) /\ ~Taken(Block(Network, Bits, i), existing)
         /\ \A j \in 0 .. i - 1 : Taken(Block(Network, Bits, j), existing)
  BY <1>5, <1>6, Zenon
<1> QED
  BY <1>1, <1>7, Zenon

(* The blocks of the network are those with the first indices. *)
LEMMA InsideOrFull ==
    ASSUME Bits # 0, NEW existing, NEW i \in Nat,
           \A j \in 0 .. i - 1 : Taken(Block(Network, Bits, j), existing)
    PROVE  \/ Inside(Block(Network, Bits, i), Network)
           \/ \A b \in BlocksOf(Network, Bits) : Taken(b, existing)
<1> DEFINE W == Width(Bits)
           N == 2 ^ (Bits - Network.bits)
           M == Width(Network.bits)
           q == Network.ip \div M
<1>1. /\ W \in Nat /\ W > 0 /\ N \in Nat /\ N > 0 /\ M = N * W
      /\ Network.ip \in Nat /\ Network.ip = q * M /\ Network.bits \in 0 .. 24
  BY NetworkAssumption
<1>2. Network.bits \in Int /\ Bits >= Network.bits
  BY <1>1 DEF Bits, divideTunnelNetwork
<1> HIDE DEF W, N, M
<1>3. M \in Nat /\ M > 0
  BY <1>1
<1>4. q \in Int
  BY <1>1, <1>3
<1> HIDE DEF q
<1>5. CASE i < N
  <2>1. i * W \in Nat /\ i * W < M
    BY <1>1, <1>5
  <2>2. (q * M + i * W) \div M = q
    BY <1>3, <1>4, <2>1
  <2>3. (Network.ip + i * W) \div M = q
    BY <1>1, <2>2, Zenon
  <2>4. Inside(Block(Network, Bits, i), Network)
    BY <1>2, <2>3, Zenon DEF Inside, Contains, Block, W, M, q
  <2> QED
    BY <2>4, Zenon
<1>6. CASE ~(i < N)
  <2>1. \A j \in 0 .. N - 1 : j \in 0 .. i - 1
    BY <1>1, <1>6
  <2> QED
    BY <2>1, Zenon DEF BlocksOf, N
<1> QED
  BY <1>5, <1>6, Zenon

(* The start of a block is where its trimming leaves it. *)
LEMMA TrimmedBlock ==
    ASSUME Bits # 0, NEW b \in HubBlocks
    PROVE  Trimmed(b, Bits) = b
<1> DEFINE W == Width(Bits)
<1>1. W \in Nat /\ W > 0 /\ Network.ip \in Nat /\ Network.ip = (Network.ip \div W) * W
  <2> DEFINE N == 2 ^ (Bits - Network.bits)
             k == Network.ip \div Width(Network.bits)
  <2>1. /\ W \in Nat /\ W > 0 /\ N \in Nat /\ N > 0 /\ Network.ip \in Nat
        /\ Width(Network.bits) = N * W /\ Network.ip = k * Width(Network.bits)
    BY NetworkAssumption
  <2> HIDE DEF W, N
  <2>2. Width(Network.bits) \in Nat /\ Width(Network.bits) > 0
    BY <2>1
  <2>3. k \in Int
    BY <2>1, <2>2
  <2> HIDE DEF k
  <2>4. Network.ip = (k * N) * W /\ k * N \in Int
    BY <2>1, <2>3
  <2>5. ((k * N) * W) \div W = k * N
    BY <2>1, <2>4
  <2> QED
    BY <2>1, <2>4, <2>5, Zenon
<1>2. PICK i \in Nat : b = [ip |-> Network.ip + i * W, bits |-> Bits]
  BY Zenon DEF HubBlocks, Block
<1> HIDE DEF W
<1> DEFINE q == Network.ip \div W
<1>3. q \in Int /\ Network.ip = q * W
  BY <1>1
<1> HIDE DEF q
<1>4. b.ip = (q + i) * W
  BY <1>2, <1>3, <1>1
<1>5. ((q + i) * W) \div W = q + i
  BY <1>1, <1>3
<1>6. (b.ip \div W) * W = b.ip
  BY <1>4, <1>5, Zenon
<1> QED
  BY <1>2, <1>6, Zenon DEF Trimmed, W

-----------------------------------------------------------------------------
(* The inductive invariant. *)

(* The hub has no block of its own, and the clusters it allocates for are children. *)
LEMMA Clusters ==
    Hub \in Cluster /\ \A c \in Allotted : c \in Child /\ c \in Cluster /\ c # Hub
BY NetworkAssumption, Zenon DEF Cluster, Allotted, Private

(* A log is a sequence of objects. *)
LEMMA LogTypes ==
    ASSUME Shapes, NEW c \in Cluster
    PROVE  /\ log[c] \in Seq(Object) /\ Len(log[c]) \in Nat
           /\ DOMAIN log[c] = 1 .. Len(log[c])
           /\ \A i \in DOMAIN log[c] : log[c][i] \in Object /\ log[c][i].key \in Nat
           /\ log[c] # << >> => Len(log[c]) \in DOMAIN log[c] /\ API(c) = log[c][Len(log[c])]
           /\ API(c) \in Object /\ API(c).key \in Nat
<1>1. log[c] \in Seq(Object)
  BY Zenon DEF Shapes
<1>2. Len(log[c]) \in Nat /\ DOMAIN log[c] = 1 .. Len(log[c])
  BY <1>1
<1>3. \A i \in DOMAIN log[c] : log[c][i] \in Object
  BY <1>1
<1>4. \A v \in Object : v.key \in Nat
  BY Zenon DEF Object
<1>5. log[c] # << >> => Len(log[c]) \in DOMAIN log[c] /\ API(c) = log[c][Len(log[c])]
  BY <1>1 DEF API
<1>6. Absent \in Object
  BY Zenon DEF Absent, Object, CIDRs
<1>7. API(c) \in Object
  BY <1>3, <1>5, <1>6, Zenon DEF API
<1> QED
  BY <1>1, <1>2, <1>3, <1>4, <1>5, <1>7, Zenon

(* The Peer a handler works with has a block that its lister had, or one   *)
(* that is disjoint from all its lister has.                               *)
LEMMA AllocatedPeer ==
    ASSUME Shapes, NEW a \in Cluster, NEW c \in Cluster,
           NEW peer, peer = Allocated(a, c), peer.cidr # NoCIDR, peer # cache[a][c].obj
    PROVE  /\ a = Hub /\ cache[a][c].obj.cidr = NoCIDR
           /\ peer = [key |-> cache[a][c].obj.key, cidr |-> peer.cidr]
           /\ Bits # 0 /\ peer.cidr \in HubBlocks /\ ~Taken(peer.cidr, existingCIDR)
           /\ \/ Inside(peer.cidr, Network)
              \/ \A b \in BlocksOf(Network, Bits) : Taken(b, existingCIDR)
<1> DEFINE obj == cache[a][c].obj
<1>1. obj \in Object
  BY DEF Shapes
<1>2. /\ a = Hub /\ obj.cidr = NoCIDR
      /\ peer = [obj EXCEPT !.cidr = FindTunnelAvailableCIDR(Network, existingCIDR)]
  BY Zenon DEF Allocated
<1>3. /\ peer = [key |-> obj.key, cidr |-> peer.cidr]
      /\ peer.cidr = FindTunnelAvailableCIDR(Network, existingCIDR)
  BY <1>1, <1>2, Zenon DEF Object
<1>4. Bits # 0 /\ peer.cidr = findAvailableCIDR(Network, existingCIDR, Bits)
  BY <1>3, Zenon DEF FindTunnelAvailableCIDR, Bits
<1>5. PICK i \in Nat :
         /\ peer.cidr = Block(Network, Bits, i) /\ ~Taken(peer.cidr, existingCIDR)
         /\ \A j \in 0 .. i - 1 : Taken(Block(Network, Bits, j), existingCIDR)
  BY <1>4, FreeBlock, Zenon
<1>6. peer.cidr \in HubBlocks
  BY <1>5, Zenon DEF HubBlocks
<1>7. \/ Inside(peer.cidr, Network)
      \/ \A b \in BlocksOf(Network, Bits) : Taken(b, existingCIDR)
  BY <1>4, <1>5, InsideOrFull, Zenon
<1> QED
  BY <1>2, <1>3, <1>4, <1>5, <1>6, <1>7, Zenon

(* A block that is not taken overlaps no block in the hub's lister.        *)
LEMMA FreeOfHeld ==
    ASSUME Shapes, Fitted, Bits # 0, NEW b \in HubBlocks, ~Taken(b, existingCIDR),
           NEW d \in Allotted, Held(d).obj.cidr # NoCIDR
    PROVE  ~isOverlappingCIDR(Held(d).obj.cidr, b) /\ ~isOverlappingCIDR(b, Held(d).obj.cidr)
<1> DEFINE e == Held(d).obj.cidr
<1>1. e \in HubBlocks /\ e \in existingCIDR \ {NoCIDR}
  BY Zenon DEF Fitted, existingCIDR, Held, Allotted, Private
<1>2. b.bits = Bits
  BY DEF HubBlocks, Block
<1>3. ~isOverlappingCIDR(Trimmed(e, Bits), b)
  BY <1>1, <1>2, Zenon DEF Taken
<1>4. ~isOverlappingCIDR(e, b)
  BY <1>1, <1>3, TrimmedBlock, Zenon
<1> QED
  BY <1>4, Zenon DEF isOverlappingCIDR

(* A step that leaves the Peers, the hub's lister and its pending Updates  *)
(* alone and starts nothing preserves the invariant.                       *)
LEMMA SteadyStep ==
    ASSUME IInv, UNCHANGED <<log, key, cache, writing, dropped>>,
           up' \in [Cluster -> Status],
           \A c \in Cluster : up'[c] \in Starting => up[c] \in Starting,
           Running(Hub)' => Running(Hub)
    PROVE  IInv'
<1>1. Shapes' /\ Keyed' /\ Fitted'
  BY Zenon DEF IInv, Shapes, Keyed, Fitted, Held
<1>2. \A c \in Child : WriteMeant(c)'
  BY Zenon DEF IInv, WriteMeant
<1>3. up'[Hub] \in Starting => \A c \in Cluster : writing'[c] = Nothing
  BY Zenon DEF IInv, Cluster
<1>4. Running(Hub)' => \A c \in Child : Listed(c)'
  BY Zenon DEF IInv, Listed, Held
<1>5. Running(Hub)' /\ ~dropped' => Disjoint' /\ \A c \in Allotted : Behind(c)' /\ WriteCurrent(c)'
  BY DEF IInv, Disjoint, Behind, WriteCurrent, Held
<1>6. NoOverlapUnlessDropped' /\ BlockKept'
  BY Zenon DEF IInv, NoOverlapUnlessDropped, BlockKept, API
<1> QED
  BY <1>1, <1>2, <1>3, <1>4, <1>5, <1>6, Zenon DEF IInv

(* What the hub reads of a child whose informer is behind is in its lister. *)
LEMMA StoredIsHeld ==
    ASSUME IInv, Running(Hub), ~dropped, NEW d \in Allotted, API(d).cidr # NoCIDR
    PROVE  API(d).cidr = Held(d).obj.cidr
<1> DEFINE n == Len(log[d])
<1>1. d \in Child /\ d \in Cluster /\ log[d] \in Seq(Object) /\ Held(d).at \in Nat
  BY DEF IInv, Shapes, Allotted, Private, Cluster, Held, Hub
<1>2. log[d] # << >>
  BY Zenon DEF API, Absent
<1>3. n \in DOMAIN log[d] /\ n # 0 /\ API(d) = log[d][n]
  BY <1>1, <1>2 DEF API
<1>4. CASE Held(d).at = n
  BY <1>1, <1>3, <1>4, Zenon DEF IInv, Listed
<1>5. CASE Held(d).at # n
  BY <1>1, <1>3, <1>5 DEF IInv, Listed, Behind
<1> QED
  BY <1>4, <1>5, Zenon

(* The agents that run at the start have one version each. *)
LEMMA InitIInv ==
    ASSUME Init
    PROVE  IInv
<1>1. /\ Absent \in Object /\ Nothing \in [at : Nat, obj : Object]
      /\ \A c \in Cluster : ApplyPeerConfig(c) \in Object
  BY Zenon DEF Init, Absent, Nothing, Object, CIDRs, ApplyPeerConfig, Cluster
<1>2. \A c \in Cluster : \/ log[c] = << >> /\ ~(c \in Started)
                         \/ log[c] = <<ApplyPeerConfig(c)>> /\ key[c] = 1 /\ c \in Started
  BY Zenon DEF Init
<1>3. Shapes
  <2>1. log \in [Cluster -> Seq(Object)]
    BY <1>1, <1>2 DEF Init
  <2>2. cache \in [Cluster -> [Cluster -> [at : Nat, obj : Object]]]
    BY <1>1, Zenon DEF Init
  <2> QED
    BY <1>1, <2>1, <2>2, Zenon DEF Init, Shapes, Status
<1>4. Keyed
  BY <1>2 DEF Init, Keyed, Starting, ApplyPeerConfig
<1>5. \A c \in Allotted : c \in Cluster /\ c # Hub /\ ApplyPeerConfig(c).cidr = NoCIDR
  BY NetworkAssumption, Zenon DEF ApplyPeerConfig, Allotted, Private, Cluster
<1>6. Fitted
  BY <1>2, <1>5 DEF Init, Fitted, Held, Nothing, Absent, Cluster
<1>7. \A c \in Cluster : writing[c] = Nothing
  BY Zenon DEF Init
<1>8. Running(Hub) => \A c \in Child : Listed(c)
  <2> SUFFICES ASSUME Running(Hub), NEW c \in Child PROVE Listed(c)
    BY Zenon
  <2>1. Hub \in Started /\ Read(Hub, c) /\ Hub \in Cluster /\ c \in Cluster
    BY Zenon DEF Init, Running, Read, Cluster
  <2>2. Held(c) = IF c \in Started THEN [at |-> 1, obj |-> ApplyPeerConfig(c)] ELSE Nothing
    BY <2>1, Zenon DEF Init, Held
  <2> QED
    BY <1>2, <2>1, <2>2 DEF Listed, Nothing, Absent, ApplyPeerConfig
<1>9. Disjoint /\ NoOverlapUnlessDropped
  BY <1>2, <1>5, Zenon DEF Init, Disjoint, Held, Nothing, Absent, NoOverlapUnlessDropped, API, Cluster
<1>10. \A c \in Allotted : Behind(c) /\ WriteCurrent(c)
  BY <1>2, <1>5, <1>7 DEF Behind, WriteCurrent
<1>11. BlockKept
  BY <1>2 DEF BlockKept, Cluster
<1> QED
  BY <1>3, <1>4, <1>6, <1>7, <1>8, <1>9, <1>10, <1>11, Zenon DEF IInv, WriteMeant, Cluster

\* An agent starts with a new key and an empty lister; a starting hub has no Update in flight.
LEMMA NewTunnelStep ==
    ASSUME IInv, NEW a \in Cluster, NewTunnel(a)
    PROVE  IInv'
<1>1. /\ up' \in [Cluster -> Status] /\ up'[a] = "starting"
      /\ \A c \in Cluster \ {a} : up'[c] = up[c]
  BY Zenon DEF IInv, Shapes, NewTunnel, Status
<1>2. Nothing \in [at : Nat, obj : Object]
  BY Zenon DEF Nothing, Absent, Object, CIDRs
<1>3. Shapes'
  <2>1. key' \in [Cluster -> Nat]
    <3>1. key \in [Cluster -> Nat] /\ key' = [key EXCEPT ![a] = key[a] + 1]
      BY Zenon DEF IInv, Shapes, NewTunnel
    <3> QED
      BY <3>1
  <2>2. cache' \in [Cluster -> [Cluster -> [at : Nat, obj : Object]]]
    BY <1>2, Zenon DEF IInv, Shapes, NewTunnel
  <2>3. writing' \in [Cluster -> [at : Nat, obj : Object]]
    BY <1>2, Zenon DEF IInv, Shapes, NewTunnel
  <2>4. log' \in [Cluster -> Seq(Object)] /\ dropped' \in BOOLEAN
    BY Zenon DEF IInv, Shapes, NewTunnel
  <2> QED
    BY <1>1, <2>1, <2>2, <2>3, <2>4, Zenon DEF Shapes
<1>4. Keyed'
  <2>1. /\ key'[a] = key[a] + 1 /\ key[a] \in Nat /\ log' = log
        /\ \A c \in Cluster \ {a} : key'[c] = key[c]
    BY Zenon DEF IInv, Shapes, NewTunnel
  <2>2. \A c \in Cluster : \A i \in DOMAIN log[c] : log[c][i].key \in Nat
    <3>1. \A c \in Cluster : log[c] \in Seq(Object)
      BY Zenon DEF IInv, Shapes
    <3>2. \A c \in Cluster : \A i \in DOMAIN log[c] : log[c][i] \in Object
      BY <3>1
    <3> QED
      BY <3>2, Zenon DEF Object
  <2> QED
    BY <1>1, <2>1, <2>2 DEF IInv, Keyed
<1>5. \A c \in Cluster : writing'[c] = writing[c] \/ writing'[c] = Nothing
  BY Zenon DEF NewTunnel
<1>6. \A c \in Cluster : cache'[Hub][c] = cache[Hub][c] \/ cache'[Hub][c] = Nothing
  BY Zenon DEF IInv, Shapes, NewTunnel, Cluster
<1>7. Fitted'
  BY <1>5, <1>6 DEF IInv, Fitted, Held, NewTunnel, Allotted, Private, Cluster, Nothing, Absent
<1>8. \A c \in Child : WriteMeant(c)'
  BY <1>5, Zenon DEF IInv, WriteMeant, NewTunnel, Cluster
<1>9. up'[Hub] \in Starting => \A c \in Cluster : writing'[c] = Nothing
  BY <1>1, Zenon DEF IInv, NewTunnel, Cluster
<1>10. Running(Hub)' => a # Hub /\ Running(Hub) /\ cache'[Hub] = cache[Hub] /\ writing' = writing
  BY <1>1, Zenon DEF IInv, Shapes, Running, NewTunnel, Cluster
<1>11. Running(Hub)' => \A c \in Child : Listed(c)'
  BY <1>10, Zenon DEF IInv, Listed, Held, NewTunnel
<1>12. Running(Hub)' /\ ~dropped' => Disjoint' /\ \A c \in Allotted : Behind(c)' /\ WriteCurrent(c)'
  BY <1>10 DEF IInv, Disjoint, Behind, WriteCurrent, Held, NewTunnel
<1>13. NoOverlapUnlessDropped' /\ BlockKept'
  BY Zenon DEF IInv, NoOverlapUnlessDropped, BlockKept, API, NewTunnel
<1> QED
  BY <1>3, <1>4, <1>7, <1>8, <1>9, <1>11, <1>12, <1>13, Zenon DEF IInv

(* A version is appended to the log of one cluster. *)
LEMMA AppendedVersion ==
    ASSUME Shapes, NEW c \in Cluster, NEW v \in Object,
           log' = [log EXCEPT ![c] = Append(@, v)]
    PROVE  /\ log' \in [Cluster -> Seq(Object)]
           /\ \A d \in Cluster \ {c} : log'[d] = log[d] /\ API(d)' = API(d)
           /\ Len(log[c]) \in Nat /\ Len(log'[c]) = Len(log[c]) + 1 /\ API(c)' = v
           /\ DOMAIN log[c] = 1 .. Len(log[c]) /\ DOMAIN log'[c] = 1 .. Len(log[c]) + 1
           /\ \A i \in DOMAIN log[c] : log'[c][i] = log[c][i]
           /\ log'[c][Len(log[c]) + 1] = v
<1>1. log \in [Cluster -> Seq(Object)] /\ log[c] \in Seq(Object)
  BY Zenon DEF Shapes
<1>2. Append(log[c], v) \in Seq(Object)
  BY <1>1
<1>3. log' \in [Cluster -> Seq(Object)] /\ log'[c] = Append(log[c], v)
  BY <1>1, <1>2, Zenon
<1>4. \A d \in Cluster \ {c} : log'[d] = log[d]
  BY <1>1, Zenon
<1>5. log'[c] # << >> /\ Len(log'[c]) = Len(log[c]) + 1
  BY <1>1, <1>3
<1>6. log'[c][Len(log[c]) + 1] = v
  BY <1>1, <1>3
<1> QED
  BY <1>1, <1>3, <1>4, <1>5, <1>6 DEF API

(* What an appended version must satisfy for the logs to stay as they are meant. *)
LEMMA AppendKeeps ==
    ASSUME IInv, NEW c \in Cluster, NEW v \in Object,
           log' = [log EXCEPT ![c] = Append(@, v)], key' = key,
           up' \in [Cluster -> Status],
           \A d \in Cluster : up'[d] \in Starting => up[d] \in Starting,
           v.key <= key[c], up'[c] \in Starting => v.key < key[c],
           v.key = 0 => v = Absent,
           c \in Child /\ API(c).cidr # NoCIDR => v.key # API(c).key
    PROVE  Keyed' /\ BlockKept'
<1> DEFINE n == Len(log[c])
<1>1. /\ n \in Nat /\ Len(log'[c]) = n + 1
      /\ DOMAIN log[c] = 1 .. n /\ DOMAIN log'[c] = 1 .. n + 1
      /\ \A i \in DOMAIN log[c] : log'[c][i] = log[c][i]
      /\ log'[c][n + 1] = v
      /\ \A d \in Cluster \ {c} : log'[d] = log[d]
  BY AppendedVersion, Zenon DEF IInv
<1>2. Keyed'
  <2> SUFFICES ASSUME NEW d \in Cluster
               PROVE  /\ up'[d] \in Starting => key'[d] # 0
                      /\ \A i \in DOMAIN log'[d] :
                            /\ log'[d][i].key <= key'[d]
                            /\ up'[d] \in Starting => log'[d][i].key < key'[d]
                            /\ log'[d][i].key = 0 => log'[d][i] = Absent
    BY Zenon DEF Keyed
  <2>1. CASE d # c
    BY <1>1, <2>1 DEF IInv, Keyed
  <2>2. CASE d = c
    <3>1. \A i \in DOMAIN log'[c] : i \in DOMAIN log[c] \/ i = n + 1
      BY <1>1
    <3> QED
      BY <1>1, <2>2, <3>1 DEF IInv, Keyed
  <2> QED
    BY <2>1, <2>2, Zenon
<1>3. BlockKept'
  <2> SUFFICES ASSUME NEW d \in Child, NEW i \in 1 .. Len(log'[d]) - 1,
                      log'[d][i].cidr # NoCIDR, log'[d][i + 1].key = log'[d][i].key
               PROVE  log'[d][i + 1].cidr = log'[d][i].cidr
    BY Zenon DEF BlockKept
  <2>1. CASE d # c
    BY <1>1, <2>1 DEF IInv, BlockKept, Cluster
  <2>2. CASE d = c /\ i \in 1 .. n - 1
    <3>1. i \in DOMAIN log[c] /\ i + 1 \in DOMAIN log[c]
      BY <1>1, <2>2
    <3> QED
      BY <1>1, <2>2, <3>1 DEF IInv, BlockKept
  <2>3. CASE d = c /\ i = n
    <3>1. n \in DOMAIN log[c] /\ API(c) = log[c][n]
      BY <1>1, <2>3 DEF API
    <3> QED
      BY <1>1, <2>3, <3>1, Zenon
  <2> QED
    BY <1>1, <2>1, <2>2, <2>3
<1> QED
  BY <1>2, <1>3, Zenon

\* An agent publishes its Peer under its new key, without a block if the hub chooses it, and
\* its informer lists.
LEMMA PublishedStep ==
    ASSUME IInv, NEW a \in Cluster, up[a] \in Starting, Published(a)
    PROVE  IInv'
<1> DEFINE v == ApplyPeerConfig(a)
<1>1. /\ v \in Object /\ v.key = key[a] /\ key[a] \in Nat /\ key[a] # 0
      /\ a \in Allotted => v.cidr = NoCIDR
  <2>1. key[a] \in Nat /\ key[a] # 0
    BY Zenon DEF IInv, Shapes, Keyed
  <2>2. (IF a = Hub THEN Network ELSE SpecCIDR[a]) \in CIDRs
    BY Zenon DEF CIDRs, Cluster
  <2>3. v \in Object /\ v.key = key[a]
    BY <2>1, <2>2, Zenon DEF ApplyPeerConfig, Object
  <2> QED
    BY <2>1, <2>3, NetworkAssumption, Zenon DEF ApplyPeerConfig, Allotted, Private
<1>2. /\ log' \in [Cluster -> Seq(Object)]
      /\ \A d \in Cluster \ {a} : log'[d] = log[d] /\ API(d)' = API(d)
      /\ Len(log[a]) \in Nat /\ Len(log'[a]) = Len(log[a]) + 1 /\ API(a)' = v
      /\ DOMAIN log[a] = 1 .. Len(log[a]) /\ DOMAIN log'[a] = 1 .. Len(log[a]) + 1
      /\ \A i \in DOMAIN log[a] : log'[a][i] = log[a][i]
      /\ log'[a][Len(log[a]) + 1] = v
  BY <1>1, AppendedVersion, Zenon DEF IInv, Published
<1>3. /\ up' \in [Cluster -> Status] /\ up'[a] = "running"
      /\ \A c \in Cluster \ {a} : up'[c] = up[c]
  BY Zenon DEF IInv, Shapes, Published, Status
<1>4. Keyed' /\ BlockKept'
  <2>1. API(a).cidr # NoCIDR => v.key # API(a).key
    <3> SUFFICES ASSUME API(a).cidr # NoCIDR PROVE v.key # API(a).key
      BY Zenon
    <3>1. Len(log[a]) \in DOMAIN log[a] /\ API(a) = log[a][Len(log[a])]
      BY <1>2 DEF API, Absent, IInv, Shapes
    <3>2. API(a).key < key[a]
      BY <3>1, Zenon DEF IInv, Keyed
    <3>3. API(a).key \in Nat
      BY LogTypes, Zenon DEF IInv
    <3> QED
      BY <1>1, <3>2, <3>3
  <2> QED
    <3>1. /\ log' = [log EXCEPT ![a] = Append(@, v)] /\ key' = key
          /\ \A d \in Cluster : up'[d] \in Starting => up[d] \in Starting
          /\ up'[a] \notin Starting
      BY <1>3, Zenon DEF Published, Starting
    <3>2. /\ v \in Object /\ v.key <= key[a]
          /\ up'[a] \in Starting => v.key < key[a]
          /\ v.key = 0 => v = Absent
          /\ a \in Child /\ API(a).cidr # NoCIDR => v.key # API(a).key
      BY <1>1, <2>1, <3>1
    <3>3. up' \in [Cluster -> Status]
      BY <1>3, Zenon
    <3> HIDE DEF v
    <3> QED
      BY <3>1, <3>2, <3>3, AppendKeeps, Zenon
<1>5. \A c \in Cluster : API(c) \in Object
  <2>1. Absent \in Object /\ \A c \in Cluster : log[c] \in Seq(Object)
    BY Zenon DEF Absent, Object, CIDRs, IInv, Shapes
  <2> QED
    BY <2>1 DEF API
<1>6. Shapes'
  <2>1. cache' \in [Cluster -> [Cluster -> [at : Nat, obj : Object]]]
    <3>1. Nothing \in [at : Nat, obj : Object]
      BY Zenon DEF Nothing, Absent, Object, CIDRs
    <3>2. \A c \in Cluster : Len(log[c]) \in Nat
      BY DEF IInv, Shapes
    <3>3. \A c \in Cluster :
            (CASE ~Read(a, c) -> Nothing
               [] c = a       -> [at |-> Len(log[c]) + 1, obj |-> v]
               [] OTHER       -> [at |-> Len(log[c]), obj |-> API(c)])
            \in [at : Nat, obj : Object]
      BY <1>1, <1>5, <3>1, <3>2
    <3>4. cache \in [Cluster -> [Cluster -> [at : Nat, obj : Object]]]
      BY Zenon DEF IInv, Shapes
    <3> QED
      BY <3>3, <3>4, Zenon DEF Published
  <2> QED
    BY <1>2, <1>3, <2>1, Zenon DEF IInv, Shapes, Published
<1>7. a = Hub => \A c \in Child : Held(c)' = [at |-> Len(log[c]), obj |-> API(c)]
  BY NetworkAssumption, Zenon DEF IInv, Shapes, Published, Held, Read, Cluster
<1>8. a # Hub => cache'[Hub] = cache[Hub]
  BY Zenon DEF IInv, Shapes, Published, Cluster
<1>9. Fitted'
  <2> SUFFICES ASSUME NEW c \in Allotted
               PROVE  /\ \A i \in DOMAIN log'[c] : log'[c][i].cidr \in HubBlocks \cup {NoCIDR}
                      /\ Held(c)'.obj.cidr \in HubBlocks \cup {NoCIDR}
                      /\ writing'[c].obj.cidr \in HubBlocks \cup {NoCIDR}
    BY Zenon DEF Fitted
  <2>1. c \in Cluster /\ c \in Child
    BY Zenon DEF Allotted, Private, Cluster
  <2>2. \A i \in DOMAIN log[c] : log[c][i].cidr \in HubBlocks \cup {NoCIDR}
    BY Zenon DEF IInv, Fitted
  <2>3. \A i \in DOMAIN log'[c] : log'[c][i].cidr \in HubBlocks \cup {NoCIDR}
    <3>1. CASE c # a
      BY <1>2, <2>1, <2>2, <3>1, Zenon
    <3>2. CASE c = a
      <4>1. \A i \in DOMAIN log'[c] : i \in DOMAIN log[c] \/ i = Len(log[c]) + 1
        BY <1>2, <3>2
      <4> HIDE DEF v
      <4> QED
        BY <1>1, <1>2, <2>2, <3>2, <4>1, Zenon
    <3> QED
      BY <3>1, <3>2, Zenon
  <2>4. API(c).cidr \in HubBlocks \cup {NoCIDR}
    <3>1. log[c] # << >> => Len(log[c]) \in DOMAIN log[c]
      BY <2>1 DEF IInv, Shapes
    <3> QED
      BY <2>2, <3>1, Zenon DEF API, Absent
  <2>5. Held(c)'.obj.cidr \in HubBlocks \cup {NoCIDR}
    <3>1. CASE a = Hub
      <4>1. Held(c)'.obj = API(c)
        BY <1>7, <2>1, <3>1
      <4> QED
        BY <2>4, <4>1, Zenon
    <3>2. CASE a # Hub
      BY <1>8, <3>2, Zenon DEF IInv, Fitted, Held
    <3> QED
      BY <3>1, <3>2, Zenon
  <2> QED
    BY <2>3, <2>5, Zenon DEF IInv, Fitted, Published
<1>10. \A c \in Child : WriteMeant(c)'
  BY <1>2 DEF IInv, WriteMeant, Published, Cluster
<1>11. up'[Hub] \in Starting => \A c \in Cluster : writing'[c] = Nothing
  BY <1>3, Zenon DEF IInv, Published, Starting, Cluster
<1>12. a # Hub /\ Running(Hub)' => Running(Hub)
  BY <1>3, Zenon DEF Running, Cluster
<1>13. a # Hub => \A c \in Child : Listed(c) => Listed(c)'
  <2> SUFFICES ASSUME a # Hub, NEW c \in Child, Listed(c) PROVE Listed(c)'
    BY Zenon
  <2>1. c \in Cluster /\ Held(c)' = Held(c) /\ Held(c).at \in Nat
    BY <1>8, Zenon DEF Held, Cluster, IInv, Shapes
  <2>2. Held(c).at # 0 => log'[c][Held(c).at] = log[c][Held(c).at]
    BY <1>2, <2>1 DEF Listed
  <2>3. Held(c).at <= Len(log'[c])
    BY <1>2, <2>1 DEF Listed
  <2> QED
    BY <2>1, <2>2, <2>3, Zenon DEF Listed
<1>14. a = Hub => \A c \in Child : Listed(c)'
  <2> SUFFICES ASSUME a = Hub, NEW c \in Child PROVE Listed(c)'
    BY Zenon
  <2>1. c \in Cluster /\ log'[c] = log[c] /\ Len(log[c]) \in Nat
    BY <1>2, NetworkAssumption DEF Cluster, IInv, Shapes
  <2>2. Held(c)' = [at |-> Len(log[c]), obj |-> API(c)]
    BY <1>7, Zenon
  <2>3. CASE log[c] = << >>
    BY <2>1, <2>2, <2>3 DEF Listed, API, Absent
  <2>4. CASE log[c] # << >>
    <3>1. Len(log[c]) \in DOMAIN log[c] /\ Len(log[c]) # 0 /\ API(c) = log[c][Len(log[c])]
      BY <2>1, <2>4 DEF API, IInv, Shapes
    <3>2. API(c).key = 0 => API(c) = Absent
      BY <2>1, <3>1, Zenon DEF IInv, Keyed
    <3> QED
      BY <2>1, <2>2, <3>1, <3>2 DEF Listed
  <2> QED
    BY <2>3, <2>4, Zenon
<1>15. Running(Hub)' => \A c \in Child : Listed(c)'
  BY <1>12, <1>13, <1>14, Zenon DEF IInv
<1>16. NoOverlapUnlessDropped'
  BY <1>1, <1>2 DEF IInv, NoOverlapUnlessDropped, Published, Allotted, Private, Cluster
<1>17. Running(Hub)' /\ ~dropped' => Disjoint'
  <2> SUFFICES ASSUME Running(Hub)', ~dropped' PROVE Disjoint'
    BY Zenon
  <2>1. CASE a = Hub
    <3>1. \A c \in Allotted : Held(c)'.obj = API(c)
      BY <1>7, <2>1, Clusters
    <3>2. ~dropped
      BY Zenon DEF Published
    <3> QED
      BY <3>1, <3>2, Zenon DEF IInv, NoOverlapUnlessDropped, Disjoint
  <2>2. CASE a # Hub
    BY <1>8, <1>12, <2>2, Zenon DEF IInv, Disjoint, Held, Published
  <2> QED
    BY <2>1, <2>2, Zenon
<1>18. Running(Hub)' /\ ~dropped' => \A c \in Allotted : Behind(c)' /\ WriteCurrent(c)'
  <2> SUFFICES ASSUME Running(Hub)', ~dropped', NEW c \in Allotted
               PROVE  Behind(c)' /\ WriteCurrent(c)'
    BY Zenon
  <2>1. c \in Cluster /\ c \in Child /\ c # Hub /\ Len(log[c]) \in Nat
    BY Clusters, LogTypes, Zenon DEF IInv
  <2>2. CASE a = Hub
    <3>1. Held(c)'.at = Len(log[c]) /\ log'[c] = log[c]
      BY <1>2, <1>7, <2>1, <2>2
    <3>2. \A i \in DOMAIN log[c] : ~(i > Len(log[c]))
      BY <2>1 DEF IInv, Shapes
    <3>3. writing'[c] = Nothing
      BY <2>1, <2>2, Zenon DEF IInv, Published
    <3> QED
      BY <3>1, <3>2, <3>3, Zenon DEF Behind, WriteCurrent
  <2>3. CASE a # Hub
    <3>1. Behind(c) /\ WriteCurrent(c) /\ Held(c)' = Held(c) /\ writing' = writing
      BY <1>8, <1>12, <2>3, Zenon DEF IInv, Held, Published
    <3>2. CASE a # c
      BY <1>2, <2>1, <3>1, <3>2 DEF Behind, WriteCurrent
    <3>3. CASE a = c
      <4>1. \A i \in DOMAIN log'[c] : log'[c][i].cidr # NoCIDR =>
               i \in DOMAIN log[c] /\ \A j \in DOMAIN log'[c] : j < i => j \in DOMAIN log[c]
        BY <1>1, <1>2, <3>3
      <4>2. \A i \in DOMAIN log[c] : log'[c][i] = log[c][i]
        BY <1>2, <3>3, Zenon
      <4> QED
        BY <3>1, <4>1, <4>2 DEF Behind, WriteCurrent
    <3> QED
      BY <3>2, <3>3, Zenon
  <2> QED
    BY <2>2, <2>3, Zenon
<1> QED
  BY <1>4, <1>6, <1>9, <1>10, <1>11, <1>15, <1>16, <1>17, <1>18, Zenon DEF IInv

(* A step that changes the lister of another agent only. *)
LEMMA OtherLister ==
    ASSUME IInv, UNCHANGED <<log, up, key, writing, dropped>>, cache'[Hub] = cache[Hub],
           cache' \in [Cluster -> [Cluster -> [at : Nat, obj : Object]]]
    PROVE  IInv'
<1>1. Shapes' /\ Keyed'
  BY Zenon DEF IInv, Shapes, Keyed
<1>2. Fitted' /\ \A c \in Child : WriteMeant(c)' /\ (Listed(c) => Listed(c)')
  BY Zenon DEF IInv, Fitted, Held, WriteMeant, Listed
<1>3. /\ Disjoint => Disjoint'
      /\ \A c \in Allotted : (Behind(c) => Behind(c)') /\ (WriteCurrent(c) => WriteCurrent(c)')
  BY DEF Disjoint, Behind, WriteCurrent, Held
<1>4. NoOverlapUnlessDropped' /\ BlockKept'
  BY Zenon DEF IInv, NoOverlapUnlessDropped, BlockKept, API
<1> QED
  BY <1>1, <1>2, <1>3, <1>4, Zenon DEF IInv, Running

\* An informer moves on to the next version of a Peer, whose block, if it has one, is the one
\* the lister held.
LEMMA DeliverStep ==
    ASSUME IInv, NEW a \in Cluster, NEW c \in Cluster, Deliver(a, c)
    PROVE  IInv'
<1> DEFINE n == cache[a][c].at + 1
<1>1. n \in Nat /\ n \in DOMAIN log[c] /\ log[c][n] \in Object
  <2>1. cache[a][c].at \in Nat /\ cache[a][c].at < Len(log[c])
    BY Zenon DEF IInv, Shapes, Deliver
  <2> QED
    BY <2>1, LogTypes DEF IInv
<1>2. cache' = [cache EXCEPT ![a][c] = [at |-> n, obj |-> log[c][n]]]
  BY Zenon DEF Deliver
<1>3. UNCHANGED <<log, up, key, writing, dropped>>
  BY Zenon DEF Deliver
<1> HIDE DEF n
<1>4. cache' \in [Cluster -> [Cluster -> [at : Nat, obj : Object]]]
  <2>1. [at |-> n, obj |-> log[c][n]] \in [at : Nat, obj : Object]
    BY <1>1, Zenon
  <2> QED
    BY <1>2, <2>1, Zenon DEF IInv, Shapes
<1>5. CASE a # Hub
  <2>1. cache'[Hub] = cache[Hub]
    BY <1>2, <1>5, Clusters, Zenon DEF IInv, Shapes
  <2> QED
    BY <1>3, <1>4, <2>1, OtherLister, Zenon
<1>6. CASE a = Hub
  <2>1. /\ Running(Hub) /\ c \in Child /\ n = Held(c).at + 1 /\ Held(c).at \in Nat
        /\ Held(c)' = [at |-> n, obj |-> log[c][n]]
        /\ \A d \in Cluster \ {c} : Held(d)' = Held(d)
    BY <1>2, <1>6 DEF IInv, Shapes, Deliver, Read, Wanted, Held, n, Cluster
  <2>2. Shapes' /\ Keyed' /\ BlockKept' /\ NoOverlapUnlessDropped'
    BY <1>3, <1>4, Zenon DEF IInv, Shapes, Keyed, BlockKept, NoOverlapUnlessDropped, API
  <2>3. Fitted'
    BY <1>1, <1>3, <2>1, Clusters DEF IInv, Fitted
  <2>4. \A d \in Child : WriteMeant(d)'
    BY <1>3, Zenon DEF IInv, WriteMeant
  <2>5. \A d \in Child : Listed(d)'
    <3>1. ASSUME NEW d \in Child, d # c PROVE Listed(d)'
      BY <1>3, <2>1, <3>1, Zenon DEF IInv, Listed, Cluster
    <3>2. /\ n <= Len(log[c]) /\ n # 0 /\ log[c][n].key = 0 => log[c][n] = Absent
      BY <1>1, <2>1, LogTypes, Zenon DEF IInv, Keyed
    <3>3. Listed(c)'
      BY <1>1, <1>3, <2>1, <3>2 DEF Listed
    <3> QED
      BY <3>1, <3>3, Zenon
  <2>6. ASSUME ~dropped' PROVE Disjoint' /\ \A d \in Allotted : Behind(d)' /\ WriteCurrent(d)'
    <3>1. Disjoint /\ \A d \in Allotted : Behind(d) /\ WriteCurrent(d)
      BY <1>3, <2>1, <2>6, Zenon DEF IInv
    <3>2. c \in Allotted /\ log[c][n].cidr # NoCIDR => log[c][n].cidr = Held(c).obj.cidr
      BY <1>1, <2>1, <3>1 DEF Behind
    <3>3. Disjoint'
      <4> SUFFICES ASSUME NEW d \in Allotted, NEW e \in Allotted, d # e,
                          Held(d)'.obj.cidr # NoCIDR, Held(e)'.obj.cidr # NoCIDR
                   PROVE  ~isOverlappingCIDR(Held(d)'.obj.cidr, Held(e)'.obj.cidr)
        BY Zenon DEF Disjoint
      <4>1. \A f \in Allotted : Held(f)'.obj.cidr # NoCIDR => Held(f)'.obj.cidr = Held(f).obj.cidr
        BY <2>1, <3>2, Clusters
      <4> QED
        BY <3>1, <4>1, Zenon DEF Disjoint
    <3>4. ASSUME NEW d \in Allotted PROVE Behind(d)' /\ WriteCurrent(d)'
      <4>1. CASE d # c
        BY <1>3, <2>1, <3>1, <4>1, Clusters DEF Behind, WriteCurrent
      <4>2. CASE d = c
        <5>1. Behind(c)'
          <6> SUFFICES ASSUME NEW i \in DOMAIN log[c], i > n, log[c][i].cidr # NoCIDR
                       PROVE  /\ log[c][i].cidr = log[c][n].cidr
                              /\ \A j \in DOMAIN log[c] : n < j /\ j < i => log[c][j].cidr = log[c][i].cidr
            BY <1>3, <2>1 DEF Behind
          <6>1. i \in Nat /\ i > Held(c).at
            BY <1>1, <2>1, LogTypes DEF IInv
          <6>2. \A j \in DOMAIN log[c] : Held(c).at < j /\ j < i => log[c][j].cidr = log[c][i].cidr
            BY <3>1, <4>2, <6>1, Zenon DEF Behind
          <6>3. \A j \in DOMAIN log[c] : n < j => Held(c).at < j
            BY <2>1, LogTypes DEF IInv
          <6> QED
            BY <1>1, <2>1, <6>1, <6>2, <6>3
        <5>2. WriteCurrent(c)'
          <6>1. writing[c] # Nothing => writing[c].at \in Nat /\ writing[c].at < n
            <7>1. writing[c].at \in Nat
              BY <1>1, <2>1, Zenon DEF IInv, Shapes, Cluster
            <7>2. writing[c] # Nothing => writing[c].at <= Held(c).at
              BY <3>1, <4>2, Zenon DEF WriteCurrent
            <7> QED
              BY <2>1, <7>1, <7>2
          <6> QED
            BY <1>1, <1>3, <2>1, <6>1 DEF WriteCurrent
        <5> QED
          BY <4>2, <5>1, <5>2, Zenon
      <4> QED
        BY <4>1, <4>2, Zenon
    <3> QED
      BY <3>3, <3>4, Zenon
  <2>7. up'[Hub] \in Starting => \A d \in Cluster : writing'[d] = Nothing
    BY <1>3, Zenon DEF IInv
  <2> QED
    BY <2>2, <2>3, <2>4, <2>5, <2>6, <2>7, Zenon DEF IInv
<1> QED
  BY <1>5, <1>6, Zenon

\* The hub's informer lists again: it holds what is stored, and dropped tells whether that
\* took a block out of the lister.
LEMMA RelistStep ==
    ASSUME IInv, Relist
    PROVE  IInv'
<1>1. /\ Running(Hub) /\ UNCHANGED <<log, up, key, writing>>
      /\ \A c \in Child : Held(c)' = [at |-> Len(log[c]), obj |-> API(c)]
  BY Clusters, Zenon DEF IInv, Shapes, Relist, Held, Cluster
<1>2. /\ ~dropped' => ~dropped
      /\ ~dropped' => \A c \in Child : Held(c).at = Len(log[c]) => Held(c).obj = API(c)
      /\ dropped' \in BOOLEAN
  BY Zenon DEF Relist, Held, IInv, Shapes
<1>3. cache' \in [Cluster -> [Cluster -> [at : Nat, obj : Object]]]
  <2>1. Nothing \in [at : Nat, obj : Object]
    BY Zenon DEF Nothing, Absent, Object, CIDRs
  <2>2. \A c \in Cluster : [at |-> Len(log[c]), obj |-> API(c)] \in [at : Nat, obj : Object]
    BY LogTypes, Zenon DEF IInv
  <2>3. cache \in [Cluster -> [Cluster -> [at : Nat, obj : Object]]]
    BY Zenon DEF IInv, Shapes
  <2> QED
    BY <2>1, <2>2, <2>3, Zenon DEF Relist
<1>4. Shapes' /\ Keyed' /\ BlockKept'
  BY <1>1, <1>2, <1>3, Zenon DEF IInv, Shapes, Keyed, BlockKept
<1>5. NoOverlapUnlessDropped'
  BY <1>1, <1>2, Zenon DEF IInv, NoOverlapUnlessDropped, API
<1>6. \A c \in Allotted : API(c).cidr \in HubBlocks \cup {NoCIDR}
  <2> SUFFICES ASSUME NEW c \in Allotted PROVE API(c).cidr \in HubBlocks \cup {NoCIDR}
    BY Zenon
  <2>1. log[c] # << >> => Len(log[c]) \in DOMAIN log[c] /\ API(c) = log[c][Len(log[c])]
    BY Clusters, LogTypes, Zenon DEF IInv
  <2>2. log[c] = << >> => API(c).cidr = NoCIDR
    BY Zenon DEF API, Absent
  <2> QED
    BY <2>1, <2>2, Zenon DEF IInv, Fitted
<1>7. Fitted'
  <2>1. \A c \in Allotted : Held(c)'.obj = API(c)
    BY <1>1, Clusters
  <2> QED
    BY <1>1, <1>6, <2>1, Zenon DEF IInv, Fitted
<1>8. \A c \in Child : WriteMeant(c)'
  BY <1>1, Zenon DEF IInv, WriteMeant
<1>9. \A c \in Child : Listed(c)'
  <2> SUFFICES ASSUME NEW c \in Child PROVE Listed(c)'
    BY Zenon
  <2>1. c \in Cluster /\ Len(log[c]) \in Nat
    BY LogTypes, Zenon DEF Cluster, IInv
  <2>2. CASE log[c] = << >>
    BY <1>1, <2>1, <2>2 DEF Listed, API, Absent
  <2>3. CASE log[c] # << >>
    <3>1. /\ Len(log[c]) \in DOMAIN log[c] /\ API(c) = log[c][Len(log[c])]
          /\ DOMAIN log[c] = 1 .. Len(log[c])
      BY <2>1, <2>3, LogTypes, Zenon DEF IInv
    <3>2. Len(log[c]) # 0 /\ (API(c).key = 0 => API(c) = Absent)
      BY <2>1, <3>1 DEF IInv, Keyed
    <3> QED
      BY <1>1, <2>1, <3>1, <3>2 DEF Listed
  <2> QED
    BY <2>2, <2>3, Zenon
<1>10. ASSUME ~dropped' PROVE Disjoint'
  <2>1. \A c \in Allotted : Held(c)'.obj = API(c)
    BY <1>1, Clusters
  <2> QED
    BY <1>2, <1>10, <2>1 DEF IInv, NoOverlapUnlessDropped, Disjoint
<1>11. ASSUME ~dropped', NEW c \in Allotted PROVE Behind(c)' /\ WriteCurrent(c)'
  <2>1. /\ c \in Child /\ Len(log[c]) \in Nat /\ DOMAIN log[c] = 1 .. Len(log[c])
        /\ Held(c).at \in Nat /\ Held(c).at <= Len(log[c]) /\ writing[c].at \in Nat
        /\ WriteCurrent(c)
    BY <1>1, <1>2, <1>11, Clusters, LogTypes, Zenon DEF IInv, Listed, Held, Shapes
  <2>2. Held(c)' = [at |-> Len(log[c]), obj |-> API(c)]
    BY <1>1, <2>1, Zenon
  <2>3. Held(c).at = Len(log[c]) => Held(c).obj = API(c)
    BY <1>2, <1>11, <2>1, Zenon
  <2>4. Behind(c)'
    BY <1>1, <2>1, <2>2 DEF Behind
  <2>5. WriteCurrent(c)'
    BY <1>1, <2>1, <2>2, <2>3 DEF WriteCurrent
  <2> QED
    BY <2>4, <2>5, Zenon
<1>12. up'[Hub] \in Starting => \A d \in Cluster : writing'[d] = Nothing
  BY <1>1, Zenon DEF IInv
<1> QED
  BY <1>4, <1>5, <1>7, <1>8, <1>9, <1>10, <1>11, <1>12, Zenon DEF IInv

(* The handler: it puts the block into the object of the lister and keeps it for the Update. *)
LEMMA PreparedStep ==
    ASSUME IInv, NEW a \in Cluster, NEW c \in Cluster, Read(a, c),
           NEW peer, peer = Allocated(a, c), Prepare(a, c, peer),
           \/ writing' = writing
           \/ /\ peer # cache[a][c].obj
              /\ writing' = [writing EXCEPT ![c] = [at |-> cache[a][c].at, obj |-> peer]]
    PROVE  IInv'
<1>1. /\ Running(a) /\ cache[a][c].obj # Absent /\ peer.cidr # NoCIDR
      /\ a = Hub => writing[c] = Nothing
      /\ cache' = [cache EXCEPT ![a][c].obj = peer]
      /\ UNCHANGED <<log, up, key, dropped>>
  BY Zenon DEF Prepare, Handling
<1>2. cache \in [Cluster -> [Cluster -> [at : Nat, obj : Object]]]
  BY Zenon DEF IInv, Shapes
<1>3. cache[a][c] \in [at : Nat, obj : Object]
  BY <1>2, Zenon
<1>4. CASE peer = cache[a][c].obj
  <2>1. [cache[a][c] EXCEPT !.obj = peer] = cache[a][c]
    BY <1>3, <1>4, Zenon
  <2>2. cache' = cache
    BY <1>1, <1>2, <2>1
  <2>3. writing' = writing
    BY <1>4, Zenon
  <2> QED
    BY <1>1, <1>2, <2>2, <2>3, OtherLister, Zenon
<1>5. CASE peer # cache[a][c].obj
  <2>1. /\ a = Hub /\ Held(c).obj.cidr = NoCIDR
        /\ peer = [key |-> Held(c).obj.key, cidr |-> peer.cidr]
        /\ Bits # 0 /\ peer.cidr \in HubBlocks /\ ~Taken(peer.cidr, existingCIDR)
    BY <1>1, <1>5, AllocatedPeer DEF IInv, Held
  <2>2. c \in Child /\ Running(Hub) /\ Listed(c) /\ writing[c] = Nothing
    BY <1>1, <2>1, Zenon DEF IInv, Read, Wanted, Cluster
  <2>3. /\ peer \in Object /\ peer.key = Held(c).obj.key /\ Held(c).at \in Nat
        /\ Held(c).obj # Absent /\ Held(c).obj.key # 0 /\ Held(c).at # 0
    <3>1. Held(c).obj.key \in Nat /\ peer.cidr \in CIDRs /\ Held(c).at \in Nat
      BY <1>3, <2>1, Zenon DEF Held, Object, CIDRs
    <3>2. peer \in Object /\ peer.key = Held(c).obj.key
      BY <2>1, <3>1 DEF Object
    <3> QED
      BY <1>1, <2>1, <2>2, <3>1, <3>2, Zenon DEF Listed, Held
  <2>4. /\ Held(c)' = [at |-> Held(c).at, obj |-> peer]
        /\ \A d \in Cluster \ {c} : Held(d)' = Held(d)
        /\ cache' \in [Cluster -> [Cluster -> [at : Nat, obj : Object]]]
    <3>1. [cache[a][c] EXCEPT !.obj = peer] = [at |-> Held(c).at, obj |-> peer]
      BY <1>3, <2>1 DEF Held
    <3>2. [at |-> Held(c).at, obj |-> peer] \in [at : Nat, obj : Object]
      BY <2>3, Zenon
    <3>3. cache' = [cache EXCEPT ![a][c] = [at |-> Held(c).at, obj |-> peer]]
      BY <1>1, <1>2, <3>1, Zenon
    <3> QED
      BY <1>2, <2>1, <3>2, <3>3, Zenon DEF Held
  <2>5. /\ writing' \in [Cluster -> [at : Nat, obj : Object]]
        /\ \A d \in Cluster \ {c} : writing'[d] = writing[d]
        /\ writing'[c] = Nothing \/ writing'[c] = [at |-> Held(c).at, obj |-> peer]
    <3>1. [at |-> cache[a][c].at, obj |-> peer] = [at |-> Held(c).at, obj |-> peer]
      BY <2>1, Zenon DEF Held
    <3>2. writing \in [Cluster -> [at : Nat, obj : Object]]
      BY Zenon DEF IInv, Shapes
    <3>3. [at |-> Held(c).at, obj |-> peer] \in [at : Nat, obj : Object]
      BY <2>3, Zenon
    <3> QED
      BY <2>2, <3>1, <3>2, <3>3, Zenon
  <2>6. Shapes' /\ Keyed' /\ BlockKept' /\ NoOverlapUnlessDropped'
    <3>1. Shapes'
      BY <1>1, <2>4, <2>5, Zenon DEF IInv, Shapes
    <3>2. Keyed'
      BY <1>1, Zenon DEF IInv, Keyed
    <3>3. BlockKept' /\ NoOverlapUnlessDropped'
      BY <1>1, Zenon DEF IInv, BlockKept, NoOverlapUnlessDropped, API
    <3> QED
      BY <3>1, <3>2, <3>3, Zenon
  <2>7. Fitted'
    <3> SUFFICES ASSUME NEW d \in Allotted
                 PROVE  /\ Held(d)'.obj.cidr \in HubBlocks \cup {NoCIDR}
                        /\ writing'[d].obj.cidr \in HubBlocks \cup {NoCIDR}
      BY <1>1, Zenon DEF IInv, Fitted
    <3>1. CASE d # c
      BY <2>4, <2>5, <3>1, Clusters, Zenon DEF IInv, Fitted
    <3>2. CASE d = c
      BY <2>1, <2>4, <2>5, <3>2 DEF Nothing, Absent
    <3> QED
      BY <3>1, <3>2, Zenon
  <2>8. \A d \in Child : WriteMeant(d)'
    <3>1. ASSUME NEW d \in Child, d # c PROVE WriteMeant(d)'
      BY <1>1, <2>5, <3>1, Zenon DEF IInv, WriteMeant, Cluster
    <3>2. /\ Held(c).at \in DOMAIN log[c] /\ Held(c).obj.key = log[c][Held(c).at].key
          /\ log[c][Held(c).at].cidr = NoCIDR
      <4>1. Len(log[c]) \in Nat /\ DOMAIN log[c] = 1 .. Len(log[c])
        BY <2>2, LogTypes, Zenon DEF IInv, Cluster
      <4>2. Held(c).at <= Len(log[c]) /\ Held(c).at # 0 /\ Held(c).at \in Nat
        BY <2>2, <2>3, Zenon DEF Listed
      <4>3. Held(c).at \in DOMAIN log[c]
        BY <4>1, <4>2
      <4>4. /\ Held(c).obj.key = log[c][Held(c).at].key
            /\ log[c][Held(c).at].cidr = NoCIDR
        BY <2>1, <2>2, <2>3, Zenon DEF Listed
      <4> QED
        BY <4>3, <4>4, Zenon
    <3>3. WriteMeant(c)'
      BY <1>1, <2>3, <2>5, <3>2 DEF WriteMeant
    <3> QED
      BY <3>1, <3>3, Zenon
  <2>9. \A d \in Child : Listed(d)'
    <3>1. ASSUME NEW d \in Child, d # c PROVE Listed(d)'
      BY <1>1, <2>2, <2>4, <3>1 DEF IInv, Listed, Cluster
    <3>2. Listed(c)'
      BY <1>1, <2>1, <2>2, <2>3, <2>4 DEF Listed
    <3> QED
      BY <3>1, <3>2, Zenon
  <2>10. ASSUME ~dropped' PROVE Disjoint' /\ \A d \in Allotted : Behind(d)' /\ WriteCurrent(d)'
    <3>1. Disjoint /\ \A d \in Allotted : Behind(d) /\ WriteCurrent(d)
      BY <1>1, <2>2, <2>10, Zenon DEF IInv
    <3>2. \A d \in Allotted : d # c => Held(d)' = Held(d)
      BY <2>4, Clusters, Zenon
    <3>3. \A d \in Allotted : Held(d).obj.cidr # NoCIDR =>
             /\ ~isOverlappingCIDR(Held(d).obj.cidr, peer.cidr)
             /\ ~isOverlappingCIDR(peer.cidr, Held(d).obj.cidr)
      BY <2>1, FreeOfHeld, Zenon DEF IInv
    <3>4. Disjoint'
      <4> SUFFICES ASSUME NEW d \in Allotted, NEW e \in Allotted, d # e,
                          Held(d)'.obj.cidr # NoCIDR, Held(e)'.obj.cidr # NoCIDR
                   PROVE  ~isOverlappingCIDR(Held(d)'.obj.cidr, Held(e)'.obj.cidr)
        BY Zenon DEF Disjoint
      <4>1. Held(c)'.obj.cidr = peer.cidr
        BY <2>4
      <4>2. CASE d # c /\ e # c
        BY <3>1, <3>2, <4>2, Zenon DEF Disjoint
      <4>3. CASE d = c
        BY <3>2, <3>3, <4>1, <4>3, Zenon
      <4>4. CASE e = c
        BY <3>2, <3>3, <4>1, <4>4, Zenon
      <4> QED
        BY <4>2, <4>3, <4>4, Zenon
    <3>5. ASSUME NEW d \in Allotted PROVE Behind(d)' /\ WriteCurrent(d)'
      <4>1. CASE d # c
        BY <1>1, <2>5, <3>1, <3>2, <4>1, Clusters DEF Behind, WriteCurrent
      <4>2. CASE d = c
        <5>1. \A i \in DOMAIN log[c] : i > Held(c).at => log[c][i].cidr = NoCIDR
          BY <2>1, <3>1, <4>2, Zenon DEF Behind
        <5>2. Behind(c)'
          BY <1>1, <2>4, <5>1 DEF Behind
        <5>3. WriteCurrent(c)'
          BY <2>3, <2>4, <2>5 DEF WriteCurrent
        <5> QED
          BY <4>2, <5>2, <5>3, Zenon
      <4> QED
        BY <4>1, <4>2, Zenon
    <3> QED
      BY <3>4, <3>5, Zenon
  <2>11. up'[Hub] \notin Starting
    BY <1>1, <2>2, Zenon DEF Running, Starting
  <2> QED
    BY <2>6, <2>7, <2>8, <2>9, <2>10, <2>11, Zenon DEF IInv
<1> QED
  BY <1>4, <1>5, Zenon

(* An Update that conflicts or fails: nothing is stored. *)
LEMMA NotWrittenStep ==
    ASSUME IInv, NEW c \in Child, Running(Hub), Written(c), log' = log
    PROVE  IInv'
<1>1. /\ UNCHANGED <<log, up, key, cache, dropped>>
      /\ \A d \in Cluster : writing'[d] = writing[d] \/ writing'[d] = Nothing
      /\ writing' \in [Cluster -> [at : Nat, obj : Object]]
  <2>1. Nothing \in [at : Nat, obj : Object]
    BY Zenon DEF Nothing, Absent, Object, CIDRs
  <2> QED
    BY <2>1, Zenon DEF IInv, Shapes, Written
<1>2. Shapes' /\ Keyed' /\ BlockKept' /\ NoOverlapUnlessDropped'
  <2>1. Shapes'
    BY <1>1, Zenon DEF IInv, Shapes
  <2>2. Keyed'
    BY <1>1, Zenon DEF IInv, Keyed
  <2>3. BlockKept'
    BY <1>1 DEF IInv, BlockKept
  <2>4. \A d \in Cluster : API(d)' = API(d)
    BY <1>1, Zenon DEF API
  <2>5. NoOverlapUnlessDropped'
    BY <1>1, <2>4, Clusters, Zenon DEF IInv, NoOverlapUnlessDropped
  <2> QED
    BY <2>1, <2>2, <2>3, <2>5, Zenon
<1>3. Fitted'
  <2> SUFFICES ASSUME NEW d \in Allotted
               PROVE  writing'[d].obj.cidr \in HubBlocks \cup {NoCIDR}
    BY <1>1, Zenon DEF IInv, Fitted, Held
  <2>1. CASE writing'[d] = writing[d]
    BY <2>1, Zenon DEF IInv, Fitted
  <2>2. CASE writing'[d] = Nothing
    BY <2>2 DEF Nothing, Absent
  <2> QED
    BY <1>1, <2>1, <2>2, Clusters, Zenon
<1>4. \A d \in Child : WriteMeant(d)' /\ Listed(d)'
  BY <1>1 DEF IInv, WriteMeant, Listed, Held, Cluster
<1>5. ASSUME ~dropped' PROVE Disjoint' /\ \A d \in Allotted : Behind(d)' /\ WriteCurrent(d)'
  <2>1. Disjoint /\ \A d \in Allotted : Behind(d) /\ WriteCurrent(d)
    BY <1>1, <1>5, Zenon DEF IInv
  <2>2. Disjoint' /\ \A d \in Allotted : Behind(d)'
    <3>1. log' = log /\ cache' = cache
      BY <1>1, Zenon
    <3>2. Disjoint'
      BY <2>1, <3>1, Zenon DEF Disjoint, Held
    <3>3. ASSUME NEW d \in Allotted PROVE Behind(d)'
      BY <2>1, <3>1 DEF Behind, Held
    <3> QED
      BY <3>2, <3>3, Zenon
  <2>3. \A d \in Allotted : WriteCurrent(d)'
    BY <1>1, <2>1, Clusters, Zenon DEF WriteCurrent, Held
  <2> QED
    BY <2>2, <2>3, Zenon
<1>6. up'[Hub] \notin Starting
  BY <1>1, Zenon DEF Running, Starting
<1> QED
  BY <1>2, <1>3, <1>4, <1>5, <1>6, Zenon DEF IInv

(* What is said of a cluster's versions and its pending Update stays true with them. *)
LEMMA SameBehind ==
    ASSUME NEW d, log'[d] = log[d], Held(d)' = Held(d), writing'[d] = writing[d],
           Behind(d), WriteCurrent(d)
    PROVE  Behind(d)' /\ WriteCurrent(d)'
BY DEF Behind, WriteCurrent

(* The Update that stores a block: the lister had this version, and has the block. *)
LEMMA WrittenStep ==
    ASSUME IInv, NEW c \in Child, Running(Hub), Written(c), writing[c].at = Len(log[c]),
           log' = [log EXCEPT ![c] = Append(@, writing[c].obj)]
    PROVE  IInv'
<1> DEFINE v == writing[c].obj
           n == Len(log[c])
<1>1. c \in Cluster /\ v \in Object /\ v.cidr \in CIDRs
  BY Zenon DEF Cluster, IInv, Shapes, Object
<1>2. /\ log' \in [Cluster -> Seq(Object)]
      /\ \A d \in Cluster \ {c} : log'[d] = log[d] /\ API(d)' = API(d)
      /\ n \in Nat /\ Len(log'[c]) = n + 1 /\ API(c)' = v
      /\ DOMAIN log[c] = 1 .. n /\ DOMAIN log'[c] = 1 .. n + 1
      /\ \A i \in DOMAIN log[c] : log'[c][i] = log[c][i]
      /\ log'[c][n + 1] = v
  BY <1>1, AppendedVersion, Zenon DEF IInv
<1>3. /\ UNCHANGED <<up, key, cache, dropped>> /\ writing'[c] = Nothing
      /\ \A d \in Cluster \ {c} : writing'[d] = writing[d]
      /\ writing' \in [Cluster -> [at : Nat, obj : Object]]
  <2>1. Nothing \in [at : Nat, obj : Object]
    BY Zenon DEF Nothing, Absent, Object, CIDRs
  <2> QED
    BY <1>1, <2>1, Zenon DEF IInv, Shapes, Written
<1>4. /\ n \in DOMAIN log[c] /\ API(c) = log[c][n] /\ v.key = log[c][n].key /\ v.key # 0
      /\ log[c][n].cidr = NoCIDR
  <2>1. WriteMeant(c) /\ writing[c] # Nothing
    BY Zenon DEF IInv, Written
  <2>2. n \in DOMAIN log[c]
    BY <2>1, Zenon DEF WriteMeant
  <2>3. log[c] # << >>
    BY <1>2, <2>2
  <2> QED
    BY <2>1, <2>2, <2>3, Zenon DEF WriteMeant, API
<1>5. Shapes'
  BY <1>2, <1>3, Zenon DEF IInv, Shapes
<1>6. Keyed' /\ BlockKept'
  <2>1. /\ v.key <= key[c] /\ (up'[c] \in Starting => v.key < key[c])
        /\ v.key = 0 => v = Absent
        /\ c \in Child /\ API(c).cidr # NoCIDR => v.key # API(c).key
    BY <1>1, <1>3, <1>4, Zenon DEF IInv, Keyed
  <2>2. /\ key' = key /\ up' \in [Cluster -> Status]
        /\ \A d \in Cluster : up'[d] \in Starting => up[d] \in Starting
        /\ log' = [log EXCEPT ![c] = Append(@, v)]
    BY <1>3, Zenon DEF IInv, Shapes
  <2> HIDE DEF v
  <2> QED
    BY <1>1, <2>1, <2>2, AppendKeeps, Zenon
<1>7. c \in Allotted => v.cidr \in HubBlocks \cup {NoCIDR}
  BY Zenon DEF IInv, Fitted
<1>8. Fitted'
  <2> SUFFICES ASSUME NEW d \in Allotted
               PROVE  /\ \A i \in DOMAIN log'[d] : log'[d][i].cidr \in HubBlocks \cup {NoCIDR}
                      /\ writing'[d].obj.cidr \in HubBlocks \cup {NoCIDR}
    BY <1>3, Zenon DEF IInv, Fitted, Held
  <2>1. CASE d # c
    BY <1>2, <1>3, <2>1, Clusters, Zenon DEF IInv, Fitted
  <2>2. CASE d = c
    <3>1. \A i \in DOMAIN log'[c] : i \in DOMAIN log[c] \/ i = n + 1
      BY <1>2
    <3>2. writing'[c].obj.cidr = NoCIDR
      BY <1>3 DEF Nothing, Absent
    <3>3. \A i \in DOMAIN log[c] : log[c][i].cidr \in HubBlocks \cup {NoCIDR}
      BY <2>2, Zenon DEF IInv, Fitted
    <3> HIDE DEF v, n
    <3> QED
      BY <1>2, <1>7, <2>2, <3>1, <3>2, <3>3
  <2> QED
    BY <2>1, <2>2, Zenon
<1>9. \A d \in Child : WriteMeant(d)'
  BY <1>2, <1>3 DEF IInv, WriteMeant, Cluster
<1>10. \A d \in Child : Listed(d)'
  <2> SUFFICES ASSUME NEW d \in Child PROVE Listed(d)'
    BY Zenon
  <2>1. d \in Cluster /\ Held(d)' = Held(d) /\ Held(d).at \in Nat /\ Listed(d)
    BY <1>3 DEF Held, Cluster, IInv, Shapes
  <2>2. Held(d).at # 0 => log'[d][Held(d).at] = log[d][Held(d).at]
    <3>1. CASE d # c
      BY <1>2, <2>1, <3>1, Zenon
    <3>2. CASE d = c
      <4>1. Held(c).at # 0 => Held(c).at \in DOMAIN log[c]
        BY <1>2, <2>1, <3>2 DEF Listed
      <4> QED
        BY <1>2, <3>2, <4>1, Zenon
    <3> QED
      BY <3>1, <3>2, Zenon
  <2>3. Held(d).at <= Len(log'[d])
    BY <1>2, <2>1 DEF Listed
  <2> QED
    BY <2>1, <2>2, <2>3, Zenon DEF Listed
<1>11. ~dropped /\ c \in Allotted => Held(c).at = n /\ Held(c).obj = v
  <2> SUFFICES ASSUME ~dropped, c \in Allotted PROVE Held(c).at = n /\ Held(c).obj = v
    BY Zenon
  <2>1. WriteCurrent(c) /\ Listed(c) /\ writing[c] # Nothing /\ Held(c).at \in Nat
    BY <1>1, Clusters DEF IInv, Written, Held, Shapes
  <2> QED
    BY <1>2, <2>1 DEF WriteCurrent, Listed
<1>12. ASSUME ~dropped' PROVE Disjoint' /\ \A d \in Allotted : Behind(d)' /\ WriteCurrent(d)'
  <2>1. /\ ~dropped /\ Disjoint /\ \A d \in Allotted : Behind(d) /\ WriteCurrent(d)
        /\ \A d \in Allotted : Held(d)' = Held(d)
    BY <1>3, <1>12, Zenon DEF IInv, Held
  <2>2. ASSUME NEW d \in Allotted PROVE Behind(d)' /\ WriteCurrent(d)'
    <3>1. CASE d # c
      <4>1. log'[d] = log[d] /\ Held(d)' = Held(d) /\ writing'[d] = writing[d]
        BY <1>2, <1>3, <2>1, <3>1, Clusters, Zenon
      <4>2. Behind(d) /\ WriteCurrent(d)
        BY <2>1, Zenon
      <4> QED
        BY <4>1, <4>2, SameBehind, Zenon
    <3>2. CASE d = c
      <4>1. \A i \in DOMAIN log'[c] : i > Held(c).at => i = n + 1
        BY <1>2, <1>11, <2>1, <3>2
      <4>2. log'[c][n + 1].cidr = Held(c).obj.cidr
        BY <1>2, <1>11, <2>1, <3>2, Zenon
      <4>3. \A j \in DOMAIN log'[c] : ~(Held(c).at < j /\ j < n + 1)
        BY <1>2, <4>1
      <4>4. Behind(c)'
        BY <2>1, <3>2, <4>1, <4>2, <4>3, Zenon DEF Behind
      <4> QED
        BY <1>3, <3>2, <4>4, Zenon DEF WriteCurrent
    <3> QED
      BY <3>1, <3>2, Zenon
  <2> QED
    BY <2>1, <2>2, Zenon DEF Disjoint
<1>13. NoOverlapUnlessDropped'
  <2> SUFFICES ASSUME ~dropped, NEW d \in Allotted, NEW e \in Allotted, d # e,
                      API(d)'.cidr # NoCIDR, API(e)'.cidr # NoCIDR
               PROVE  ~isOverlappingCIDR(API(d)'.cidr, API(e)'.cidr)
    BY <1>3, Zenon DEF NoOverlapUnlessDropped
  <2>1. ASSUME NEW f \in Allotted, API(f)'.cidr # NoCIDR PROVE API(f)'.cidr = Held(f).obj.cidr
    <3>1. CASE f = c
      BY <1>2, <1>11, <3>1, Zenon
    <3>2. CASE f # c
      BY <1>2, <2>1, <3>2, Clusters, StoredIsHeld, Zenon
    <3> QED
      BY <3>1, <3>2, Zenon
  <2>2. API(d)'.cidr = Held(d).obj.cidr /\ API(e)'.cidr = Held(e).obj.cidr
    BY <2>1, Zenon
  <2>3. Disjoint
    BY Zenon DEF IInv
  <2> QED
    BY <2>2, <2>3, Zenon DEF Disjoint
<1>14. up'[Hub] \notin Starting
  BY <1>3, Zenon DEF Running, Starting
<1> QED
  BY <1>5, <1>6, <1>8, <1>9, <1>10, <1>12, <1>13, <1>14, Zenon DEF IInv

\* A Peer is deleted: the version that follows has no block and no key.
LEMMA LeaveStep ==
    ASSUME IInv, NEW c \in Child, Leave(c)
    PROVE  IInv'
<1>1. /\ c \in Cluster /\ c # Hub /\ Absent \in Object
      /\ log' = [log EXCEPT ![c] = Append(@, Absent)] /\ API(c) # Absent
      /\ UNCHANGED <<key, cache, writing, dropped>>
  BY NetworkAssumption, Zenon DEF Leave, Cluster, Absent, Object, CIDRs, agentVars
<1>2. /\ log' \in [Cluster -> Seq(Object)]
      /\ \A d \in Cluster \ {c} : log'[d] = log[d] /\ API(d)' = API(d)
      /\ Len(log[c]) \in Nat /\ Len(log'[c]) = Len(log[c]) + 1 /\ API(c)' = Absent
      /\ DOMAIN log[c] = 1 .. Len(log[c]) /\ DOMAIN log'[c] = 1 .. Len(log[c]) + 1
      /\ \A i \in DOMAIN log[c] : log'[c][i] = log[c][i]
      /\ log'[c][Len(log[c]) + 1] = Absent
  BY <1>1, AppendedVersion, Zenon DEF IInv
<1>3. /\ up' \in [Cluster -> Status] /\ up'[c] = "left"
      /\ \A d \in Cluster \ {c} : up'[d] = up[d]
  BY <1>1, Zenon DEF IInv, Shapes, Leave, Status
<1>4. /\ (up'[Hub] \in Starting => up[Hub] \in Starting) /\ (Running(Hub)' => Running(Hub))
      /\ up'[c] \notin Starting
      /\ \A d \in Cluster : up'[d] \in Starting => up[d] \in Starting
  BY <1>1, <1>3, Clusters, Zenon DEF Running, Starting
<1>5. Shapes'
  BY <1>1, <1>2, <1>3, Zenon DEF IInv, Shapes
<1>6. Keyed' /\ BlockKept'
  <2>1. API(c).key # 0
    <3>1. Len(log[c]) \in DOMAIN log[c] /\ API(c) = log[c][Len(log[c])]
      BY <1>1, LogTypes, Zenon DEF IInv, API
    <3> QED
      BY <1>1, <3>1, Zenon DEF IInv, Keyed
  <2>2. Absent.key <= key[c] /\ Absent.key # API(c).key
    BY <1>1, <2>1 DEF Absent, IInv, Shapes
  <2> QED
    BY <1>1, <1>3, <1>4, <2>2, AppendKeeps, Zenon
<1>7. Fitted'
  <2> SUFFICES ASSUME NEW d \in Allotted, NEW i \in DOMAIN log'[d]
               PROVE  log'[d][i].cidr \in HubBlocks \cup {NoCIDR}
    BY <1>1, Zenon DEF IInv, Fitted, Held
  <2>1. CASE d # c
    BY <1>2, <2>1, Clusters, Zenon DEF IInv, Fitted
  <2>2. CASE d = c
    <3>1. i \in DOMAIN log[c] \/ i = Len(log[c]) + 1
      BY <1>2, <2>2
    <3> QED
      BY <1>2, <2>2, <3>1 DEF IInv, Fitted, Absent
  <2> QED
    BY <2>1, <2>2, Zenon
<1>8. \A d \in Child : WriteMeant(d)'
  BY <1>1, <1>2 DEF IInv, WriteMeant, Cluster
<1>9. Running(Hub)' => \A d \in Child : Listed(d)'
  <2> SUFFICES ASSUME Running(Hub)', NEW d \in Child PROVE Listed(d)'
    BY Zenon
  <2>1. d \in Cluster /\ Held(d)' = Held(d) /\ Held(d).at \in Nat /\ Listed(d)
    BY <1>1, <1>4, Zenon DEF Held, Cluster, IInv, Shapes
  <2>2. Held(d).at # 0 => log'[d][Held(d).at] = log[d][Held(d).at]
    <3>1. CASE d # c
      BY <1>2, <2>1, <3>1, Zenon
    <3>2. CASE d = c
      <4>1. Held(c).at # 0 => Held(c).at \in DOMAIN log[c]
        BY <1>2, <2>1, <3>2 DEF Listed
      <4> QED
        BY <1>2, <3>2, <4>1, Zenon
    <3> QED
      BY <3>1, <3>2, Zenon
  <2>3. Held(d).at <= Len(log'[d])
    BY <1>2, <2>1 DEF Listed
  <2> QED
    BY <2>1, <2>2, <2>3, Zenon DEF Listed
<1>10. ASSUME Running(Hub)', ~dropped'
       PROVE  Disjoint' /\ \A d \in Allotted : Behind(d)' /\ WriteCurrent(d)'
  <2>1. /\ Disjoint /\ \A d \in Allotted : Behind(d) /\ WriteCurrent(d)
        /\ \A d \in Allotted : Held(d)' = Held(d) /\ writing'[d] = writing[d]
    BY <1>1, <1>4, <1>10, Zenon DEF IInv, Held
  <2>2. ASSUME NEW d \in Allotted PROVE Behind(d)' /\ WriteCurrent(d)'
    <3>1. CASE d # c
      <4>1. log'[d] = log[d]
        BY <1>2, <3>1, Clusters, Zenon
      <4> QED
        BY <2>1, <4>1 DEF Behind, WriteCurrent
    <3>2. CASE d = c
      <4>1. \A i \in DOMAIN log'[c] : log'[c][i].cidr # NoCIDR =>
               i \in DOMAIN log[c] /\ \A j \in DOMAIN log'[c] : j < i => j \in DOMAIN log[c]
        BY <1>2 DEF Absent
      <4>2. \A i \in DOMAIN log[c] : log'[c][i] = log[c][i]
        BY <1>2, Zenon
      <4> QED
        BY <2>1, <3>2, <4>1, <4>2 DEF Behind, WriteCurrent
    <3> QED
      BY <3>1, <3>2, Zenon
  <2> QED
    BY <2>1, <2>2, Zenon DEF Disjoint
<1>11. NoOverlapUnlessDropped'
  BY <1>1, <1>2, Clusters DEF IInv, NoOverlapUnlessDropped, Absent
<1>12. up'[Hub] \in Starting => \A d \in Cluster : writing'[d] = Nothing
  BY <1>1, <1>4, Zenon DEF IInv
<1> QED
  BY <1>5, <1>6, <1>7, <1>8, <1>9, <1>10, <1>11, <1>12, Zenon DEF IInv

(* Every step of the agents and every disturbance preserves the invariant. *)
LEMMA NextIInv ==
    ASSUME IInv, [Next]_vars
    PROVE  IInv'
<1>1. ASSUME NEW a \in Cluster, Register(a) PROVE IInv'
  <2>1. CASE NewTunnel(a)
    BY <2>1, NewTunnelStep, Zenon
  <2>2. CASE CreatePeer(a) \/ UpdatePeer(a)
    BY <2>2, PublishedStep, Zenon DEF CreatePeer, UpdatePeer, Starting
  <2>3. CASE GetPeer(a)
    <3>1. /\ UNCHANGED <<log, key, cache, writing, dropped>> /\ up' \in [Cluster -> Status]
          /\ \A c \in Cluster : up'[c] \in Starting => up[c] \in Starting
          /\ Running(Hub)' => Running(Hub)
      BY <2>3, Clusters, Zenon DEF GetPeer, agentVars, IInv, Shapes, Status, Starting, Running
    <3> QED
      BY <3>1, SteadyStep, Zenon
  <2>4. CASE PeerConflicts(a)
    <3>1. /\ UNCHANGED <<log, key, cache, writing, dropped>> /\ up' \in [Cluster -> Status]
          /\ \A c \in Cluster : up'[c] \in Starting => up[c] \in Starting
          /\ Running(Hub)' => Running(Hub)
      BY <2>4, Clusters, Zenon DEF PeerConflicts, Refused, agentVars, IInv, Shapes, Status, Starting, Running
    <3> QED
      BY <3>1, SteadyStep, Zenon
  <2> QED
    BY <1>1, <2>1, <2>2, <2>3, <2>4, Zenon DEF Register
<1>2. ASSUME NEW a \in Cluster, NEW c \in Cluster, Read(a, c), Work(a, c) PROVE IInv'
  <2>1. CASE Deliver(a, c)
    BY <2>1, DeliverStep, Zenon
  <2>2. CASE Handle(a, c)
    <3> DEFINE peer == Allocated(a, c)
    <3>1. /\ Prepare(a, c, peer)
          /\ \/ writing' = writing
             \/ /\ peer # cache[a][c].obj
                /\ writing' = [writing EXCEPT ![c] = [at |-> cache[a][c].at, obj |-> peer]]
      BY <2>2, Zenon DEF Handle
    <3> QED
      BY <1>2, <3>1, PreparedStep, Zenon
  <2>3. CASE HandleGone(a, c)
    <3>1. /\ UNCHANGED <<log, key, cache, writing, dropped>> /\ up' \in [Cluster -> Status]
          /\ \A d \in Cluster : up'[d] \in Starting => up[d] \in Starting
          /\ Running(Hub)' => Running(Hub)
      BY <2>3, Clusters, Zenon DEF HandleGone, agentVars, IInv, Shapes, Status, Starting, Running
    <3> QED
      BY <3>1, SteadyStep, Zenon
  <2> QED
    BY <1>2, <2>1, <2>2, <2>3, Zenon DEF Work
<1>3. ASSUME NEW c \in Child, WriteBack(c) PROVE IInv'
  <2>1. CASE writing[c].at = Len(log[c])
    BY <1>3, <2>1, WrittenStep, Zenon DEF WriteBack
  <2>2. CASE writing[c].at # Len(log[c])
    BY <1>3, <2>2, NotWrittenStep, Zenon DEF WriteBack
  <2> QED
    BY <2>1, <2>2, Zenon
<1>4. ASSUME NEW c \in Child, WaitGetCIDRFromHubclient(c) PROVE IInv'
  <2>1. UNCHANGED <<log, up, key, cache, writing, dropped>>
    BY <1>4, Zenon DEF WaitGetCIDRFromHubclient
  <2> QED
    BY <2>1, SteadyStep, Zenon DEF IInv, Shapes, Running
<1>5. CASE Relist
  BY <1>5, RelistStep, Zenon
<1>6. ASSUME NEW a \in Disturbed, PeerFails(a) \/ Crash(a) PROVE IInv'
  <2>1. /\ UNCHANGED <<log, key, cache, writing, dropped>> /\ up' \in [Cluster -> Status]
        /\ \A d \in Cluster : up'[d] \in Starting => up[d] \in Starting
        /\ Running(Hub)' => Running(Hub)
    BY <1>6, Clusters, Zenon DEF PeerFails, Crash, Refused, agentVars, IInv, Shapes, Status, Starting, Running
  <2> QED
    BY <2>1, SteadyStep, Zenon
<1>7. ASSUME NEW a \in Cluster, NEW c \in Cluster, Read(a, c),
             DeviceFails(a, c) \/ RouteFails(a, c)
      PROVE  IInv'
  <2> DEFINE peer == Allocated(a, c)
  <2>1. Prepare(a, c, peer) /\ writing' = writing
    BY <1>7, Zenon DEF DeviceFails, RouteFails
  <2> QED
    BY <1>7, <2>1, PreparedStep, Zenon
<1>8. ASSUME NEW c \in Child, WriteBackFails(c) PROVE IInv'
  BY <1>8, NotWrittenStep, Zenon DEF WriteBackFails
<1>9. ASSUME NEW c \in Child, Leave(c) PROVE IInv'
  BY <1>9, LeaveStep, Zenon
<1>10. CASE UNCHANGED vars
  <2>1. UNCHANGED <<log, up, key, cache, writing, dropped>>
    BY <1>10, Zenon DEF vars, agentVars
  <2> QED
    BY <2>1, SteadyStep, Zenon DEF IInv, Shapes, Running
<1>11. CASE System
  <2>1. ASSUME NEW w \in Watches, Work(w[1], w[2]) PROVE IInv'
    <3>1. w[1] \in Cluster /\ w[2] \in Cluster /\ Read(w[1], w[2])
      BY <2>1, Zenon DEF Watches
    <3> QED
      BY <2>1, <3>1, <1>2, Zenon
  <2> QED
    BY <1>1, <1>3, <1>4, <1>11, <2>1, Zenon DEF System
<1>12. CASE Disturbances
  <2>1. ASSUME NEW w \in Watches, DeviceFails(w[1], w[2]) \/ RouteFails(w[1], w[2]) PROVE IInv'
    <3>1. w[1] \in Cluster /\ w[2] \in Cluster /\ Read(w[1], w[2])
      BY <2>1, Zenon DEF Watches
    <3> QED
      BY <2>1, <3>1, <1>7, Zenon
  <2> QED
    BY <1>5, <1>6, <1>8, <1>9, <1>12, <2>1, Zenon DEF Disturbances
<1> QED
  BY <1>10, <1>11, <1>12, Zenon DEF Next

(* The invariant holds of every behaviour of the agents (intertunnel_controller.go). *)
THEOREM Invariance == Spec => []IInv
<1>1. Init => IInv
  BY InitIInv, Zenon
<1>2. IInv /\ [Next]_vars => IInv'
  BY NextIInv, Zenon
<1> QED
  BY <1>1, <1>2, PTL DEF Spec

(* The blocks the hub has stored for two clusters it allocates for do not overlap,
   whatever lags, restarts, leaves or fails, unless the hub's informer listed again and
   dropped a block before its Update (intertunnel_controller.go, Handle, and
   findAvailableCIDR). *)
THEOREM BlocksDisjoint == Spec => []NoOverlapUnlessDropped
<1>1. IInv => NoOverlapUnlessDropped
  BY Zenon DEF IInv
<1>2. Spec => []IInv
  BY Invariance, Zenon
<1> QED
  BY <1>1, <1>2, PTL

(* A Peer that has a block keeps it for as long as its agent keeps its key: no late
   Update of the hub changes it, and a restarted agent publishes a new key
   (intertunnel_controller.go, Handle, and ApplyPeerWithRetry). *)
THEOREM BlockKeptForKey == Spec => []BlockKept
<1>1. IInv => BlockKept
  BY Zenon DEF IInv
<1>2. Spec => []IInv
  BY Invariance, Zenon
<1> QED
  BY <1>1, <1>2, PTL

(* The hub chooses a block outside its network only when every block of the network is
   taken by a Peer it knows of: only Handle chooses, and findAvailableCIDR returns the
   first free block, counting on past the end of the network. *)
THEOREM OutsideLast == Spec => OutsideOnlyWhenFull
<1> DEFINE Chosen(c) == \/ Inside(writing'[c].obj.cidr, Network)
                        \/ \A b \in BlocksOf(Network, Bits) : Taken(b, existingCIDR)
<1>1. ASSUME IInv, [Next]_vars, NEW c \in Private,
             writing'[c] # writing[c], writing'[c] # Nothing
      PROVE  Chosen(c)
  <2>1. c \in Cluster /\ c # Hub /\ Shapes /\ writing \in [Cluster -> [at : Nat, obj : Object]]
    BY <1>1, NetworkAssumption, Zenon DEF Private, Cluster, IInv, Shapes
  <2>2. ASSUME NEW d \in Cluster, writing' = [writing EXCEPT ![d] = Nothing]
        PROVE  FALSE
    BY <1>1, <2>1, <2>2, Zenon
  <2>3. ASSUME NEW a \in Cluster, NEW d \in Cluster, Handle(a, d)
        PROVE  Chosen(c)
    <3> DEFINE peer == Allocated(a, d)
    <3>1. /\ peer # cache[a][d].obj /\ peer.cidr # NoCIDR
          /\ writing' = [writing EXCEPT ![d] = [at |-> cache[a][d].at, obj |-> peer]]
      BY <1>1, <2>3, Zenon DEF Handle, Prepare
    <3>2. c = d /\ writing'[c].obj = peer
      BY <1>1, <2>1, <3>1, Zenon
    <3> HIDE DEF peer
    <3>3. \/ Inside(peer.cidr, Network)
          \/ \A b \in BlocksOf(Network, Bits) : Taken(b, existingCIDR)
      BY <2>1, <3>1, AllocatedPeer, Zenon DEF peer
    <3> QED
      BY <3>2, <3>3, Zenon
  <2>4. ASSUME NEW a \in Cluster, Register(a) PROVE FALSE
    <3>1. writing' = writing \/ writing' = [d \in Cluster |-> Nothing]
      BY <2>4, Zenon DEF Register, NewTunnel, CreatePeer, GetPeer, UpdatePeer, PeerConflicts,
                         Published, Refused
    <3> QED
      BY <1>1, <2>1, <3>1, Zenon
  <2>5. ASSUME NEW w \in Watches, Work(w[1], w[2]) PROVE Chosen(c)
    <3>1. w[1] \in Cluster /\ w[2] \in Cluster
      BY Zenon DEF Watches
    <3>2. Handle(w[1], w[2]) \/ writing' = writing
      BY <2>5, Zenon DEF Work, Deliver, HandleGone
    <3> QED
      BY <1>1, <2>3, <3>1, <3>2, Zenon
  <2>6. ASSUME NEW d \in Child, WriteBack(d) \/ WaitGetCIDRFromHubclient(d) \/ WriteBackFails(d)
        PROVE  FALSE
    <3>1. d \in Cluster /\ (writing' = writing \/ writing' = [writing EXCEPT ![d] = Nothing])
      BY <2>6, Zenon DEF WriteBack, WaitGetCIDRFromHubclient, WriteBackFails, Written, Cluster
    <3> QED
      BY <1>1, <2>2, <3>1, Zenon
  <2>7. CASE System
    BY <2>4, <2>5, <2>6, <2>7, Zenon DEF System
  <2>8. CASE Disturbances
    <3>1. writing' = writing \/ \E d \in Child : WriteBackFails(d)
      BY <2>8, Zenon DEF Disturbances, Relist, PeerFails, Refused, Crash, DeviceFails,
                         RouteFails, Leave
    <3> QED
      BY <1>1, <2>6, <3>1, Zenon
  <2>9. CASE UNCHANGED vars
    BY <1>1, <2>9, Zenon DEF vars
  <2> QED
    BY <1>1, <2>7, <2>8, <2>9, Zenon DEF Next
<1>2. IInv /\ [Next]_vars =>
        \A c \in Private : writing'[c] # writing[c] /\ writing'[c] # Nothing => Chosen(c)
  BY <1>1, Zenon
<1>3. Spec => []IInv
  BY Invariance, Zenon
<1> QED
  BY <1>2, <1>3, PTL DEF Spec, OutsideOnlyWhenFull

-----------------------------------------------------------------------------
(* The types, and what the devices hold. *)

\* An agent has seen no key that its cluster has yet to make.
Cached ==
    \A a, c \in Cluster :
        /\ cache[a][c].obj.key <= key[c]
        /\ cache[a][c].obj.key = 0 => cache[a][c].obj = Absent

Devices ==
    /\ conn \in [Cluster -> [Cluster -> Nat]]
    /\ dev \in [Cluster -> SUBSET [of : Cluster, key : Nat, cidr : CIDRs]]
    /\ \A a \in Cluster : \A d \in dev[a] :
          d.of # a /\ d.key \in 1 .. key[d.of] /\ d.cidr # NoCIDR

WriteConnected ==
    \A c \in Cluster : writing[c] # Nothing =>
        writing[c].obj.cidr # NoCIDR /\ conn[Hub][c] = writing[c].obj.key

Counted ==
    /\ queue \in [Cluster -> SUBSET Cluster] /\ seen \in [Cluster -> Nat]
    /\ budget \in 0 .. MaxDisturbances

Types == Cached /\ Devices /\ WriteConnected /\ Counted

(* The invariants together imply the types. *)
LEMMA TypesSuffice ==
    ASSUME IInv, Types
    PROVE  TypeOK
<1>1. Bits \in 0 .. 24
  BY NetworkAssumption DEF Bits, divideTunnelNetwork
<1>2. HubBlocks \subseteq CIDR
  BY <1>1, NetworkAssumption DEF HubBlocks, Block, CIDR
<1>3. NoCIDR \in CIDR /\ Network \in CIDR
  BY NetworkAssumption, Zenon DEF NoCIDR, CIDR
<1>4. CIDRs \subseteq CIDR
  BY <1>2, <1>3, StartAssumption, Zenon DEF CIDRs
<1>5. Object \subseteq Peer
  BY <1>4, Zenon DEF Object, Peer
<1>6. [at : Nat, obj : Object] \subseteq Version
  BY <1>5, Zenon DEF Version
<1>7. log \in [Cluster -> Seq(Peer)]
  <2>1. Seq(Object) \subseteq Seq(Peer)
    BY <1>5
  <2> QED
    BY <2>1, Zenon DEF IInv, Shapes
<1>8. writing \in [Cluster -> Version]
  BY <1>6, Zenon DEF IInv, Shapes
<1>9. cache \in [Cluster -> [Cluster -> Version]]
  <2>1. [Cluster -> [at : Nat, obj : Object]] \subseteq [Cluster -> Version]
    BY <1>6, Zenon
  <2> QED
    BY <2>1, Zenon DEF IInv, Shapes
<1> QED
  BY <1>7, <1>8, <1>9, Zenon DEF TypeOK, Types, Devices, WriteConnected, Counted, IInv, Shapes, Status

(* At the start the devices are empty. *)
LEMMA InitTypes ==
    ASSUME Init
    PROVE  Types
<1>1. Cached
  <2>1. key \in [Cluster -> {0, 1}] /\ \A c \in Started : key[c] = 1
    BY StartAssumption, Zenon DEF Init
  <2>2. \A a, c \in Cluster : \/ cache[a][c] = Nothing
                              \/ c \in Started /\ cache[a][c] = [at |-> 1, obj |-> ApplyPeerConfig(c)]
    BY Zenon DEF Init
  <2>3. Nothing.obj = Absent /\ Absent.key = 0
    BY Zenon DEF Nothing, Absent
  <2>4. \A c \in Cluster : ApplyPeerConfig(c).key = key[c]
    BY Zenon DEF ApplyPeerConfig
  <2>5. ASSUME NEW a \in Cluster, NEW c \in Cluster
        PROVE  \/ cache[a][c].obj = Absent
               \/ cache[a][c].obj.key = key[c] /\ key[c] = 1
    <3>1. CASE cache[a][c] = Nothing
      BY <2>3, <3>1, Zenon
    <3>2. CASE c \in Started /\ cache[a][c] = [at |-> 1, obj |-> ApplyPeerConfig(c)]
      <4>1. cache[a][c].obj = ApplyPeerConfig(c)
        BY <3>2
      <4> QED
        BY <2>1, <2>4, <3>2, <4>1, Zenon
    <3> QED
      BY <2>2, <3>1, <3>2, Zenon
  <2> QED
    BY <2>1, <2>3, <2>5 DEF Cached
<1>2. Devices /\ WriteConnected
  BY Zenon DEF Init, Devices, WriteConnected
<1>3. Counted
  BY StartAssumption DEF Init, Counted
<1> QED
  BY <1>1, <1>2, <1>3, Zenon DEF Types

(* A step that keeps the keys and the devices. *)
LEMMA SameDevices ==
    ASSUME Types, UNCHANGED <<key, conn, dev>>, Cached', Counted',
           \A c \in Cluster : writing'[c] = writing[c] \/ writing'[c] = Nothing
    PROVE  Types'
<1>1. Devices'
  BY Zenon DEF Types, Devices
<1>2. WriteConnected'
  BY Zenon DEF Types, WriteConnected
<1> QED
  BY <1>1, <1>2, Zenon DEF Types

(* A new device is empty, and the key is larger than those before. *)
LEMMA NewTunnelTypes ==
    ASSUME IInv, Types, NEW a \in Cluster, NewTunnel(a)
    PROVE  Types'
<1>1. key \in [Cluster -> Nat] /\ key' = [key EXCEPT ![a] = key[a] + 1]
  BY Zenon DEF IInv, Shapes, NewTunnel
<1>2. \A c \in Cluster : key[c] \in Nat /\ key'[c] \in Nat /\ key[c] <= key'[c]
  BY <1>1
<1>3. cache \in [Cluster -> [Cluster -> [at : Nat, obj : Object]]] /\ \A o \in Object : o.key \in Nat
  BY Zenon DEF IInv, Shapes, Object
<1>4. Cached'
  <2> SUFFICES ASSUME NEW b \in Cluster, NEW c \in Cluster
               PROVE  /\ cache'[b][c].obj.key <= key'[c]
                      /\ cache'[b][c].obj.key = 0 => cache'[b][c].obj = Absent
    BY Zenon DEF Cached
  <2>1. cache'[b][c] = Nothing \/ cache'[b][c] = cache[b][c]
    BY <1>3, Zenon DEF NewTunnel
  <2>2. Nothing.obj = Absent /\ Absent.key = 0
    BY Zenon DEF Nothing, Absent
  <2>3. cache[b][c].obj.key \in Nat
    BY <1>3, Zenon
  <2>4. cache[b][c].obj.key <= key[c] /\ (cache[b][c].obj.key = 0 => cache[b][c].obj = Absent)
    BY Zenon DEF Types, Cached
  <2> QED
    BY <1>2, <2>1, <2>2, <2>3, <2>4
<1>5. Devices'
  <2>1. /\ conn' \in [Cluster -> [Cluster -> Nat]]
        /\ dev' \in [Cluster -> SUBSET [of : Cluster, key : Nat, cidr : CIDRs]]
    BY Zenon DEF Types, Devices, NewTunnel
  <2>2. ASSUME NEW b \in Cluster, NEW d \in dev'[b]
        PROVE  d.of # b /\ d.key \in 1 .. key'[d.of] /\ d.cidr # NoCIDR
    <3>1. d \in dev[b] /\ d \in [of : Cluster, key : Nat, cidr : CIDRs]
      BY <2>2, Zenon DEF Types, Devices, NewTunnel
    <3>2. d.of # b /\ d.key \in 1 .. key[d.of] /\ d.cidr # NoCIDR /\ d.of \in Cluster
      BY <3>1, Zenon DEF Types, Devices
    <3> QED
      BY <1>2, <3>2
  <2> QED
    BY <2>1, <2>2, Zenon DEF Devices
<1>6. WriteConnected'
  BY Clusters, Zenon DEF Types, WriteConnected, Devices, NewTunnel
<1>7. Counted'
  BY Zenon DEF Types, Counted, NewTunnel
<1> QED
  BY <1>4, <1>5, <1>6, <1>7, Zenon DEF Types

(* A version of the log is a Peer the cluster has published. *)
LEMMA LoggedKeys ==
    ASSUME IInv, NEW c \in Cluster
    PROVE  /\ \A i \in DOMAIN log[c] : /\ log[c][i].key <= key[c]
                                       /\ log[c][i].key = 0 => log[c][i] = Absent
           /\ API(c).key <= key[c] /\ (API(c).key = 0 => API(c) = Absent)
<1>1. Shapes /\ key[c] \in Nat
  BY Zenon DEF IInv, Shapes
<1>2. \A i \in DOMAIN log[c] : log[c][i].key <= key[c] /\ (log[c][i].key = 0 => log[c][i] = Absent)
  BY Zenon DEF IInv, Keyed
<1>3. CASE log[c] = << >>
  BY <1>1, <1>2, <1>3 DEF API, Absent
<1>4. CASE log[c] # << >>
  BY <1>1, <1>2, <1>4, LogTypes, Zenon
<1> QED
  BY <1>2, <1>3, <1>4, Zenon

(* The informer's list and the Peer just stored. *)
LEMMA PublishedTypes ==
    ASSUME IInv, Types, NEW a \in Cluster, up[a] \in Starting, Published(a), UNCHANGED <<seen, budget>>
    PROVE  Types'
<1>1. UNCHANGED <<key, conn, dev, writing>>
  BY Zenon DEF Published
<1>2. Cached'
  <2> SUFFICES ASSUME NEW b \in Cluster, NEW c \in Cluster
               PROVE  /\ cache'[b][c].obj.key <= key[c]
                      /\ cache'[b][c].obj.key = 0 => cache'[b][c].obj = Absent
    BY <1>1, Zenon DEF Cached
  <2>1. cache \in [Cluster -> [Cluster -> [at : Nat, obj : Object]]] /\ key[c] \in Nat
    BY Zenon DEF IInv, Shapes
  <2>2. \/ cache'[b][c].obj \in {cache[b][c].obj, Absent, API(c)}
        \/ c = a /\ cache'[b][c].obj = ApplyPeerConfig(a)
    <3>1. \/ cache'[b][c] = cache[b][c] \/ cache'[b][c] = Nothing
          \/ cache'[b][c] = [at |-> Len(log[c]), obj |-> API(c)]
          \/ (c = a /\ cache'[b][c] = [at |-> Len(log[c]) + 1, obj |-> ApplyPeerConfig(a)])
      <4>1. CASE b = a
        <5>1. cache'[a] = [e \in Cluster |->
                  CASE ~Read(a, e) -> Nothing
                    [] e = a       -> [at |-> Len(log[e]) + 1, obj |-> ApplyPeerConfig(a)]
                    [] OTHER       -> [at |-> Len(log[e]), obj |-> API(e)]]
          BY <2>1, Zenon DEF Published
        <5> QED
          BY <4>1, <5>1, Zenon
      <4>2. CASE b # a
        BY <2>1, <4>2, Zenon DEF Published
      <4> QED
        BY <4>1, <4>2, Zenon
    <3> QED
      BY <3>1 DEF Nothing
  <2>3. Absent.key = 0
    BY Zenon DEF Absent
  <2>4. ApplyPeerConfig(a).key = key[a] /\ key[a] # 0
    BY Zenon DEF IInv, Keyed, ApplyPeerConfig
  <2>5. cache[b][c].obj.key <= key[c] /\ (cache[b][c].obj.key = 0 => cache[b][c].obj = Absent)
    BY Zenon DEF Types, Cached
  <2> QED
    BY <2>1, <2>2, <2>3, <2>4, <2>5, LoggedKeys
<1>3. Counted'
  BY Zenon DEF Types, Counted, Published
<1> QED
  BY <1>1, <1>2, <1>3, SameDevices, Zenon

(* The informer brings the next version, or lists. *)
LEMMA ListerTypes ==
    ASSUME IInv, Types, (\E a, c \in Cluster : Deliver(a, c)) \/ Relist
    PROVE  Types'
<1>1. UNCHANGED <<key, conn, dev, writing>>
  BY Zenon DEF Deliver, Relist
<1>2. cache \in [Cluster -> [Cluster -> [at : Nat, obj : Object]]]
  BY Zenon DEF IInv, Shapes
<1>3. \A c \in Cluster : key[c] \in Nat
  BY Zenon DEF IInv, Shapes
<1>4. Absent.key = 0 /\ Nothing.obj = Absent
  BY Zenon DEF Absent, Nothing
<1>5. ASSUME NEW b \in Cluster, NEW c \in Cluster
      PROVE  cache[b][c].obj.key <= key[c] /\ (cache[b][c].obj.key = 0 => cache[b][c].obj = Absent)
  BY Zenon DEF Types, Cached
<1>6. ASSUME NEW a \in Cluster, NEW d \in Cluster, Deliver(a, d) PROVE Types'
  <2> DEFINE at == cache[a][d].at + 1
  <2>1. at \in DOMAIN log[d]
    <3>1. cache[a][d].at \in Nat /\ Shapes
      BY <1>2, Zenon DEF IInv
    <3>2. cache[a][d].at < Len(log[d])
      BY <1>6, Zenon DEF Deliver
    <3> QED
      BY <3>1, <3>2, LogTypes
  <2> HIDE DEF at
  <2>2. cache' = [cache EXCEPT ![a][d] = [at |-> at, obj |-> log[d][at]]]
    BY <1>6, Zenon DEF Deliver, at
  <2>3. ASSUME NEW b \in Cluster, NEW c \in Cluster
        PROVE  cache'[b][c].obj = cache[b][c].obj \/ (c = d /\ cache'[b][c].obj = log[d][at])
    <3>1. cache'[b][c] = IF b = a /\ c = d THEN [at |-> at, obj |-> log[d][at]] ELSE cache[b][c]
      BY <1>2, <2>2, Zenon
    <3> QED
      BY <3>1
  <2>4. ASSUME NEW b \in Cluster, NEW c \in Cluster
        PROVE  cache'[b][c].obj.key <= key[c] /\ (cache'[b][c].obj.key = 0 => cache'[b][c].obj = Absent)
    <3>1. log[d][at].key <= key[d] /\ (log[d][at].key = 0 => log[d][at] = Absent)
      BY <2>1, LoggedKeys, Zenon
    <3> QED
      BY <1>5, <2>3, <3>1, Zenon
  <2>5. Counted'
    BY <1>6, Zenon DEF Types, Counted, Deliver
  <2> QED
    BY <1>1, <2>4, <2>5, SameDevices, Zenon DEF Cached
<1>7. CASE Relist
  <2>1. \A b, c \in Cluster : \/ cache'[b][c].obj = cache[b][c].obj \/ cache'[b][c].obj = API(c)
                              \/ cache'[b][c].obj = Absent
    BY <1>2, <1>4, <1>7, Zenon DEF Relist
  <2>2. Cached'
    BY <1>1, <1>3, <1>4, <1>5, <2>1, LoggedKeys DEF Cached
  <2>3. queue' \in [Cluster -> SUBSET Cluster] /\ seen' \in [Cluster -> Nat]
    BY <1>7, Zenon DEF Types, Counted, Relist, Cluster
  <2>4. budget' \in 0 .. MaxDisturbances
    BY <1>7, StartAssumption DEF Types, Counted, Relist, Disturb
  <2> QED
    BY <1>1, <2>2, <2>3, <2>4, SameDevices, Zenon DEF Counted
<1> QED
  BY <1>6, <1>7, Zenon

(* The Peer a handler works with has the key its lister has. *)
LEMMA HandledPeer ==
    ASSUME IInv, Types, NEW a \in Cluster, NEW c \in Cluster, NEW peer, peer = Allocated(a, c),
           Prepare(a, c, peer)
    PROVE  /\ peer \in Object /\ peer.key \in 1 .. key[c] /\ peer.cidr # NoCIDR
           /\ peer.key = cache[a][c].obj.key
<1>1. cache[a][c].obj \in Object /\ key[c] \in Nat /\ Shapes
  BY Zenon DEF IInv, Shapes
<1>2. cache[a][c].obj # Absent /\ peer.cidr # NoCIDR
  BY Zenon DEF Prepare
<1>3. peer \in Object /\ peer.key = cache[a][c].obj.key
  <2>1. CASE peer = cache[a][c].obj
    BY <1>1, <2>1, Zenon
  <2>2. CASE peer # cache[a][c].obj
    <3>1. peer = [key |-> cache[a][c].obj.key, cidr |-> peer.cidr] /\ peer.cidr \in HubBlocks
      BY <1>1, <1>2, <2>2, AllocatedPeer, Zenon
    <3>2. cache[a][c].obj.key \in Nat
      BY <1>1, Zenon DEF Object
    <3> QED
      BY <3>1, <3>2 DEF Object, CIDRs
  <2> QED
    BY <2>1, <2>2, Zenon
<1>4. cache[a][c].obj.key \in Nat
  BY <1>1, Zenon DEF Object
<1>5. cache[a][c].obj.key <= key[c] /\ cache[a][c].obj.key # 0
  BY <1>2, Zenon DEF Types, Cached
<1> QED
  BY <1>1, <1>2, <1>3, <1>4, <1>5

(* The handler connects to a Peer before it stores a block for it. *)
LEMMA PreparedTypes ==
    ASSUME IInv, Types, NEW a \in Cluster, NEW c \in Cluster, NEW peer, peer = Allocated(a, c),
           Prepare(a, c, peer), Counted',
           \/ UNCHANGED <<conn, dev>>
           \/ /\ a # c /\ conn' = [conn EXCEPT ![a][c] = peer.key]
              /\ \E D \in SUBSET (dev[a] \cup {Tunnel(c, peer)}) : dev' = [dev EXCEPT ![a] = D],
           \/ writing' = writing
           \/ /\ a = Hub /\ conn'[Hub][c] = peer.key
              /\ writing' = [writing EXCEPT ![c] = [at |-> cache[a][c].at, obj |-> peer]]
    PROVE  Types'
<1>1. /\ peer \in Object /\ peer.key \in 1 .. key[c] /\ peer.cidr # NoCIDR
      /\ peer.key = cache[a][c].obj.key
  BY HandledPeer
<1>2. key[c] \in Nat /\ peer.key \in Nat /\ peer.key # 0 /\ peer.key <= key[c] /\ peer.cidr \in CIDRs
  <2>1. key[c] \in Nat
    BY Zenon DEF IInv, Shapes
  <2>2. peer.cidr \in CIDRs
    BY <1>1, Zenon DEF Object
  <2> QED
    BY <1>1, <2>1, <2>2
<1>3. /\ key' = key /\ cache' = [cache EXCEPT ![a][c].obj = peer]
      /\ a = Hub => writing[c] = Nothing
  BY Zenon DEF Prepare, Handling
<1>4. Cached'
  <2> SUFFICES ASSUME NEW b \in Cluster, NEW d \in Cluster
               PROVE  /\ cache'[b][d].obj.key <= key[d]
                      /\ cache'[b][d].obj.key = 0 => cache'[b][d].obj = Absent
    BY <1>3, Zenon DEF Cached
  <2>1. cache'[b][d].obj = IF b = a /\ d = c THEN peer ELSE cache[b][d].obj
    <3>1. cache \in [Cluster -> [Cluster -> [at : Nat, obj : Object]]]
      BY Zenon DEF IInv, Shapes
    <3> QED
      BY <1>3, <3>1
  <2>2. cache[b][d].obj.key <= key[d] /\ (cache[b][d].obj.key = 0 => cache[b][d].obj = Absent)
    BY Zenon DEF Types, Cached
  <2> QED
    BY <1>2, <2>1, <2>2, Zenon
<1>5. Devices'
  <2>1. CASE UNCHANGED <<conn, dev>>
    BY <1>3, <2>1, Zenon DEF Types, Devices
  <2>2. CASE /\ a # c /\ conn' = [conn EXCEPT ![a][c] = peer.key]
             /\ \E D \in SUBSET (dev[a] \cup {Tunnel(c, peer)}) : dev' = [dev EXCEPT ![a] = D]
    <3> DEFINE Entry == [of : Cluster, key : Nat, cidr : CIDRs]
    <3>1. PICK D \in SUBSET (dev[a] \cup {Tunnel(c, peer)}) : dev' = [dev EXCEPT ![a] = D]
      BY <2>2, Zenon
    <3>2. conn \in [Cluster -> [Cluster -> Nat]] /\ dev \in [Cluster -> SUBSET Entry]
      BY Zenon DEF Types, Devices
    <3>3. Tunnel(c, peer) \in Entry
      BY <1>2, Zenon DEF Tunnel
    <3>4. conn' \in [Cluster -> [Cluster -> Nat]]
      BY <1>2, <2>2, <3>2, Zenon
    <3>5. dev' \in [Cluster -> SUBSET Entry]
      BY <3>1, <3>2, <3>3, Zenon
    <3>6. ASSUME NEW b \in Cluster, NEW d \in dev'[b]
          PROVE  d.of # b /\ d.key \in 1 .. key[d.of] /\ d.cidr # NoCIDR
      <4>1. d \in dev[b] \/ (b = a /\ d = Tunnel(c, peer))
        BY <3>1, <3>2, <3>6, Zenon
      <4>2. CASE d \in dev[b]
        BY <4>2, Zenon DEF Types, Devices
      <4>3. CASE b = a /\ d = Tunnel(c, peer)
        <5>1. d.of = c /\ d.key = peer.key /\ d.cidr = peer.cidr
          BY <4>3, Zenon DEF Tunnel
        <5> QED
          BY <1>1, <2>2, <4>3, <5>1, Zenon
      <4> QED
        BY <4>1, <4>2, <4>3, Zenon
    <3> QED
      BY <1>3, <3>4, <3>5, <3>6, Zenon DEF Devices
  <2> QED
    BY <2>1, <2>2, Zenon
<1>6. WriteConnected'
  <2> SUFFICES ASSUME NEW d \in Cluster, writing'[d] # Nothing
               PROVE  writing'[d].obj.cidr # NoCIDR /\ conn'[Hub][d] = writing'[d].obj.key
    BY Zenon DEF WriteConnected
  <2>1. CASE writing'[d] = writing[d]
    <3>1. conn'[Hub][d] = conn[Hub][d]
      <4>1. Hub \in Cluster /\ conn \in [Cluster -> [Cluster -> Nat]]
        BY Clusters, Zenon DEF Types, Devices
      <4>2. ~(a = Hub /\ d = c)
        BY <1>3, <2>1, Zenon
      <4>3. CASE conn' = conn
        BY <4>3, Zenon
      <4>4. CASE conn' = [conn EXCEPT ![a][c] = peer.key]
        BY <4>1, <4>2, <4>4, Zenon
      <4> QED
        BY <4>3, <4>4, Zenon
    <3> QED
      BY <2>1, <3>1, Zenon DEF Types, WriteConnected
  <2>2. CASE writing'[d] # writing[d]
    <3>1. /\ conn'[Hub][c] = peer.key
          /\ writing' = [writing EXCEPT ![c] = [at |-> cache[a][c].at, obj |-> peer]]
      BY <2>2, Zenon
    <3>2. writing \in [Cluster -> [at : Nat, obj : Object]]
      BY Zenon DEF IInv, Shapes
    <3>3. d = c /\ writing'[c] = [at |-> cache[a][c].at, obj |-> peer]
      BY <2>2, <3>1, <3>2, Zenon
    <3>4. writing'[c].obj = peer
      BY <3>3
    <3> QED
      BY <1>1, <3>1, <3>3, <3>4, Zenon
  <2> QED
    BY <2>1, <2>2, Zenon
<1> QED
  BY <1>4, <1>5, <1>6, Zenon DEF Types

(* Every step keeps the types. *)
LEMMA NextTypes ==
    ASSUME IInv, Types, [Next]_vars
    PROVE  Types'
<1>1. ASSUME UNCHANGED <<key, conn, dev, cache, queue>>, seen' \in [Cluster -> Nat],
             budget' = budget \/ (\E kind \in Kinds : Disturb(kind)),
             \A c \in Cluster : writing'[c] = writing[c] \/ writing'[c] = Nothing
      PROVE  Types'
  <2>1. Cached'
    BY <1>1, Zenon DEF Types, Cached
  <2>2. budget' \in 0 .. MaxDisturbances
    BY <1>1, StartAssumption DEF Types, Counted, Disturb
  <2> QED
    BY <1>1, <2>1, <2>2, SameDevices, Zenon DEF Types, Counted
<1>2. seen \in [Cluster -> Nat]
  BY Zenon DEF Types, Counted
<1>3. ASSUME NEW a \in Cluster, Register(a) PROVE Types'
  <2>1. CASE NewTunnel(a)
    BY <2>1, NewTunnelTypes, Zenon
  <2>2. CASE CreatePeer(a) \/ UpdatePeer(a)
    BY <2>2, PublishedTypes, Zenon DEF CreatePeer, UpdatePeer, Starting
  <2>3. CASE GetPeer(a)
    <3>1. Len(log[a]) \in Nat
      BY LogTypes, Zenon DEF IInv
    <3>2. seen' \in [Cluster -> Nat]
      BY <1>2, <2>3, <3>1, Zenon DEF GetPeer
    <3> QED
      BY <1>1, <2>3, <3>2, Zenon DEF GetPeer, agentVars
  <2>4. CASE PeerConflicts(a)
    BY <1>1, <1>2, <2>4, Zenon DEF PeerConflicts, Refused, agentVars
  <2> QED
    BY <1>3, <2>1, <2>2, <2>3, <2>4, Zenon DEF Register
<1>4. ASSUME NEW a \in Cluster, NEW c \in Cluster, Read(a, c), Handle(a, c) PROVE Types'
  <2> DEFINE peer == Allocated(a, c)
  <2>1. Prepare(a, c, peer) /\ AddInterClusterTunnel(a, c, peer)
    BY <1>4, Zenon DEF Handle
  <2>2. Counted'
    BY <1>4, Zenon DEF Handle, Prepare, Types, Counted
  <2>3. \/ writing' = writing
        \/ /\ peer # cache[a][c].obj
           /\ writing' = [writing EXCEPT ![c] = [at |-> cache[a][c].at, obj |-> peer]]
    BY <1>4, Zenon DEF Handle
  <2> HIDE DEF peer
  <2>4. ASSUME peer # cache[a][c].obj PROVE a = Hub /\ a # c
    <3>1. a = Hub
      BY <2>1, <2>4, AllocatedPeer, Zenon DEF IInv, Prepare, peer
    <3> QED
      BY <1>4, <3>1, NetworkAssumption, Zenon DEF Read, Wanted
  <2>5. CASE Connects(a, c, peer)
    <3>1. /\ a # c /\ conn' = [conn EXCEPT ![a][c] = peer.key]
          /\ dev' = [dev EXCEPT ![a] = {d \in Disconnected(a, c) : d.cidr # peer.cidr}
                                           \cup {Tunnel(c, peer)}]
      BY <2>1, <2>5, Zenon DEF AddInterClusterTunnel, Connects
    <3>2. {d \in Disconnected(a, c) : d.cidr # peer.cidr} \cup {Tunnel(c, peer)}
              \in SUBSET (dev[a] \cup {Tunnel(c, peer)})
      BY Zenon DEF Disconnected
    <3>3. conn'[a][c] = peer.key
      BY <3>1, Zenon DEF Types, Devices
    <3> QED
      BY <2>1, <2>2, <2>3, <2>4, <3>1, <3>2, <3>3, PreparedTypes, Zenon DEF peer
  <2>6. CASE ~Connects(a, c, peer)
    <3>1. UNCHANGED <<conn, dev>> /\ (a # c => conn[a][c] = peer.key)
      BY <2>1, <2>6, Zenon DEF AddInterClusterTunnel, Connects
    <3> QED
      BY <2>1, <2>2, <2>3, <2>4, <3>1, PreparedTypes, Zenon DEF peer
  <2> QED
    BY <2>5, <2>6, Zenon
<1>5. ASSUME NEW a \in Cluster, NEW c \in Cluster, DeviceFails(a, c) \/ RouteFails(a, c) PROVE Types'
  <2> DEFINE peer == Allocated(a, c)
  <2>1. Prepare(a, c, peer) /\ writing' = writing /\ queue' = queue
    BY <1>5, Zenon DEF DeviceFails, RouteFails
  <2>2. budget' \in 0 .. MaxDisturbances
    BY <1>5, StartAssumption DEF DeviceFails, RouteFails, Types, Counted, Disturb
  <2>3. Counted'
    BY <2>1, <2>2, Zenon DEF Types, Counted, Prepare
  <2>4. \/ UNCHANGED <<conn, dev>>
        \/ /\ a # c /\ conn' = [conn EXCEPT ![a][c] = peer.key]
           /\ \/ dev' = [dev EXCEPT ![a] = Disconnected(a, c)]
              \/ dev' = [dev EXCEPT ![a] = {d \in Disconnected(a, c) : d.cidr # peer.cidr}
                                               \cup {Tunnel(c, peer)}]
    BY <1>5, Zenon DEF DeviceFails, RouteFails, AddInterClusterTunnel, Connects
  <2> HIDE DEF peer
  <2>5. /\ Disconnected(a, c) \in SUBSET (dev[a] \cup {Tunnel(c, peer)})
        /\ {d \in Disconnected(a, c) : d.cidr # peer.cidr} \cup {Tunnel(c, peer)}
              \in SUBSET (dev[a] \cup {Tunnel(c, peer)})
    BY Zenon DEF Disconnected
  <2> QED
    BY <2>1, <2>3, <2>4, <2>5, PreparedTypes, Zenon DEF peer
<1>6. ASSUME NEW c \in Child, WriteBack(c) \/ WriteBackFails(c) PROVE Types'
  <2>1. /\ UNCHANGED <<key, conn, dev, cache, seen>>
        /\ \A d \in Cluster : writing'[d] = writing[d] \/ writing'[d] = Nothing
    <3>1. writing' = [writing EXCEPT ![c] = Nothing] /\ UNCHANGED <<key, conn, dev, cache, seen>>
      BY <1>6, Zenon DEF WriteBack, WriteBackFails, Written
    <3>2. writing \in [Cluster -> [at : Nat, obj : Object]]
      BY Zenon DEF IInv, Shapes
    <3> QED
      BY <3>1, <3>2, Zenon
  <2>2. Cached'
    BY <2>1, Zenon DEF Types, Cached
  <2>3. budget' \in 0 .. MaxDisturbances
    BY <1>6, StartAssumption DEF WriteBack, WriteBackFails, Types, Counted, Disturb
  <2>4. queue' \in [Cluster -> SUBSET Cluster]
    <3>1. queue' = queue \/ queue' = [queue EXCEPT ![Hub] = queue[Hub] \cup {c}]
      BY <1>6, Zenon DEF WriteBack, WriteBackFails
    <3>2. queue \in [Cluster -> SUBSET Cluster] /\ c \in Cluster
      BY Zenon DEF Types, Counted, Cluster
    <3> QED
      BY <3>1, <3>2, Zenon
  <2> QED
    BY <2>1, <2>2, <2>3, <2>4, SameDevices, Zenon DEF Types, Counted
<1>7. ASSUME NEW c \in Child, WaitGetCIDRFromHubclient(c) PROVE Types'
  BY <1>1, <1>2, <1>7, Zenon DEF WaitGetCIDRFromHubclient
<1>8. ASSUME NEW c, HandleGone(c[1], c[2]) \/ Crash(c) \/ PeerFails(c) \/ Leave(c) PROVE Types'
  <2>1. /\ UNCHANGED <<key, conn, dev, cache, queue, seen, writing>>
        /\ budget' = budget \/ (\E kind \in Kinds : Disturb(kind))
    BY <1>8, Zenon DEF HandleGone, Crash, PeerFails, Refused, Leave, agentVars, Disturb
  <2> QED
    BY <1>1, <1>2, <2>1, Zenon
<1>9. CASE System
  <2>1. ASSUME NEW w \in Watches, Work(w[1], w[2]) PROVE Types'
    <3>1. w[1] \in Cluster /\ w[2] \in Cluster /\ Read(w[1], w[2])
      BY <2>1, Zenon DEF Watches
    <3> QED
      BY <2>1, <3>1, <1>4, <1>8, ListerTypes, Zenon DEF Work
  <2> QED
    BY <1>3, <1>6, <1>7, <1>9, <2>1, Zenon DEF System
<1>10. CASE Disturbances
  <2>1. ASSUME NEW w \in Watches, DeviceFails(w[1], w[2]) \/ RouteFails(w[1], w[2]) PROVE Types'
    <3>1. w[1] \in Cluster /\ w[2] \in Cluster
      BY <2>1, Zenon DEF Watches
    <3> QED
      BY <2>1, <3>1, <1>5, Zenon
  <2> QED
    BY <1>6, <1>8, <1>10, <2>1, ListerTypes, Zenon DEF Disturbances
<1>11. CASE UNCHANGED vars
  BY <1>1, <1>2, <1>11, Zenon DEF vars, agentVars
<1> QED
  BY <1>9, <1>10, <1>11, Zenon DEF Next

(* The variables keep their types, the devices hold only keys their clusters have made,
   and the hub stores a block only for a Peer it has connected to
   (intertunnel_controller.go, Handle: AddInterClusterTunnel comes before the Update). *)
THEOREM TypeCorrect == Spec => []TypeOK
<1>1. Init => Types
  BY InitTypes, Zenon
<1>2. IInv /\ Types /\ [Next]_vars => Types'
  BY NextTypes, Zenon
<1>3. IInv /\ Types => TypeOK
  BY TypesSuffice, Zenon
<1>4. Spec => []IInv
  BY Invariance, Zenon
<1> QED
  BY <1>1, <1>2, <1>3, <1>4, PTL DEF Spec
=============================================================================
