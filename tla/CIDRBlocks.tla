------------------------------ MODULE CIDRBlocks ------------------------------
(***************************************************************************)
(* How a network is divided: the tunnel network into one block for every   *)
(* cluster, the block of a cluster into one for every node.                *)
(*                                                                         *)
(* Addresses are counted in /24 networks, the smallest block that is ever  *)
(* handed out, so that an address is a number below 2^24.                  *)
(***************************************************************************)
EXTENDS Integers, FiniteSets

NoCIDR == [ip |-> 0, bits |-> -1]      \* the empty string

\* Addresses, in /24 networks, of a network with a prefix of this length.
Width(bits) == 2 ^ (24 - bits)

\* The prefix length of a cluster's block; 0 is the error.
divideTunnelNetwork(networkBits) ==
    CASE networkBits \in 13 .. 16 -> networkBits + 2
      [] networkBits <= 12        -> networkBits + 4
      [] OTHER                    -> 0

\* The prefix length of a node's block; 0 is the error.
divideClusterNetwork(networkBits) ==
    CASE networkBits \in 14 .. 18 -> 24
      [] networkBits <= 12        -> 22
      [] OTHER                    -> 0

Contains(cidr, ip) == ip \div Width(cidr.bits) = cidr.ip \div Width(cidr.bits)

isOverlappingCIDR(cidr1, cidr2) ==
    Contains(cidr1, cidr2.ip) \/ Contains(cidr2, cidr1.ip)

\* An existing CIDR moved to the start of the block it begins in; it keeps its length.
Trimmed(cidr, bits) == [cidr EXCEPT !.ip = (cidr.ip \div Width(bits)) * Width(bits)]

Block(network, bits, i) == [ip |-> network.ip + i * Width(bits), bits |-> bits]

Taken(block, existing) ==
    \E cidr \in existing \ {NoCIDR} : isOverlappingCIDR(Trimmed(cidr, block.bits), block)

\* The loop counts over the host bits of a block, not over the blocks of the network.
Tries(bits) == 0 .. 2 ^ (32 - bits) - 1

\* Mutant: the block after as many as there are Peers.
findNextCIDR(network, existing, bits) == Block(network, bits, Cardinality(existing))

findAvailableCIDR(network, existing, bits) ==
    IF \E i \in Tries(bits) : ~Taken(Block(network, bits, i), existing)
    THEN Block(network, bits,
               CHOOSE i \in Tries(bits) :
                   /\ ~Taken(Block(network, bits, i), existing)
                   /\ \A j \in 0 .. i - 1 : Taken(Block(network, bits, j), existing))
    ELSE NoCIDR

FindTunnelAvailableCIDR(tunnelCIDR, existing) ==
    LET bits == divideTunnelNetwork(tunnelCIDR.bits)
    IN  IF bits = 0 THEN NoCIDR ELSE findAvailableCIDR(tunnelCIDR, existing, bits)

FindClusterAvailableCIDR(clusterCIDR, existing) ==
    LET bits == divideClusterNetwork(clusterCIDR.bits)
    IN  IF clusterCIDR = NoCIDR \/ bits = 0
        THEN NoCIDR
        ELSE findAvailableCIDR(clusterCIDR, existing, bits)

-----------------------------------------------------------------------------
Inside(cidr, network) == cidr.bits >= network.bits /\ Contains(network, cidr.ip)

\* The blocks of this length that the network has.
BlocksOf(network, bits) ==
    {Block(network, bits, i) : i \in 0 .. 2 ^ (bits - network.bits) - 1}

=============================================================================
