------------------------ MODULE MCInterClusterTunnel ------------------------
(* Instances of InterClusterTunnel for model checking.                     *)
EXTENDS InterClusterTunnel

\* 20.112.0.0/16, four blocks of /18.
MCNetwork == [ip |-> 20 * 65536 + 112 * 256, bits |-> 16]

\* A child with a public endpoint brings a CIDR of its own.
MCSpecCIDR == [c \in Child |->
    IF c \in Public THEN [ip |-> 21 * 65536, bits |-> 18] ELSE NoCIDR]

\* One block is left.
MCSettled == {Block(MCNetwork, 18, i) : i \in {0, 1, 3}}
=============================================================================
