------------------------ MODULE MCInnerClusterTunnel ------------------------
(* Instances of InnerClusterTunnel: candidates a and b and the worker w,     *)
(* which, drained, is replaced by w2.                                        *)
EXTENDS InnerClusterTunnel

MCNodeOf == [p \in Pod |-> IF p = "w2" THEN "w" ELSE p]
MCClusterCIDR == [ip |-> 0, bits |-> 18]
MCTunnelCIDR == [ip |-> 0, bits |-> 16]

Nth(p) == CASE p = "a" -> 0 [] p = "b" -> 1 [] OTHER -> 2
With(ps, steps) == [first |-> [p \in ps |-> Block(MCClusterCIDR, 24, Nth(p))], steps |-> steps]

\* The same start with a pod that has no block yet.
Newly(p, sc) == [sc EXCEPT !.first[p] = NoCIDR]

MCScenario == {
    With({"a", "w"}, <<<<"crash", "a">>>>),
    With({"a", "b", "w"}, <<<<"lease", "a">>>>),
    With({"a", "w"}, <<<<"drain", "w">>, <<"failure", "a">>>>),
    With({"a", "b"}, <<<<"crash", "a">>, <<"failure", "b">>>>),
    With({"a", "b"}, <<<<"crash", "b">>>>),
    Newly("b", With({"a", "b"}, <<<<"lease", "a">>>>)),
    Newly("b", With({"a", "b"}, <<<<"crash", "a">>>>)),
    Newly("w", With({"a", "b", "w"}, <<<<"failure", "a">>>>))}

\* The leader loses its lease while a worker is connected to it.
MCLeaderScenario == {With({"a", "b", "w"}, <<<<"lease", "a">>>>)}
=============================================================================
