------------------------------- MODULE MCProxier -------------------------------
(* Instances of Proxier for model checking: the service s has the slice x,    *)
(* and t, which may get the address of s after s has gone, the slice y.      *)
EXTENDS Proxier

CONSTANTS s, t, x, y

MCServiceOf == [sl \in {x, y} |-> IF sl = x THEN s ELSE t]
MCKeyOf == [sl \in {x, y} |-> IF sl = x THEN "k1" ELSE "k2"]

http == [name |-> "http", port |-> 80, proto |-> "TCP"]
dns == [name |-> "dns", port |-> 53, proto |-> "UDP"]

At(ip, port) == [ip |-> ip, ports |-> <<port>>]

target == [name |-> "http", num |-> 8080, proto |-> "TCP"]
udp == [name |-> "dns", num |-> 8053, proto |-> "UDP"]

Ep(a, r) == [addr |-> a, family |-> "IPv4", local |-> FALSE,
             ready |-> r, serving |-> TRUE, terminating |-> ~r]

Of(port, eps) == [ports |-> <<port>>, eps |-> eps]

OnlyA == Of(target, {Ep("a", TRUE)})
OnlyB == Of(target, {Ep("b", TRUE)})
Both == Of(target, {Ep("a", TRUE), Ep("b", FALSE)})
Udp == Of(udp, {Ep("a", TRUE)})

MCImports == {At("v1", http), At("v2", dns)}
MCSlices == {OnlyA, OnlyB, Both, Udp}

MCInitialImports == [v \in {s, t} |-> IF v = s THEN At("v1", http) ELSE NoObject]
MCInitialSlices == [sl \in {x, y} |-> IF sl = x THEN OnlyB ELSE OnlyA]

(* Nothing, or an endpoint that was draining when the process stopped *)
Left == [vs \in {<<"v1", 80, "TCP">>} |-> [rs \in {<<"a", 8080>>} |-> [weight |-> 0, conns |-> 1]]]
MCInitialServers == {Empty, Left}

MCImportsOf == [v \in {s, t} |-> IF v = s THEN {NoObject, At("v1", http)}
                                 ELSE {At("v1", http), At("v2", dns)}]
MCSlicesOf == [sl \in {x, y} |-> IF sl = x THEN {NoObject, OnlyB, Both} ELSE {Udp}]
=============================================================================
