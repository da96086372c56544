--------------------------- MODULE MCProxyTrackers ---------------------------
(* Instances of ProxyTrackers for model checking: service s has the slices x  *)
(* and y.                                                                    *)
EXTENDS ProxyTrackers

CONSTANTS s, x, y

MCServiceOf == [sl \in {x, y} |-> s]

(* All slices of a service come from one cluster and one namespace *)
OneKey == [sl \in {x, y} |-> "k1"]

(* The slices of s come from two clusters *)
TwoKeys == [sl \in {x, y} |-> IF sl = x THEN "k1" ELSE "k2"]

http == [name |-> "http", port |-> 80, proto |-> "TCP"]
admin == [name |-> "admin", port |-> 81, proto |-> "TCP"]

MCImports == {[ip |-> NoIP, ports |-> <<http>>],
              [ip |-> "v1", ports |-> <<http>>],
              [ip |-> "v2", ports |-> <<http, admin>>],
              [ip |-> "v2", ports |-> <<admin, http>>]}

Ep(a, l, r) == [addr |-> a, family |-> "IPv4", local |-> l,
                ready |-> r, serving |-> TRUE, terminating |-> ~r]
V6(a) == [addr |-> a, family |-> "IPv6", local |-> FALSE,
          ready |-> TRUE, serving |-> TRUE, terminating |-> FALSE]

target == [name |-> "http", num |-> 8080, proto |-> "TCP"]
high == [name |-> "admin", num |-> 9090, proto |-> "TCP"]
low == [name |-> "admin", num |-> 7070, proto |-> "TCP"]
unset == [name |-> "admin", num |-> 0, proto |-> "TCP"]

MCSlices == {[ports |-> <<high, target>>, eps |-> {Ep("a", TRUE, FALSE), Ep("b", FALSE, TRUE)}],
             [ports |-> <<target, low>>, eps |-> {Ep("a", FALSE, TRUE)}],
             [ports |-> <<target, unset>>, eps |-> {Ep("a", FALSE, FALSE), V6("c")}]}

FewSlices == {[ports |-> <<target>>, eps |-> {Ep("a", FALSE, TRUE)}],
              [ports |-> <<target>>, eps |-> {Ep("b", FALSE, TRUE)}]}
=============================================================================
