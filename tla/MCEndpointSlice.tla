---------------------------- MODULE MCEndpointSlice ----------------------------
(* Instances of EndpointSliceController for model checking.                *)
EXTENDS EndpointSliceController

CONSTANTS p1, p2, p3, n1, n2

\* A Service as the cache shows it; its uid is set when it comes.
Service(families, clusterIP, labels, hints) ==
    [uid |-> 0, dying |-> FALSE, selects |-> TRUE, publish |-> FALSE,
     labels |-> labels, hints |-> hints, families |-> families, clusterIP |-> clusterIP]

Running(node, ready) ==
    [uid |-> 1, ip |-> TRUE, terminal |-> FALSE, ready |-> ready, dying |-> FALSE,
     addr |-> "ip", node |-> node, member |-> TRUE, ports |-> "http"]

Ready(zone, cpu) == [ready |-> TRUE, control |-> FALSE, zone |-> zone, cpu |-> cpu]

\* Three pods on one node, two of them there from the start, no hints: the protocol with
\* the API server.
ProtocolPods == [p \in {p1, p2, p3} |-> {Running(n1, TRUE)}]
ProtocolInitial == {[p \in {p1, p2} |-> Running(n1, TRUE)]}
ProtocolInitialServices == {Service({}, "IPv4", 1, FALSE)}
ProtocolServices == ProtocolInitialServices \cup {[s EXCEPT !.dying = TRUE] : s \in ProtocolInitialServices}
ProtocolNodes == [n \in {n1} |-> {Ready("a", 1)}]
ProtocolInitialNodes == {[n \in {n1} |-> Ready("a", 1)]}

\* Three pods in one of two zones, slices of two, hints: what the reconciler computes. One
\* zone has to give an endpoint to the other. A pod may be terminated, or be replaced by
\* one with other ports, a node may come, go or lose its zone, and the Service may lose
\* its selector, turn hints off and become dual-stack.
DataPods == [p \in {p1, p2, p3} |->
    CASE p = p1 -> {Running(n1, TRUE), [Running(n1, TRUE) EXCEPT !.dying = TRUE]}
      [] p = p2 -> {Running(n1, TRUE), [Running(n1, TRUE) EXCEPT !.uid = 2, !.ports = "web"]}
      [] p = p3 -> {Running(n1, TRUE)}]
DataInitial == {[p \in {p1, p2, p3} |-> Running(n1, TRUE)], << >>}
DataInitialServices == {Service({"IPv4"}, "IPv4", 1, TRUE), Service({}, "None", 2, FALSE)}
DataServices == DataInitialServices \cup {[Service({"IPv4"}, "IPv4", 1, TRUE) EXCEPT !.selects = FALSE]}
DataNodes == [n \in {n1, n2} |-> IF n = n1 THEN {Ready("a", 2)}
                                 ELSE {Ready("b", 1), Ready("b", 2), Ready("none", 1)}]
DataInitialNodes == {[n \in {n1, n2} |-> IF n = n1 THEN Ready("a", 2) ELSE Ready("b", 1)]}
=============================================================================
