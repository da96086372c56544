------------------------ MODULE EndpointSliceReconciler ------------------------
(***************************************************************************)
(* The reconciler of the EndpointSlice controller, as operators: from the  *)
(* Service, the pods, the nodes and the slices the listers hold it derives *)
(* the slices to create, to update and to delete for one address type.     *)
(*                                                                         *)
(* Slices are functions from ids (uid and generated name alike) to records.*)
(* Endpoints, slices and port maps are iterated in the order of Go maps,   *)
(* so a plan is one member of a set of plans. A variable over a set of one *)
(* element stands for a value that TLC is to compute once.                 *)
(***************************************************************************)
EXTENDS TopologyCache

CONSTANTS
    Pod,             \* pod names
    NoAddr,          \* a pod without the address annotation of the CNI
    NoPorts,         \* the port map without ports
    MaxEndpoints     \* maxEndpointsPerSlice

ASSUME MaxEndpointsAssumption == MaxEndpoints \in Nat \ {0}
ASSUME PodAssumption == IsFiniteSet(Pod)

NoObject == [phase |-> "none"]
NoId     == 0   \* ids of slices are positive

Without(f, u) == Restrict(f, DOMAIN f \ {u})
With(f, u, x) == [v \in DOMAIN f \cup {u} |-> IF v = u THEN x ELSE f[v]]

\* A Service stored without families has that of its ClusterIP, and both if it is headless.
getAddressTypesForService(svc) ==
    CASE svc.families # {}      -> svc.families
      [] svc.clusterIP # "None" -> {svc.clusterIP}
      [] OTHER                  -> {"IPv4", "IPv6"}

-----------------------------------------------------------------------------
(* From a pod to its endpoint.                                             *)

ShouldPodBeInEndpoints(pod) == ~pod.terminal /\ pod.ip

\* Two endpoints with the same key are the same endpoint to the endpoint set.
hashEndpoint(e) == <<e.pod, e.addr>>

podToEndpoint(p, pod, nodes, svc) ==
    [pod |-> p, uid |-> pod.uid, addr |-> pod.addr, node |-> pod.node,
     zone |-> IF pod.node \in DOMAIN nodes THEN nodes[pod.node].zone ELSE NoZone,
     ready |-> svc.publish \/ (pod.ready /\ ~pod.dying),
     serving |-> pod.ready, terminating |-> pod.dying,
     hint |-> NoZone]

EndpointsEqualWithHints(e, f) == e = f

EndpointsEqualByHash(e, f) == hashEndpoint(e) = hashEndpoint(f)

EndpointsEqualBeyondHash(e, f) ==
    [e EXCEPT !.hint = NoZone] = [f EXCEPT !.hint = NoZone]

\* The pods the Service selects that belong in slices; their node may be unknown.
Listed(pods) == {p \in DOMAIN pods : pods[p].member /\ ShouldPodBeInEndpoints(pods[p])}

NodeMissing(pod, nodes, svc) == pod.node \notin DOMAIN nodes /\ ~svc.publish

DesiredPorts(pods) == {pods[p].ports : p \in Listed(pods)}

DesiredEndpoints(pods, nodes, svc, ports) ==
    {podToEndpoint(p, pods[p], nodes, svc) : p \in
        {q \in Listed(pods) : /\ pods[q].ports = ports /\ pods[q].addr # NoAddr
                              /\ ~NodeMissing(pods[q], nodes, svc)}}

\* Some pod is left out because its node is unknown; the run then ends with an error.
PodSkipped(pods, nodes, svc) == \E p \in Listed(pods) : NodeMissing(pods[p], nodes, svc)

\* A slice not stored yet: the API server gives it a generation and a version (rv).
newEndpointSlice(svc, ports, type, eps) ==
    [owner |-> svc.uid, type |-> type, ports |-> ports, labels |-> svc.labels, eps |-> eps,
     gen |-> 0, rv |-> 0, dying |-> FALSE]

SliceFields == {"owner", "type", "ports", "labels", "eps", "gen", "rv", "dying"}

ownedByAny(slice, svc) == TRUE

ownedBy(slice, svc) == slice.owner = svc.uid

-----------------------------------------------------------------------------
(* reconcileByPortMapping.                                                 *)

Holds(slice, d) == \E e \in slice.eps : hashEndpoint(e) = hashEndpoint(d)

Holders(existing, d) == {u \in DOMAIN existing : Holds(existing[u], d)}

\* The slices that hold an endpoint together with another one.
Contested(existing, desired) ==
    {u \in DOMAIN existing : \E d \in desired : u \in Holders(existing, d) /\ Holders(existing, d) # {u}}

KeepsAll(existing, desired) ==
    {[u \in DOMAIN existing |-> {d \in desired : u \in Holders(existing, d)}]}

\* Step 1: what each slice keeps. The slices are visited in some order, which matters for
\* the endpoints that several of them hold: the first one keeps it.
Keeps(existing, desired) ==
    LET contested == Contested(existing, desired)
    IN  {[u \in DOMAIN existing |->
            {d \in desired : /\ u \in Holders(existing, d)
                             /\ \A v \in Holders(existing, d) \ {u} : pos[u] < pos[v]}] :
            pos \in Injection(contested, 1 .. Cardinality(contested))}

EndpointsChanged(slice, kept) ==
    \/ Cardinality(slice.eps) # Cardinality(kept)
    \/ \E d \in kept : ~ \E e \in slice.eps :
            hashEndpoint(e) = hashEndpoint(d) /\ EndpointsEqualBeyondHash(e, d)

setEndpointSliceLabels(slice, svc) == slice.labels # svc.labels

\* Step 2: where the endpoints of rest may go among the slices being updated, the fullest
\* slice being filled first. NoId stands for none of them.
FillUpdated(rest, update) ==
    LET room(u)   == MaxEndpoints - Cardinality(update[u].eps)
        got(a, u) == Cardinality({d \in rest : a[d] = u})
    IN  {a \in [rest -> DOMAIN update \cup {NoId}] :
            /\ \A u \in DOMAIN update : got(a, u) <= room(u) \/ got(a, u) = 0
            /\ (\E d \in rest : a[d] = NoId) => \A u \in DOMAIN update : got(a, u) >= room(u)
            /\ \A u, v \in DOMAIN update :
                 got(a, u) < room(u) /\ got(a, v) > 0 /\ u # v =>
                    /\ got(a, v) = room(v) \/ got(a, u) = 0
                    /\ Cardinality(update[v].eps) >= Cardinality(update[u].eps)}

getSliceToOverfill(slices, n) ==
    {u \in DOMAIN slices : Cardinality(slices[u].eps) + n <= MaxEndpoints + 1}

\* getSliceToFill: the slices that n endpoints bring closest to full.
getSliceToFill(slices, n) ==
    LET fits == {u \in DOMAIN slices : Cardinality(slices[u].eps) + n <= MaxEndpoints}
    IN  {u \in fits : \A v \in fits : Cardinality(slices[v].eps) <= Cardinality(slices[u].eps)}

\* Step 3: the ways to cut what is left into full new slices and a remainder.
Cuts(left) ==
    LET full == Cardinality(left) \div MaxEndpoints
        of(c, k) == {d \in left : c[d] = k}
    IN  {[full |-> {of(c, k) : k \in 1 .. full}, rest |-> of(c, 0)] :
            c \in {f \in [left -> 0 .. full] :
                      /\ \A k \in 1 .. full : Cardinality(of(f, k)) = MaxEndpoints
                      /\ Cardinality(of(f, 0)) < MaxEndpoints}}

\* The slices after step 1, given what they keep.
StepOne(svc, existing, kept) ==
    LET changed == {u \in DOMAIN existing : EndpointsChanged(existing[u], kept[u])}
        delete  == {u \in changed : kept[u] = {}}
        relabel == {u \in DOMAIN existing \ changed : setEndpointSliceLabels(existing[u], svc)}
    IN  [delete |-> delete,
         update |-> [u \in (changed \ delete) \cup relabel |->
                       [existing[u] EXCEPT !.labels = svc.labels,
                            !.eps = IF u \in changed THEN kept[u] ELSE @]],
         unchanged |-> Restrict(existing, DOMAIN existing \ (changed \cup relabel))]

\* The updated slices after step 2.
Filled(update, a) ==
    [u \in DOMAIN update |-> [update[u] EXCEPT !.eps = @ \cup {d \in DOMAIN a : a[d] = u}]]

\* Step 3: the remainder goes to an unchanged slice that has room for it, or to a new one.
StepThree(svc, type, ports, s, update, cut) ==
    LET targets == IF cut.rest = {} THEN {}
                   ELSE getSliceToFill(s.unchanged, Cardinality(cut.rest))
        new     == {newEndpointSlice(svc, ports, type, eps) : eps \in cut.full}
        last    == IF cut.rest = {} THEN {} ELSE {newEndpointSlice(svc, ports, type, cut.rest)}
    IN  IF targets = {}
        THEN {[create |-> new \cup last, update |-> update, delete |-> s.delete]}
        ELSE {[create |-> new, delete |-> s.delete,
               update |-> With(update, t, [s.unchanged[t] EXCEPT !.eps = @ \cup cut.rest])] :
                 t \in targets}

\* Steps 2 and 3 for the endpoints that no slice keeps.
Placements(svc, type, ports, s, rest) ==
    UNION {UNION {StepThree(svc, type, ports, s, Filled(s.update, a), cut) :
                    cut \in Cuts({d \in rest : a[d] = NoId})} : a \in FillUpdated(rest, s.update)}

reconcileByPortMapping(svc, type, ports, existing, desired) ==
    UNION {UNION {Placements(svc, type, ports, s, desired \ UNION {kept[u] : u \in DOMAIN kept}) :
                    s \in {StepOne(svc, existing, kept)}} : kept \in Keeps(existing, desired)}

-----------------------------------------------------------------------------
(* reconcileByAddressType, up to the calls to the API.                     *)

\* The plans over all port maps of the pods.
PortMappings(svc, type, pods, nodes, existing) ==
    LET owned    == {u \in DOMAIN existing : ownedBy(existing[u], svc)}
        ports    == DesiredPorts(pods)
        obsolete == {u \in DOMAIN existing : u \notin owned \/ existing[u].ports \notin ports}
        plans(m) == reconcileByPortMapping(svc, type, m,
                        Restrict(existing, {u \in owned : existing[u].ports = m}),
                        DesiredEndpoints(pods, nodes, svc, m))
    IN  {[create |-> UNION {r[m].create : m \in ports},
          update |-> [u \in UNION {DOMAIN r[m].update : m \in ports} |->
                        r[existing[u].ports].update[u]],
          delete |-> obsolete \cup UNION {r[m].delete : m \in ports}] :
            r \in {f \in [ports -> UNION {plans(m) : m \in ports}] : \A m \in ports : f[m] \in plans(m)}}

\* placeholderSliceCompare looks at labels, ports, type and endpoints, not at the owner.
placeholderSliceCompare(slice, placeholder) ==
    \A f \in {"labels", "ports", "type", "eps"} : slice[f] = placeholder[f]

WithPlaceholder(svc, type, existing, plan) ==
    LET placeholder == newEndpointSlice(svc, NoPorts, type, {})
    IN  IF plan.create # {} \/ plan.delete # DOMAIN existing THEN plan
        ELSE IF /\ Cardinality(plan.delete) = 1
                /\ \A u \in plan.delete : placeholderSliceCompare(existing[u], placeholder)
             THEN [plan EXCEPT !.delete = {}]
             ELSE [plan EXCEPT !.create = {placeholder}]

unchangedSlices(existing, plan) ==
    Restrict(existing, DOMAIN existing \ (DOMAIN plan.update \cup plan.delete))

hintsEnabled(svc) == svc.hints

Hinted(svc, existing, plan, cpus) ==
    UNION {{[create |-> h.create, update |-> h.update, delete |-> plan.delete, ezi |-> h.ezi] :
              h \in IF hintsEnabled(svc) THEN AddHints(si, cpus) ELSE {RemoveHintsFromSlices(si)}} :
                si \in {[create |-> plan.create, update |-> plan.update,
                         unchanged |-> unchangedSlices(existing, plan)]}}

\* The first loop of finalize: a slice to create takes the place of an owned one to delete.
ReuseDeleted(svc, existing, plan) ==
    LET owned == {u \in plan.delete : ownedBy(existing[u], svc)}
        k     == Min({Cardinality(owned), Cardinality(plan.create)})
    IN  {[create |-> plan.create \ Range(f), delete |-> plan.delete \ DOMAIN f, ezi |-> plan.ezi,
          update |-> [u \in DOMAIN plan.update \cup DOMAIN f |->
                        IF u \in DOMAIN f THEN f[u] ELSE plan.update[u]]] :
            f \in UNION {Injection(D, plan.create) : D \in kSubset(k, owned)}}

\* Every way the run may go on for one address type; ezi is what the topology cache keeps.
reconcileByAddressType(svc, type, pods, nodes, existing, cpus) ==
    LET mapped == PortMappings(svc, type, pods, nodes, existing)
        placed == {WithPlaceholder(svc, type, existing, plan) : plan \in mapped}
        hinted == UNION {Hinted(svc, existing, plan, cpus) : plan \in placed}
    IN  UNION {ReuseDeleted(svc, existing, plan) : plan \in hinted}
=============================================================================
