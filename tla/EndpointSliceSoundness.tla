------------------------ MODULE EndpointSliceSoundness -------------------------
(***************************************************************************)
(* What a plan of the EndpointSlice reconciler has to be, whatever order   *)
(* its maps are iterated in.                                               *)
(***************************************************************************)
EXTENDS EndpointSliceReconciler

Hashes(eps) == {hashEndpoint(e) : e \in eps}

Keys(s) == Hashes(s.eps)

\* No endpoint is in both of two slices with the same ports.
Disjoint(x, y) == x.ports = y.ports => Keys(x) \cap Keys(y) = {}

IsEndpoint(e) == {"pod", "addr"} \subseteq DOMAIN e

Fits(eps) == IsFiniteSet(eps) /\ Cardinality(eps) <= MaxEndpoints

\* A slice of the Service sv for an address type, as a plan writes it.
Item(sv, type, s) ==
    /\ DOMAIN s = SliceFields /\ Fits(s.eps) /\ \A e \in s.eps : IsEndpoint(e)
    /\ s.owner = sv.uid /\ s.type = type /\ s.dying = FALSE

\* A plan for the slices Y of one address type: every slice it writes belongs to the
\* Service, and it does not add an endpoint that another slice of the Service holds, or
\* is given. Two slices of Y may share one only if they did before.
Sound(sv, type, Y, create, update) ==
    /\ \A c \in create : Item(sv, type, c)
    /\ \A u \in DOMAIN update : u \in DOMAIN Y /\ ownedBy(Y[u], sv) /\ Item(sv, type, update[u])
    /\ \A c, d \in create : c # d => Disjoint(c, d)
    /\ \A c \in create : \A u \in DOMAIN update : Disjoint(c, update[u])
    /\ \A c \in create : \A v \in DOMAIN Y : ownedBy(Y[v], sv) => Disjoint(c, Y[v])
    /\ \A u \in DOMAIN update, v \in DOMAIN Y :
         u # v /\ ownedBy(Y[v], sv) /\ Disjoint(Y[u], Y[v]) => Disjoint(update[u], Y[v])
    /\ \A u, v \in DOMAIN update :
         u # v /\ Disjoint(Y[u], Y[v]) => Disjoint(update[u], update[v])

\* What the topology cache knows of the zones: nothing, or some (SetNodes).
ZonesKnown(cpus) == cpus = << >> \/ Cardinality(DOMAIN cpus) \in Nat \ {0}
=============================================================================
