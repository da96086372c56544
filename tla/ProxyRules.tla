------------------------------ MODULE ProxyRules ------------------------------
(* What the node proxy computes from the ServiceImports and EndpointSlices   *)
(* it watches: the service ports of an import and the endpoints of a set of  *)
(* slices (package pkg/proxy).  Both maps of the proxy are kept here by      *)
(* service: the Go maps are keyed by a ServicePortName, which is a service,  *)
(* the index of a port and a protocol; the entries of one service are a      *)
(* function from <<index, protocol>>.                                        *)
EXTENDS Integers, FiniteSets, Sequences

CONSTANTS
    Service,     \* the ServiceImports, by namespace and name
    Slice,       \* the EndpointSlices, by namespace and name
    ServiceOf,   \* Slice -> Service, by the two fleetboard labels of the slice
    KeyOf,       \* Slice -> tracker, by its namespace and discovery service-name label
    NoObject,    \* no such object
    NoIP         \* the address of an import that has none yet

Empty == [p \in {} |-> NoObject]

TrackerKey == {KeyOf[x] : x \in Slice}

-----------------------------------------------------------------------------
(* A ServiceImport is [ip, ports], its ports in the order of the spec.  A    *)
(* port is named by its index (service_import.go:322).                       *)
serviceImportToServiceMap(si) ==
    IF si = NoObject THEN Empty
    ELSE IF si.ip = NoIP THEN Empty
    ELSE LET Named(i) == <<i - 1, si.ports[i].proto>>
             Index(p) == CHOOSE i \in 1..Len(si.ports) : Named(i) = p
         IN  [p \in {Named(i) : i \in 1..Len(si.ports)} |->
                 [ip |-> si.ip, port |-> si.ports[Index(p)].port, proto |-> p[2],
                  name |-> si.ports[Index(p)].name]]

-----------------------------------------------------------------------------
(* An EndpointSlice is [ports, eps].  Its ports are sorted by number before  *)
(* they get their index; Go sorts so few ports by insertion, which keeps the *)
(* order of equal numbers.                                                   *)
byPort(ports) ==
    LET Place(i) == Cardinality({j \in 1..Len(ports) :
                        \/ ports[j].num < ports[i].num
                        \/ ports[j].num = ports[i].num /\ j <= i})
    IN  [k \in 1..Len(ports) |-> ports[CHOOSE i \in 1..Len(ports) : Place(i) = k]]

newEndpointSliceInfo(slice, remove) ==
    [remove |-> remove, ports |-> byPort(slice.ports),
     eps |-> IF remove THEN {} ELSE slice.eps]

(* The endpoint objects addEndpoints builds for one port: an endpoint of the *)
(* other family or without an address, and a port without a number, are      *)
(* skipped.  Two of them are one endpoint when their address and port agree. *)
FoundAt(infos, p, first) ==
    {[addr |-> c[3].addr, num |-> c[1].ports[c[2]].num, local |-> c[3].local,
      ready |-> c[3].ready, serving |-> c[3].serving, terminating |-> c[3].terminating] :
        c \in UNION {{<<info, i, e>> : i \in {j \in 1..Len(info.ports) :
                                                /\ info.ports[j].num # 0
                                                /\ <<j - first, info.ports[j].proto>> = p},
                                       e \in {e \in info.eps : e.family = "IPv4"}} :
                     info \in infos}}

FoundFromZero(infos, p) == FoundAt(infos, p, 0)

Found(infos, p) == FoundAt(infos, p, 1)

SameEndpoint(e, f) == e.addr = f.addr /\ e.num = f.num

(* Of two objects for one endpoint a local one is kept; otherwise the first  *)
(* one met, and slices are met in the order of a Go map, which is any.       *)
addEndpoints(found) ==
    {E \in SUBSET found :
        /\ \A f \in found : \E e \in E : SameEndpoint(e, f)
        /\ \A e, f \in E : SameEndpoint(e, f) => e = f
        /\ \A e \in E : e.local \/ \A f \in found : SameEndpoint(e, f) => ~f.local}

PortsIn(infos) ==
    UNION {{<<j - 1, info.ports[j].proto>> : j \in 1..Len(info.ports)} : info \in infos}

endpointInfoByServicePort(infos) == {p \in PortsIn(infos) : Found(infos, p) # {}}

(* The endpoints maps a set of slices may give: a port without endpoints is  *)
(* not in the map.                                                           *)
getEndpointsMap(infos) ==
    LET ports == endpointInfoByServicePort(infos)
    IN  {m \in [ports -> UNION {addEndpoints(Found(infos, p)) : p \in ports}] :
            \A p \in ports : m[p] \in addEndpoints(Found(infos, p))}

-----------------------------------------------------------------------------
(* The endpoints a virtual server balances over.  No field of a ServiceImport *)
(* sets a traffic policy or the hints annotation (service_import.go:157), so *)
(* the cluster endpoints are used, without topology: the ready ones, or the  *)
(* serving ones that terminate when there are none.                          *)
CategorizeEndpoints(eps) ==
    LET ready == {e \in eps : e.ready}
    IN  IF ready # {} THEN ready ELSE {e \in eps : e.serving /\ e.terminating}
=============================================================================
