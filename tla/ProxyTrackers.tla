----------------------------- MODULE ProxyTrackers -----------------------------
(* The change trackers of the node proxy: the handlers record what changed    *)
(* since the last synchronisation, and a synchronisation applies the recorded *)
(* changes to the maps (pkg/proxy/service_import.go, endpointslicecache.go,  *)
(* endpoints.go).  Handlers run in the goroutines of two informers, under    *)
(* the lock of the tracker only; a synchronisation takes the lock of each    *)
(* tracker in turn.                                                          *)
EXTENDS ProxyRules

CONSTANTS
    Imports,       \* the ServiceImport objects there may be
    SliceObjects   \* the EndpointSlice objects there may be

ASSUME ObjectsAssumption ==
    /\ NoObject \notin SliceObjects
    /\ \A slice \in SliceObjects :
          /\ Len(slice.ports) \in Nat
          /\ \A i \in 1..Len(slice.ports) : slice.ports[i].num \in Nat
    /\ \A si \in Imports : Len(si.ports) \in Nat
    /\ \A slice \in SliceObjects, b \in BOOLEAN : newEndpointSliceInfo(slice, b) # NoObject
    /\ \A si, other \in Imports \cup {NoObject} :
          [previous |-> serviceImportToServiceMap(si),
           current |-> serviceImportToServiceMap(other)] # NoObject

VARIABLES
    imports,       \* the ServiceImports the handlers have been told of
    slices,        \* the EndpointSlices the handlers have been told of
    items,         \* ServiceImportChangeTracker: [previous, current] by service
    applied,       \* EndpointSliceCache: the slices the maps contain
    pending,       \* EndpointSliceCache: the slices that changed since
    svcPortMap,    \* service ports, by service
    endpointsMap   \* endpoints of the service ports, by service

trackerVars == <<imports, slices, items, applied, pending, svcPortMap, endpointsMap>>

TrackerInit ==
    /\ imports = [s \in Service |-> NoObject]
    /\ slices = [x \in Slice |-> NoObject]
    /\ items = [s \in Service |-> NoObject]
    /\ applied = [x \in Slice |-> NoObject]
    /\ pending = [x \in Slice |-> NoObject]
    /\ svcPortMap = [s \in Service |-> Empty]
    /\ endpointsMap = [s \in Service |-> Empty]

-----------------------------------------------------------------------------
(* ServiceImportChangeTracker.Update: the first change since a               *)
(* synchronisation remembers what there was before it.  It answers whether   *)
(* anything is to be synchronised.                                           *)
UpdateItem(s, current) ==
    LET before == IF items[s] # NoObject THEN items[s].previous
                  ELSE serviceImportToServiceMap(imports[s])
        after  == serviceImportToServiceMap(current)
    IN  IF before = after THEN NoObject ELSE [previous |-> before, current |-> after]

OnServiceImport(s, current) ==
    /\ imports' = [imports EXCEPT ![s] = current]
    /\ items' = [items EXCEPT ![s] = UpdateItem(s, current)]
    /\ UNCHANGED <<slices, applied, pending, svcPortMap, endpointsMap>>

(* EndpointSliceCache.updatePending *)
esInfoChangedApplied(x, info) ==
    IF applied[x] # NoObject THEN info # applied[x] ELSE ~info.remove

esInfoChanged(x, info) ==
    IF pending[x] # NoObject THEN info # pending[x]
    ELSE IF applied[x] # NoObject THEN info # applied[x]
    ELSE ~info.remove

updatePending(x, info) ==
    IF esInfoChanged(x, info) THEN [pending EXCEPT ![x] = info] ELSE pending

(* The last object is what a deletion is told with *)
OnEndpointSlice(x, current) ==
    /\ slices[x] # NoObject \/ current # NoObject
    /\ slices' = [slices EXCEPT ![x] = current]
    /\ pending' = updatePending(x, IF current = NoObject
                                   THEN newEndpointSliceInfo(slices[x], TRUE)
                                   ELSE newEndpointSliceInfo(current, FALSE))
    /\ UNCHANGED <<imports, items, applied, svcPortMap, endpointsMap>>

-----------------------------------------------------------------------------
(* ServicePortMap.Update *)
mergePorts(ports, other) ==
    [p \in DOMAIN ports \cup DOMAIN other |-> IF p \in DOMAIN other THEN other[p] ELSE ports[p]]

filterPorts(ports, other) == [p \in DOMAIN ports \ DOMAIN other |-> ports[p]]

unmergePorts(ports, other) == [p \in DOMAIN ports \ DOMAIN other |-> ports[p]]

UpdatePorts(ports, item) ==
    IF item = NoObject THEN ports
    ELSE unmergePorts(mergePorts(ports, item.current), filterPorts(item.previous, item.current))

SyncServices ==
    /\ svcPortMap' = [s \in Service |-> UpdatePorts(svcPortMap[s], items[s])]
    /\ items' = [s \in Service |-> NoObject]
    /\ UNCHANGED <<imports, slices, applied, pending, endpointsMap>>

-----------------------------------------------------------------------------
(* EndpointSliceCache.checkoutChanges *)
CheckoutKept(x) == IF pending[x] = NoObject THEN applied[x] ELSE pending[x]

Checkout(x) ==
    IF pending[x] = NoObject THEN applied[x]
    ELSE IF pending[x].remove THEN NoObject ELSE pending[x]

ChangedKeys == {KeyOf[x] : x \in {y \in Slice : pending[y] # NoObject}}

Infos(contents, k, s) ==
    {contents[x] : x \in {y \in Slice : KeyOf[y] = k /\ ServiceOf[y] = s /\ contents[y] # NoObject}}

(* Each change takes out the ports its tracker had (unmerge) and puts in     *)
(* those it has now (merge); neither looks at what another tracker put there. *)
(* The changes come in the order of a Go map, so what is left of a port is   *)
(* up to the last tracker that touches it.                                   *)
Orders(keys) ==
    {o \in [keys -> 1..Cardinality(keys)] : \A j, k \in keys : o[j] = o[k] => j = k}

Merged(m, order, had, current) ==
    LET Touch(p) == {k \in DOMAIN order : p \in had[k] \cup DOMAIN current[k]}
        Last(p)  == CHOOSE k \in Touch(p) : \A j \in Touch(p) : order[j] <= order[k]
        ports    == {p \in DOMAIN m \cup UNION {DOMAIN current[k] : k \in DOMAIN order} :
                        Touch(p) # {} => p \in DOMAIN current[Last(p)]}
    IN  [p \in ports |-> IF Touch(p) = {} THEN m[p] ELSE current[Last(p)][p]]

(* The maps the trackers of a service may give it *)
Current(s, keys, after) ==
    {c \in [keys -> UNION {getEndpointsMap(Infos(after, k, s)) : k \in keys}] :
        \A k \in keys : c[k] \in getEndpointsMap(Infos(after, k, s))}

UpdateEndpoints(s, order, after) ==
    LET had == [k \in DOMAIN order |-> endpointInfoByServicePort(Infos(applied, k, s))]
    IN  {Merged(endpointsMap[s], order, had, c) : c \in Current(s, DOMAIN order, after)}

(* EndpointsMap.Update *)
SyncEndpoints ==
    /\ applied' = [x \in Slice |-> Checkout(x)]
    /\ pending' = [x \in Slice |-> NoObject]
    /\ \E order \in Orders(ChangedKeys) :
           endpointsMap' \in {m \in [Service -> UNION {UpdateEndpoints(s, order, applied') : s \in Service}] :
                                 \A s \in Service : m[s] \in UpdateEndpoints(s, order, applied')}
    /\ UNCHANGED <<imports, slices, items, svcPortMap>>

(* The process starts again: what it had in memory is gone *)
TrackersRestart ==
    /\ imports' = [s \in Service |-> NoObject]
    /\ slices' = [x \in Slice |-> NoObject]
    /\ items' = [s \in Service |-> NoObject]
    /\ applied' = [x \in Slice |-> NoObject]
    /\ pending' = [x \in Slice |-> NoObject]
    /\ svcPortMap' = [s \in Service |-> Empty]
    /\ endpointsMap' = [s \in Service |-> Empty]

-----------------------------------------------------------------------------
TrackerNext ==
    \/ \E s \in Service, si \in Imports \cup {NoObject} : OnServiceImport(s, si)
    \/ \E x \in Slice, slice \in SliceObjects \cup {NoObject} : OnEndpointSlice(x, slice)
    \/ SyncServices
    \/ SyncEndpoints
    \/ TrackersRestart

TrackerSpec == TrackerInit /\ [][TrackerNext]_trackerVars

-----------------------------------------------------------------------------
(* The state is that of the two trackers and the two maps. *)
TypeOK ==
    /\ imports \in [Service -> Imports \cup {NoObject}]
    /\ slices \in [Slice -> SliceObjects \cup {NoObject}]
    /\ \A s \in Service : items[s] = NoObject \/ DOMAIN items[s] = {"previous", "current"}
    /\ \A x \in Slice : applied[x] # NoObject => ~applied[x].remove
    /\ DOMAIN items = Service /\ DOMAIN svcPortMap = Service /\ DOMAIN endpointsMap = Service
    /\ DOMAIN applied = Slice /\ DOMAIN pending = Slice

View == INSTANCE ProxyView WITH imports <- imports, slices <- slices,
                                svcPortMap <- svcPortMap, endpointsMap <- endpointsMap

(* Applying the recorded changes to the maps is the same as computing both   *)
(* maps anew from everything delivered: no change is lost, applied twice or  *)
(* applied to what another change left (EndpointsMap.Update,                 *)
(* ServicePortMap.Update).                                                   *)
ImplementsView == View!Spec

(* Every endpoint of every slice that was applied is in the endpoints map of *)
(* the service the slice belongs to ("Merge ensures that the current         *)
(* EndpointsMap contains all <service, endpoints> pairs from the             *)
(* EndpointsMap passed in", endpoints.go:356).                               *)
EndpointsMerged ==
    \A x \in Slice : applied[x] # NoObject =>
        \A p \in endpointInfoByServicePort({applied[x]}) :
            /\ p \in DOMAIN endpointsMap[ServiceOf[x]]
            /\ \A f \in Found({applied[x]}, p) :
                   \E e \in endpointsMap[ServiceOf[x]][p] : SameEndpoint(e, f)

(* The ports of the slices of a service, as the proxy numbers them, are the  *)
(* ports of its import in the order of the spec.                             *)
Aligned(s) ==
    \A x \in Slice : ServiceOf[x] = s /\ slices[x] # NoObject =>
        LET ports == byPort(slices[x].ports)
        IN  /\ Len(ports) = Len(imports[s].ports)
            /\ \A i \in 1..Len(ports) : ports[i].name = imports[s].ports[i].name

(* When nothing is waiting to be applied, a service port is balanced over    *)
(* endpoints of the port of the same name, provided the numbers of the       *)
(* target ports are in the order of the service ports: the proxy pairs them  *)
(* by index ("use the port index as the port name to mapping the service     *)
(* port to endpoint", service_import.go:322), one side sorted, the other not. *)
PortsMatched ==
    \A s \in Service :
        /\ items[s] = NoObject
        /\ \A x \in Slice : pending[x] = NoObject
        /\ imports[s] # NoObject
        /\ imports[s] # NoObject => Aligned(s)
        => \A p \in DOMAIN svcPortMap[s] \cap DOMAIN endpointsMap[s] :
               \A e \in endpointsMap[s][p] :
                   \E x \in Slice : /\ ServiceOf[x] = s /\ slices[x] # NoObject
                                    /\ \E j \in 1..Len(slices[x].ports) :
                                           /\ slices[x].ports[j].name = svcPortMap[s][p].name
                                           /\ slices[x].ports[j].num = e.num
=============================================================================
