----------------------------- MODULE ProxierProofs -----------------------------
(***************************************************************************)
(* The change trackers of the proxy implement ProxyView, for all services, *)
(* slices and objects, provided that the slices of one service have one    *)
(* tracker key.  (With several keys they do not: run proxy_clusters.)       *)
(*                                                                         *)
(* The inductive invariant says what the trackers and the maps together    *)
(* stand for: pending over applied is what was delivered, an item leads    *)
(* from the applied ports to the delivered ones, and the endpoints of a    *)
(* service are those of its applied slices.                                *)
(*                                                                         *)
(* The proxier drives the change trackers as ProxyTrackers says, so its    *)
(* maps are those of ProxyView; it never cuts a connection that drains,    *)
(* and its timer only takes away what drains.                              *)
(*                                                                         *)
(* The last of these needs an inductive invariant of its own: an entry of  *)
(* the termination list stands for a real server of the kernel, unless its *)
(* virtual server went or it is just between being taken out of the kernel *)
(* and being added again; and while the endpoints of a virtual server are  *)
(* synchronised, it is there.                                              *)
(***************************************************************************)
EXTENDS Proxier, FiniteSetTheorems, TLAPS

\* The slices of a service come from one cluster and namespace.
OneKeyPerService ==
    \A x, y \in Slice : ServiceOf[x] = ServiceOf[y] => KeyOf[x] = KeyOf[y]

Delivered(x) ==
    IF slices[x] = NoObject THEN NoObject ELSE newEndpointSliceInfo(slices[x], FALSE)

DeliveredPorts(s) == serviceImportToServiceMap(imports[s])

AppliedInfos(s) ==
    {applied[x] : x \in {y \in Slice : ServiceOf[y] = s /\ applied[y] # NoObject}}

Shapes ==
    /\ imports \in [Service -> Imports \cup {NoObject}]
    /\ slices \in [Slice -> SliceObjects \cup {NoObject}]
    /\ DOMAIN items = Service /\ DOMAIN svcPortMap = Service /\ DOMAIN endpointsMap = Service
    /\ DOMAIN applied = Slice /\ DOMAIN pending = Slice

SlicesTracked ==
    \A x \in Slice :
        /\ Checkout(x) = Delivered(x)
        /\ applied[x] # NoObject => ~applied[x].remove

ItemTracked(s) ==
    IF items[s] = NoObject
    THEN svcPortMap[s] = DeliveredPorts(s)
    ELSE /\ items[s] = [previous |-> svcPortMap[s], current |-> DeliveredPorts(s)]
         /\ \E si \in Imports \cup {NoObject} : svcPortMap[s] = serviceImportToServiceMap(si)

EndpointsTracked == \A s \in Service : endpointsMap[s] \in getEndpointsMap(AppliedInfos(s))

Tracked ==
    /\ Shapes
    /\ SlicesTracked
    /\ \A s \in Service : ItemTracked(s)

Inv == Tracked /\ EndpointsTracked

-----------------------------------------------------------------------------
(* The port map of an import is a function. *)
LEMMA PortMapIsFunction ==
    ASSUME NEW si
    PROVE  serviceImportToServiceMap(si) =
               [p \in DOMAIN serviceImportToServiceMap(si) |-> serviceImportToServiceMap(si)[p]]
BY Zenon DEF serviceImportToServiceMap, Empty

(* An item applied to the ports it begins with gives those it ends with. *)
LEMMA ItemApplied ==
    ASSUME NEW ports, NEW si
    PROVE  LET cur == serviceImportToServiceMap(si)
           IN  unmergePorts(mergePorts(ports, cur), filterPorts(ports, cur)) = cur
<1> DEFINE cur == serviceImportToServiceMap(si)
           merged == mergePorts(ports, cur)
           filtered == filterPorts(ports, cur)
<1>1. DOMAIN merged = DOMAIN ports \cup DOMAIN cur
  BY Zenon DEF mergePorts
<1>2. DOMAIN filtered = DOMAIN ports \ DOMAIN cur
  BY Zenon DEF filterPorts
<1>3. DOMAIN merged \ DOMAIN filtered = DOMAIN cur
  BY <1>1, <1>2, Zenon
<1>4. \A p \in DOMAIN cur : merged[p] = cur[p]
  BY Zenon DEF mergePorts
<1>5. unmergePorts(merged, filtered) = [p \in DOMAIN cur |-> cur[p]]
  BY <1>3, <1>4, Zenon DEF unmergePorts
<1>6. cur = [p \in DOMAIN cur |-> cur[p]]
  BY PortMapIsFunction, Zenon
<1> QED
  BY <1>5, <1>6, Zenon

(* What getEndpointsMap promises about the shape of its maps. *)
LEMMA EndpointsMapShape ==
    ASSUME NEW infos, NEW m \in getEndpointsMap(infos)
    PROVE  /\ DOMAIN m = endpointInfoByServicePort(infos)
           /\ m = [p \in DOMAIN m |-> m[p]]
BY Zenon DEF getEndpointsMap

(* No slices, no ports. *)
LEMMA NoInfosNoPorts == endpointInfoByServicePort({}) = {}
BY Zenon DEF endpointInfoByServicePort, PortsIn

-----------------------------------------------------------------------------
(* A tracker without slices of s has no part in what becomes of its ports,   *)
(* and a port touched by one tracker becomes what that tracker says.         *)
LEMMA MergedByOne ==
    ASSUME NEW m, NEW order, NEW had, NEW current, NEW k \in DOMAIN order,
           m = [p \in DOMAIN m |-> m[p]],
           current[k] = [p \in DOMAIN current[k] |-> current[k][p]],
           DOMAIN m = had[k],
           \A j \in DOMAIN order \ {k} : had[j] = {} /\ DOMAIN current[j] = {},
           order[k] \in Int
    PROVE  Merged(m, order, had, current) = current[k]
<1> DEFINE Touch(p) == {j \in DOMAIN order : p \in had[j] \cup DOMAIN current[j]}
           Last(p) == CHOOSE j \in Touch(p) : \A i \in Touch(p) : order[i] <= order[j]
           ports == {p \in DOMAIN m \cup UNION {DOMAIN current[j] : j \in DOMAIN order} :
                        Touch(p) # {} => p \in DOMAIN current[Last(p)]}
<1>1. \A p : Touch(p) \subseteq {k}
  BY Zenon
<1>2. ASSUME NEW p, Touch(p) # {} PROVE Last(p) = k
  <2>1. Touch(p) = {k}
    BY <1>1, <1>2, Zenon
  <2>2. k \in Touch(p) /\ \A i \in Touch(p) : order[i] <= order[k]
    BY <2>1
  <2>3. Last(p) \in Touch(p)
    BY <2>2, Zenon
  <2> QED
    BY <2>1, <2>3, Zenon
<1>3. \A p \in DOMAIN m \cup UNION {DOMAIN current[j] : j \in DOMAIN order} : k \in Touch(p)
  BY Zenon
<1>4. ports = DOMAIN current[k]
  BY <1>2, <1>3
<1>5. \A p \in ports : Touch(p) # {} /\ Last(p) = k
  BY <1>2, <1>3, Zenon
<1>6. Merged(m, order, had, current) =
          [p \in ports |-> IF Touch(p) = {} THEN m[p] ELSE current[Last(p)][p]]
  BY Zenon DEF Merged
<1>7. Merged(m, order, had, current) = [p \in DOMAIN current[k] |-> current[k][p]]
  <2> HIDE DEF Touch, Last, ports
  <2>1. [p \in ports |-> IF Touch(p) = {} THEN m[p] ELSE current[Last(p)][p]] =
            [p \in ports |-> current[k][p]]
    BY <1>5, Zenon
  <2> QED
    BY <1>4, <1>6, <2>1, Zenon
<1> QED
  BY <1>7, Zenon

(* A service none of whose trackers changed keeps its endpoints. *)
LEMMA MergedByNone ==
    ASSUME NEW m, NEW order, NEW had, NEW current,
           m = [p \in DOMAIN m |-> m[p]],
           \A j \in DOMAIN order : had[j] = {} /\ DOMAIN current[j] = {}
    PROVE  Merged(m, order, had, current) = m
<1> DEFINE Touch(p) == {j \in DOMAIN order : p \in had[j] \cup DOMAIN current[j]}
           Last(p) == CHOOSE j \in Touch(p) : \A i \in Touch(p) : order[i] <= order[j]
           ports == {p \in DOMAIN m \cup UNION {DOMAIN current[j] : j \in DOMAIN order} :
                        Touch(p) # {} => p \in DOMAIN current[Last(p)]}
<1>1. \A p : Touch(p) = {}
  BY Zenon
<1>2. UNION {DOMAIN current[j] : j \in DOMAIN order} = {}
  BY Zenon
<1>3. ports = DOMAIN m
  BY <1>1, <1>2
<1>4. Merged(m, order, had, current) =
          [p \in ports |-> IF Touch(p) = {} THEN m[p] ELSE current[Last(p)][p]]
  BY Zenon DEF Merged
<1> QED
  BY <1>1, <1>3, <1>4, Zenon

-----------------------------------------------------------------------------
(* A proxy that starts has heard of nothing and has empty maps. *)
LEMMA StartsTracked ==
    ASSUME imports = [s \in Service |-> NoObject], slices = [x \in Slice |-> NoObject],
           items = [s \in Service |-> NoObject], applied = [x \in Slice |-> NoObject],
           pending = [x \in Slice |-> NoObject], svcPortMap = [s \in Service |-> Empty],
           endpointsMap = [s \in Service |-> Empty]
    PROVE  Inv
<1>1. Shapes
  BY Zenon DEF Shapes
<1>2. SlicesTracked
  BY Zenon DEF SlicesTracked, Checkout, Delivered
<1>3. \A s \in Service : ItemTracked(s)
  BY Zenon DEF ItemTracked, DeliveredPorts, serviceImportToServiceMap
<1>4. EndpointsTracked
  <2>1. Empty \in getEndpointsMap({})
    BY NoInfosNoPorts, Zenon DEF getEndpointsMap, Empty
  <2>2. \A s \in Service : AppliedInfos(s) = {}
    BY Zenon DEF AppliedInfos
  <2> QED
    BY <2>1, <2>2, Zenon DEF EndpointsTracked
<1> QED
  BY <1>1, <1>2, <1>3, <1>4, Zenon DEF Inv, Tracked

(* ServiceImportChangeTracker.Update keeps the first map since the last      *)
(* synchronisation and the latest.                                           *)
LEMMA ServiceStep ==
    ASSUME Tracked, NEW s \in Service, NEW si \in Imports \cup {NoObject}, OnServiceImport(s, si)
    PROVE  Tracked'
<1> USE DEF OnServiceImport
<1>1. Shapes'
  BY Zenon DEF Tracked, Shapes
<1>2. SlicesTracked'
  BY Zenon DEF Tracked, SlicesTracked, Checkout, Delivered
<1>3. ASSUME NEW t \in Service PROVE ItemTracked(t)'
  <2>1. CASE t # s
    <3>1. items'[t] = items[t] /\ DeliveredPorts(t)' = DeliveredPorts(t) /\ svcPortMap' = svcPortMap
      BY <2>1, Zenon DEF Tracked, Shapes, DeliveredPorts
    <3> QED
      BY <3>1, Zenon DEF Tracked, ItemTracked
  <2>2. CASE t = s
    <3>1. DeliveredPorts(s)' = serviceImportToServiceMap(si) /\ svcPortMap' = svcPortMap
      BY Zenon DEF Tracked, Shapes, DeliveredPorts
    <3>2. items'[s] = UpdateItem(s, si)
      BY Zenon DEF Tracked, Shapes
    <3>3. /\ items[s] # NoObject => items[s].previous = svcPortMap[s]
          /\ items[s] = NoObject => serviceImportToServiceMap(imports[s]) = svcPortMap[s]
      <4>1. ItemTracked(s)
        BY Zenon DEF Tracked
      <4>2. items[s] # NoObject => items[s] = [previous |-> svcPortMap[s], current |-> DeliveredPorts(s)]
        BY <4>1, Zenon DEF ItemTracked
      <4>3. items[s] = NoObject => svcPortMap[s] = DeliveredPorts(s)
        BY <4>1, Zenon DEF ItemTracked
      <4> QED
        BY <4>2, <4>3 DEF DeliveredPorts
    <3>4. UpdateItem(s, si) =
              IF svcPortMap[s] = serviceImportToServiceMap(si) THEN NoObject
              ELSE [previous |-> svcPortMap[s], current |-> serviceImportToServiceMap(si)]
      BY <3>3, Zenon DEF UpdateItem
    <3>5. \E old \in Imports \cup {NoObject} : svcPortMap[s] = serviceImportToServiceMap(old)
      BY <3>3, Zenon DEF Tracked, ItemTracked, Shapes
    <3> QED
      BY <2>2, <3>1, <3>2, <3>4, <3>5, ObjectsAssumption, Zenon DEF ItemTracked
  <2> QED
    BY <2>1, <2>2, Zenon
<1> QED
  BY <1>1, <1>2, <1>3, Zenon DEF Tracked

(* EndpointSliceCache.updatePending keeps the latest object of a slice; one  *)
(* that is the same as what is pending or applied changes nothing.           *)
LEMMA SliceStep ==
    ASSUME Tracked, NEW x \in Slice, NEW slice \in SliceObjects \cup {NoObject},
           OnEndpointSlice(x, slice)
    PROVE  Tracked'
<1> DEFINE info == IF slice = NoObject THEN newEndpointSliceInfo(slices[x], TRUE)
                   ELSE newEndpointSliceInfo(slice, FALSE)
<1>1. /\ slices' = [slices EXCEPT ![x] = slice]
      /\ pending' = updatePending(x, info)
      /\ imports' = imports /\ items' = items /\ applied' = applied
      /\ svcPortMap' = svcPortMap /\ endpointsMap' = endpointsMap
      /\ slices[x] # NoObject \/ slice # NoObject
  BY Zenon DEF OnEndpointSlice
<1>2. Shapes'
  BY <1>1, Zenon DEF Tracked, Shapes, updatePending
<1>3. ASSUME NEW y \in Slice
      PROVE  Checkout(y)' = Delivered(y)' /\ (applied[y] # NoObject => ~applied[y].remove)'
  <2>1. (applied[y] # NoObject => ~applied[y].remove)'
    BY <1>1, Zenon DEF Tracked, SlicesTracked
  <2>2. CASE y # x
    <3>1. pending'[y] = pending[y] /\ slices'[y] = slices[y]
      BY <1>1, <2>2, Zenon DEF Tracked, Shapes, updatePending
    <3> QED
      BY <1>1, <2>1, <3>1, Zenon DEF Tracked, SlicesTracked, Checkout, Delivered
  <2>3. CASE y = x
    <3>1. info # NoObject /\ (info.remove <=> slice = NoObject)
      BY <1>1, ObjectsAssumption, Zenon DEF Tracked, Shapes, newEndpointSliceInfo
    <3>2. Delivered(x)' = IF slice = NoObject THEN NoObject ELSE info
      BY <1>1, Zenon DEF Tracked, Shapes, Delivered
    <3>3. pending'[x] = IF esInfoChanged(x, info) THEN info ELSE pending[x]
      BY <1>1, Zenon DEF Tracked, Shapes, updatePending
    <3>4. Checkout(x)' = IF pending'[x] = NoObject THEN applied[x]
                         ELSE IF pending'[x].remove THEN NoObject ELSE pending'[x]
      BY <1>1, Zenon DEF Checkout
    <3>5. applied[x] # NoObject => ~applied[x].remove
      BY Zenon DEF Tracked, SlicesTracked
    <3> HIDE DEF info
    <3>6. CASE esInfoChanged(x, info)
      BY <2>1, <2>3, <3>1, <3>2, <3>3, <3>4, <3>6, Zenon
    <3>7. CASE ~esInfoChanged(x, info)
      <4>1. CASE pending[x] # NoObject
        <5>1. pending[x] = info
          BY <3>7, <4>1, Zenon DEF esInfoChanged
        <5> QED
          BY <2>1, <2>3, <3>1, <3>2, <3>3, <3>4, <3>7, <5>1, Zenon
      <4>2. CASE pending[x] = NoObject /\ applied[x] # NoObject
        <5>1. applied[x] = info
          BY <3>7, <4>2, Zenon DEF esInfoChanged
        <5> QED
          BY <2>1, <2>3, <3>1, <3>2, <3>3, <3>4, <3>5, <3>7, <4>2, <5>1, Zenon
      <4>3. CASE pending[x] = NoObject /\ applied[x] = NoObject
        <5>1. info.remove
          BY <3>7, <4>3, Zenon DEF esInfoChanged
        <5> QED
          BY <2>1, <2>3, <3>1, <3>2, <3>3, <3>4, <3>7, <4>3, <5>1, Zenon
      <4> QED
        BY <4>1, <4>2, <4>3, Zenon
    <3> QED
      BY <3>6, <3>7, Zenon
  <2> QED
    BY <2>2, <2>3, Zenon
<1>4. SlicesTracked'
  BY <1>3, Zenon DEF SlicesTracked
<1>5. \A s \in Service : ItemTracked(s)'
  BY <1>1, Zenon DEF Tracked, ItemTracked, DeliveredPorts
<1> QED
  BY <1>2, <1>4, <1>5, Zenon DEF Tracked

-----------------------------------------------------------------------------
(* ServicePortMap.Update leaves the ports of the imports delivered. *)
LEMMA SyncServicesPorts ==
    ASSUME Tracked, SyncServices
    PROVE  svcPortMap' = [s \in Service |-> serviceImportToServiceMap(imports[s])]
<1>1. ASSUME NEW s \in Service PROVE UpdatePorts(svcPortMap[s], items[s]) = DeliveredPorts(s)
  <2>1. ItemTracked(s)
    BY Zenon DEF Tracked
  <2>2. CASE items[s] = NoObject
    BY <2>1, <2>2, Zenon DEF ItemTracked, UpdatePorts
  <2>3. CASE items[s] # NoObject
    <3>1. items[s].previous = svcPortMap[s] /\ items[s].current = DeliveredPorts(s)
      BY <2>1, <2>3 DEF ItemTracked
    <3>2. UpdatePorts(svcPortMap[s], items[s]) =
              unmergePorts(mergePorts(svcPortMap[s], DeliveredPorts(s)),
                           filterPorts(svcPortMap[s], DeliveredPorts(s)))
      BY <2>3, <3>1, Zenon DEF UpdatePorts
    <3> QED
      BY <3>2, ItemApplied, Zenon DEF DeliveredPorts
  <2> QED
    BY <2>2, <2>3, Zenon
<1> QED
  BY <1>1, Zenon DEF SyncServices, DeliveredPorts

(* After ServicePortMap.Update no import is left to apply. *)
LEMMA SyncServicesStep ==
    ASSUME Tracked, SyncServices
    PROVE  Tracked'
<1> USE DEF SyncServices
<1>1. Shapes'
  BY Zenon DEF Tracked, Shapes
<1>2. SlicesTracked'
  BY Zenon DEF Tracked, SlicesTracked, Checkout, Delivered
<1>3. \A s \in Service : ItemTracked(s)'
  BY SyncServicesPorts, Zenon DEF ItemTracked, DeliveredPorts
<1> QED
  BY <1>1, <1>2, <1>3, Zenon DEF Tracked

(* EndpointsMap.Update leaves the endpoints of the slices applied, as long   *)
(* as one tracker holds all the slices of a service: what another tracker    *)
(* takes out or puts in is of other services.                                *)
LEMMA SyncEndpointsMap ==
    ASSUME OneKeyPerService, Inv, SyncEndpoints, NEW s \in Service
    PROVE  endpointsMap'[s] \in getEndpointsMap(AppliedInfos(s)')
<1>1. applied' = [x \in Slice |-> Checkout(x)]
  BY Zenon DEF SyncEndpoints
<1>2. PICK order \in Orders(ChangedKeys) : endpointsMap'[s] \in UpdateEndpoints(s, order, applied')
  BY Zenon DEF SyncEndpoints
<1>3. DOMAIN order = ChangedKeys /\ \A k \in ChangedKeys : order[k] \in Int
  BY DEF Orders
<1> DEFINE had == [k \in DOMAIN order |-> endpointInfoByServicePort(Infos(applied, k, s))]
           m == endpointsMap[s]
<1>4. PICK c \in Current(s, DOMAIN order, applied') :
          endpointsMap'[s] = Merged(m, order, had, c)
  BY <1>2, Zenon DEF UpdateEndpoints
<1>5. \A k \in DOMAIN order : c[k] \in getEndpointsMap(Infos(applied', k, s))
  BY <1>4, Zenon DEF Current
<1>6. m \in getEndpointsMap(AppliedInfos(s))
  BY Zenon DEF Inv, EndpointsTracked
<1>7. m = [p \in DOMAIN m |-> m[p]] /\ DOMAIN m = endpointInfoByServicePort(AppliedInfos(s))
  BY <1>6, EndpointsMapShape, Zenon
<1>8. ASSUME NEW k \in DOMAIN order,
             \A y \in Slice : ServiceOf[y] = s => KeyOf[y] # k
      PROVE  had[k] = {} /\ DOMAIN c[k] = {}
  <2>1. Infos(applied, k, s) = {} /\ Infos(applied', k, s) = {}
    BY <1>8, Zenon DEF Infos
  <2>2. had[k] = {}
    BY <2>1, NoInfosNoPorts, Zenon
  <2>3. c[k] \in getEndpointsMap({})
    BY <1>5, <2>1, Zenon
  <2>4. DOMAIN c[k] = {}
    BY <2>3, EndpointsMapShape, NoInfosNoPorts, Zenon
  <2> QED
    BY <2>2, <2>4, Zenon
<1>9. CASE \E x \in Slice : ServiceOf[x] = s /\ KeyOf[x] \in DOMAIN order
  <2>1. PICK x \in Slice : ServiceOf[x] = s /\ KeyOf[x] \in DOMAIN order
    BY <1>9, Zenon
  <2> DEFINE k == KeyOf[x]
  <2>2. \A y \in Slice : ServiceOf[y] = s => KeyOf[y] = k
    BY <2>1, Zenon DEF OneKeyPerService
  <2>3. Infos(applied, k, s) = AppliedInfos(s)
    BY <2>2, Zenon DEF Infos, AppliedInfos
  <2>4. Infos(applied', k, s) = AppliedInfos(s)'
    BY <2>2, Zenon DEF Infos, AppliedInfos
  <2>5. c[k] \in getEndpointsMap(AppliedInfos(s)')
    BY <1>5, <2>1, <2>4, Zenon
  <2>6. c[k] = [p \in DOMAIN c[k] |-> c[k][p]]
    BY <2>5, EndpointsMapShape, Zenon
  <2>7. DOMAIN m = had[k]
    BY <1>7, <2>1, <2>3, Zenon
  <2>8. \A j \in DOMAIN order \ {k} : had[j] = {} /\ DOMAIN c[j] = {}
    BY <1>8, <2>2, Zenon
  <2>9. k \in DOMAIN order /\ order[k] \in Int
    BY <1>3, <2>1, Zenon
  <2>10. Merged(m, order, had, c) = c[k]
    <3> HIDE DEF m, had, k
    <3> QED
      BY <1>7, <2>6, <2>7, <2>8, <2>9, MergedByOne
  <2> QED
    BY <1>4, <2>5, <2>10, Zenon
<1>10. CASE \A x \in Slice : ServiceOf[x] = s => KeyOf[x] \notin DOMAIN order
  <2>1. \A j \in DOMAIN order : had[j] = {} /\ DOMAIN c[j] = {}
    BY <1>8, <1>10
  <2>2. Merged(m, order, had, c) = m
    <3> HIDE DEF m, had
    <3> QED
      BY <1>7, <2>1, MergedByNone
  <2>3. ASSUME NEW x \in Slice, ServiceOf[x] = s PROVE applied'[x] = applied[x]
    <3>1. pending[x] = NoObject
      BY <1>3, <1>10, <2>3, Zenon DEF ChangedKeys
    <3> QED
      BY <1>1, <3>1, Zenon DEF Checkout
  <2>4. AppliedInfos(s)' = AppliedInfos(s)
    BY <2>3, Zenon DEF AppliedInfos
  <2> QED
    BY <1>4, <1>6, <2>2, <2>4, Zenon
<1> QED
  BY <1>9, <1>10, Zenon

(* After EndpointsMap.Update no slice is left to apply. *)
LEMMA SyncEndpointsStep ==
    ASSUME Tracked, SyncEndpoints
    PROVE  Tracked'
<1> USE DEF SyncEndpoints
<1>1. Shapes'
  BY Zenon DEF Tracked, Shapes
<1>2. SlicesTracked'
  BY Zenon DEF Tracked, SlicesTracked, Checkout, Delivered
<1>3. \A s \in Service : ItemTracked(s)'
  BY Zenon DEF Tracked, ItemTracked, DeliveredPorts
<1> QED
  BY <1>1, <1>2, <1>3, Zenon DEF Tracked

-----------------------------------------------------------------------------
(* Sorting the ports of a slice loses none: each sorted port is one of them. *)
LEMMA SortedPort ==
    ASSUME NEW ports, Len(ports) \in Nat, \A i \in 1..Len(ports) : ports[i].num \in Nat,
           NEW k \in 1..Len(ports)
    PROVE  \E i \in 1..Len(ports) : byPort(ports)[k] = ports[i]
<1> DEFINE n == Len(ports)
           num(i) == ports[i].num
           Before(i) == {j \in 1..n : num(j) < num(i) \/ (num(j) = num(i) /\ j <= i)}
           place == [i \in 1..n |-> Cardinality(Before(i))]
<1>1. n \in Nat /\ \A i \in 1..n : num(i) \in Nat
  BY Zenon
<1>2. byPort(ports)[k] = ports[CHOOSE i \in 1..n : Cardinality(Before(i)) = k]
  BY Zenon DEF byPort
<1> HIDE DEF n, num
<1>3. IsFiniteSet(1..n) /\ Cardinality(1..n) = n
  <2>1. 1 \in Int /\ n \in Int
    BY <1>1
  <2>2. IsFiniteSet(1..n) /\ Cardinality(1..n) = IF 1 > n THEN 0 ELSE n - 1 + 1
    BY ONLY <2>1, FS_Interval, Zenon
  <2> QED
    BY <1>1, <2>2
<1>4. ASSUME NEW i \in 1..n
      PROVE  /\ i \in Before(i) /\ Before(i) \in SUBSET (1..n) /\ IsFiniteSet(Before(i))
             /\ Cardinality(Before(i)) \in 1..n
  <2>1. i \in Before(i) /\ Before(i) \in SUBSET (1..n)
    BY <1>1
  <2> HIDE DEF Before
  <2>2. IsFiniteSet(Before(i)) /\ Cardinality(Before(i)) <= n
    BY <1>3, <2>1, FS_Subset, Zenon
  <2>3. Cardinality(Before(i)) \in Nat
    BY <2>2, FS_CardinalityType, Zenon
  <2>4. Cardinality(Before(i)) # 0
    BY <2>1, <2>2, FS_EmptySet, Zenon
  <2> QED
    BY <1>1, <2>1, <2>2, <2>3, <2>4
<1>5. place \in [1..n -> 1..n]
  BY <1>4, Zenon
<1>6. ASSUME NEW i \in 1..n, NEW j \in 1..n, num(i) < num(j) \/ (num(i) = num(j) /\ i < j)
      PROVE  place[i] # place[j]
  <2>1. Before(i) \in SUBSET Before(j)
    BY <1>1, <1>6
  <2>2. j \notin Before(i)
    BY <1>1, <1>6
  <2>3. j \in Before(j) /\ IsFiniteSet(Before(j))
    BY <1>4, Zenon
  <2> HIDE DEF Before
  <2>4. Cardinality(Before(j)) # Cardinality(Before(i))
    BY <2>1, <2>2, <2>3, FS_Subset, Zenon
  <2> QED
    BY <2>4, Zenon
<1>7. ASSUME NEW i \in 1..n, NEW j \in 1..n, i # j PROVE place[i] # place[j]
  <2>1. \/ num(i) < num(j) \/ (num(i) = num(j) /\ i < j)
        \/ num(j) < num(i) \/ (num(j) = num(i) /\ j < i)
    BY <1>1, <1>7
  <2> HIDE DEF place
  <2> QED
    BY <1>6, <2>1, Zenon
<1>8. place \in Injection(1..n, 1..n)
  <2> HIDE DEF place
  <2> QED
    BY <1>5, <1>7, Zenon DEF Injection, IsInjective
<1>9. place \in Surjection(1..n, 1..n)
  <2> HIDE DEF place
  <2> QED
    BY <1>3, <1>8, FS_Injection, Zenon
<1>10. PICK i \in 1..n : place[i] = k
  <2>1. k \in 1..n
    BY Zenon DEF n
  <2> HIDE DEF place
  <2> QED
    BY <1>9, <2>1, Zenon DEF Surjection
<1>11. (CHOOSE c \in 1..n : Cardinality(Before(c)) = k) \in 1..n
  <2> HIDE DEF Before
  <2> QED
    BY <1>10, Zenon
<1> QED
  BY <1>2, <1>11, Zenon DEF n

(* Sorting keeps the number of ports. *)
LEMMA SortedLength ==
    ASSUME NEW ports, Len(ports) \in Nat
    PROVE  Len(byPort(ports)) = Len(ports)
<1> DEFINE P(k) == ports[CHOOSE i \in 1..Len(ports) :
                            Cardinality({j \in 1..Len(ports) :
                               \/ ports[j].num < ports[i].num
                               \/ ports[j].num = ports[i].num /\ j <= i}) = k]
           n == Len(ports)
<1>1. byPort(ports) = [k \in 1..n |-> P(k)]
  BY Zenon DEF byPort
<1> HIDE DEF P, n
<1>2. n \in Nat
  BY Zenon DEF n
<1>3. [k \in 1..n |-> P(k)] \in Seq({P(k) : k \in 1..n}) /\ Len([k \in 1..n |-> P(k)]) = n
  BY <1>2
<1> QED
  BY <1>1, <1>3, Zenon DEF n

(* The index of a service port is the place of the port in the spec of its   *)
(* import (serviceImportToServiceMap).                                       *)
LEMMA PortByIndex ==
    ASSUME NEW si \in Imports, NEW p \in DOMAIN serviceImportToServiceMap(si)
    PROVE  \E i \in 1..Len(si.ports) :
               /\ p = <<i - 1, si.ports[i].proto>>
               /\ serviceImportToServiceMap(si)[p].name = si.ports[i].name
<1> DEFINE Named(i) == <<i - 1, si.ports[i].proto>>
           Index(q) == CHOOSE i \in 1..Len(si.ports) : Named(i) = q
           map == [q \in {Named(i) : i \in 1..Len(si.ports)} |->
                      [ip |-> si.ip, port |-> si.ports[Index(q)].port, proto |-> q[2],
                       name |-> si.ports[Index(q)].name]]
<1>1. serviceImportToServiceMap(si) = map
  <2>1. serviceImportToServiceMap(si) # Empty
    BY Zenon DEF Empty
  <2> QED
    BY <2>1, Zenon DEF serviceImportToServiceMap
<1>2. \E i \in 1..Len(si.ports) : Named(i) = p
  BY <1>1, Zenon
<1>3. Index(p) \in 1..Len(si.ports) /\ Named(Index(p)) = p
  BY <1>2, Zenon
<1>4. map[p].name = si.ports[Index(p)].name
  BY <1>2, Zenon
<1> HIDE DEF Index, map
<1> QED
  BY <1>1, <1>3, <1>4, Zenon

Carries(info, p, e) ==
    \E i \in 1..Len(info.ports) :
        p = <<i - 1, info.ports[i].proto>> /\ e.num = info.ports[i].num

(* An endpoint has the number of the port of a slice at its index            *)
(* (endpointInfoByServicePort).                                              *)
LEMMA EndpointByIndex ==
    ASSUME NEW infos, NEW m \in getEndpointsMap(infos), NEW p \in DOMAIN m, NEW e \in m[p]
    PROVE  \E info \in infos : Carries(info, p, e)
<1>1. m[p] \in addEndpoints(Found(infos, p))
  BY Zenon DEF getEndpointsMap
<1>2. e \in Found(infos, p)
  BY <1>1, Zenon DEF addEndpoints
<1>3. PICK info \in infos : \E i \in {j \in 1..Len(info.ports) :
                                          /\ info.ports[j].num # 0
                                          /\ <<j - 1, info.ports[j].proto>> = p},
                               f \in {f \in info.eps : f.family = "IPv4"} :
             e = [addr |-> f.addr, num |-> info.ports[i].num, local |-> f.local,
                  ready |-> f.ready, serving |-> f.serving, terminating |-> f.terminating]
  BY <1>2 DEF Found, FoundAt
<1> QED
  BY <1>3 DEF Carries

-----------------------------------------------------------------------------
(* The rules of the abstract specification are those of the trackers. *)
LEMMA SamePorts ==
    ASSUME NEW si
    PROVE  View!serviceImportToServiceMap(si) = serviceImportToServiceMap(si)
BY Zenon DEF View!serviceImportToServiceMap, serviceImportToServiceMap, View!Empty, Empty

(* So are the infos of a slice. *)
LEMMA SameInfo ==
    ASSUME NEW slice, NEW remove
    PROVE  View!newEndpointSliceInfo(slice, remove) = newEndpointSliceInfo(slice, remove)
<1>1. View!byPort(slice.ports) = byPort(slice.ports)
  BY Zenon DEF View!byPort, byPort, View!Cardinality, Cardinality
<1> QED
  BY <1>1, Zenon DEF View!newEndpointSliceInfo, newEndpointSliceInfo

(* So are the endpoints of a set of infos. *)
LEMMA SameEndpointsMap ==
    ASSUME NEW infos
    PROVE  View!getEndpointsMap(infos) = getEndpointsMap(infos)
<1>1. \A p : View!Found(infos, p) = Found(infos, p)
  BY DEF View!Found, Found, View!FoundAt, FoundAt
<1>2. \A found : View!addEndpoints(found) = addEndpoints(found)
  BY Zenon DEF View!addEndpoints, addEndpoints, View!SameEndpoint, SameEndpoint
<1>3. View!endpointInfoByServicePort(infos) = endpointInfoByServicePort(infos)
  BY <1>1 DEF View!endpointInfoByServicePort, endpointInfoByServicePort, View!PortsIn, PortsIn
<1> QED
  BY <1>1, <1>2, <1>3, Zenon DEF View!getEndpointsMap, getEndpointsMap

(* Once the changes are checked out, what is applied is what was delivered. *)
LEMMA AppliedIsDelivered ==
    ASSUME Tracked, SyncEndpoints, NEW s \in Service
    PROVE  AppliedInfos(s)' = View!InfosOf(s)
<1>1. \A x \in Slice : applied'[x] = Delivered(x)
  BY Zenon DEF SyncEndpoints, Tracked, SlicesTracked
<1>2. \A x \in Slice : applied'[x] # NoObject <=> slices[x] # NoObject
  BY <1>1, ObjectsAssumption, Zenon DEF Delivered, Tracked, Shapes
<1>3. AppliedInfos(s)' =
          {newEndpointSliceInfo(slices[x], FALSE) :
              x \in {y \in Slice : ServiceOf[y] = s /\ slices[y] # NoObject}}
  BY <1>1, <1>2, Zenon DEF AppliedInfos, Delivered
<1> QED
  BY <1>3, SameInfo, Zenon DEF View!InfosOf

-----------------------------------------------------------------------------
(* What a step of the trackers leaves: the recorded changes still lead from  *)
(* the maps to what was delivered.                                           *)
LEMMA TrackedStep ==
    ASSUME Tracked, [TrackerNext]_trackerVars
    PROVE  Tracked'
<1>1. CASE \E s \in Service, si \in Imports \cup {NoObject} : OnServiceImport(s, si)
  BY <1>1, ServiceStep, Zenon
<1>2. CASE \E x \in Slice, slice \in SliceObjects \cup {NoObject} : OnEndpointSlice(x, slice)
  BY <1>2, SliceStep, Zenon
<1>3. CASE SyncServices
  BY <1>3, SyncServicesStep, Zenon
<1>4. CASE SyncEndpoints
  BY <1>4, SyncEndpointsStep, Zenon
<1>5. CASE TrackersRestart
  <2>1. Shapes'
    BY <1>5, Zenon DEF TrackersRestart, Shapes
  <2>2. SlicesTracked'
    BY <1>5, Zenon DEF TrackersRestart, SlicesTracked, Checkout, Delivered
  <2>3. \A s \in Service : ItemTracked(s)'
    BY <1>5, Zenon DEF TrackersRestart, ItemTracked, DeliveredPorts, serviceImportToServiceMap
  <2> QED
    BY <2>1, <2>2, <2>3, Zenon DEF Tracked
<1>6. CASE UNCHANGED trackerVars
  <2> USE <1>6 DEF trackerVars
  <2>1. Shapes'
    BY Zenon DEF Tracked, Shapes
  <2>2. SlicesTracked'
    BY Zenon DEF Tracked, SlicesTracked, Checkout, Delivered
  <2>3. \A s \in Service : ItemTracked(s)'
    BY Zenon DEF Tracked, ItemTracked, DeliveredPorts
  <2> QED
    BY <2>1, <2>2, <2>3, Zenon DEF Tracked
<1> QED
  BY <1>1, <1>2, <1>3, <1>4, <1>5, <1>6, Zenon DEF TrackerNext

(* The recorded changes lead from the maps to what the informers have        *)
(* delivered, whatever was delivered, in whatever order, between any two     *)
(* synchronisations (ServiceImportChangeTracker, EndpointSliceCache).        *)
THEOREM ChangesTracked == TrackerSpec => []Tracked
<1>1. TrackerInit => Tracked
  BY StartsTracked, Zenon DEF TrackerInit, Inv
<1>2. Tracked /\ [TrackerNext]_trackerVars => Tracked'
  BY TrackedStep, Zenon
<1> QED
  BY <1>1, <1>2, PTL DEF TrackerSpec

(* The state of the trackers and the maps keeps its shape, whatever the keys *)
(* of the slices (ServiceImportChangeTracker, EndpointSliceCache).           *)
THEOREM TypeCorrect == TrackerSpec => []TypeOK
<1>1. Tracked => TypeOK
  <2> SUFFICES ASSUME Tracked PROVE TypeOK
    BY Zenon
  <2>1. ASSUME NEW s \in Service, items[s] # NoObject
        PROVE  DOMAIN items[s] = {"previous", "current"}
    <3>1. items[s] = [previous |-> svcPortMap[s], current |-> DeliveredPorts(s)]
      BY <2>1, Zenon DEF Tracked, ItemTracked
    <3> QED
      BY <3>1, Zenon
  <2> QED
    BY <2>1, Zenon DEF Tracked, Shapes, SlicesTracked, TypeOK
<1> QED
  BY <1>1, ChangesTracked, PTL

(* Together with them the endpoints map stands for the slices applied, as    *)
(* long as one tracker holds all the slices of a service (EndpointsMap).     *)
THEOREM Invariance ==
    ASSUME OneKeyPerService
    PROVE  TrackerSpec => []Inv
<1>1. TrackerInit => Inv
  BY StartsTracked, Zenon DEF TrackerInit
<1>2. Inv /\ [TrackerNext]_trackerVars => Inv'
  <2> SUFFICES ASSUME Inv, [TrackerNext]_trackerVars PROVE Inv'
    BY Zenon
  <2>1. Tracked'
    BY TrackedStep, Zenon DEF Inv
  <2>2. CASE SyncEndpoints
    BY <2>1, <2>2, SyncEndpointsMap, Zenon DEF EndpointsTracked, Inv
  <2>3. CASE TrackersRestart
    <3>1. (/\ imports = [s \in Service |-> NoObject] /\ slices = [x \in Slice |-> NoObject]
           /\ items = [s \in Service |-> NoObject] /\ applied = [x \in Slice |-> NoObject]
           /\ pending = [x \in Slice |-> NoObject] /\ svcPortMap = [s \in Service |-> Empty]
           /\ endpointsMap = [s \in Service |-> Empty])'
      BY <2>3, Zenon DEF TrackersRestart
    <3>2. (TrackerInit => Inv)'
      BY <1>1, PTL
    <3> QED
      BY <3>1, <3>2, Zenon DEF TrackerInit
  <2>4. CASE applied' = applied /\ endpointsMap' = endpointsMap
    BY <2>1, <2>4, Zenon DEF Inv, EndpointsTracked, AppliedInfos
  <2> QED
    BY <2>2, <2>3, <2>4, Zenon DEF TrackerNext, trackerVars, OnServiceImport, OnEndpointSlice, SyncServices
<1> QED
  BY <1>1, <1>2, PTL DEF TrackerSpec

(* When nothing waits to be applied, a service port is balanced over         *)
(* endpoints of the port of the same name, if the ports of the slices in the *)
(* order of their numbers are those of the import in the order of its spec   *)
(* (serviceImportToServiceMap, endpointInfoByServicePort).                   *)
THEOREM PortsPaired ==
    ASSUME OneKeyPerService
    PROVE  TrackerSpec => []PortsMatched
<1>1. ASSUME Inv, NEW s \in Service, items[s] = NoObject, imports[s] # NoObject, Aligned(s),
             \A x \in Slice : pending[x] = NoObject,
             NEW p \in DOMAIN svcPortMap[s] \cap DOMAIN endpointsMap[s],
             NEW e \in endpointsMap[s][p]
      PROVE  \E x \in Slice : /\ ServiceOf[x] = s /\ slices[x] # NoObject
                              /\ \E j \in 1..Len(slices[x].ports) :
                                     /\ slices[x].ports[j].name = svcPortMap[s][p].name
                                     /\ slices[x].ports[j].num = e.num
  <2>1. svcPortMap[s] = serviceImportToServiceMap(imports[s]) /\ imports[s] \in Imports
    BY <1>1, Zenon DEF Inv, Tracked, Shapes, ItemTracked, DeliveredPorts
  <2>2. PICK i \in 1..Len(imports[s].ports) :
            /\ p = <<i - 1, imports[s].ports[i].proto>>
            /\ svcPortMap[s][p].name = imports[s].ports[i].name
    <3> DEFINE si == imports[s]
    <3>1. si \in Imports /\ p \in DOMAIN serviceImportToServiceMap(si)
      BY <1>1, <2>1, Zenon
    <3> HIDE DEF si
    <3>2. \E i \in 1..Len(si.ports) :
              /\ p = <<i - 1, si.ports[i].proto>>
              /\ serviceImportToServiceMap(si)[p].name = si.ports[i].name
      BY <3>1, PortByIndex, Zenon
    <3> QED
      BY <2>1, <3>2, Zenon DEF si
  <2>3. endpointsMap[s] \in getEndpointsMap(AppliedInfos(s))
    BY <1>1, Zenon DEF Inv, EndpointsTracked
  <2>4. PICK info \in AppliedInfos(s) : Carries(info, p, e)
    BY <1>1, <2>3, EndpointByIndex, Zenon
  <2>5. PICK k \in 1..Len(info.ports) :
            p = <<k - 1, info.ports[k].proto>> /\ e.num = info.ports[k].num
    BY <2>4, Zenon DEF Carries
  <2>6. PICK x \in Slice : ServiceOf[x] = s /\ applied[x] # NoObject /\ info = applied[x]
    BY <2>4, Zenon DEF AppliedInfos
  <2>7. applied[x] = Delivered(x)
    BY <1>1, Zenon DEF Inv, Tracked, SlicesTracked, Checkout
  <2>8. slices[x] # NoObject /\ info.ports = byPort(slices[x].ports)
    BY <2>6, <2>7 DEF Delivered, newEndpointSliceInfo
  <2>9. slices[x] \in SliceObjects
    BY <1>1, <2>8, Zenon DEF Inv, Tracked, Shapes
  <2> DEFINE ports == slices[x].ports
  <2>10. Len(ports) \in Nat /\ \A j \in 1..Len(ports) : ports[j].num \in Nat
    BY <2>9, ObjectsAssumption, Zenon
  <2>11. Len(byPort(ports)) = Len(ports)
    BY <2>10, SortedLength, Zenon
  <2>12. k \in Int /\ i \in Int
    BY <2>1, <2>8, <2>10, <2>11, ObjectsAssumption
  <2>13. k = i /\ k \in 1..Len(ports)
    BY <2>2, <2>5, <2>8, <2>11, <2>12
  <2>14. byPort(ports)[k].name = imports[s].ports[k].name
    BY <1>1, <2>5, <2>6, <2>8, Zenon DEF Aligned
  <2>15. PICK j \in 1..Len(ports) : byPort(ports)[k] = ports[j]
    BY <2>10, <2>13, SortedPort, Zenon
  <2> QED
    BY <2>2, <2>5, <2>6, <2>8, <2>13, <2>14, <2>15, Zenon
<1>2. Inv => PortsMatched
  BY <1>1, Zenon DEF PortsMatched
<1> QED
  BY <1>2, Invariance, PTL

(* The changes the trackers collect, applied to the maps, give what the      *)
(* objects delivered so far give: no change is lost, applied twice or        *)
(* applied to what another one left (ServicePortMap.Update,                  *)
(* EndpointsMap.Update).                                                     *)
THEOREM Refinement ==
    ASSUME OneKeyPerService
    PROVE  TrackerSpec => ImplementsView
<1>1. TrackerInit => View!Init
  BY Zenon DEF TrackerInit, View!Init, View!Empty, Empty
<1>2. Inv /\ [TrackerNext]_trackerVars => [View!Next]_(View!vars)
  <2> SUFFICES ASSUME Inv, [TrackerNext]_trackerVars PROVE [View!Next]_(View!vars)
    BY Zenon
  <2>1. CASE \E s \in Service, si \in Imports \cup {NoObject} : OnServiceImport(s, si)
    <3>1. View!Hear
      BY <2>1, Zenon DEF OnServiceImport, View!Hear, Inv, Tracked, Shapes
    <3> QED
      BY <3>1, Zenon DEF View!Next
  <2>2. CASE \E x \in Slice, slice \in SliceObjects \cup {NoObject} : OnEndpointSlice(x, slice)
    <3>1. View!Hear
      BY <2>2, Zenon DEF OnEndpointSlice, View!Hear, Inv, Tracked, Shapes
    <3> QED
      BY <3>1, Zenon DEF View!Next
  <2>3. CASE SyncServices
    <3>1. View!SyncServices
      BY <2>3, SyncServicesPorts, SamePorts, Zenon DEF Inv, SyncServices, View!SyncServices
    <3> QED
      BY <3>1, Zenon DEF View!Next
  <2>4. CASE SyncEndpoints
    <3>1. \A s \in Service : endpointsMap'[s] \in View!getEndpointsMap(View!InfosOf(s))
      BY <2>4, SyncEndpointsMap, AppliedIsDelivered, SameEndpointsMap, Zenon DEF Inv
    <3>2. View!SyncEndpoints
      BY <2>4, <3>1, Zenon DEF SyncEndpoints, View!SyncEndpoints
    <3> QED
      BY <3>2, Zenon DEF View!Next
  <2>5. CASE TrackersRestart
    <3>1. View!Restart
      BY <2>5, Zenon DEF TrackersRestart, View!Restart, View!Empty, Empty
    <3> QED
      BY <3>1, Zenon DEF View!Next
  <2>6. CASE UNCHANGED trackerVars
    BY <2>6, Zenon DEF trackerVars, View!vars
  <2> QED
    BY <2>1, <2>2, <2>3, <2>4, <2>5, <2>6, Zenon DEF TrackerNext
<1> QED
  BY <1>1, <1>2, Invariance, PTL DEF TrackerSpec, ImplementsView, View!Spec

-----------------------------------------------------------------------------
(***************************************************************************)
(* The proxier                                                             *)
(***************************************************************************)
Has(f, vs, rs) == vs \in DOMAIN f /\ rs \in DOMAIN f[vs]

Serving == {"create", "move", "readd", "delete"}

(* The synchronisation under way has the fields its place in the code needs *)
SyncShape ==
    /\ "at" \in DOMAIN sync
    /\ sync.at \in {"idle", "endpoints", "device", "ports"} \cup Serving
    /\ sync.at = "ports" => {"active", "todo", "was"} \subseteq DOMAIN sync
    /\ sync.at \in Serving => {"active", "todo", "was", "vs", "left", "new", "cur"} \subseteq DOMAIN sync
    /\ sync.at # "idle" => running /\ initialized
    /\ sync.at \in Serving => sync.vs \in DOMAIN ipvs

ApiTyped ==
    /\ apiImports \in [Service -> Imports \cup {NoObject}]
    /\ apiSlices \in [Slice -> SliceObjects \cup {NoObject}]

Server == [weight : {0, 1}, conns : {0, 1}]

\* A real server has the weight w and the connections it had.
Weighs(f, g, v, r, w) == g[v][r] = [weight |-> w, conns |-> f[v][r].conns]

KernelTyped ==
    /\ \A vs, rs : Has(ipvs, vs, rs) => ipvs[vs][rs] \in Server
    /\ synced \subseteq {"imports", "slices"}
    /\ budget \in 0..MaxDisturbances

(* What an entry of the termination list stands for *)
EntrySound(item) ==
    Has(ipvs, item[1], item[2]) =>
        \/ ipvs[item[1]][item[2]].weight = 0
        \/ item \in reborn
        \/ sync.at = "move" /\ item = Here

EntryThere(item) ==
    \/ Has(ipvs, item[1], item[2])
    \/ item \in reborn
    \/ sync.at = "readd" /\ item = Here

Entries ==
    /\ reborn \subseteq rsList
    /\ ~running => rsList = {}
    /\ \A item \in rsList :
          item = <<item[1], item[2]>> /\ EntrySound(item) /\ EntryThere(item)

PKept == SyncShape /\ KernelTyped /\ Entries

-----------------------------------------------------------------------------
(* The objects of the API server are those the trackers know how to read. *)
LEMMA ApiTypedStep ==
    ASSUME ApiTyped, [Next]_vars
    PROVE  ApiTyped'
<1>1. CASE ImportChanges
  <2>1. PICK s \in Service : \E si \in ImportsOf[s] : apiImports' = [apiImports EXCEPT ![s] = si]
    BY <1>1, Zenon DEF ImportChanges
  <2>2. PICK si \in ImportsOf[s] : apiImports' = [apiImports EXCEPT ![s] = si]
    BY <2>1, Zenon
  <2>3. si \in Imports \cup {NoObject}
    BY <2>2, ProxierAssumption, Zenon
  <2>4. apiSlices' = apiSlices
    BY <1>1, Zenon DEF ImportChanges
  <2> QED
    BY <2>2, <2>3, <2>4, Zenon DEF ApiTyped
<1>2. CASE SliceChanges
  <2>1. PICK x \in Slice : \E slice \in SlicesOf[x] : apiSlices' = [apiSlices EXCEPT ![x] = slice]
    BY <1>2, Zenon DEF SliceChanges
  <2>2. PICK slice \in SlicesOf[x] : apiSlices' = [apiSlices EXCEPT ![x] = slice]
    BY <2>1, Zenon
  <2>3. slice \in SliceObjects \cup {NoObject}
    BY <2>2, ProxierAssumption, Zenon
  <2>4. apiImports' = apiImports
    BY <1>2, Zenon DEF SliceChanges
  <2> QED
    BY <2>2, <2>3, <2>4, Zenon DEF ApiTyped
<1>3. CASE UNCHANGED apiVars
  BY <1>3, Zenon DEF ApiTyped, apiVars
<1>4. ImportChanges \/ SliceChanges \/ UNCHANGED apiVars
  <2>1. ASSUME Environment PROVE ImportChanges \/ SliceChanges \/ UNCHANGED apiVars
    BY <2>1, Zenon DEF Environment, Connections
  <2>2. ASSUME Handler PROVE UNCHANGED apiVars
    BY <2>2, Zenon DEF Handler, HandleImport, HandleSlice, OnSynced
  <2>3. ASSUME syncProxyRules PROVE UNCHANGED apiVars
    BY <2>3, Zenon DEF syncProxyRules, SyncRefused, SyncBegins, SyncReads, EnsureDummyDevice,
       syncService, CreateExisting, MoveRSOutofGracefulDeleteList, AddRealServer, DeleteOld,
       GracefulDeleteRS, PortDone, cleanLegacyService
  <2>4. ASSUME Timer PROVE UNCHANGED apiVars
    BY <2>4, Zenon DEF Timer, tryDeleteRs
  <2>5. ASSUME Process PROVE UNCHANGED apiVars
    BY <2>5, Zenon DEF Process, Crash, CanUseIPVSProxier, CleanupLeftovers
  <2>6. ASSUME UNCHANGED vars PROVE UNCHANGED apiVars
    BY <2>6, Zenon DEF vars
  <2> QED
    BY <2>1, <2>2, <2>3, <2>4, <2>5, <2>6, Zenon DEF Next
<1> QED
  BY <1>1, <1>2, <1>3, <1>4, Zenon

(* A step of the proxier is a step of its trackers, or leaves them alone. *)
LEMMA StepOfTrackers ==
    ASSUME ApiTyped, [Next]_vars
    PROVE  [TrackerNext]_trackerVars
<1>1. ASSUME Environment PROVE UNCHANGED trackerVars
  BY <1>1, Zenon DEF Environment, ImportChanges, SliceChanges, Connections
<1>2. ASSUME Handler PROVE [TrackerNext]_trackerVars
  <2>1. ASSUME NEW s \in Service, HandleImport(s) PROVE TrackerNext
    <3>1. apiImports[s] \in Imports \cup {NoObject} /\ OnServiceImport(s, apiImports[s])
      BY <2>1, Zenon DEF HandleImport, ApiTyped
    <3> QED
      BY <3>1, Zenon DEF TrackerNext
  <2>2. ASSUME NEW x \in Slice, HandleSlice(x) PROVE TrackerNext
    <3>1. apiSlices[x] \in SliceObjects \cup {NoObject} /\ OnEndpointSlice(x, apiSlices[x])
      BY <2>2, Zenon DEF HandleSlice, ApiTyped
    <3> QED
      BY <3>1, Zenon DEF TrackerNext
  <2>3. ASSUME NEW informer, OnSynced(informer) PROVE UNCHANGED trackerVars
    BY <2>3, Zenon DEF OnSynced
  <2> QED
    BY <1>2, <2>1, <2>2, <2>3, Zenon DEF Handler
<1>3. ASSUME syncProxyRules PROVE [TrackerNext]_trackerVars
  <2>1. SyncBegins => TrackerNext
    BY Zenon DEF SyncBegins, TrackerNext
  <2>2. SyncReads => TrackerNext
    BY Zenon DEF SyncReads, TrackerNext
  <2> QED
    BY <1>3, <2>1, <2>2, Zenon DEF syncProxyRules, SyncRefused, EnsureDummyDevice, syncService,
       CreateExisting, MoveRSOutofGracefulDeleteList, AddRealServer, DeleteOld, GracefulDeleteRS,
       PortDone, cleanLegacyService
<1>4. ASSUME Timer PROVE UNCHANGED trackerVars
  BY <1>4, Zenon DEF Timer, tryDeleteRs
<1>5. ASSUME Process PROVE [TrackerNext]_trackerVars
  BY <1>5, Zenon DEF Process, Crash, TrackerNext, CanUseIPVSProxier, CleanupLeftovers
<1>6. ASSUME UNCHANGED vars PROVE UNCHANGED trackerVars
  BY <1>6, Zenon DEF vars
<1> QED
  BY <1>1, <1>2, <1>3, <1>4, <1>5, <1>6, Zenon DEF Next

(* The proxier drives its trackers only as ProxyTrackers says: whatever the  *)
(* API server, the timer, failures and restarts do, what happens to the      *)
(* trackers and the maps is a behaviour of their specification (OnUpdate     *)
(* handlers, syncProxyRules).                                                *)
THEOREM DrivesTrackers == Spec => TrackerSpec
<1>1. Init => TrackerInit /\ ApiTyped
  BY ProxierAssumption, Zenon DEF Init, ApiTyped
<1>2. ApiTyped /\ [Next]_vars => ApiTyped'
  BY ApiTypedStep, Zenon
<1>3. ApiTyped /\ [Next]_vars => [TrackerNext]_trackerVars
  BY StepOfTrackers, Zenon
<1> QED
  BY <1>1, <1>2, <1>3, PTL DEF Spec, TrackerSpec

(* Hence the maps syncProxyRules reads are those of everything the informers *)
(* delivered before, computed anew, if one tracker holds all the slices of a *)
(* service (ServicePortMap.Update, EndpointsMap.Update).                     *)
THEOREM MapsUpToDate ==
    ASSUME OneKeyPerService
    PROVE  Spec => ImplementsView
BY DrivesTrackers, Refinement, PTL

-----------------------------------------------------------------------------
(* f and g agree but for the real server r of v *)
Elsewhere(f, g, v, r) ==
    /\ DOMAIN g = DOMAIN f
    /\ \A vs, rs : <<vs, rs>> # <<v, r>> =>
          /\ Has(g, vs, rs) <=> Has(f, vs, rs)
          /\ Has(f, vs, rs) => g[vs][rs] = f[vs][rs]

(* What deleting a real server does to the kernel (DeleteRealServer). *)
LEMMA CellRemoved ==
    ASSUME NEW f, NEW g, NEW v \in DOMAIN f, NEW r, g = [f EXCEPT ![v] = Without(@, r)]
    PROVE  Elsewhere(f, g, v, r) /\ ~Has(g, v, r)
<1>1. DOMAIN g = DOMAIN f /\ g[v] = Without(f[v], r) /\ \A u \in DOMAIN f \ {v} : g[u] = f[u]
  BY Zenon
<1>2. DOMAIN g[v] = DOMAIN f[v] \ {r} /\ \A q \in DOMAIN g[v] : g[v][q] = f[v][q]
  BY <1>1, Zenon DEF Without
<1> QED
  BY <1>1, <1>2, Zenon DEF Elsewhere, Has

Grown(f, v, r) == [f EXCEPT ![v] = With(@, r, New)]

(* What adding one does (AddRealServer). *)
LEMMA CellAdded ==
    ASSUME NEW f, NEW g, NEW v \in DOMAIN f, NEW r, r \notin DOMAIN f[v],
           g = Grown(f, v, r)
    PROVE  Elsewhere(f, g, v, r) /\ Has(g, v, r) /\ g[v][r] = New
<1>1. DOMAIN g = DOMAIN f /\ g[v] = With(f[v], r, New) /\ \A u \in DOMAIN f \ {v} : g[u] = f[u]
  BY Zenon DEF Grown
<1>2. DOMAIN g[v] = DOMAIN f[v] \cup {r} /\ g[v][r] = New /\ \A q \in DOMAIN f[v] : g[v][q] = f[v][q]
  BY <1>1, Zenon DEF With
<1> QED
  BY <1>1, <1>2, Zenon DEF Elsewhere, Has

Weighed(f, v, r, w) == [f EXCEPT ![v][r].weight = w]

(* What setting the weight of one does (UpdateRealServer). *)
LEMMA CellWeighed ==
    ASSUME NEW f, NEW g, NEW v \in DOMAIN f, NEW r \in DOMAIN f[v], NEW w,
           f[v][r] \in Server, g = Weighed(f, v, r, w)
    PROVE  /\ Elsewhere(f, g, v, r) /\ Has(g, v, r)
           /\ Weighs(f, g, v, r, w)
<1>1. /\ DOMAIN g = DOMAIN f /\ g[v] = [f[v] EXCEPT ![r].weight = w]
      /\ \A u \in DOMAIN f \ {v} : g[u] = f[u]
  BY Zenon DEF Weighed
<1>2. /\ DOMAIN g[v] = DOMAIN f[v] /\ g[v][r] = [f[v][r] EXCEPT !.weight = w]
      /\ \A q \in DOMAIN f[v] \ {r} : g[v][q] = f[v][q]
  BY <1>1, Zenon
<1>3. Weighs(f, g, v, r, w)
  BY <1>2, Zenon DEF Server, Weighs
<1> QED
  BY <1>1, <1>2, <1>3, Zenon DEF Elsewhere, Has

(* What a client that comes or goes does. *)
LEMMA CellCounted ==
    ASSUME NEW f, NEW g, NEW v \in DOMAIN f, NEW r \in DOMAIN f[v],
           f[v][r] \in Server, g = [f EXCEPT ![v][r].conns = 1 - @]
    PROVE  /\ Elsewhere(f, g, v, r) /\ Has(g, v, r)
           /\ g[v][r] = [weight |-> f[v][r].weight, conns |-> 1 - f[v][r].conns]
<1>1. /\ DOMAIN g = DOMAIN f /\ g[v] = [f[v] EXCEPT ![r].conns = 1 - @]
      /\ \A u \in DOMAIN f \ {v} : g[u] = f[u]
  BY Zenon
<1>2. /\ DOMAIN g[v] = DOMAIN f[v] /\ g[v][r] = [f[v][r] EXCEPT !.conns = 1 - @]
      /\ \A q \in DOMAIN f[v] \ {r} : g[v][q] = f[v][q]
  BY <1>1, Zenon
<1>3. g[v][r] = [weight |-> f[v][r].weight, conns |-> 1 - f[v][r].conns]
  BY <1>2, Zenon DEF Server
<1> QED
  BY <1>1, <1>2, <1>3, Zenon DEF Elsewhere, Has

(* Adding a virtual server that is not there changes no real server          *)
(* (AddVirtualServer).                                                       *)
LEMMA ServerAdded ==
    ASSUME NEW vs
    PROVE  /\ DOMAIN Added(vs) = DOMAIN ipvs \cup {vs}
           /\ \A u, rs : /\ Has(Added(vs), u, rs) <=> Has(ipvs, u, rs)
                         /\ Has(ipvs, u, rs) => Added(vs)[u][rs] = ipvs[u][rs]
<1>1. CASE vs \in DOMAIN ipvs
  <2>1. Added(vs) = ipvs
    BY <1>1, Zenon DEF Added
  <2> QED
    BY <1>1, <2>1, Zenon
<1>2. CASE vs \notin DOMAIN ipvs
  <2>1. Added(vs) = With(ipvs, vs, Empty)
    BY <1>2, Zenon DEF Added
  <2>2. /\ DOMAIN Added(vs) = DOMAIN ipvs \cup {vs} /\ Added(vs)[vs] = Empty
        /\ \A u \in DOMAIN ipvs : Added(vs)[u] = ipvs[u]
    BY <1>2, <2>1, Zenon DEF With
  <2>3. DOMAIN Empty = {}
    BY Zenon DEF Empty
  <2> QED
    BY <1>2, <2>2, <2>3, Zenon DEF Has
<1> QED
  BY <1>1, <1>2, Zenon

-----------------------------------------------------------------------------
(* A disturbance takes one from the budget, anything else leaves it. *)
LEMMA BudgetStep ==
    ASSUME budget \in 0..MaxDisturbances, budget' = budget \/ \E kind : Disturb(kind)
    PROVE  budget' \in 0..MaxDisturbances
BY ProxierAssumption DEF Disturb

(* A step that changes at most one real server keeps what an entry of        *)
(* another one says.                                                         *)
LEMMA OtherEntry ==
    ASSUME Entries, NEW v, NEW r, Elsewhere(ipvs, ipvs', v, r),
           NEW item \in rsList, item # <<v, r>>, item \in reborn => item \in reborn',
           sync' = sync \/ item # Here
    PROVE  EntrySound(item)' /\ EntryThere(item)'
<1>1. item = <<item[1], item[2]>> /\ EntrySound(item) /\ EntryThere(item)
  BY Zenon DEF Entries
<1>2. /\ Has(ipvs', item[1], item[2]) <=> Has(ipvs, item[1], item[2])
      /\ Has(ipvs, item[1], item[2]) => ipvs'[item[1]][item[2]] = ipvs[item[1]][item[2]]
  BY <1>1, Zenon DEF Elsewhere
<1>3. (sync.at = "move" /\ item = Here) => (sync'.at = "move" /\ item = Here')
  BY Zenon DEF Here, Turn
<1>4. (sync.at = "readd" /\ item = Here) => (sync'.at = "readd" /\ item = Here')
  BY Zenon DEF Here, Turn
<1>5. EntrySound(item)'
  BY <1>1, <1>2, <1>3, Zenon DEF EntrySound
<1>6. EntryThere(item)'
  BY <1>1, <1>2, <1>4, Zenon DEF EntryThere
<1> QED
  BY <1>5, <1>6, Zenon

(* A step that leaves the list and the weights alone keeps what the entries  *)
(* say, if none is just being taken out.                                     *)
LEMMA EntriesKept ==
    ASSUME Entries, rsList' = rsList, reborn' = reborn, running => running',
           sync' = sync \/ sync.at \notin {"move", "readd"},
           \A vs, rs : /\ Has(ipvs', vs, rs) <=> Has(ipvs, vs, rs)
                       /\ Has(ipvs, vs, rs) => ipvs'[vs][rs].weight = ipvs[vs][rs].weight
    PROVE  Entries'
<1>1. ASSUME NEW item \in rsList
      PROVE  item = <<item[1], item[2]>> /\ EntrySound(item)' /\ EntryThere(item)'
  <2>1. item = <<item[1], item[2]>> /\ EntrySound(item) /\ EntryThere(item)
    BY Zenon DEF Entries
  <2>2. (sync.at = "move" /\ item = Here) => (sync'.at = "move" /\ item = Here')
    BY Zenon DEF Here, Turn
  <2>3. (sync.at = "readd" /\ item = Here) => (sync'.at = "readd" /\ item = Here')
    BY Zenon DEF Here, Turn
  <2>4. EntrySound(item)'
    BY <2>1, <2>2, Zenon DEF EntrySound
  <2>5. EntryThere(item)'
    BY <2>1, <2>3, Zenon DEF EntryThere
  <2> QED
    BY <2>1, <2>4, <2>5, Zenon
<1> QED
  BY <1>1, Zenon DEF Entries

(* A step that changes at most one real server keeps the kernel typed. *)
LEMMA ServersTyped ==
    ASSUME KernelTyped, NEW v, NEW r, Elsewhere(ipvs, ipvs', v, r),
           Has(ipvs', v, r) => ipvs'[v][r] \in Server
    PROVE  \A vs, rs : Has(ipvs', vs, rs) => ipvs'[vs][rs] \in Server
<1> SUFFICES ASSUME NEW vs, NEW rs, Has(ipvs', vs, rs) PROVE ipvs'[vs][rs] \in Server
  BY Zenon
<1>1. CASE <<vs, rs>> = <<v, r>>
  <2>1. vs = v /\ rs = r
    BY <1>1, Zenon
  <2> QED
    BY <2>1, Zenon
<1>2. CASE <<vs, rs>> # <<v, r>>
  BY <1>2, Zenon DEF Elsewhere, KernelTyped
<1> QED
  BY <1>1, <1>2, Zenon

(* A step that leaves the synchronisation and the kernel alone. *)
LEMMA QuietStep ==
    ASSUME PKept, UNCHANGED <<sync, ipvs, rsList, reborn>>, running => running',
           synced \subseteq synced', synced' \subseteq {"imports", "slices"},
           budget' = budget \/ \E kind : Disturb(kind)
    PROVE  PKept'
<1>1. SyncShape'
  <2>1. initialized => initialized'
    BY Zenon DEF initialized
  <2> QED
    BY <2>1, Zenon DEF PKept, SyncShape
<1>2. KernelTyped'
  BY BudgetStep, Zenon DEF PKept, KernelTyped
<1>3. Entries'
  BY EntriesKept, Zenon DEF PKept
<1> QED
  BY <1>1, <1>2, <1>3, Zenon DEF PKept

(* A client that comes or goes changes no weight. *)
LEMMA ConnectionsStep ==
    ASSUME PKept, NEW vs \in DOMAIN ipvs, NEW rs \in DOMAIN ipvs[vs], Connections(vs, rs)
    PROVE  PKept'
<1>1. /\ ipvs' = [ipvs EXCEPT ![vs][rs].conns = 1 - @]
      /\ UNCHANGED <<running, synced, sync, rsList, reborn, budget>>
  BY Zenon DEF Connections
<1>2. ipvs[vs][rs] \in Server
  BY Zenon DEF PKept, KernelTyped, Has
<1>3. /\ Elsewhere(ipvs, ipvs', vs, rs) /\ Has(ipvs', vs, rs)
      /\ ipvs'[vs][rs] = [weight |-> ipvs[vs][rs].weight, conns |-> 1 - ipvs[vs][rs].conns]
  BY <1>1, <1>2, CellCounted, Zenon
<1>4. ipvs'[vs][rs] \in Server /\ ipvs'[vs][rs].weight = ipvs[vs][rs].weight
  BY <1>2, <1>3 DEF Server
<1>5. SyncShape'
  <2>1. DOMAIN ipvs' = DOMAIN ipvs
    BY <1>3, Zenon DEF Elsewhere
  <2> QED
    BY <1>1, <2>1, Zenon DEF PKept, SyncShape, initialized
<1>6. KernelTyped'
  <2>1. \A u, q : Has(ipvs', u, q) => ipvs'[u][q] \in Server
    BY <1>3, <1>4, ServersTyped, Zenon DEF PKept
  <2> QED
    BY <1>1, <2>1, Zenon DEF PKept, KernelTyped
<1>7. Entries'
  <2>1. ASSUME NEW u, NEW q
        PROVE  /\ Has(ipvs', u, q) <=> Has(ipvs, u, q)
               /\ Has(ipvs, u, q) => ipvs'[u][q].weight = ipvs[u][q].weight
    <3>1. CASE <<u, q>> = <<vs, rs>>
      <4>1. u = vs /\ q = rs
        BY <3>1, Zenon
      <4> QED
        BY <1>3, <1>4, <4>1, Zenon DEF Has
    <3>2. CASE <<u, q>> # <<vs, rs>>
      BY <1>3, <3>2, Zenon DEF Elsewhere
    <3> QED
      BY <3>1, <3>2, Zenon
  <2> QED
    BY <1>1, <2>1, EntriesKept, Zenon DEF PKept
<1> QED
  BY <1>5, <1>6, <1>7, Zenon DEF PKept

(* A step from one part of syncProxyRules to another that changes neither    *)
(* the kernel nor the list.                                                  *)
LEMMA TurnStep ==
    ASSUME PKept, UNCHANGED <<ipvs, rsList, reborn, running, synced>>, SyncShape',
           budget' = budget \/ \E kind : Disturb(kind), sync.at \notin {"move", "readd"}
    PROVE  PKept'
<1>1. KernelTyped'
  BY BudgetStep, Zenon DEF PKept, KernelTyped
<1>2. Entries'
  BY EntriesKept, Zenon DEF PKept
<1> QED
  BY <1>1, <1>2, Zenon DEF PKept

(* syncProxyRules up to its first port, and between two loops. *)
LEMMA MapsStep ==
    ASSUME PKept, SyncBegins \/ SyncReads \/ EnsureDummyDevice \/ DeleteOld \/ PortDone
    PROVE  PKept'
<1>0. "at" \in DOMAIN sync /\ sync.at \in {"idle", "endpoints", "device", "ports"} \cup Serving
  BY Zenon DEF PKept, SyncShape
<1>1. CASE SyncBegins
  <2>1. /\ running /\ initialized /\ sync.at = "idle" /\ sync' = [at |-> "endpoints"]
        /\ UNCHANGED <<ipvs, rsList, reborn, running, synced, budget>>
    BY <1>1, Zenon DEF SyncBegins, Idle, kernelVars
  <2>2. SyncShape'
    BY <2>1, Zenon DEF SyncShape, Serving, initialized
  <2> QED
    BY <2>1, <2>2, TurnStep, Zenon
<1>2. CASE SyncReads
  <2>1. /\ sync.at = "endpoints" /\ sync' = [at |-> "device"]
        /\ UNCHANGED <<ipvs, rsList, reborn, running, synced, budget>>
    BY <1>2, Zenon DEF SyncReads, kernelVars
  <2>2. SyncShape'
    BY <2>1, Zenon DEF PKept, SyncShape, Serving, initialized
  <2> QED
    BY <2>1, <2>2, TurnStep, Zenon
<1>3. CASE EnsureDummyDevice
  <2>1. /\ sync.at = "device" /\ UNCHANGED <<ipvs, rsList, reborn, running, synced>>
        /\ budget' = budget \/ \E kind : Disturb(kind)
        /\ sync' = Idle \/ \E was : Begun(was)
    BY <1>3, Zenon DEF EnsureDummyDevice
  <2>2. SyncShape'
    <3>1. running /\ initialized /\ running' = running /\ initialized' = initialized
      BY <2>1, Zenon DEF PKept, SyncShape, initialized
    <3>2. CASE sync' = Idle
      BY <3>1, <3>2, Zenon DEF Idle, SyncShape, Serving
    <3>3. ASSUME NEW was, Begun(was) PROVE SyncShape'
      BY <3>1, <3>3, Zenon DEF Begun, SyncShape, Serving
    <3> QED
      BY <2>1, <3>2, <3>3, Zenon
  <2> QED
    BY <2>1, <2>2, TurnStep, Zenon
<1>4. CASE DeleteOld
  <2>1. /\ sync.at = "create"
        /\ sync' = [sync EXCEPT !.at = "delete", !.left = DOMAIN sync.cur \ sync.new]
        /\ UNCHANGED <<ipvs, rsList, reborn, running, synced, budget>>
    BY <1>4, Zenon DEF DeleteOld, kernelVars
  <2>2. /\ DOMAIN sync' = DOMAIN sync /\ sync'.at = "delete"
        /\ "vs" \in DOMAIN sync => sync'.vs = sync.vs
    BY <1>0, <2>1, Zenon
  <2>3. SyncShape'
    BY <2>1, <2>2, Zenon DEF PKept, SyncShape, Serving, initialized
  <2> QED
    BY <2>1, <2>3, TurnStep, Zenon
<1>5. CASE PortDone
  <2>1. /\ sync.at = "delete"
        /\ sync' = [at |-> "ports", todo |-> sync.todo, active |-> sync.active, was |-> sync.was]
        /\ UNCHANGED <<ipvs, rsList, reborn, running, synced, budget>>
    BY <1>5, Zenon DEF PortDone, kernelVars
  <2>2. SyncShape'
    BY <2>1, Zenon DEF PKept, SyncShape, Serving, initialized
  <2> QED
    BY <2>1, <2>2, TurnStep, Zenon
<1> QED
  BY <1>1, <1>2, <1>3, <1>4, <1>5, Zenon

(* One port, up to the loops of syncEndpoint. *)
LEMMA ServiceServed ==
    ASSUME PKept, NEW q, syncService(q)
    PROVE  PKept'
<1> DEFINE vs == VirtualServer(q)
           new == RealServers(CategorizeEndpoints(endpointsMap[q[1]][q[2]]))
           started == [at |-> "create", todo |-> sync.todo \ {q}, was |-> sync.was,
                       active |-> sync.active \cup {vs}, vs |-> vs, left |-> new, new |-> new,
                       cur |-> [rs \in DOMAIN ipvs'[vs] |-> ipvs'[vs][rs].weight]]
<1>1. /\ sync.at = "ports" /\ UNCHANGED <<running, synced, rsList, reborn>>
      /\ budget' = budget \/ \E kind : Disturb(kind)
      /\ ipvs' = ipvs \/ ipvs' = Added(vs)
      /\ \/ \E active : PortLeft(q, active)
         \/ ipvs' = Added(vs) /\ sync' = started
  BY Zenon DEF syncService
<1> HIDE DEF vs, new
<1>2. /\ DOMAIN ipvs \subseteq DOMAIN ipvs'
      /\ \A u, rs : /\ Has(ipvs', u, rs) <=> Has(ipvs, u, rs)
                    /\ Has(ipvs, u, rs) => ipvs'[u][rs] = ipvs[u][rs]
  <2>1. /\ DOMAIN Added(vs) = DOMAIN ipvs \cup {vs}
        /\ \A u, rs : /\ Has(Added(vs), u, rs) <=> Has(ipvs, u, rs)
                      /\ Has(ipvs, u, rs) => Added(vs)[u][rs] = ipvs[u][rs]
    BY ServerAdded, Zenon
  <2>2. CASE ipvs' = ipvs
    BY <2>2, Zenon
  <2>3. CASE ipvs' = Added(vs)
    BY <2>1, <2>3, Zenon
  <2> QED
    BY <1>1, <2>2, <2>3, Zenon
<1>3. running /\ initialized /\ running' = running /\ initialized' = initialized
  BY <1>1, Zenon DEF PKept, SyncShape, initialized
<1>4. SyncShape'
  <2>1. ASSUME NEW active, PortLeft(q, active) PROVE SyncShape'
    <3>1. DOMAIN sync' = DOMAIN sync /\ sync'.at = "ports"
      BY <1>1, <2>1, Zenon DEF PortLeft, PKept, SyncShape
    <3> QED
      BY <1>1, <1>3, <3>1 DEF PKept, SyncShape, Serving
  <2>2. ASSUME ipvs' = Added(vs), sync' = started PROVE SyncShape'
    <3>1. vs \in DOMAIN ipvs'
      BY <2>2, ServerAdded, Zenon
    <3>2. /\ sync'.at = "create" /\ sync'.vs = vs
          /\ {"at", "active", "todo", "was", "vs", "left", "new", "cur"} \subseteq DOMAIN sync'
      BY <2>2, Zenon
    <3> QED
      BY <1>3, <3>1, <3>2, Zenon DEF SyncShape, Serving
  <2> QED
    BY <1>1, <2>1, <2>2, Zenon
<1>5. KernelTyped'
  BY <1>1, <1>2, BudgetStep, Zenon DEF PKept, KernelTyped
<1>6. Entries'
  <2>1. sync.at \notin {"move", "readd"}
    BY <1>1, Zenon
  <2> QED
    BY <1>1, <1>2, <2>1, EntriesKept, Zenon DEF PKept
<1> QED
  BY <1>4, <1>5, <1>6, Zenon DEF PKept

-----------------------------------------------------------------------------
(* Going on within the loops of syncEndpoint keeps the shape of the          *)
(* synchronisation.                                                          *)
LEMMA LoopShape ==
    ASSUME PKept, sync.at \in Serving, DOMAIN ipvs' = DOMAIN ipvs,
           UNCHANGED <<running, synced>>,
           NEW at \in Serving, NEW left,
           sync' = [sync EXCEPT !.at = at, !.left = left] \/ sync' = [sync EXCEPT !.at = at]
    PROVE  SyncShape' /\ sync'.at = at
<1>1. {"at", "active", "todo", "was", "vs", "left", "new", "cur"} \subseteq DOMAIN sync
  BY Zenon DEF PKept, SyncShape
<1>2. DOMAIN sync' = DOMAIN sync /\ sync'.at = at /\ sync'.vs = sync.vs
  BY <1>1, Zenon
<1>3. /\ sync.vs \in DOMAIN ipvs /\ running' = running /\ initialized' = initialized
      /\ running /\ initialized
  BY Zenon DEF PKept, SyncShape, Serving, initialized
<1>4. at # "ports" /\ at # "idle" /\ at \in {"idle", "endpoints", "device", "ports"} \cup Serving
  BY Zenon DEF Serving
<1> QED
  BY <1>1, <1>2, <1>3, <1>4 DEF SyncShape

(* A real server that is there when its endpoints are synchronised: one in   *)
(* the list goes on to be taken out.                                         *)
LEMMA CreateExistingStep ==
    ASSUME PKept, CreateExisting
    PROVE  PKept'
<1>1. /\ sync.at = "create" /\ UNCHANGED <<running, synced, rsList, reborn>>
      /\ budget' = budget \/ \E kind : Disturb(kind)
      /\ \/ ipvs' = ipvs
         \/ /\ ipvs' = [ipvs EXCEPT ![sync.vs][Turn].weight = 1]
            /\ Turn \in DOMAIN ipvs[sync.vs]
      /\ IF Here \in rsList THEN sync' = [sync EXCEPT !.at = "move"] ELSE Done("create")
  BY Zenon DEF CreateExisting
<1>2. sync.vs \in DOMAIN ipvs
  BY <1>1, Zenon DEF PKept, SyncShape, Serving
<1>3. /\ Elsewhere(ipvs, ipvs', sync.vs, Turn)
      /\ Has(ipvs', sync.vs, Turn) <=> Has(ipvs, sync.vs, Turn)
      /\ Has(ipvs', sync.vs, Turn) => ipvs'[sync.vs][Turn] \in Server
  <2>1. CASE ipvs' = ipvs
    BY <2>1, Zenon DEF Elsewhere, PKept, KernelTyped
  <2>2. CASE ipvs' = [ipvs EXCEPT ![sync.vs][Turn].weight = 1] /\ Turn \in DOMAIN ipvs[sync.vs]
    <3>1. ipvs[sync.vs][Turn] \in Server /\ Has(ipvs, sync.vs, Turn)
      BY <1>2, <2>2, Zenon DEF PKept, KernelTyped, Has
    <3>2. /\ Elsewhere(ipvs, ipvs', sync.vs, Turn) /\ Has(ipvs', sync.vs, Turn)
          /\ Weighs(ipvs, ipvs', sync.vs, Turn, 1)
      <4>1. ipvs' = Weighed(ipvs, sync.vs, Turn, 1)
        BY <2>2, Zenon DEF Weighed
      <4>2. Turn \in DOMAIN ipvs[sync.vs]
        BY <2>2, Zenon
      <4>3. Elsewhere(ipvs, ipvs', sync.vs, Turn) /\ Has(ipvs', sync.vs, Turn)
        BY <1>2, <3>1, <4>1, <4>2, CellWeighed, Zenon
      <4>4. Weighs(ipvs, ipvs', sync.vs, Turn, 1)
        BY <1>2, <3>1, <4>1, <4>2, CellWeighed, Zenon
      <4> QED
        BY <4>3, <4>4, Zenon
    <3>3. ipvs'[sync.vs][Turn] \in Server
      BY <3>1, <3>2 DEF Server, Weighs
    <3> QED
      BY <3>1, <3>2, <3>3, Zenon
  <2> QED
    BY <1>1, <2>1, <2>2, Zenon
<1>4. DOMAIN ipvs' = DOMAIN ipvs
  BY <1>3, Zenon DEF Elsewhere
<1>5. SyncShape' /\ (Here \in rsList => sync'.at = "move")
  <2>1. sync.at \in Serving /\ "move" \in Serving /\ "create" \in Serving
    BY <1>1, Zenon DEF Serving
  <2>2. CASE Here \in rsList
    BY <1>1, <1>4, <2>1, <2>2, LoopShape, Zenon
  <2>3. CASE Here \notin rsList
    BY <1>1, <1>4, <2>1, <2>3, LoopShape, Zenon DEF Done
  <2> QED
    BY <2>2, <2>3, Zenon
<1>6. KernelTyped'
  <2>1. \A u, q : Has(ipvs', u, q) => ipvs'[u][q] \in Server
    BY <1>3, ServersTyped, Zenon DEF PKept
  <2> QED
    BY <1>1, <2>1, BudgetStep, Zenon DEF PKept, KernelTyped
<1>7. ASSUME NEW item \in rsList PROVE EntrySound(item)' /\ EntryThere(item)'
  <2>1. CASE item # Here
    BY <1>1, <1>3, <2>1, OtherEntry, Zenon DEF PKept, Here
  <2>2. CASE item = Here
    <3>1. sync' = [sync EXCEPT !.at = "move"] /\ "at" \in DOMAIN sync
      BY <1>1, <2>2, Zenon DEF PKept, SyncShape
    <3>2. sync'.at = "move" /\ sync'.vs = sync.vs /\ sync'.left = sync.left
      BY <1>1, <3>1, Zenon DEF PKept, SyncShape, Serving
    <3>3. Here' = Here
      BY <3>2, Zenon DEF Here, Turn
    <3>4. EntryThere(item) /\ sync.at # "readd"
      BY <1>1, Zenon DEF PKept, Entries
    <3>5. item[1] = sync.vs /\ item[2] = Turn
      BY <2>2, Zenon DEF Here
    <3> QED
      BY <1>1, <1>3, <2>2, <3>2, <3>3, <3>4, <3>5, Zenon DEF EntrySound, EntryThere
  <2> QED
    BY <2>1, <2>2, Zenon
<1>8. Entries'
  BY <1>1, <1>7, Zenon DEF PKept, Entries
<1> QED
  BY <1>5, <1>6, <1>8, Zenon DEF PKept

(* MoveRSOutofGracefulDeleteList: the server goes, and its entry will; or    *)
(* both stay, marked if it has a weight.                                     *)
LEMMA MoveStep ==
    ASSUME PKept, MoveRSOutofGracefulDeleteList
    PROVE  PKept'
<1> DEFINE there == Turn \in DOMAIN ipvs[sync.vs]
<1>1. /\ sync.at = "move" /\ UNCHANGED <<running, synced, rsList>>
      /\ budget' = budget \/ \E kind : Disturb(kind)
      /\ \/ /\ there /\ ipvs' = [ipvs EXCEPT ![sync.vs] = Without(@, Turn)]
            /\ sync' = [sync EXCEPT !.at = "readd"] /\ reborn' = reborn
         \/ /\ there /\ ipvs' = ipvs /\ Done("create")
            /\ reborn' = reborn \cup {item \in {Here} \cap rsList : ipvs[sync.vs][Turn].weight # 0}
         \/ ~there /\ ipvs' = ipvs /\ Done("create") /\ reborn' = reborn
  BY Zenon DEF MoveRSOutofGracefulDeleteList
<1> HIDE DEF there
<1>2. sync.vs \in DOMAIN ipvs /\ sync.at \in Serving /\ "readd" \in Serving /\ "create" \in Serving
  BY <1>1, Zenon DEF PKept, SyncShape, Serving
<1>3. Has(ipvs, sync.vs, Turn) <=> there
  BY <1>2, Zenon DEF Has, there
<1>4. ASSUME NEW item \in rsList, item = Here
      PROVE  item[1] = sync.vs /\ item[2] = Turn
  BY <1>4, Zenon DEF Here
<1>5. reborn \subseteq reborn' /\ reborn' \subseteq rsList
  BY <1>1, Zenon DEF PKept, Entries
<1>6. CASE there /\ ipvs' = [ipvs EXCEPT ![sync.vs] = Without(@, Turn)]
           /\ sync' = [sync EXCEPT !.at = "readd"]
  <2>1. Elsewhere(ipvs, ipvs', sync.vs, Turn) /\ ~Has(ipvs', sync.vs, Turn)
    BY <1>2, <1>6, CellRemoved, Zenon
  <2>2. DOMAIN ipvs' = DOMAIN ipvs
    BY <2>1, Zenon DEF Elsewhere
  <2>3. SyncShape' /\ sync'.at = "readd"
    BY <1>1, <1>2, <1>6, <2>2, LoopShape, Zenon
  <2>4. KernelTyped'
    <3>1. \A u, q : Has(ipvs', u, q) => ipvs'[u][q] \in Server
      BY <2>1, ServersTyped, Zenon DEF PKept
    <3> QED
      BY <1>1, <3>1, BudgetStep, Zenon DEF PKept, KernelTyped
  <2>5. Here' = Here
    <3>1. sync'.vs = sync.vs /\ sync'.left = sync.left
      BY <1>2, <1>6, Zenon DEF PKept, SyncShape
    <3> QED
      BY <3>1, Zenon DEF Here, Turn
  <2>6. ASSUME NEW item \in rsList PROVE EntrySound(item)' /\ EntryThere(item)'
    <3>1. CASE item # Here
      BY <1>5, <2>1, <3>1, OtherEntry, Zenon DEF PKept, Here
    <3>2. CASE item = Here
      BY <1>4, <2>1, <2>3, <2>5, <3>2, Zenon DEF EntrySound, EntryThere
    <3> QED
      BY <3>1, <3>2, Zenon
  <2>7. Entries'
    BY <1>1, <1>5, <2>6, Zenon DEF PKept, Entries
  <2> QED
    BY <2>3, <2>4, <2>7, Zenon DEF PKept
<1>7. CASE /\ ipvs' = ipvs /\ Done("create")
           /\ there => reborn' = reborn \cup
                          {item \in {Here} \cap rsList : ipvs[sync.vs][Turn].weight # 0}
  <2>1. SyncShape'
    BY <1>1, <1>2, <1>7, LoopShape, Zenon DEF Done
  <2>2. KernelTyped'
    BY <1>1, <1>7, BudgetStep, Zenon DEF PKept, KernelTyped
  <2>3. ASSUME NEW item \in rsList PROVE EntrySound(item)' /\ EntryThere(item)'
    <3>1. Elsewhere(ipvs, ipvs', sync.vs, Turn)
      BY <1>7, Zenon DEF Elsewhere
    <3>2. CASE item # Here
      BY <1>5, <3>1, <3>2, OtherEntry, Zenon DEF PKept, Here
    <3>3. CASE item = Here /\ there
      <4>1. ipvs[sync.vs][Turn].weight # 0 => item \in reborn'
        BY <1>7, <3>3, Zenon
      <4> QED
        BY <1>3, <1>4, <1>7, <3>3, <4>1, Zenon DEF EntrySound, EntryThere
    <3>4. CASE item = Here /\ ~there
      <4>1. EntryThere(item) /\ sync.at # "readd"
        BY <1>1, Zenon DEF PKept, Entries
      <4> QED
        BY <1>3, <1>4, <1>5, <1>7, <3>4, <4>1, Zenon DEF EntrySound, EntryThere
    <3> QED
      BY <3>2, <3>3, <3>4, Zenon
  <2>4. Entries'
    BY <1>1, <1>5, <2>3, Zenon DEF PKept, Entries
  <2> QED
    BY <2>1, <2>2, <2>4, Zenon DEF PKept
<1> QED
  BY <1>1, <1>6, <1>7, Zenon

(* AddRealServer: a server is added at full weight, and the entry of one     *)
(* that was taken out goes with it.                                          *)
LEMMA AddStep ==
    ASSUME PKept, AddRealServer
    PROVE  PKept'
<1>1. /\ sync.at = "readd" \/ sync.at = "create"
      /\ rsList' = IF sync.at = "readd" THEN rsList \ {Here} ELSE rsList
      /\ reborn' = reborn \cap rsList'
      /\ budget' = budget \/ \E kind : Disturb(kind)
      /\ \/ /\ Turn \notin DOMAIN ipvs[sync.vs]
            /\ ipvs' = [ipvs EXCEPT ![sync.vs] = With(@, Turn, New)]
         \/ ipvs' = ipvs
      /\ Done("create") /\ UNCHANGED <<running, synced>>
  BY Zenon DEF AddRealServer
<1>2. sync.vs \in DOMAIN ipvs /\ sync.at \in Serving /\ "create" \in Serving
  BY <1>1, Zenon DEF PKept, SyncShape, Serving
<1>3. /\ Elsewhere(ipvs, ipvs', sync.vs, Turn)
      /\ ipvs' = ipvs \/ (Has(ipvs', sync.vs, Turn) /\ ~Has(ipvs, sync.vs, Turn))
      /\ Has(ipvs', sync.vs, Turn) => ipvs'[sync.vs][Turn] \in Server
  <2>1. CASE ipvs' = ipvs
    BY <2>1, Zenon DEF Elsewhere, PKept, KernelTyped
  <2>2. CASE /\ Turn \notin DOMAIN ipvs[sync.vs]
             /\ ipvs' = [ipvs EXCEPT ![sync.vs] = With(@, Turn, New)]
    <3>1. /\ Elsewhere(ipvs, ipvs', sync.vs, Turn) /\ Has(ipvs', sync.vs, Turn)
          /\ ipvs'[sync.vs][Turn] = New
      <4>1. sync.vs \in DOMAIN ipvs /\ Turn \notin DOMAIN ipvs[sync.vs]
        BY <1>2, <2>2, Zenon
      <4>2. ipvs' = Grown(ipvs, sync.vs, Turn)
        BY <2>2, Zenon DEF Grown
      <4> QED
        BY <4>1, <4>2, CellAdded
    <3>2. New \in Server
      BY Zenon DEF New, Server
    <3> QED
      BY <2>2, <3>1, <3>2, Zenon DEF Has
  <2> QED
    BY <1>1, <2>1, <2>2, Zenon
<1>4. DOMAIN ipvs' = DOMAIN ipvs
  BY <1>3, Zenon DEF Elsewhere
<1>5. SyncShape'
  BY <1>1, <1>2, <1>4, LoopShape, Zenon DEF Done
<1>6. KernelTyped'
  <2>1. \A u, q : Has(ipvs', u, q) => ipvs'[u][q] \in Server
    BY <1>3, ServersTyped, Zenon DEF PKept
  <2> QED
    BY <1>1, <2>1, BudgetStep, Zenon DEF PKept, KernelTyped
<1>7. rsList' \subseteq rsList /\ reborn' \subseteq rsList'
  BY <1>1, Zenon
<1>8. ASSUME NEW item \in rsList' PROVE EntrySound(item)' /\ EntryThere(item)'
  <2>1. item \in rsList /\ (item \in reborn => item \in reborn')
    BY <1>1, <1>8, Zenon
  <2>2. CASE item # Here
    BY <1>3, <2>1, <2>2, OtherEntry, Zenon DEF PKept, Here
  <2>3. CASE item = Here
    <3>1. sync.at = "create" /\ item[1] = sync.vs /\ item[2] = Turn
      BY <1>1, <1>8, <2>3, Zenon DEF Here
    <3>2. sync.at # "move" /\ sync.at # "readd"
      BY <3>1, Zenon
    <3>3. EntrySound(item) /\ EntryThere(item)
      BY <2>1, Zenon DEF PKept, Entries
    <3>4. CASE ipvs' = ipvs
      BY <2>1, <3>2, <3>3, <3>4, Zenon DEF EntrySound, EntryThere
    <3>5. CASE ~Has(ipvs, sync.vs, Turn)
      <4>1. item \in reborn'
        BY <2>1, <3>1, <3>2, <3>3, <3>5, Zenon DEF EntryThere
      <4> QED
        BY <4>1, Zenon DEF EntrySound, EntryThere
    <3> QED
      BY <1>3, <3>4, <3>5, Zenon
  <2> QED
    BY <2>2, <2>3, Zenon
<1>9. Entries'
  <2>1. \A item \in rsList' : item = <<item[1], item[2]>>
    BY <1>7, Zenon DEF PKept, Entries
  <2>2. running' \/ rsList' = {}
    BY <1>1, <1>7, Zenon DEF PKept, Entries
  <2> QED
    BY <1>7, <1>8, <2>1, <2>2, Zenon DEF Entries
<1> QED
  BY <1>5, <1>6, <1>9, Zenon DEF PKept

(* GracefulDeleteRS: a server that is not listed goes, or is listed with the *)
(* weight 0.                                                                 *)
LEMMA GracefulDeleteStep ==
    ASSUME PKept, GracefulDeleteRS
    PROVE  PKept'
<1>1. /\ sync.at = "delete" /\ UNCHANGED <<running, synced, reborn>> /\ Done("delete")
      /\ budget' = budget \/ \E kind : Disturb(kind)
      /\ \/ ipvs' = ipvs /\ rsList' = rsList
         \/ /\ Here \notin rsList /\ ipvs' = Removed(sync.vs, Turn) /\ rsList' = rsList
         \/ /\ Turn \in DOMAIN ipvs[sync.vs] /\ ipvs' = Drain(sync.vs, Turn)
            /\ rsList' = rsList \cup {Here}
  BY Zenon DEF GracefulDeleteRS
<1>2. /\ sync.vs \in DOMAIN ipvs /\ sync.at \in Serving /\ "delete" \in Serving /\ running
      /\ sync.at # "move" /\ sync.at # "readd"
  BY <1>1, Zenon DEF PKept, SyncShape, Serving
<1>3. /\ Elsewhere(ipvs, ipvs', sync.vs, Turn)
      /\ Has(ipvs', sync.vs, Turn) => ipvs'[sync.vs][Turn] \in Server
      /\ \/ ipvs' = ipvs /\ rsList' = rsList
         \/ Here \notin rsList /\ rsList' = rsList
         \/ /\ rsList' = rsList \cup {Here} /\ Has(ipvs', sync.vs, Turn)
            /\ ipvs'[sync.vs][Turn].weight = 0
  <2>1. CASE ipvs' = ipvs /\ rsList' = rsList
    BY <2>1, Zenon DEF Elsewhere, PKept, KernelTyped
  <2>2. CASE Here \notin rsList /\ ipvs' = Removed(sync.vs, Turn) /\ rsList' = rsList
    <3>1. Elsewhere(ipvs, ipvs', sync.vs, Turn) /\ ~Has(ipvs', sync.vs, Turn)
      BY <1>2, <2>2, CellRemoved, Zenon DEF Removed
    <3> QED
      BY <2>2, <3>1, Zenon
  <2>3. CASE /\ Turn \in DOMAIN ipvs[sync.vs] /\ ipvs' = Drain(sync.vs, Turn)
             /\ rsList' = rsList \cup {Here}
    <3>1. /\ ipvs[sync.vs][Turn] \in Server /\ Turn \in DOMAIN ipvs[sync.vs]
          /\ ipvs' = Weighed(ipvs, sync.vs, Turn, 0)
      BY <1>2, <2>3, Zenon DEF PKept, KernelTyped, Has, Weighed, Drain
    <3>2. /\ Elsewhere(ipvs, ipvs', sync.vs, Turn) /\ Has(ipvs', sync.vs, Turn)
          /\ Weighs(ipvs, ipvs', sync.vs, Turn, 0)
      <4>1. Elsewhere(ipvs, ipvs', sync.vs, Turn) /\ Has(ipvs', sync.vs, Turn)
        BY <1>2, <3>1, CellWeighed, Zenon
      <4>2. Weighs(ipvs, ipvs', sync.vs, Turn, 0)
        BY <1>2, <3>1, CellWeighed, Zenon
      <4> QED
        BY <4>1, <4>2, Zenon
    <3>3. ipvs'[sync.vs][Turn] \in Server /\ ipvs'[sync.vs][Turn].weight = 0
      BY <3>1, <3>2 DEF Server, Weighs
    <3> QED
      BY <2>3, <3>2, <3>3, Zenon
  <2> QED
    BY <1>1, <2>1, <2>2, <2>3, Zenon
<1>4. SyncShape'
  <2>1. DOMAIN ipvs' = DOMAIN ipvs
    BY <1>3, Zenon DEF Elsewhere
  <2> QED
    BY <1>1, <1>2, <2>1, LoopShape, Zenon DEF Done
<1>5. KernelTyped'
  <2>1. \A u, q : Has(ipvs', u, q) => ipvs'[u][q] \in Server
    BY <1>3, ServersTyped, Zenon DEF PKept
  <2> QED
    BY <1>1, <2>1, BudgetStep, Zenon DEF PKept, KernelTyped
<1>6. ASSUME NEW item \in rsList'
      PROVE  item = <<item[1], item[2]>> /\ EntrySound(item)' /\ EntryThere(item)'
  <2>1. CASE item # Here
    <3>1. item \in rsList
      BY <1>3, <1>6, <2>1, Zenon
    <3>2. EntrySound(item)' /\ EntryThere(item)'
      BY <1>1, <1>3, <2>1, <3>1, OtherEntry, Zenon DEF PKept, Here
    <3> QED
      BY <3>1, <3>2, Zenon DEF PKept, Entries
  <2>2. CASE item = Here
    <3>1. item = <<item[1], item[2]>> /\ item[1] = sync.vs /\ item[2] = Turn
      BY <2>2, Zenon DEF Here
    <3>2. CASE ipvs' = ipvs /\ item \in rsList
      <4>1. EntrySound(item) /\ EntryThere(item)
        BY <3>2, Zenon DEF PKept, Entries
      <4> QED
        BY <1>1, <1>2, <3>1, <3>2, <4>1, Zenon DEF EntrySound, EntryThere
    <3>3. CASE Has(ipvs', sync.vs, Turn) /\ ipvs'[sync.vs][Turn].weight = 0
      BY <3>1, <3>3, Zenon DEF EntrySound, EntryThere
    <3> QED
      BY <1>3, <1>6, <2>2, <3>2, <3>3, Zenon
  <2> QED
    BY <2>1, <2>2, Zenon
<1>7. Entries'
  <2>1. reborn' \subseteq rsList'
    BY <1>1, <1>3, Zenon DEF PKept, Entries
  <2> QED
    BY <1>1, <1>2, <1>6, <2>1, Zenon DEF Entries
<1> QED
  BY <1>4, <1>5, <1>7, Zenon DEF PKept

(* tryDeleteRs takes a server and its entry away together. *)
LEMMA TimerStep ==
    ASSUME PKept, NEW vs, NEW rs, tryDeleteRs(vs, rs)
    PROVE  PKept'
<1>1. /\ vs \in DOMAIN ipvs /\ ipvs' = (IF rs \in DOMAIN ipvs[vs] THEN Removed(vs, rs) ELSE ipvs)
      /\ rsList' = rsList \ {<<vs, rs>>} /\ reborn' = reborn \ {<<vs, rs>>}
      /\ UNCHANGED <<running, synced, sync, budget>>
  BY Zenon DEF tryDeleteRs
<1>2. Elsewhere(ipvs, ipvs', vs, rs) /\ ~Has(ipvs', vs, rs)
  <2>1. CASE rs \in DOMAIN ipvs[vs]
    BY <1>1, <2>1, CellRemoved, Zenon DEF Removed
  <2>2. CASE rs \notin DOMAIN ipvs[vs]
    BY <1>1, <2>2, Zenon DEF Elsewhere, Has
  <2> QED
    BY <2>1, <2>2, Zenon
<1>3. SyncShape'
  <2>1. DOMAIN ipvs' = DOMAIN ipvs
    BY <1>2, Zenon DEF Elsewhere
  <2> QED
    BY <1>1, <2>1, Zenon DEF PKept, SyncShape, initialized
<1>4. KernelTyped'
  <2>1. \A u, q : Has(ipvs', u, q) => ipvs'[u][q] \in Server
    BY <1>2, ServersTyped, Zenon DEF PKept
  <2> QED
    BY <1>1, <2>1, Zenon DEF PKept, KernelTyped
<1>5. ASSUME NEW item \in rsList'
      PROVE  item = <<item[1], item[2]>> /\ EntrySound(item)' /\ EntryThere(item)'
  <2>1. item \in rsList /\ item # <<vs, rs>> /\ (item \in reborn => item \in reborn')
    BY <1>1, <1>5, Zenon
  <2>2. EntrySound(item)' /\ EntryThere(item)'
    BY <1>1, <1>2, <2>1, OtherEntry, Zenon DEF PKept
  <2> QED
    BY <2>1, <2>2, Zenon DEF PKept, Entries
<1>6. Entries'
  <2>1. reborn' \subseteq rsList' /\ (~running' => rsList' = {})
    BY <1>1, Zenon DEF PKept, Entries
  <2> QED
    BY <1>5, <2>1, Zenon DEF Entries
<1> QED
  BY <1>3, <1>4, <1>6, Zenon DEF PKept

(* cleanLegacyService: the entries of a virtual server that goes stay, and   *)
(* are marked.                                                               *)
LEMMA CleanStep ==
    ASSUME PKept, cleanLegacyService
    PROVE  PKept'
<1>1. /\ sync.at = "ports" /\ sync' = Idle /\ UNCHANGED <<running, synced, rsList>>
      /\ budget' = budget \/ \E kind : Disturb(kind)
      /\ \E servers : /\ ipvs' = [vs \in DOMAIN ipvs \ servers |-> ipvs[vs]]
                      /\ reborn' = reborn \cup {item \in rsList : item[1] \in servers}
  BY Zenon DEF cleanLegacyService
<1>2. PICK servers : /\ ipvs' = [vs \in DOMAIN ipvs \ servers |-> ipvs[vs]]
                     /\ reborn' = reborn \cup {item \in rsList : item[1] \in servers}
  BY <1>1, Zenon
<1>3. \A vs, rs : /\ Has(ipvs', vs, rs) => Has(ipvs, vs, rs) /\ ipvs'[vs][rs] = ipvs[vs][rs]
                  /\ Has(ipvs, vs, rs) /\ vs \notin servers => Has(ipvs', vs, rs)
  BY <1>2, Zenon DEF Has
<1>4. SyncShape'
  <2>1. sync'.at = "idle" /\ "at" \in DOMAIN sync'
    BY <1>1, Zenon DEF Idle
  <2> QED
    BY <2>1, Zenon DEF SyncShape, Serving
<1>5. KernelTyped'
  <2>1. \A vs, rs : Has(ipvs', vs, rs) => ipvs'[vs][rs] \in Server
    BY <1>3, Zenon DEF PKept, KernelTyped
  <2> QED
    BY <1>1, <2>1, BudgetStep, Zenon DEF PKept, KernelTyped
<1>6. reborn \subseteq reborn' /\ reborn' \subseteq rsList
  BY <1>2, Zenon DEF PKept, Entries
<1>7. ASSUME NEW item \in rsList PROVE EntrySound(item)' /\ EntryThere(item)'
  <2>1. EntrySound(item) /\ EntryThere(item) /\ sync.at # "move" /\ sync.at # "readd"
    BY <1>1, Zenon DEF PKept, Entries
  <2>2. item[1] \in servers => item \in reborn'
    BY <1>2, Zenon
  <2>3. EntrySound(item)'
    <3>1. Has(ipvs', item[1], item[2]) =>
              Has(ipvs, item[1], item[2]) /\ ipvs'[item[1]][item[2]] = ipvs[item[1]][item[2]]
      BY <1>3, Zenon
    <3> QED
      BY <1>6, <2>1, <3>1, Zenon DEF EntrySound
  <2>4. EntryThere(item)'
    BY <1>3, <1>6, <2>1, <2>2, Zenon DEF EntryThere
  <2> QED
    BY <2>3, <2>4, Zenon
<1>8. Entries'
  BY <1>1, <1>6, <1>7, Zenon DEF PKept, Entries
<1> QED
  BY <1>4, <1>5, <1>8, Zenon DEF PKept

(* A process that stops forgets its list; until it runs again there is none. *)
LEMMA ProcessStep ==
    ASSUME PKept, Process
    PROVE  PKept'
<1>1. CASE Crash
  <2>1. /\ running' = FALSE /\ synced' = {} /\ sync' = Idle /\ rsList' = {} /\ reborn' = {}
        /\ ipvs' = ipvs /\ \E kind : Disturb(kind)
    BY <1>1, Zenon DEF Crash, kernelVars
  <2>2. SyncShape'
    <3>1. sync'.at = "idle" /\ "at" \in DOMAIN sync'
      BY <2>1, Zenon DEF Idle
    <3> QED
      BY <3>1, Zenon DEF SyncShape, Serving
  <2>3. KernelTyped'
    BY <2>1, BudgetStep, Zenon DEF PKept, KernelTyped
  <2>4. Entries'
    BY <2>1, Zenon DEF Entries
  <2> QED
    BY <2>2, <2>3, <2>4, Zenon DEF PKept
<1>2. CASE CanUseIPVSProxier \/ CleanupLeftovers
  <2>1. /\ ~running /\ UNCHANGED <<synced, sync, rsList, reborn>>
        /\ budget' = budget \/ \E kind : Disturb(kind)
        /\ ipvs' = ipvs \/ ipvs' = Empty \/ ipvs' = With(Empty, Probe, Empty)
    BY <1>2, Zenon DEF CanUseIPVSProxier, CleanupLeftovers
  <2>2. sync.at = "idle" /\ rsList = {} /\ reborn = {}
    BY <2>1, Zenon DEF PKept, SyncShape, Entries
  <2>3. \A vs, rs : Has(ipvs', vs, rs) => Has(ipvs, vs, rs) /\ ipvs'[vs][rs] = ipvs[vs][rs]
    <3>1. CASE ipvs' = ipvs
      BY <3>1, Zenon
    <3>2. \A vs, rs : ~Has(Empty, vs, rs) /\ ~Has(With(Empty, Probe, Empty), vs, rs)
      <4>1. DOMAIN Empty = {}
        BY Zenon DEF Empty
      <4>2. /\ DOMAIN With(Empty, Probe, Empty) = {Probe}
            /\ With(Empty, Probe, Empty)[Probe] = Empty
        BY <4>1, Zenon DEF With
      <4> QED
        BY <4>1, <4>2, Zenon DEF Has
    <3> QED
      BY <2>1, <3>1, <3>2, Zenon
  <2>4. SyncShape'
    BY <2>1, <2>2, Zenon DEF PKept, SyncShape, Serving
  <2>5. KernelTyped'
    BY <2>1, <2>3, BudgetStep, Zenon DEF PKept, KernelTyped
  <2>6. Entries'
    BY <2>1, <2>2, Zenon DEF Entries
  <2> QED
    BY <2>4, <2>5, <2>6, Zenon DEF PKept
<1> QED
  BY <1>1, <1>2, Zenon DEF Process

-----------------------------------------------------------------------------
(* Every step of the proxier and of its surroundings. *)
LEMMA ProxierStep ==
    ASSUME PKept, [Next]_vars
    PROVE  PKept'
<1>0. synced \subseteq {"imports", "slices"}
  BY Zenon DEF PKept, KernelTyped
<1>1. ASSUME Environment PROVE PKept'
  <2>1. CASE ImportChanges \/ SliceChanges
    <3>1. /\ UNCHANGED <<sync, ipvs, rsList, reborn, running, synced>>
          /\ \E kind : Disturb(kind)
      BY <2>1, Zenon DEF ImportChanges, SliceChanges, kernelVars
    <3> QED
      BY <1>0, <3>1, QuietStep, Zenon
  <2>2. CASE \E vs \in DOMAIN ipvs : \E rs \in DOMAIN ipvs[vs] : Connections(vs, rs)
    BY <2>2, ConnectionsStep, Zenon
  <2> QED
    BY <1>1, <2>1, <2>2, Zenon DEF Environment
<1>2. ASSUME Handler PROVE PKept'
  <2>1. ASSUME NEW s, HandleImport(s) \/ HandleSlice(s) PROVE PKept'
    <3>1. UNCHANGED <<sync, ipvs, rsList, reborn, running, synced, budget>>
      BY <2>1, Zenon DEF HandleImport, HandleSlice, kernelVars
    <3> QED
      BY <1>0, <3>1, QuietStep, Zenon
  <2>2. ASSUME NEW informer \in {"imports", "slices"}, OnSynced(informer) PROVE PKept'
    <3>1. /\ UNCHANGED <<sync, ipvs, rsList, reborn, running, budget>>
          /\ synced' = synced \cup {informer}
      BY <2>2, Zenon DEF OnSynced, kernelVars
    <3> QED
      BY <1>0, <2>2, <3>1, QuietStep, Zenon
  <2> QED
    BY <1>2, <2>1, <2>2, Zenon DEF Handler
<1>3. ASSUME syncProxyRules PROVE PKept'
  <2>1. CASE SyncRefused
    <3>1. UNCHANGED <<sync, ipvs, rsList, reborn, running, synced, budget>>
      BY <2>1, Zenon DEF SyncRefused, kernelVars
    <3> QED
      BY <1>0, <3>1, QuietStep, Zenon
  <2>2. ASSUME NEW q, syncService(q) PROVE PKept'
    BY <2>2, ServiceServed, Zenon
  <2> QED
    BY <1>3, <2>1, <2>2, MapsStep, CreateExistingStep, MoveStep, AddStep, GracefulDeleteStep,
       CleanStep, Zenon DEF syncProxyRules
<1>4. ASSUME Timer PROVE PKept'
  BY <1>4, TimerStep, Zenon DEF Timer
<1>5. ASSUME Process PROVE PKept'
  BY <1>5, ProcessStep, Zenon
<1>6. ASSUME UNCHANGED vars PROVE PKept'
  <2>1. UNCHANGED <<sync, ipvs, rsList, reborn, running, synced, budget>>
    BY <1>6, Zenon DEF vars, kernelVars
  <2> QED
    BY <1>0, <2>1, QuietStep, Zenon
<1> QED
  BY <1>1, <1>2, <1>3, <1>4, <1>5, <1>6, Zenon DEF Next

(* A proxier that starts has an empty list. *)
LEMMA ProxierStarts ==
    ASSUME Init
    PROVE  PKept
<1>1. SyncShape
  BY Zenon DEF Init, Idle, SyncShape, Serving
<1>2. KernelTyped
  <2>1. ipvs \in InitialServers /\ synced = {} /\ budget = MaxDisturbances
    BY Zenon DEF Init
  <2>2. \A vs, rs : Has(ipvs, vs, rs) => ipvs[vs][rs] \in Server
    BY <2>1, ProxierAssumption, Zenon DEF Has, Server
  <2> QED
    BY <2>1, <2>2, ProxierAssumption DEF KernelTyped
<1>3. Entries
  BY Zenon DEF Init, Entries
<1> QED
  BY <1>1, <1>2, <1>3, Zenon DEF PKept

(* The inductive invariant of the proxier, for all services, slices, kernels *)
(* left behind and disturbances.                                             *)
THEOREM ProxierInvariance == Spec => []PKept
<1>1. Init => PKept
  BY ProxierStarts, Zenon
<1>2. PKept /\ [Next]_vars => PKept'
  BY ProxierStep, Zenon
<1> QED
  BY <1>1, <1>2, PTL DEF Spec

(* The timer only ever takes away real servers that drain, but for those     *)
(* whose virtual server was deleted meanwhile, whose weight was reset, or    *)
(* that are just being taken out of the list (tryDeleteRs, GracefulDeleteRS). *)
THEOREM OnlyDrainingListed == Spec => []TerminationSound
<1>1. PKept => TerminationSound
  BY Zenon DEF PKept, Entries, EntrySound, Has, TerminationSound
<1> QED
  BY <1>1, ProxierInvariance, PTL

(* The state of the proxier keeps its shape: a synchronisation runs only in  *)
(* a process that runs and has its first lists, and every weight is 0 or 1   *)
(* (syncProxyRules).                                                         *)
THEOREM ProxierTypeCorrect == Spec => []ProxierTypeOK
<1>1. PKept /\ TypeOK => ProxierTypeOK
  <2> SUFFICES ASSUME PKept, TypeOK PROVE ProxierTypeOK
    BY Zenon
  <2>1. \A vs \in DOMAIN ipvs : \A rs \in DOMAIN ipvs[vs] :
            ipvs[vs][rs] \in [weight : {0, 1}, conns : {0, 1}]
    BY Zenon DEF PKept, KernelTyped, Has, Server
  <2>2. /\ sync.at \in {"idle", "endpoints", "device", "ports", "create", "move", "readd", "delete"}
        /\ sync.at # "idle" => running /\ initialized
    BY Zenon DEF PKept, SyncShape, Serving
  <2>3. /\ synced \subseteq {"imports", "slices"} /\ reborn \subseteq rsList
        /\ budget \in 0..MaxDisturbances
    BY Zenon DEF PKept, KernelTyped, Entries
  <2> QED
    BY <2>1, <2>2, <2>3, Zenon DEF ProxierTypeOK
<1> QED
  BY <1>1, ProxierInvariance, DrivesTrackers, TypeCorrect, PTL

(* No step of the proxier cuts an established TCP connection while its       *)
(* virtual server stays, but for MoveRSOutofGracefulDeleteList with the      *)
(* server it takes out: a busy server is only given the weight 0             *)
(* (deleteRsFunc), and what CreateExisting and the client steps change is    *)
(* not which servers there are.                                              *)
THEOREM NoConnectionCut == Spec => ConnectionsKept
<1> DEFINE Cut(vs, rs) == /\ vs \in DOMAIN ipvs' /\ vs[3] = "TCP" /\ ipvs[vs][rs].conns # 0
                          /\ rs \notin DOMAIN ipvs'[vs]
           Kept == \A vs \in DOMAIN ipvs : \A rs \in DOMAIN ipvs[vs] :
                       Cut(vs, rs) => sync.at = "move" /\ <<vs, rs>> = Here
<1>1. PKept /\ Next => Kept
  <2> SUFFICES ASSUME PKept, Next, NEW vs \in DOMAIN ipvs, NEW rs \in DOMAIN ipvs[vs], Cut(vs, rs)
               PROVE  sync.at = "move" /\ <<vs, rs>> = Here
    BY Zenon
  <2>1. Has(ipvs, vs, rs) /\ ~Has(ipvs', vs, rs) /\ ipvs' # ipvs
    BY Zenon DEF Has
  <2>2. ASSUME NEW v, NEW r, Elsewhere(ipvs, ipvs', v, r)
        PROVE  vs = v /\ rs = r
    <3>1. <<vs, rs>> = <<v, r>>
      BY <2>1, <2>2, Zenon DEF Elsewhere
    <3> QED
      BY <3>1, Zenon
  <2>3. ASSUME NEW v, NEW r, ~Draining(v, r), v \in DOMAIN ipvs, ipvs' = Removed(v, r) PROVE FALSE
    <3>1. Elsewhere(ipvs, ipvs', v, r)
      BY <2>3, CellRemoved, Zenon DEF Removed
    <3>2. vs = v /\ rs = r
      BY <2>2, <3>1, Zenon
    <3> QED
      BY <2>3, <3>2, Zenon DEF Draining
  <2>4. ASSUME Environment PROVE FALSE
    <3>1. PICK v \in DOMAIN ipvs : \E r \in DOMAIN ipvs[v] : Connections(v, r)
      BY <2>1, <2>4, Zenon DEF Environment, ImportChanges, SliceChanges, kernelVars
    <3>2. PICK r \in DOMAIN ipvs[v] : Connections(v, r)
      BY <3>1, Zenon
    <3>3. ipvs' = [ipvs EXCEPT ![v][r].conns = 1 - @] /\ ipvs[v][r] \in Server
      BY <3>2, Zenon DEF Connections, PKept, KernelTyped, Has
    <3>4. Elsewhere(ipvs, ipvs', v, r) /\ Has(ipvs', v, r)
      BY <3>3, CellCounted, Zenon
    <3> QED
      BY <2>1, <2>2, <3>4
  <2>5. ASSUME Handler PROVE FALSE
    BY <2>1, <2>5, Zenon DEF Handler, HandleImport, HandleSlice, OnSynced, kernelVars
  <2>6. ASSUME Timer PROVE FALSE
    BY <2>1, <2>3, <2>6, Zenon DEF Timer, tryDeleteRs
  <2>7. ASSUME Process PROVE FALSE
    <3>1. CASE Crash
      BY <2>1, <3>1, Zenon DEF Crash, kernelVars
    <3>2. CASE CanUseIPVSProxier
      <4>1. ipvs = Empty
        BY <2>1, <3>2, Zenon DEF CanUseIPVSProxier
      <4> QED
        BY <4>1, Zenon DEF Empty
    <3>3. CASE CleanupLeftovers
      <4>1. ipvs' = Empty
        BY <2>1, <3>3, Zenon DEF CleanupLeftovers
      <4> QED
        BY <4>1, Zenon DEF Empty
    <3> QED
      BY <2>7, <3>1, <3>2, <3>3, Zenon DEF Process
  <2>8. ASSUME syncProxyRules PROVE sync.at = "move" /\ <<vs, rs>> = Here
    <3>0. sync.at \in Serving => sync.vs \in DOMAIN ipvs
      BY Zenon DEF PKept, SyncShape
    <3>1. CASE \E q \in sync.todo : syncService(q)
      <4>1. PICK q : syncService(q)
        BY <3>1, Zenon
      <4>2. ipvs' = Added(VirtualServer(q))
        BY <2>1, <4>1, Zenon DEF syncService
      <4> QED
        BY <2>1, <4>2, ServerAdded, Zenon
    <3>2. CASE CreateExisting
      <4>1. /\ sync.at = "create" /\ Turn \in DOMAIN ipvs[sync.vs]
            /\ ipvs' = Weighed(ipvs, sync.vs, Turn, 1)
        BY <2>1, <3>2, Zenon DEF CreateExisting, Weighed
      <4>2. sync.vs \in DOMAIN ipvs
        BY <3>0, <4>1, Zenon DEF Serving
      <4>3. ipvs[sync.vs][Turn] \in Server
        BY <4>1, <4>2, Zenon DEF PKept, KernelTyped, Has
      <4>4. Elsewhere(ipvs, ipvs', sync.vs, Turn) /\ Has(ipvs', sync.vs, Turn)
        BY <4>1, <4>2, <4>3, CellWeighed, Zenon
      <4> QED
        BY <2>1, <2>2, <4>4
    <3>3. CASE MoveRSOutofGracefulDeleteList
      <4>1. sync.at = "move" /\ ipvs' = [ipvs EXCEPT ![sync.vs] = Without(@, Turn)]
        BY <2>1, <3>3, Zenon DEF MoveRSOutofGracefulDeleteList
      <4>2. sync.vs \in DOMAIN ipvs
        BY <3>0, <4>1, Zenon DEF Serving
      <4>3. Elsewhere(ipvs, ipvs', sync.vs, Turn)
        BY <4>1, <4>2, CellRemoved, Zenon
      <4>4. vs = sync.vs /\ rs = Turn
        BY <2>2, <4>3, Zenon
      <4> QED
        BY <4>1, <4>4, Zenon DEF Here
    <3>4. CASE AddRealServer
      <4>1. /\ sync.at = "readd" \/ sync.at = "create"
            /\ Turn \notin DOMAIN ipvs[sync.vs] /\ ipvs' = Grown(ipvs, sync.vs, Turn)
        BY <2>1, <3>4, Zenon DEF AddRealServer, Grown
      <4>2. sync.vs \in DOMAIN ipvs
        BY <3>0, <4>1, Zenon DEF Serving
      <4>3. Elsewhere(ipvs, ipvs', sync.vs, Turn) /\ Has(ipvs', sync.vs, Turn)
        BY <4>1, <4>2, CellAdded, Zenon
      <4> QED
        BY <2>1, <2>2, <4>3
    <3>5. CASE GracefulDeleteRS
      <4>1. sync.vs \in DOMAIN ipvs
        <5>1. sync.at = "delete"
          BY <3>5, Zenon DEF GracefulDeleteRS
        <5> QED
          BY <3>0, <5>1, Zenon DEF Serving
      <4>2. CASE ~Draining(sync.vs, Turn) /\ ipvs' = Removed(sync.vs, Turn)
        BY <2>3, <4>1, <4>2, Zenon
      <4>3. CASE Turn \in DOMAIN ipvs[sync.vs] /\ ipvs' = Drain(sync.vs, Turn)
        <5>1. /\ ipvs' = Weighed(ipvs, sync.vs, Turn, 0) /\ Turn \in DOMAIN ipvs[sync.vs]
              /\ ipvs[sync.vs][Turn] \in Server
          BY <4>1, <4>3, Zenon DEF Drain, Weighed, PKept, KernelTyped, Has
        <5>2. Elsewhere(ipvs, ipvs', sync.vs, Turn) /\ Has(ipvs', sync.vs, Turn)
          BY <4>1, <5>1, CellWeighed, Zenon
        <5> QED
          BY <2>1, <2>2, <5>2
      <4> QED
        BY <2>1, <3>5, <4>2, <4>3, Zenon DEF GracefulDeleteRS
    <3>6. CASE cleanLegacyService
      <4>1. PICK servers : ipvs' = [u \in DOMAIN ipvs \ servers |-> ipvs[u]]
        BY <3>6, Zenon DEF cleanLegacyService
      <4>2. ipvs'[vs] = ipvs[vs]
        BY <4>1, Zenon
      <4> QED
        BY <4>2, Zenon
    <3> QED
      BY <2>1, <2>8, <3>1, <3>2, <3>3, <3>4, <3>5, <3>6, Zenon DEF syncProxyRules, SyncRefused,
         SyncBegins, SyncReads, EnsureDummyDevice, DeleteOld, PortDone, kernelVars
  <2> QED
    BY <2>4, <2>5, <2>6, <2>7, <2>8, Zenon DEF Next
<1>2. PKept /\ [Next]_vars => [Kept]_vars
  BY <1>1, Zenon
<1> QED
  BY <1>2, ProxierInvariance, PTL DEF Spec, ConnectionsKept
=============================================================================
