------------------------------- MODULE ProxyView -------------------------------
(* What the change trackers of the node proxy promise: every synchronisation *)
(* leaves in the two maps what the objects delivered so far give, as if each  *)
(* map were computed anew from all of them.                                  *)
EXTENDS ProxyRules

VARIABLES
    imports,       \* the ServiceImports the handlers have been told of
    slices,        \* the EndpointSlices the handlers have been told of
    svcPortMap,    \* service ports, by service
    endpointsMap   \* endpoints of the service ports, by service

vars == <<imports, slices, svcPortMap, endpointsMap>>

InfosOf(s) ==
    {newEndpointSliceInfo(slices[x], FALSE) :
        x \in {y \in Slice : ServiceOf[y] = s /\ slices[y] # NoObject}}

Init ==
    /\ imports = [s \in Service |-> NoObject]
    /\ slices = [x \in Slice |-> NoObject]
    /\ svcPortMap = [s \in Service |-> Empty]
    /\ endpointsMap = [s \in Service |-> Empty]

Hear ==
    /\ \/ \E s \in Service : \A t \in Service \ {s} : imports'[t] = imports[t]
       \/ imports' = imports
    /\ \/ \E x \in Slice : \A y \in Slice \ {x} : slices'[y] = slices[y]
       \/ slices' = slices
    /\ UNCHANGED <<svcPortMap, endpointsMap>>

SyncServices ==
    /\ svcPortMap' = [s \in Service |-> serviceImportToServiceMap(imports[s])]
    /\ UNCHANGED <<imports, slices, endpointsMap>>

SyncEndpoints ==
    /\ \A s \in Service : endpointsMap'[s] \in getEndpointsMap(InfosOf(s))
    /\ UNCHANGED <<imports, slices, svcPortMap>>

Restart == 
    /\ imports' = [s \in Service |-> NoObject]
    /\ slices' = [x \in Slice |-> NoObject]
    /\ svcPortMap' = [s \in Service |-> Empty]
    /\ endpointsMap' = [s \in Service |-> Empty]

Next == Hear \/ SyncServices \/ SyncEndpoints \/ Restart

Spec == Init /\ [][Next]_vars
=============================================================================
