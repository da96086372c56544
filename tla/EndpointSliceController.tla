------------------------ MODULE EndpointSliceController ------------------------
(***************************************************************************)
(* The EndpointSlice controller for one Service: the event handlers of its *)
(* four informers, the work queue with its retry budget, the worker with   *)
(* every call it makes to the API server, and the tracker of the slice     *)
(* generations it expects to see in its own cache.                         *)
(*                                                                         *)
(* The slice informer lags behind the API server: stream holds the events  *)
(* not delivered yet, in their order. The Service, the pods and the nodes  *)
(* are what their informers hold. A delivery updates a cache and runs the  *)
(* handler in one step.                                                    *)
(***************************************************************************)
EXTENDS EndpointSliceReconciler, Sequences

CONSTANTS
    Node,              \* node names
    SliceId,           \* slice uids; one is used again only when nobody remembers it
    ServiceStates,     \* what the spec, labels and annotations of the Service may be
    PodStates,         \* per pod, the states it may be in
    NodeStates,        \* per node, the states it may be in
    InitialServices,   \* the Service there may be when the controller starts
    InitialPods,       \* the pods there may be then
    InitialNodes,      \* the nodes there may be then
    MaxUid,            \* bound: incarnations of the Service
    MaxLag,            \* bound: slice events not delivered yet
    MaxRetries,        \* the retry budget of a key, maxRetries in the code
    Calm,              \* bound: disturbances wait until the controller is at rest
    Kinds,             \* the kinds of disturbance that happen
    MaxDisturbances    \* bound: how many of them

deletionExpected == -1
AddressTypes == {"IPv4", "IPv6"}

\* What the proofs need to know of a Service.
IsService(s) ==
    /\ {"uid", "dying", "labels", "families", "clusterIP"} \subseteq DOMAIN s
    /\ s.dying \in BOOLEAN
    /\ s.families \subseteq AddressTypes /\ s.clusterIP \in AddressTypes \cup {"None"}

ASSUME SliceIdAssumption == SliceId \subseteq Nat \ {NoId}
ASSUME NodeAssumption == IsFiniteSet(Node)
ASSUME BoundAssumption ==
    MaxUid \in Nat \ {0} /\ MaxLag \in Nat /\ MaxRetries \in Nat /\ MaxDisturbances \in Nat
ASSUME ServiceAssumption == \A s \in ServiceStates \cup InitialServices : IsService(s)
ASSUME InitialAssumption ==
    /\ \A f \in InitialPods : DOMAIN f \subseteq Pod /\ \A p \in DOMAIN f : f[p] \in PodStates[p]
    /\ \A f \in InitialNodes : DOMAIN f \subseteq Node /\ \A n \in DOMAIN f : f[n] \in NodeStates[n]

VARIABLES
    svc, pods, nodes,  \* the Service, pods and nodes in the caches
    api,               \* the slices the API server stores
    cache, stream,     \* the slices in the cache; the events on their way to it
    tracker,           \* per tracked slice the expected generation, or deletionExpected
    cpus, ezi,         \* topology cache: CPU per zone; hints per zone for each address type
    queue, retries,    \* the key is queued; its failures since it was last forgotten
    worker,            \* the worker's run of syncService
    lastUid, budget,   \* incarnations so far; disturbances left
    lost               \* history: a create or update was stored, but its answer was lost

vars == <<svc, pods, nodes, api, cache, stream, tracker, cpus, ezi, queue, retries, worker,
          lastUid, budget, lost>>

env   == <<svc, pods, nodes, lastUid>>
topo  == <<cpus, ezi>>
store == <<api, stream>>

NoPlan == [create |-> {}, update |-> << >>, delete |-> {}, ezi |-> << >>]
NoTrack == [id |-> NoId, gen |-> 0]
Idle == [pc |-> "idle", svc |-> NoObject, pods |-> << >>, slices |-> << >>, todo |-> {},
         plan |-> NoPlan, legacy |-> {}, track |-> NoTrack, err |-> FALSE]
NoHintsKept == [t \in AddressTypes |-> << >>]

IsSlice(s) ==
    /\ DOMAIN s = SliceFields
    /\ s.owner \in 1 .. MaxUid /\ s.type \in AddressTypes
    /\ s.gen \in Nat /\ s.rv \in Nat /\ s.dying \in BOOLEAN

SlicesIn(f) == DOMAIN f \subseteq SliceId /\ \A u \in DOMAIN f : IsSlice(f[u])

TypeOK ==
    /\ svc = NoObject \/ svc.uid \in 1 .. lastUid
    /\ DOMAIN pods \subseteq Pod /\ \A p \in DOMAIN pods : pods[p] \in PodStates[p]
    /\ DOMAIN nodes \subseteq Node /\ \A n \in DOMAIN nodes : nodes[n] \in NodeStates[n]
    /\ SlicesIn(api) /\ SlicesIn(cache)
    /\ \A i \in DOMAIN stream :
         /\ stream[i].id \in SliceId
         /\ stream[i].slice = NoObject \/ IsSlice(stream[i].slice)
    /\ DOMAIN tracker \subseteq SliceId /\ \A u \in DOMAIN tracker : tracker[u] \in Nat \cup {-1}
    /\ queue \in BOOLEAN /\ retries \in 0 .. MaxRetries
    /\ worker.pc \in {"idle", "plan", "apply", "track"}
    /\ lastUid \in 0 .. MaxUid /\ budget \in 0 .. MaxDisturbances /\ lost \in BOOLEAN

AtRest == worker.pc = "idle" /\ ~queue /\ stream = << >>

Disturb(kind) == kind \in Kinds /\ budget > 0 /\ (Calm => AtRest) /\ budget' = budget - 1

Fault(kind) == kind \in Kinds /\ budget > 0 /\ budget' = budget - 1

Init ==
    /\ \E s \in InitialServices : svc = [s EXCEPT !.uid = 1]
    /\ pods \in InitialPods
    /\ nodes \in InitialNodes
    /\ api = << >> /\ cache = << >> /\ stream = << >> /\ tracker = << >>
    /\ cpus = SetNodes(nodes) /\ ezi = NoHintsKept
    /\ queue = TRUE /\ retries = 0 /\ worker = Idle
    /\ lastUid = 1 /\ budget = MaxDisturbances /\ lost = FALSE

-----------------------------------------------------------------------------
(* The API server and the other clients that write slices.                 *)

Emit(u, s) == Len(stream) < MaxLag /\ stream' = Append(stream, [id |-> u, slice |-> s])

\* What the API server stores for a write over old: the generation counts the changes
\* of ports and endpoints, the version every change.
Stored(old, new) ==
    [new EXCEPT !.rv = old.rv + 1, !.dying = old.dying,
                !.gen = IF new.eps = old.eps /\ new.ports = old.ports THEN old.gen ELSE old.gen + 1]

SameContent(old, new) == \A f \in {"owner", "labels", "ports", "eps"} : old[f] = new[f]

\* An endpoint slice of type IPv6 with the IPv4 address of a pod is not valid.
Rejected(slice) == slice.type = "IPv6" /\ slice.eps # {}

PutSlice(u, new) ==
    IF SameContent(api[u], new) THEN UNCHANGED store
    ELSE api' = With(api, u, Stored(api[u], new)) /\ Emit(u, api'[u])

DropSlice(u) == api' = Without(api, u) /\ Emit(u, NoObject)

\* The garbage collector removes the slices of a Service that is gone or going.
GarbageCollect(u) ==
    /\ ~(svc # NoObject /\ ~svc.dying /\ api[u].owner = svc.uid)
    /\ DropSlice(u)
    /\ UNCHANGED <<env, topo, cache, tracker, queue, retries, worker, budget, lost>>

\* Someone else deletes a slice, at once or with a finalizer, or empties it.
ExternalDelete(u) ==
    /\ Disturb("delete") /\ DropSlice(u)
    /\ UNCHANGED <<env, topo, cache, tracker, queue, retries, worker, lost>>

ExternalClear(u) ==
    /\ Disturb("clear") /\ PutSlice(u, [api[u] EXCEPT !.eps = {}])
    /\ UNCHANGED <<env, topo, cache, tracker, queue, retries, worker, lost>>

ExternalMark(u) ==
    /\ ~api[u].dying /\ Disturb("finalizer")
    /\ api' = [api EXCEPT ![u].dying = TRUE, ![u].gen = @ + 1, ![u].rv = @ + 1]
    /\ Emit(u, api'[u])
    /\ UNCHANGED <<env, topo, cache, tracker, queue, retries, worker, lost>>

FinalizerRemoved(u) ==
    /\ api[u].dying /\ DropSlice(u)
    /\ UNCHANGED <<env, topo, cache, tracker, queue, retries, worker, budget, lost>>

-----------------------------------------------------------------------------
(* The tracker.                                                            *)

Has(u) == u \in DOMAIN tracker

ShouldSync(u, slice) == ~Has(u) \/ slice.gen > tracker[u]

StaleUnlessMissing(slices) ==
    \E u \in DOMAIN slices \cap DOMAIN tracker :
        tracker[u] = deletionExpected \/ tracker[u] > slices[u].gen

StaleSlices(slices) ==
    \/ \E u \in DOMAIN slices \cap DOMAIN tracker :
            tracker[u] = deletionExpected \/ tracker[u] > slices[u].gen
    \/ \E u \in DOMAIN tracker \ DOMAIN slices : tracker[u] # deletionExpected

-----------------------------------------------------------------------------
(* The handlers of the slice informer.                                     *)

\* onEndpointSliceAdd and onEndpointSliceUpdate.
onEndpointSliceUpdate(u, slice) == ShouldSync(u, slice)

\* onEndpointSliceDelete with HandleDeletion: a deletion nobody expected queues the Service.
onEndpointSliceDelete(u) == Has(u) /\ tracker[u] # deletionExpected

\* One event after the other.
Deliver ==
    /\ stream # << >>
    /\ LET e == Head(stream) IN
       IF e.slice = NoObject
       THEN /\ cache' = Without(cache, e.id)
            /\ tracker' = Without(tracker, e.id)
            /\ queue' = (queue \/ onEndpointSliceDelete(e.id))
       ELSE /\ cache' = With(cache, e.id, e.slice)
            /\ queue' = (queue \/ onEndpointSliceUpdate(e.id, e.slice))
            /\ UNCHANGED tracker
    /\ stream' = Tail(stream)
    /\ UNCHANGED <<env, topo, api, retries, worker, budget, lost>>

\* The watch breaks and the informer lists again: what happened in between is one event
\* for each slice, a deletion arrives as a tombstone.
Relist ==
    /\ Disturb("relist") /\ stream # << >>
    /\ LET gone  == DOMAIN cache \ DOMAIN api
           newer == {u \in DOMAIN api : u \notin DOMAIN cache \/ cache[u] # api[u]}
       IN  /\ queue' = (queue \/ (\E u \in gone : onEndpointSliceDelete(u))
                              \/ (\E u \in newer : onEndpointSliceUpdate(u, api[u])))
           /\ tracker' = Restrict(tracker, DOMAIN tracker \ gone)
    /\ cache' = api /\ stream' = << >>
    /\ UNCHANGED <<env, topo, api, retries, worker, lost>>

-----------------------------------------------------------------------------
(* The handlers of the Service, pod and node informers.                    *)

\* onServiceUpdate; every write of the Service queues its key.
ServiceComes(s) ==
    /\ svc = NoObject /\ lastUid < MaxUid /\ ~s.dying
    /\ svc' = [s EXCEPT !.uid = lastUid + 1] /\ lastUid' = lastUid + 1 /\ queue' = TRUE
    /\ UNCHANGED <<pods, nodes, topo, store, cache, tracker, retries, worker, budget, lost>>

ServiceChanges(s) ==
    /\ svc # NoObject /\ Disturb("service")
    /\ svc' = [s EXCEPT !.uid = svc.uid, !.dying = svc.dying \/ @] /\ svc' # svc /\ queue' = TRUE
    /\ UNCHANGED <<pods, nodes, lastUid, topo, store, cache, tracker, retries, worker, lost>>

\* onServiceDelete.
ServiceGoes ==
    /\ svc # NoObject /\ Disturb("service")
    /\ svc' = NoObject /\ queue' = TRUE
    /\ UNCHANGED <<pods, nodes, lastUid, topo, store, cache, tracker, retries, worker, lost>>

\* The informers resync every five seconds and hand every Service to onServiceUpdate. One
\* during a run of the worker is one right after it: the key waits until the run is done.
Resync ==
    /\ svc # NoObject /\ ~queue /\ worker.pc = "idle"
    /\ queue' = TRUE
    /\ UNCHANGED <<env, topo, store, cache, tracker, retries, worker, budget, lost>>

\* GetPodServiceMemberships, for the one Service there is.
Selected(pod) == svc # NoObject /\ svc.selects /\ pod.member

\* addPod and deletePod.
PodComes(p, s) ==
    /\ p \notin DOMAIN pods /\ Disturb("pod")
    /\ pods' = With(pods, p, s) /\ queue' = (queue \/ Selected(s))
    /\ UNCHANGED <<svc, nodes, lastUid, topo, store, cache, tracker, retries, worker, lost>>

PodGoes(p) ==
    /\ Disturb("pod")
    /\ pods' = Without(pods, p) /\ queue' = (queue \/ Selected(pods[p]))
    /\ UNCHANGED <<svc, nodes, lastUid, topo, store, cache, tracker, retries, worker, lost>>

\* podEndpointsChanged: the address annotation and the phase are not looked at.
podEndpointsChanged(old, new) == new.dying \/ old.ready # new.ready \/ old.ip # new.ip

\* updatePod with GetServicesToUpdateOnPodChange and determineNeededServiceUpdates.
updatePod(old, new) ==
    IF old.member = new.member
    THEN podEndpointsChanged(old, new) /\ Selected(new)
    ELSE Selected(new) \/ Selected(old)

PodChanges(p, s) ==
    /\ s # pods[p] /\ s.node = pods[p].node /\ s.uid = pods[p].uid
    /\ (pods[p].dying => s.dying) /\ (pods[p].terminal => s.terminal)
    /\ Disturb("pod")
    /\ pods' = [pods EXCEPT ![p] = s] /\ queue' = (queue \/ updatePod(pods[p], s))
    /\ UNCHANGED <<svc, nodes, lastUid, topo, store, cache, tracker, retries, worker, lost>>

\* The Service is past the threshold of some zone.
GetOverloadedServices(kept, cs) == \E t \in AddressTypes : serviceOverloaded(kept[t], cs)

checkNodeTopologyDistribution ==
    /\ cpus' = SetNodes(nodes')
    /\ queue' = (queue \/ GetOverloadedServices(ezi, cpus'))

\* addNode and deleteNode.
NodeComesOrGoes(n) ==
    /\ Disturb("node")
    /\ IF n \in DOMAIN nodes THEN nodes' = Without(nodes, n)
       ELSE \E s \in NodeStates[n] : nodes' = With(nodes, n, s)
    /\ checkNodeTopologyDistribution
    /\ UNCHANGED <<svc, pods, lastUid, ezi, store, cache, tracker, retries, worker, lost>>

\* updateNode: a change of the CPU alone is not taken over.
NodeChanges(n, s) ==
    /\ s # nodes[n] /\ Disturb("node")
    /\ nodes' = [nodes EXCEPT ![n] = s]
    /\ IF s.ready # nodes[n].ready \/ s.zone # nodes[n].zone
       THEN checkNodeTopologyDistribution ELSE UNCHANGED <<cpus, queue>>
    /\ UNCHANGED <<svc, pods, lastUid, ezi, store, cache, tracker, retries, worker, lost>>

-----------------------------------------------------------------------------
(* The worker: syncService, split at its calls to the API server.          *)

handleErrForever(err, queued) ==
    /\ worker' = Idle
    /\ IF err
       THEN queue' = TRUE /\ retries' = retries + 1
       ELSE queue' = queued /\ retries' = 0

\* handleErr at the end of a run. What an event queued meanwhile stays queued.
handleErr(err, queued) ==
    /\ worker' = Idle
    /\ IF err /\ retries < MaxRetries
       THEN queue' = TRUE /\ retries' = retries + 1
       ELSE queue' = queued /\ retries' = 0

dropEndpointSlicesPendingDeletion(slices) ==
    Restrict(slices, {u \in DOMAIN slices : ~slices[u].dying})

\* The Service is gone: the trackers forget it.
SyncDeleted ==
    /\ worker.pc = "idle" /\ queue /\ svc = NoObject
    /\ tracker' = << >> /\ handleErr(FALSE, FALSE)
    /\ UNCHANGED <<env, topo, store, cache, budget, lost>>

\* A Service without selector, or one of type ExternalName, is left alone.
SyncSkipped ==
    /\ worker.pc = "idle" /\ queue /\ svc # NoObject /\ ~svc.selects
    /\ handleErr(FALSE, FALSE)
    /\ UNCHANGED <<env, topo, store, cache, tracker, budget, lost>>

SyncStale ==
    /\ worker.pc = "idle" /\ queue /\ svc # NoObject /\ svc.selects
    /\ StaleSlices(dropEndpointSlicesPendingDeletion(cache))
    /\ handleErr(TRUE, FALSE)
    /\ UNCHANGED <<env, topo, store, cache, tracker, budget, lost>>

\* syncService up to Reconcile, and Reconcile up to its first address type: slices of a
\* type the Service no longer has are to be deleted, and their hints forgotten.
SyncBegins ==
    /\ worker.pc = "idle" /\ queue /\ svc # NoObject /\ svc.selects
    /\ LET slices == dropEndpointSlicesPendingDeletion(cache)
           types  == getAddressTypesForService(svc)
           legacy == {u \in DOMAIN slices : slices[u].type \notin types}
       IN  /\ ~StaleSlices(slices)
           /\ worker' = [Idle EXCEPT !.pc = "plan", !.svc = svc, !.pods = pods, !.slices = slices,
                                     !.todo = types, !.legacy = legacy]
           /\ ezi' = [t \in AddressTypes |->
                        IF \E u \in legacy : slices[u].type = t THEN << >> ELSE ezi[t]]
    /\ queue' = FALSE
    /\ UNCHANGED <<env, cpus, store, cache, tracker, retries, budget, lost>>

\* reconcileByAddressType up to its first call, for one of the types left.
Plan(t) ==
    /\ worker.pc = "plan" /\ t \in worker.todo
    /\ LET existing == Restrict(worker.slices, {u \in DOMAIN worker.slices : worker.slices[u].type = t})
       IN  \E plan \in reconcileByAddressType(worker.svc, t, worker.pods, nodes, existing, cpus) :
             /\ worker' = [worker EXCEPT !.pc = "apply", !.todo = @ \ {t}, !.plan = plan,
                              !.err = @ \/ PodSkipped(worker.pods, nodes, worker.svc)]
             /\ ezi' = [ezi EXCEPT ![t] = plan.ezi]
    /\ UNCHANGED <<env, cpus, store, cache, tracker, queue, retries, budget, lost>>

\* finalize: creates, unless the Service is being deleted, then updates, then deletes.
ToCreate == IF worker.svc.dying THEN {} ELSE worker.plan.create
ToUpdate == IF ToCreate = {} THEN DOMAIN worker.plan.update ELSE {}
ToDelete == IF ToCreate = {} /\ ToUpdate = {} THEN worker.plan.delete ELSE {}

\* Ids nobody remembers: such a uid and name are new to everyone.
FreshIds ==
    SliceId \ (DOMAIN api \cup DOMAIN cache \cup DOMAIN tracker \cup {stream[i].id : i \in DOMAIN stream}
                \cup DOMAIN worker.slices \cup {worker.track.id})

\* The call was answered: the result goes to the tracker next.
Answered(id, gen, plan) ==
    worker' = [worker EXCEPT !.pc = "track", !.plan = plan, !.track = [id |-> id, gen |-> gen]]

\* The call failed: finalize returns, the other address types go on.
Failed == worker' = [worker EXCEPT !.pc = "plan", !.plan = NoPlan, !.err = TRUE]

NewSlice(s) == [s EXCEPT !.gen = 1, !.rv = 1]

CreateSlice(s) ==
    /\ ~Rejected(s) /\ FreshIds # {}
    /\ LET u == CHOOSE i \in FreshIds : TRUE
       IN  /\ api' = With(api, u, NewSlice(s)) /\ Emit(u, NewSlice(s))
           /\ \/ Answered(u, 1, [worker.plan EXCEPT !.create = @ \ {s}]) /\ UNCHANGED <<budget, lost>>
              \/ Failed /\ Fault("lost") /\ lost' = TRUE

CreateFails(s) ==
    /\ \/ Rejected(s) /\ UNCHANGED budget
       \/ Fault("failure")
    /\ Failed /\ UNCHANGED <<store, lost>>

\* The namespace is being deleted: finalize returns without an error.
CreateInTerminating ==
    /\ Fault("terminating")
    /\ worker' = [worker EXCEPT !.pc = "plan", !.plan = NoPlan]
    /\ UNCHANGED <<store, lost>>

\* Whether an update is accepted: one that carries a version needs the stored one.
Accepted(u) ==
    LET s == worker.plan.update[u]
    IN  u \in DOMAIN api /\ s.rv \in {0, api[u].rv} /\ ~Rejected(s)

UpdateSlice(u) ==
    /\ Accepted(u)
    /\ PutSlice(u, worker.plan.update[u])
    /\ \/ /\ Answered(u, api'[u].gen, [worker.plan EXCEPT !.update = Without(@, u)])
          /\ UNCHANGED <<budget, lost>>
       \/ Failed /\ Fault("lost") /\ lost' = TRUE

UpdateFails(u) ==
    /\ \/ ~Accepted(u) /\ UNCHANGED budget
       \/ Accepted(u) /\ Fault("failure")
    /\ Failed /\ UNCHANGED <<store, lost>>

DeleteSlice(u) ==
    /\ u \in DOMAIN api /\ DropSlice(u)
    /\ \/ Answered(u, deletionExpected, [worker.plan EXCEPT !.delete = @ \ {u}]) /\ UNCHANGED budget
       \/ Failed /\ Fault("lost")
    /\ UNCHANGED lost

\* A slice that is not found is an error, too.
DeleteFails(u) ==
    /\ \/ u \notin DOMAIN api /\ UNCHANGED budget
       \/ u \in DOMAIN api /\ Fault("failure")
    /\ Failed /\ UNCHANGED <<store, lost>>

Apply ==
    /\ worker.pc = "apply"
    /\ \/ \E s \in ToCreate : CreateSlice(s) \/ CreateFails(s)
       \/ ToCreate # {} /\ CreateInTerminating
       \/ \E u \in ToUpdate : UpdateSlice(u) \/ UpdateFails(u)
       \/ \E u \in ToDelete : DeleteSlice(u) \/ DeleteFails(u)
    /\ UNCHANGED <<env, topo, cache, tracker, queue, retries>>

TrackNext ==
    /\ worker.pc = "track"
    /\ tracker' = With(tracker, worker.track.id, worker.track.gen + 1)
    /\ worker' = [worker EXCEPT !.track = NoTrack, !.pc = "apply"]
    /\ UNCHANGED <<env, topo, store, cache, queue, retries, budget, lost>>

\* tracker.Update and tracker.ExpectDeletion, after the answer of the call.
Track ==
    /\ worker.pc = "track"
    /\ tracker' = With(tracker, worker.track.id, worker.track.gen)
    /\ worker' = [worker EXCEPT !.track = NoTrack, !.pc = "apply"]
    /\ UNCHANGED <<env, topo, store, cache, queue, retries, budget, lost>>

AddressTypeDone ==
    /\ worker.pc = "apply" /\ ToCreate = {} /\ ToUpdate = {} /\ ToDelete = {}
    /\ worker' = [worker EXCEPT !.pc = "plan", !.plan = NoPlan]
    /\ UNCHANGED <<env, topo, store, cache, tracker, queue, retries, budget, lost>>

\* The last loop of Reconcile: slices of an address type the Service no longer has. A
\* failure does not keep it from the next one.
DeleteLegacy(u) ==
    /\ worker.pc = "plan" /\ worker.todo = {}
    /\ \/ /\ u \in DOMAIN api /\ DropSlice(u) /\ UNCHANGED budget
          /\ worker' = [worker EXCEPT !.pc = "track", !.legacy = @ \ {u},
                                     !.track = [id |-> u, gen |-> deletionExpected]]
       \/ /\ IF u \in DOMAIN api THEN Fault("failure") ELSE UNCHANGED budget
          /\ worker' = [worker EXCEPT !.legacy = @ \ {u}, !.err = TRUE]
          /\ UNCHANGED store
    /\ UNCHANGED <<env, topo, cache, tracker, queue, retries, lost>>

SyncEnds ==
    /\ worker.pc = "plan" /\ worker.todo = {} /\ worker.legacy = {}
    /\ handleErr(worker.err, queue)
    /\ UNCHANGED <<env, topo, store, cache, tracker, budget, lost>>

\* The process ends, or loses its lease and exits; the next one lists everything anew.
Restart ==
    /\ Disturb("crash")
    /\ tracker' = << >> /\ worker' = Idle /\ retries' = 0
    /\ cache' = api /\ stream' = << >>
    /\ cpus' = SetNodes(nodes) /\ ezi' = NoHintsKept
    /\ queue' = (svc # NoObject \/ api # << >>)
    /\ UNCHANGED <<env, api, lost>>

-----------------------------------------------------------------------------
Environment ==
    \/ \E s \in ServiceStates : ServiceComes(s) \/ ServiceChanges(s)
    \/ ServiceGoes
    \/ \E p \in Pod : \E s \in PodStates[p] : PodComes(p, s)
    \/ \E p \in DOMAIN pods : PodGoes(p) \/ \E s \in PodStates[p] : PodChanges(p, s)
    \/ \E n \in Node : NodeComesOrGoes(n)
    \/ \E n \in DOMAIN nodes : \E s \in NodeStates[n] : NodeChanges(n, s)
    \/ \E u \in DOMAIN api : ExternalDelete(u) \/ ExternalClear(u) \/ ExternalMark(u) \/ FinalizerRemoved(u)
    \/ Relist \/ Restart

Worker ==
    \/ SyncDeleted \/ SyncSkipped \/ SyncStale \/ SyncBegins
    \/ \E t \in AddressTypes : Plan(t)
    \/ Apply \/ Track \/ AddressTypeDone
    \/ \E u \in worker.legacy : DeleteLegacy(u)
    \/ SyncEnds

Collect == \E u \in DOMAIN api : GarbageCollect(u)

Next == Environment \/ Worker \/ Collect \/ Deliver \/ Resync

\* The worker and the informer run on, the garbage collector and the resync come round.
Fairness == WF_vars(Worker) /\ WF_vars(Deliver) /\ WF_vars(Collect) /\ WF_vars(Resync)

Spec == Init /\ [][Next]_vars /\ Fairness

-----------------------------------------------------------------------------
(* Properties.                                                             *)

\* Slices the current Service owns and that are not on their way out.
Live(type) == {u \in DOMAIN api : svc # NoObject /\ api[u].owner = svc.uid /\ api[u].type = type /\ ~api[u].dying}

\* The tracker never runs ahead of the API server (tracker.Update takes the generation of
\* an answer), and the cache never runs ahead of it either: a tracked generation the cache
\* has not reached is on its way, so a stale cache is noticed and passes.
TrackerSound ==
    /\ \A u \in DOMAIN tracker \cap DOMAIN api : tracker[u] <= api[u].gen
    /\ \A u \in DOMAIN cache \cap DOMAIN api : cache[u].gen <= api[u].gen

\* No endpoint is in two slices with the same ports, as long as no answer to a create or an
\* update was lost: the reconciler works on a cache that lags behind its own writes, and StaleSlices
\* has to keep it from adding an endpoint that it added before.
NoDuplicateEndpoint ==
    ~lost => \A t \in AddressTypes : \A u, v \in Live(t) : u # v /\ api[u].ports = api[v].ports =>
        \A e \in api[u].eps, f \in api[v].eps : hashEndpoint(e) # hashEndpoint(f)

\* No slice the controller wrote holds more endpoints than maxEndpointsPerSlice, however
\* the endpoints were spread over updated, unchanged and new slices.
NotOverfull == \A u \in DOMAIN api : Cardinality(api[u].eps) <= MaxEndpoints

\* The worker never writes into a slice an earlier Service of the same name owned
\* (finalize: "We need to avoid updating EndpointSlices that are being garbage collected").
OldOwnerUntouched ==
    [][worker'.pc = "track" /\ worker.pc = "apply" =>
        \A u \in DOMAIN api \cap DOMAIN api' : api[u] # api'[u] => api[u].owner = worker.svc.uid]_vars

\* The stored slices of one address type show exactly the desired endpoints, each once
\* and as it is now, with the labels of the Service.
Shown(t) == UNION {{[e EXCEPT !.hint = NoZone] : e \in api[u].eps} : u \in Live(t)}
Desired == UNION {DesiredEndpoints(pods, nodes, svc, m) : m \in DesiredPorts(pods)}

Exact(t) ==
    /\ Shown(t) = Desired
    /\ \A u \in Live(t) : /\ api[u].labels = svc.labels
                          /\ \A e \in api[u].eps : api[u].ports = pods[e.pod].ports
    /\ Cardinality(Desired) = MapThenSumSet(LAMBDA u : Cardinality(api[u].eps), Live(t))
    /\ Live(t) # {}

\* The hints offer every ready endpoint to one zone and each zone its minimum, or there are none.
HintsServe(t) ==
    LET eps == AllEndpoints({api[u] : u \in Live(t)})
        n   == Cardinality(ReadyIn(eps))
    IN  IF svc.hints /\ getAllocations(cpus, n) # << >> /\ \A e \in ReadyIn(eps) : e.zone # NoZone
        THEN \A z \in DOMAIN cpus : HintsTo(eps, z) >= MinimumOf(cpus, z, n)
        ELSE \A e \in eps : e.hint = NoZone

Converged ==
    svc # NoObject /\ svc.selects /\ ~svc.dying => Exact("IPv4") /\ HintsServe("IPv4")

\* The tracker waits for a slice that is gone, or that the worker leaves out of its list
\* because it is being deleted.
Blocked ==
    \E u \in DOMAIN tracker : tracker[u] # deletionExpected /\ (u \notin DOMAIN api \/ api[u].dying)

\* When pods, nodes and Service rest, the slices come to show exactly the desired endpoints
\* and stay so, whatever failed or was lost before, unless the tracker waits for a slice
\* it will not see again.
ConvergesUnlessBlocked == <>[](Converged \/ Blocked)

\* A change of the world, taken one at a time, is worth at most one write of a slice: the
\* controller comes to rest, although it may place endpoints and hints in several ways
\* each time it looks (reconcileByPortMapping keeps the slices that need no change).
WritesBounded ==
    Calm => \A u \in DOMAIN api : api[u].rv <= 1 + MaxDisturbances - budget
=============================================================================
