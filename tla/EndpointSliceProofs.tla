-------------------------- MODULE EndpointSliceProofs --------------------------
(***************************************************************************)
(* Proofs about EndpointSliceController: the tracker and the cache never   *)
(* run ahead of the API server, no slice is overfull, a slice of an        *)
(* earlier Service is never written, and, unless an answer was lost, no    *)
(* endpoint is in two slices with the same ports.                          *)
(***************************************************************************)
EXTENDS EndpointSliceSteps, EndpointSlicePlans

-----------------------------------------------------------------------------
(* The first invariant: plans.                                             *)

(* The topology cache knows at least two zones, or none. *)
LEMMA SetNodesKnown ==
    ASSUME NEW f, DOMAIN f \subseteq Node
    PROVE  ZonesKnown(SetNodes(f))
<1> DEFINE counted == {n \in DOMAIN f : f[n].ready /\ ~f[n].control}
           zones == {f[n].zone : n \in counted}
           g == [n \in counted |-> f[n].zone]
<1>1. IsFiniteSet(counted)
  BY NodeAssumption, FS_Subset
<1>2. g \in Surjection(counted, zones)
  BY DEF Surjection
<1>3. Cardinality(zones) \in Nat
  BY <1>1, <1>2, FS_Surjection, FS_CardinalityType
<1>4. SetNodes(f) = << >> \/ (Cardinality(zones) >= 2 /\ DOMAIN SetNodes(f) = zones)
  BY Zenon DEF SetNodes
<1> HIDE DEF zones
<1> QED
  BY <1>3, <1>4 DEF ZonesKnown

(* What SetNodes says of the zones is known, whatever the nodes are. *)
LEMMA ZonesAreCounted == ZonesCounted
BY SetNodesKnown, Zenon DEF ZonesCounted

(* A slice without endpoints is not too large. *)
LEMMA EmptyFits == Fits({})
BY FS_EmptySet, MaxEndpointsAssumption DEF Fits

(* The shape of a plan. *)
LEMMA PlanShape ==
    ASSUME NEW sv, NEW type, NEW ps, NEW ns, NEW Y, NEW cs,
           NEW plan \in reconcileByAddressType(sv, type, ps, ns, Y, cs)
    PROVE  DOMAIN plan = PlanFields
<1>1. \E a, b, c, d : plan = [create |-> a, delete |-> b, ezi |-> c, update |-> d]
  BY Zenon DEF reconcileByAddressType, ReuseDeleted
<1> QED
  BY <1>1 DEF PlanFields

\* The new plan, for the slices Y of one address type.
Planned(t, Y) ==
    /\ DOMAIN Y = {u \in DOMAIN worker.slices : worker.slices[u].type = t}
    /\ \A u \in DOMAIN Y : Y[u] = worker.slices[u]
    /\ Sound(worker.svc, t, Y, worker'.plan.create, worker'.plan.update)
    /\ worker'.plan.delete \subseteq DOMAIN Y

(* What the worker does next for an address type. *)
LEMMA PlanFacts ==
    ASSUME Inv1, NEW t, Plan(t)
    PROVE  /\ worker.pc = "plan" /\ t \in worker.todo /\ UNCHANGED env /\ UNCHANGED store
           /\ UNCHANGED <<cpus, cache, tracker, queue, retries, budget, lost>>
           /\ DOMAIN worker' = WorkerFields /\ worker'.pc = "apply" /\ worker'.svc = worker.svc
           /\ worker'.pods = worker.pods /\ worker'.slices = worker.slices
           /\ worker'.todo = worker.todo \ {t} /\ worker'.legacy = worker.legacy
           /\ worker'.track = worker.track /\ DOMAIN worker'.plan = PlanFields
           /\ \E Y : Planned(t, Y)
<1> DEFINE Y == Restrict(worker.slices, {u \in DOMAIN worker.slices : worker.slices[u].type = t})
<1>1. /\ worker.pc = "plan" /\ t \in worker.todo /\ UNCHANGED env /\ UNCHANGED store
      /\ UNCHANGED <<cpus, cache, tracker, queue, retries, budget, lost>>
  BY Zenon DEF Plan
<1>2. PICK plan \in reconcileByAddressType(worker.svc, t, worker.pods, nodes, Y, cpus) :
        worker' = [worker EXCEPT !.pc = "apply", !.todo = @ \ {t}, !.plan = plan,
                                 !.err = @ \/ PodSkipped(worker.pods, nodes, worker.svc)]
  BY Zenon DEF Plan
<1>3. DOMAIN Y = {u \in DOMAIN worker.slices : worker.slices[u].type = t}
      /\ \A u \in DOMAIN Y : Y[u] = worker.slices[u]
  BY Zenon DEF Restrict
<1> HIDE DEF Y
<1>4. DOMAIN worker = WorkerFields
  BY Zenon DEF Inv1, WorkerOK
<1>5. /\ DOMAIN worker' = WorkerFields /\ worker'.pc = "apply" /\ worker'.svc = worker.svc
      /\ worker'.pods = worker.pods /\ worker'.slices = worker.slices
      /\ worker'.todo = worker.todo \ {t} /\ worker'.legacy = worker.legacy
      /\ worker'.track = worker.track /\ worker'.plan = plan
  BY <1>2, <1>4 DEF WorkerFields
<1>6. ZonesKnown(cpus) /\ DOMAIN worker.pods \subseteq Pod
  BY Zenon DEF Inv1, WorldOK, WorkerOK
<1>7. \A u \in DOMAIN worker.slices :
        /\ u # NoId /\ DOMAIN worker.slices[u] = SliceFields /\ Fits(worker.slices[u].eps)
        /\ \A e \in worker.slices[u].eps : IsEndpoint(e)
        /\ worker.slices[u].dying = FALSE
  <2>1. \A u \in DOMAIN worker.slices :
          u \in SliceId /\ Proper(worker.slices[u], lastUid) /\ ~worker.slices[u].dying
    BY Zenon DEF Inv1, WorkerOK, ProperIn
  <2>2. \A u \in DOMAIN worker.slices :
          IsSlice(worker.slices[u]) /\ worker.slices[u].dying \in BOOLEAN
    BY <2>1, Zenon DEF Proper, IsSlice
  <2> QED
    BY <2>1, <2>2, SliceIdAssumption, Zenon DEF Proper, IsSlice
<1>8. SlicesOf(worker.svc, t, Y)
  BY <1>3, <1>7, Zenon DEF SlicesOf, Item, ownedBy
<1>9. Sound(worker.svc, t, Y, plan.create, plan.update) /\ plan.delete \subseteq DOMAIN Y
  BY <1>2, <1>6, <1>8, PlanSound
<1>10. DOMAIN plan = PlanFields
  BY <1>2, PlanShape, Zenon
<1>11. Planned(t, Y)
  BY <1>3, <1>5, <1>9, Zenon DEF Planned
<1> QED
  BY <1>1, <1>5, <1>10, <1>11, Zenon

(* A plan is made (reconcileByAddressType, up to its calls). *)
LEMMA Inv1Plan ==
    ASSUME Inv1, NEW t, Plan(t)
    PROVE  Inv1'
<1>1. /\ worker.pc = "plan" /\ t \in worker.todo /\ UNCHANGED env /\ UNCHANGED store
      /\ UNCHANGED <<cpus, cache, tracker, queue, retries, budget, lost>>
      /\ DOMAIN worker' = WorkerFields /\ worker'.pc = "apply" /\ worker'.svc = worker.svc
      /\ worker'.pods = worker.pods /\ worker'.slices = worker.slices
      /\ worker'.todo = worker.todo \ {t} /\ worker'.legacy = worker.legacy
      /\ worker'.track = worker.track /\ DOMAIN worker'.plan = PlanFields
  BY PlanFacts, Zenon
<1>2. PICK Y : Planned(t, Y)
  BY PlanFacts, Zenon
<1>3. WorldOK' /\ Later
  BY <1>1, SameWorld, WorldTyped, Zenon
<1>4. SlicesOK' /\ CopiesOK'
  <2>1. Writes
    BY <1>1, <1>3, StillWrites, Zenon DEF store
  <2> QED
    BY <1>1, <1>3, <2>1, WritesCopies, Zenon DEF Inv1
<1>5. lastUid' = lastUid
  BY <1>1, Zenon DEF env
<1>6. WorkerOK'
  BY <1>1, <1>5, Zenon DEF WorkerOK, Inv1
<1>7. t \in AddressTypes \ worker'.todo
  BY <1>1, Zenon DEF Inv1, WorkerOK
<1>8. PlanOf(t)'
  BY <1>1, <1>2, Zenon DEF PlanOf, Sound, ownedBy, Planned
<1>9. PlanOK'
  BY <1>1, <1>2, <1>7, <1>8, Zenon DEF PlanOK, Planned
<1>10. HeldOK'
  BY <1>1, Zenon DEF HeldOK, Inv1, store
<1> QED
  BY <1>3, <1>4, <1>6, <1>9, <1>10, Zenon DEF Inv1

(* The first state. *)
LEMMA Inv1Init == Init => Inv1
<1> SUFFICES ASSUME Init PROVE Inv1
  OBVIOUS
<1>1. PICK s \in InitialServices : svc = [s EXCEPT !.uid = 1]
  BY Zenon DEF Init
<1>2. /\ pods \in InitialPods /\ nodes \in InitialNodes
      /\ api = << >> /\ cache = << >> /\ stream = << >> /\ tracker = << >>
      /\ cpus = SetNodes(nodes) /\ queue = TRUE /\ retries = 0 /\ worker = Idle
      /\ lastUid = 1 /\ budget = MaxDisturbances /\ lost = FALSE
  BY Zenon DEF Init
<1>3. IsService(svc) /\ svc.uid = lastUid
  <2>1. IsService(s)
    BY ServiceAssumption, Zenon
  <2>2. /\ DOMAIN svc = DOMAIN s /\ svc.uid = 1 /\ svc.dying = s.dying
        /\ svc.families = s.families /\ svc.clusterIP = s.clusterIP
    BY <1>1, <2>1 DEF IsService
  <2> QED
    BY <1>2, <2>1, <2>2, Zenon DEF IsService
<1>4. lastUid \in 1 .. MaxUid /\ retries \in 0 .. MaxRetries /\ budget \in 0 .. MaxDisturbances
  BY <1>2, BoundAssumption
<1>5. /\ DOMAIN pods \subseteq Pod /\ \A p \in DOMAIN pods : pods[p] \in PodStates[p]
      /\ DOMAIN nodes \subseteq Node /\ \A n \in DOMAIN nodes : nodes[n] \in NodeStates[n]
  BY <1>2, InitialAssumption, Zenon
<1>6. WorldOK
  <2>1. ZonesKnown(cpus)
    BY <1>2, <1>5, SetNodesKnown, Zenon
  <2> QED
    BY <1>2, <1>3, <1>4, <1>5, <2>1, Zenon DEF WorldOK
<1>7. /\ DOMAIN api = {} /\ DOMAIN cache = {} /\ DOMAIN stream = {} /\ DOMAIN tracker = {}
      /\ IsSeq(stream)
  BY <1>2, EmptyFacts, Zenon
<1>8. SlicesOK /\ CopiesOK /\ HeldOK
  BY <1>7, Zenon DEF SlicesOK, CopiesOK, HeldOK, ProperIn
<1>9. WorkerOK /\ PlanOK
  <2>1. WorkerOK
    BY <1>2, IdleFields, Zenon DEF WorkerOK, ProperIn
  <2>2. PlanOK
    BY <1>2, IdleFields, Zenon DEF PlanOK
  <2> QED
    BY <2>1, <2>2, Zenon
<1> QED
  BY <1>6, <1>8, <1>9, Zenon DEF Inv1

(* Every step keeps the first invariant. *)
LEMMA Inv1Next == Inv1 /\ [Next]_vars => Inv1'
<1> SUFFICES ASSUME Inv1, [Next]_vars PROVE Inv1'
  OBVIOUS
<1>1. CASE UNCHANGED vars
  <2>1. /\ UNCHANGED env /\ UNCHANGED topo /\ UNCHANGED store
        /\ UNCHANGED <<cache, tracker, queue, retries, worker, budget, lost>>
    BY <1>1, Zenon DEF vars, env, topo, store
  <2>2. WorldOK' /\ Later
    BY <2>1, SameWorld, WorldTyped, Zenon DEF topo
  <2>3. Writes
    BY <2>1, <2>2, StillWrites, Zenon DEF store
  <2> QED
    BY <2>1, <2>2, <2>3, PlainStep, Zenon DEF Onward
<1>2. CASE Environment
  <2>1. CASE ServiceGoes \/ \E s \in ServiceStates : ServiceComes(s) \/ ServiceChanges(s)
    BY <2>1, Inv1Service, Zenon
  <2>2. CASE \/ \E p \in Pod : \E s \in PodStates[p] : PodComes(p, s)
             \/ \E p \in DOMAIN pods : PodGoes(p) \/ \E s \in PodStates[p] : PodChanges(p, s)
    <3>1. DOMAIN pods \subseteq Pod
      BY Zenon DEF Inv1, WorldOK
    <3> QED
      BY <2>2, <3>1, Inv1Pods, Zenon
  <2>3. CASE \/ \E n \in Node : NodeComesOrGoes(n)
             \/ \E n \in DOMAIN nodes : \E s \in NodeStates[n] : NodeChanges(n, s)
    <3>1. DOMAIN nodes \subseteq Node
      BY Zenon DEF Inv1, WorldOK
    <3> QED
      BY <2>3, <3>1, Inv1Nodes, ZonesAreCounted, Zenon
  <2>4. CASE \E u \in DOMAIN api : ExternalDelete(u) \/ ExternalClear(u) \/ ExternalMark(u) \/ FinalizerRemoved(u)
    BY <2>4, Inv1External, EmptyFits, Zenon
  <2>5. CASE Relist \/ Restart
    BY <2>5, Inv1Relist, Inv1Restart, ZonesAreCounted, Zenon
  <2> QED
    BY <1>2, <2>1, <2>2, <2>3, <2>4, <2>5, Zenon DEF Environment
<1>3. CASE Worker
  BY <1>3, Inv1SyncDeleted, Inv1Ends, Inv1SyncBegins, Inv1Plan, Inv1Apply, Inv1Track, Inv1Done, Inv1Legacy,
     Zenon DEF Worker
<1>4. CASE Collect
  BY <1>4, Inv1External, EmptyFits, Zenon DEF Collect
<1>5. CASE Deliver \/ Resync
  BY <1>5, Inv1Deliver, Inv1Service, Zenon
<1> QED
  BY <1>1, <1>2, <1>3, <1>4, <1>5, Zenon DEF Next

(* The first invariant: every copy of a slice the controller holds is an earlier version *)
(* of the stored one, and its plans are for slices of its own Service.                   *)
THEOREM Copies == Spec => []Inv1
<1>1. Init => Inv1
  BY Inv1Init, Zenon
<1>2. Inv1 /\ [Next]_vars => Inv1'
  BY Inv1Next, Zenon
<1> QED
  BY <1>1, <1>2, PTL DEF Spec

(* The type invariant of the controller, in every state. *)
THEOREM TypeCorrect == Spec => []TypeOK
<1>1. Inv1 => TypeOK
  <2> SUFFICES ASSUME Inv1 PROVE TypeOK
    OBVIOUS
  <2>1. svc = NoObject \/ svc.uid \in 1 .. lastUid
    BY BoundAssumption DEF Inv1, WorldOK
  <2>2. SlicesIn(api) /\ SlicesIn(cache)
    BY Zenon DEF Inv1, SlicesOK, ProperIn, Proper, SlicesIn
  <2>3. \A i \in DOMAIN stream :
          stream[i].id \in SliceId /\ (stream[i].slice = NoObject \/ IsSlice(stream[i].slice))
    BY Zenon DEF Inv1, SlicesOK, Proper
  <2>4. lastUid \in 0 .. MaxUid
    BY BoundAssumption DEF Inv1, WorldOK
  <2> QED
    BY <2>1, <2>2, <2>3, <2>4, Zenon DEF Inv1, WorldOK, SlicesOK, WorkerOK, TypeOK
<1> QED
  BY <1>1, Copies, PTL

(* Neither what the tracker expects nor what the cache holds is ahead of the API server: *)
(* tracker.Update takes the generation of an answer, and ids are not used again while    *)
(* anyone remembers them.                                                                *)
THEOREM NeverAhead == Spec => []TrackerSound
<1>1. Inv1 => TrackerSound
  <2> SUFFICES ASSUME Inv1 PROVE TrackerSound
    OBVIOUS
  <2>1. ASSUME NEW u \in DOMAIN tracker \cap DOMAIN api PROVE tracker[u] <= api[u].gen
    <3>1. tracker[u] \in 0 .. api[u].gen
      BY Zenon DEF Inv1, CopiesOK
    <3>2. IsSlice(api[u])
      BY Zenon DEF Inv1, SlicesOK, ProperIn, Proper
    <3> QED
      BY <3>1, <3>2 DEF IsSlice
  <2>2. \A u \in DOMAIN cache \cap DOMAIN api : cache[u].gen <= api[u].gen
    BY Zenon DEF Inv1, CopiesOK, Older
  <2> QED
    BY <2>1, <2>2, Zenon DEF TrackerSound
<1> QED
  BY <1>1, Copies, PTL

(* No stored slice holds more than maxEndpointsPerSlice endpoints. *)
THEOREM SlicesFit == Spec => []NotOverfull
<1>1. Inv1 => NotOverfull
  BY Zenon DEF Inv1, SlicesOK, ProperIn, Proper, Fits, NotOverfull
<1> QED
  BY <1>1, Copies, PTL

(* finalize updates no slice of an earlier Service of the same name: the stored slice the *)
(* worker writes over is an Older version's successor and so has its owner.               *)
THEOREM OldOwnersKept == Spec => OldOwnerUntouched
<1> DEFINE A == worker'.pc = "track" /\ worker.pc = "apply" =>
                  \A u \in DOMAIN api \cap DOMAIN api' : api[u] # api'[u] => api[u].owner = worker.svc.uid
<1>1. Inv1 /\ [Next]_vars => [A]_vars
  <2> SUFFICES ASSUME Inv1, Next, worker'.pc = "track", worker.pc = "apply",
                      NEW u \in DOMAIN api, u \in DOMAIN api', api[u] # api'[u]
               PROVE  api[u].owner = worker.svc.uid
    BY Zenon
  <2>1. worker' # worker /\ api' # api
    BY Zenon
  <2>2. ~Environment
    <3>1. ~Restart
      BY IdleFields, Zenon DEF Restart
    <3> QED
      BY <2>1, <3>1, Zenon DEF Environment, ServiceComes, ServiceChanges, ServiceGoes, PodComes, PodGoes,
         PodChanges, NodeComesOrGoes, NodeChanges, ExternalDelete, ExternalClear, ExternalMark,
         FinalizerRemoved, Relist
  <2>3. ~Collect /\ ~Deliver /\ ~Resync
    BY <2>1, Zenon DEF Collect, GarbageCollect, Deliver, Resync
  <2>4. Apply
    BY <2>1, <2>2, <2>3, Zenon DEF Next, Worker, SyncDeleted, SyncSkipped, SyncStale, SyncBegins, Plan,
       Track, AddressTypeDone, DeleteLegacy, SyncEnds, store
  <2>5. UNCHANGED lastUid
    BY <2>4, Zenon DEF Apply, env
  <2>6. ASSUME NEW s \in ToCreate, CreateSlice(s) PROVE FALSE
    <3>1. api' = With(api, NewId, NewSlice(s)) /\ NewId \in FreshIds
      BY <2>5, <2>6, CreateStep, Zenon
    <3>2. u # NewId
      BY <3>1, Zenon DEF FreshIds
    <3> QED
      BY <3>1, <3>2, Zenon DEF With
  <2>7. ASSUME NEW v \in ToUpdate, UpdateSlice(v) PROVE api[u].owner = worker.svc.uid
    <3>1. api[v].owner = worker.svc.uid /\ PutSlice(v, worker.plan.update[v])
      BY <2>7, UpdateFacts, Zenon DEF UpdateSlice
    <3>2. api' = With(api, v, Stored(api[v], worker.plan.update[v]))
      BY <2>1, <3>1, Zenon DEF PutSlice, store
    <3>3. u = v
      BY <3>2, Zenon DEF With
    <3> QED
      BY <3>1, <3>3, Zenon
  <2>8. ASSUME NEW v \in ToDelete, DeleteSlice(v) PROVE FALSE
    BY <2>8, Zenon DEF DeleteSlice, DropSlice, Without, Restrict
  <2>9. CASE \/ \E s \in ToCreate : CreateFails(s)
             \/ CreateInTerminating
             \/ \E v \in ToUpdate : UpdateFails(v)
             \/ \E v \in ToDelete : DeleteFails(v)
    BY <2>1, <2>9, CallFails, Zenon
  <2> QED
    BY <2>4, <2>6, <2>7, <2>8, <2>9, Zenon DEF Apply
<1> QED
  BY <1>1, Copies, PTL DEF Spec, OldOwnerUntouched

-----------------------------------------------------------------------------
(* The second invariant holds.                                             *)

(* A plan is made from a list that covers what is there. *)
LEMMA PlanStep ==
    ASSUME Inv1, Knows, NEW t, Plan(t)
    PROVE  Knows'
<1>1. /\ worker.pc = "plan" /\ t \in worker.todo /\ UNCHANGED env /\ UNCHANGED store
      /\ UNCHANGED <<cache, tracker>>
      /\ worker'.slices = worker.slices /\ worker'.todo = worker.todo \ {t}
      /\ worker'.track = worker.track
  BY PlanFacts, Zenon
<1>2. PICK Y : Planned(t, Y)
  BY PlanFacts, Zenon
<1>3. \A v : (Mine(v)' => Mine(v)) /\ Still(v)
  BY <1>1, Zenon DEF Mine, Still, env, store
<1>4. \A v : Mine(v)' => FoundAt(v)' /\ NarrowsAt(v)' /\ Shrunk(v)
  BY <1>3, StillFollows, Zenon
<1>5. Apart'
  <2>1. \A v : Mine(v)' => Changed(v, 0, 0)
    BY <1>4, Zenon DEF Changed
  <2> QED
    BY <2>1, ApartStep, Zenon
<1>6. ASSUME NEW v, NEW x, Version(v, x)' PROVE Version(v, x)
  <2>1. Fresh(v, x)' => Fresh(v, x)
    BY <1>1, Zenon DEF Fresh
  <2> QED
    BY <1>1, <1>6, <2>1, Zenon DEF Version, InCache, InStream, store
<1>7. Covered'
  BY <1>1, <1>3, <1>6, Zenon DEF Knows, Covered, store
<1>8. ASSUME NEW v, Mine(v)', api'[v].type = t
      PROVE  /\ v \in DOMAIN Y /\ ownedBy(Y[v], worker.svc)
             /\ \A x : Version(v, x)' => Narrower(x, Y[v])
  <2>1. Mine(v) /\ v \in DOMAIN api /\ api[v].type = t
    BY <1>1, <1>3, <1>8, Zenon DEF Mine, store
  <2>2. v \in DOMAIN worker.slices /\ \A x : Version(v, x) => Narrower(x, worker.slices[v])
    BY <1>1, <2>1, Zenon DEF Knows, Covered
  <2>3. Older(worker.slices[v], api[v])
    BY <2>1, <2>2, Zenon DEF Inv1, HeldOK
  <2>4. worker.slices[v].type = t /\ worker.slices[v].owner = worker.svc.uid
    BY <1>1, <2>1, <2>3, MineIsTheWorkers, Zenon DEF Older
  <2>5. v \in DOMAIN Y /\ Y[v] = worker.slices[v]
    BY <1>2, <2>2, <2>4, Zenon DEF Planned
  <2> QED
    BY <1>6, <2>2, <2>4, <2>5, Zenon DEF ownedBy
<1>9. ASSUME NEW v, NEW w, Mine(v)', Mine(w)', v # w, api'[v].type = t, api'[w].type = t
      PROVE  Disjoint(Y[v], Y[w])
  <2>1. Mine(v) /\ Mine(w) /\ api[v].type = t /\ api[w].type = t
    BY <1>1, <1>3, <1>9, Zenon DEF store
  <2>2. Disjoint(worker.slices[v], worker.slices[w])
    BY <1>1, <1>9, <2>1, Zenon DEF Knows, Covered
  <2> QED
    BY <1>2, <1>8, <1>9, <2>2, Zenon DEF Planned
<1>10. ASSUME NEW v, v \in DOMAIN worker'.plan.update, Mine(v)' PROVE api'[v].type = t
  <2>1. v \in DOMAIN Y
    BY <1>2, <1>10, Zenon DEF Planned, Sound
  <2>2. v \in DOMAIN worker.slices /\ worker.slices[v].type = t
    BY <1>2, <2>1, Zenon DEF Planned
  <2>3. v \in DOMAIN api
    BY <1>1, <1>10, Zenon DEF Mine, store
  <2> QED
    BY <1>1, <2>2, <2>3, Zenon DEF Inv1, HeldOK, Older, store
<1> DEFINE q == worker'.plan
<1>11. Sound(worker.svc, t, Y, q.create, q.update)
  BY <1>2, Zenon DEF Planned
<1>12. /\ \A c, d \in q.create : c # d => Disjoint(c, d)
       /\ \A c \in q.create : \A u \in DOMAIN q.update : Disjoint(c, q.update[u])
  BY <1>11, Zenon DEF Sound
<1>13. ASSUME NEW u \in DOMAIN q.update, NEW v \in DOMAIN q.update, Mine(u)', Mine(v)', u # v
       PROVE  Disjoint(q.update[u], q.update[v])
  <2>2. api'[u].type = t
    BY <1>10, <1>13, Zenon
  <2>3. api'[v].type = t
    BY <1>10, <1>13, Zenon
  <2>1. Disjoint(Y[u], Y[v])
    BY <1>9, <1>13, <2>2, <2>3, Zenon
  <2> QED
    BY <1>11, <1>13, <2>1, Zenon DEF Sound
<1>14. ASSUME NEW c \in q.create, NEW v, Mine(v)', api'[v].type = c.type, NEW y, Version(v, y)'
       PROVE  Disjoint(c, y)
  <2>1. c.type = t
    BY <1>11, <1>14, Zenon DEF Sound, Item
  <2>2. v \in DOMAIN Y /\ ownedBy(Y[v], worker.svc) /\ Narrower(y, Y[v])
    BY <1>8, <1>14, <2>1, Zenon
  <2>3. Disjoint(c, Y[v])
    BY <1>11, <2>2, Zenon DEF Sound
  <2> QED
    BY <2>2, <2>3, NarrowerDisjoint, DisjointSymmetric, Zenon
<1>15. ASSUME NEW u \in DOMAIN q.update, NEW v, Mine(u)', Mine(v)', u # v, api'[v].type = api'[u].type,
              NEW y, Version(v, y)'
       PROVE  Disjoint(q.update[u], y)
  <2>1. api'[u].type = t /\ api'[v].type = t
    BY <1>10, <1>15, Zenon
  <2>2. v \in DOMAIN Y /\ ownedBy(Y[v], worker.svc) /\ Narrower(y, Y[v]) /\ Disjoint(Y[u], Y[v])
    BY <1>8, <1>9, <1>15, <2>1, Zenon
  <2>3. Disjoint(q.update[u], Y[v])
    BY <1>11, <1>15, <2>2, Zenon DEF Sound
  <2> QED
    BY <2>2, <2>3, NarrowerDisjoint, DisjointSymmetric, Zenon
<1>16. PlanApart'
  BY <1>12, <1>13, <1>14, <1>15, Zenon DEF PlanApart
<1> QED
  BY <1>4, <1>5, <1>7, <1>16, Zenon DEF Knows, Found, Narrowing

(* The Service: no slice counts for a new one before it is written. *)
LEMMA KnowsService ==
    ASSUME Inv1, Knows, ServiceGoes \/ Resync \/ \E s \in ServiceStates : ServiceComes(s) \/ ServiceChanges(s)
    PROVE  Knows'
<1>1. UNCHANGED store /\ UNCHANGED <<cache, tracker, worker>>
  BY Zenon DEF ServiceGoes, Resync, ServiceComes, ServiceChanges
<1>2. ASSUME NEW v, Mine(v)' PROVE Mine(v)
  <2>1. v \in DOMAIN api /\ svc' # NoObject /\ api[v].owner = svc'.uid /\ ~api[v].dying
    BY <1>1, <1>2, Zenon DEF Mine, store
  <2>2. CASE ServiceGoes
    BY <2>1, <2>2, Zenon DEF ServiceGoes
  <2>3. CASE Resync
    BY <2>1, <2>3, Zenon DEF Resync, Mine, env
  <2>4. ASSUME NEW s \in ServiceStates, ServiceComes(s) PROVE FALSE
    <3>1. IsService(s)
      BY ServiceAssumption, Zenon
    <3>2. svc'.uid = lastUid + 1
      BY <2>4, <3>1 DEF ServiceComes, IsService
    <3>3. Proper(api[v], lastUid) /\ lastUid \in 1 .. MaxUid
      BY <2>1, Zenon DEF Inv1, SlicesOK, ProperIn, WorldOK
    <3>4. api[v].owner <= lastUid /\ lastUid \in Nat
      BY <3>3, BoundAssumption DEF Proper
    <3> QED
      BY <2>1, <3>2, <3>4
  <2>5. ASSUME NEW s \in ServiceStates, ServiceChanges(s) PROVE Mine(v)
    <3>1. IsService(s)
      BY ServiceAssumption, Zenon
    <3>2. svc'.uid = svc.uid /\ svc # NoObject
      BY <2>5, <3>1 DEF ServiceChanges, IsService
    <3> QED
      BY <2>1, <3>2, Zenon DEF Mine
  <2> QED
    BY <2>2, <2>3, <2>4, <2>5, Zenon
<1> QED
  BY <1>1, <1>2, QuietStep, Zenon DEF store, Onward

(* Pods and nodes say nothing of the slices. *)
LEMMA KnowsWorld ==
    ASSUME Inv1, Knows,
           \/ \E p \in Pod : \E s \in PodStates[p] : PodComes(p, s)
           \/ \E p \in DOMAIN pods : PodGoes(p) \/ \E s \in PodStates[p] : PodChanges(p, s)
           \/ \E n \in Node : NodeComesOrGoes(n)
           \/ \E n \in DOMAIN nodes : \E s \in NodeStates[n] : NodeChanges(n, s)
    PROVE  Knows'
<1>1. UNCHANGED store /\ UNCHANGED <<svc, cache, tracker, worker>>
  BY Zenon DEF PodComes, PodGoes, PodChanges, NodeComesOrGoes, NodeChanges
<1>2. \A v : Mine(v)' => Mine(v)
  BY <1>1, Zenon DEF Mine, store
<1> QED
  BY <1>1, <1>2, QuietStep, Zenon DEF store, Onward

(* The slices, by others. *)
LEMMA KnowsExternal ==
    ASSUME Inv1, Knows, NEW u \in DOMAIN api,
           ExternalDelete(u) \/ FinalizerRemoved(u) \/ GarbageCollect(u)
    PROVE  Knows'
<1>1. DropSlice(u) /\ UNCHANGED env /\ UNCHANGED <<cache, tracker, worker>>
  BY Zenon DEF ExternalDelete, FinalizerRemoved, GarbageCollect
<1>2. Onward /\ TracksOnly(u) /\ UNCHANGED svc
  BY <1>1, Zenon DEF Onward, TracksOnly, env
<1> QED
  BY <1>1, <1>2, DropStep, Zenon

(* The informer lists again, or the process starts again. *)
LEMMA KnowsList ==
    ASSUME Inv1, Knows, Relist \/ Restart
    PROVE  Knows'
<1>1. /\ UNCHANGED env /\ UNCHANGED api /\ cache' = api /\ stream' = << >>
      /\ worker' = worker \/ worker' = Idle
  BY Zenon DEF Relist, Restart
<1> QED
  BY <1>1, ListStep, Zenon DEF Onward, env

(* A run that ends, or ends before it begins. *)
LEMMA KnowsEnds ==
    ASSUME Inv1, Knows, SyncDeleted \/ SyncSkipped \/ SyncStale \/ SyncEnds
    PROVE  Knows'
<1>1. /\ UNCHANGED env /\ UNCHANGED store /\ UNCHANGED cache /\ worker' = Idle
      /\ worker.pc = "idle" \/ worker.pc = "plan"
  BY Zenon DEF SyncDeleted, SyncSkipped, SyncStale, SyncEnds, handleErr
<1>2. worker'.track = worker.track
  BY <1>1, IdleFields, Zenon DEF Inv1, WorkerOK
<1>3. \A v : Mine(v)' => Mine(v)
  BY <1>1, Zenon DEF Mine, store, env
<1>4. CASE UNCHANGED tracker
  BY <1>1, <1>2, <1>3, <1>4, QuietStep, Zenon DEF store, Onward
<1>5. CASE SyncDeleted
  <2>1. \A v : ~Mine(v)'
    BY <1>1, <1>5, Zenon DEF SyncDeleted, Mine, env
  <2>2. Continues
    BY <1>1, OnwardContinues, Zenon DEF Onward
  <2> QED
    BY <2>1, <2>2, KnowsShrinks, Zenon
<1> QED
  BY <1>4, <1>5, Zenon DEF SyncSkipped, SyncStale, SyncEnds

(* The calls of a plan. *)
LEMMA KnowsApply ==
    ASSUME Inv1, Knows, Apply, ~lost'
    PROVE  Knows'
<1>1. worker.pc = "apply" /\ UNCHANGED env /\ UNCHANGED <<cache, tracker>> /\ UNCHANGED <<svc, lastUid>>
  BY Zenon DEF Apply, env
<1>2. worker.track = NoTrack
  BY <1>1, Zenon DEF Inv1, WorkerOK
<1>3. ASSUME NEW s \in ToCreate, CreateSlice(s) PROVE Knows'
  BY <1>1, <1>3, CreateKnows, Zenon
<1>4. ASSUME NEW u \in ToUpdate, UpdateSlice(u) PROVE Knows'
  BY <1>1, <1>4, UpdateKnows, Zenon
<1>5. ASSUME NEW u \in ToDelete, DeleteSlice(u) PROVE Knows'
  <2>1. DropSlice(u) /\ GoesOn /\ (worker'.track.id = u \/ worker'.track = NoTrack)
    BY <1>1, <1>5, DeleteStep, Zenon
  <2>2. TracksOnly(u)
    BY <1>2, <2>1, Zenon DEF TracksOnly
  <2> QED
    BY <1>1, <2>1, <2>2, DropStep, Zenon DEF Onward
<1>6. CASE \/ \E s \in ToCreate : CreateFails(s)
           \/ CreateInTerminating
           \/ \E u \in ToUpdate : UpdateFails(u)
           \/ \E u \in ToDelete : DeleteFails(u)
  <2>1. GoesOn /\ worker'.track = NoTrack /\ UNCHANGED <<api, stream>>
    BY <1>1, <1>6, CallFails, Zenon
  <2>2. \A v : Mine(v)' => Mine(v)
    BY <1>1, <2>1, Zenon DEF Mine
  <2> QED
    BY <1>1, <1>2, <2>1, <2>2, QuietStep, Zenon DEF Onward
<1> QED
  BY <1>3, <1>4, <1>5, <1>6, Zenon DEF Apply

(* All calls of a plan are made. *)
LEMMA KnowsDone ==
    ASSUME Inv1, Knows, AddressTypeDone
    PROVE  Knows'
<1>1. /\ UNCHANGED env /\ UNCHANGED store /\ UNCHANGED <<cache, tracker>> /\ worker.pc = "apply"
      /\ worker' = [worker EXCEPT !.pc = "plan", !.plan = NoPlan]
  BY Zenon DEF AddressTypeDone
<1>2. GoesOn /\ worker'.track = NoTrack /\ worker.track = NoTrack
  BY <1>1, BackToPlanQuietly, Zenon DEF Inv1, WorkerOK
<1>3. \A v : Mine(v)' => Mine(v)
  BY <1>1, Zenon DEF Mine, store, env
<1> QED
  BY <1>1, <1>2, <1>3, QuietStep, Zenon DEF store, Onward

(* A slice of an address type the Service lost is deleted. *)
LEMMA KnowsLegacy ==
    ASSUME Inv1, Knows, NEW u \in worker.legacy, DeleteLegacy(u)
    PROVE  Knows'
<1>1. UNCHANGED env /\ UNCHANGED <<cache, tracker>> /\ worker.pc = "plan"
  BY Zenon DEF DeleteLegacy
<1>2. GoesOn /\ (worker'.track.id = u \/ worker'.track = NoTrack) /\ worker.track = NoTrack
  BY <1>1, LegacyGoesOn, Zenon DEF Inv1, WorkerOK
<1>3. CASE DropSlice(u)
  BY <1>1, <1>2, <1>3, DropStep, Zenon DEF Onward, TracksOnly, env
<1>4. CASE UNCHANGED store /\ worker' = [worker EXCEPT !.legacy = @ \ {u}, !.err = TRUE]
  <2>1. \A v : Mine(v)' => Mine(v)
    BY <1>1, <1>4, Zenon DEF Mine, store, env
  <2>2. DOMAIN worker = WorkerFields
    BY Zenon DEF Inv1, WorkerOK
  <2>3. worker'.track = worker.track
    BY <1>4, <2>2 DEF WorkerFields
  <2> QED
    BY <1>1, <1>2, <1>4, <2>1, <2>3, QuietStep, Zenon DEF store, Onward
<1> QED
  BY <1>3, <1>4, Zenon DEF DeleteLegacy

(* At the start there is no slice to know of. *)
LEMMA Inv2Init == Init => Inv2
<1> SUFFICES ASSUME Init PROVE Knows
  BY Zenon DEF Inv2
<1>1. api = << >> /\ worker = Idle
  BY Zenon DEF Init
<1>2. \A v : ~Mine(v)
  BY <1>1, EmptyFacts, Zenon DEF Mine
<1>3. PlanApart
  BY <1>1, IdleFields, Zenon DEF PlanApart
<1> QED
  BY <1>2, <1>3, Zenon DEF Knows, Found, Narrowing, Apart, Covered

(* Every step keeps the second invariant. *)
LEMMA Inv2Next == Inv1 /\ Inv2 /\ [Next]_vars => Inv2'
<1> SUFFICES ASSUME Inv1, Inv2, [Next]_vars, ~lost' PROVE Knows'
  BY Zenon DEF Inv2
<1>1. Knows
  <2>1. lost \in BOOLEAN
    BY Zenon DEF Inv1, WorldOK
  <2>2. lost => lost'
    BY Zenon DEF Next, vars, Environment, Worker, Collect, Deliver, Resync,
       ServiceComes, ServiceChanges, ServiceGoes, PodComes, PodGoes, PodChanges, NodeComesOrGoes, NodeChanges,
       ExternalDelete, ExternalClear, ExternalMark, FinalizerRemoved, Relist, Restart, GarbageCollect,
       SyncDeleted, SyncSkipped, SyncStale, SyncBegins, Plan, Apply, Track, AddressTypeDone, DeleteLegacy, SyncEnds,
       CreateSlice, CreateFails, CreateInTerminating, UpdateSlice, UpdateFails, DeleteSlice, DeleteFails
  <2> QED
    BY <2>1, <2>2, Zenon DEF Inv2
<1>2. CASE UNCHANGED vars
  <2>1. UNCHANGED <<api, stream, cache, tracker, worker, svc>>
    BY <1>2, Zenon DEF vars
  <2>2. \A v : Mine(v)' => Mine(v)
    BY <2>1, Zenon DEF Mine
  <2> QED
    BY <1>1, <2>1, <2>2, QuietStep, Zenon DEF Onward
<1>3. CASE Environment
  <2>1. CASE ServiceGoes \/ \E s \in ServiceStates : ServiceComes(s) \/ ServiceChanges(s)
    BY <1>1, <2>1, KnowsService, Zenon
  <2>2. CASE \/ \E p \in Pod : \E s \in PodStates[p] : PodComes(p, s)
             \/ \E p \in DOMAIN pods : PodGoes(p) \/ \E s \in PodStates[p] : PodChanges(p, s)
             \/ \E n \in Node : NodeComesOrGoes(n)
             \/ \E n \in DOMAIN nodes : \E s \in NodeStates[n] : NodeChanges(n, s)
    BY <1>1, <2>2, KnowsWorld, Zenon
  <2>3. CASE \E u \in DOMAIN api : ExternalDelete(u) \/ ExternalClear(u) \/ ExternalMark(u) \/ FinalizerRemoved(u)
    BY <1>1, <2>3, KnowsExternal, ClearStep, MarkStep, Zenon
  <2>4. CASE Relist \/ Restart
    BY <1>1, <2>4, KnowsList, Zenon
  <2> QED
    BY <1>3, <2>1, <2>2, <2>3, <2>4, Zenon DEF Environment
<1>4. CASE Worker
  BY <1>1, <1>4, KnowsEnds, SyncBeginsStep, PlanStep, KnowsApply, TrackStep, KnowsDone, KnowsLegacy,
     Zenon DEF Worker
<1>5. CASE Collect
  BY <1>1, <1>5, KnowsExternal, Zenon DEF Collect
<1>6. CASE Deliver \/ Resync
  BY <1>1, <1>6, DeliverStep, KnowsService, Zenon
<1> QED
  BY <1>2, <1>3, <1>4, <1>5, <1>6, Zenon DEF Next

(* The second invariant: as long as no answer to a create or an update was lost, every  *)
(* version of a slice that a run may still start from is apart from those of the others. *)
THEOREM Knowledge == Spec => []Inv2
<1>1. Init => Inv2
  BY Inv2Init
<1>2. Inv1 /\ Inv2 /\ [Next]_vars => Inv2'
  BY Inv2Next
<1> QED
  BY <1>1, <1>2, Copies, PTL DEF Spec

(* No endpoint is in two slices of a Service with the same ports, although the worker    *)
(* plans from a cache that lags behind its own writes (StaleSlices of the tracker).      *)
THEOREM EndpointsOnce == Spec => []NoDuplicateEndpoint
<1>1. Inv1 /\ Inv2 => NoDuplicateEndpoint
  <2> SUFFICES ASSUME Inv1, Inv2, ~lost, NEW t \in AddressTypes, NEW u \in Live(t), NEW v \in Live(t),
                      u # v, api[u].ports = api[v].ports, NEW e \in api[u].eps, NEW f \in api[v].eps
               PROVE  hashEndpoint(e) # hashEndpoint(f)
    BY Zenon DEF NoDuplicateEndpoint
  <2>1. Mine(u) /\ Mine(v) /\ api[u].type = api[v].type
    BY Zenon DEF Live, Mine
  <2>2. Disjoint(api[u], api[v])
    BY <2>1, Zenon DEF Inv2, Knows, Apart, Version
  <2> QED
    BY <2>2, Zenon DEF Disjoint, Keys, Hashes
<1> QED
  BY <1>1, Copies, Knowledge, PTL
=============================================================================
