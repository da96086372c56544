------------------------ MODULE ServiceImportController ------------------------
(***************************************************************************)
(* The ServiceImport controller of the syncer: it gives every ServiceImport*)
(* of type ClusterSetIP a virtual IP out of an in-memory pool, guards the  *)
(* object with a finalizer, copies its endpoint slices from the hub and    *)
(* takes all of it back when the object is deleted.                        *)
(*                                                                         *)
(* The handler is split at its API calls: between two of them other keys   *)
(* are handled, users edit objects, the informer lags, calls fail and the  *)
(* leader may die or lose its lease.                                       *)
(***************************************************************************)
EXTENDS Integers, Sequences, FiniteSets

CONSTANTS
    SI,               \* keys (namespace/name) of ServiceImports
    NumIPs,           \* usable addresses of the service CIDR
    MaxLag,           \* bound: versions of an object the informer may hold back
    Kinds,            \* the kinds of disturbance that happen
    MaxDisturbances   \* bound: how many of them

Free == "free"        \* an address go-ipam has not handed out

ASSUME ConstantsAssumption ==
    /\ NumIPs \in Nat /\ MaxLag \in Nat /\ MaxDisturbances \in Nat
    /\ Free \notin SI

VARIABLES
    store,    \* per key, the versions from the cached one (first) to the API's (last)
    derived,  \* keys with endpoint slices copied into the local cluster
    queue,    \* keys waiting in the leader's work queue
    task,     \* per generation of the leader and key, the handler in flight
    ipam,     \* per generation, the SI each pool address was handed out for
    up,       \* a leader's syncer is running
    budget,   \* disturbances that may still happen
    breach    \* history: the ways in which addresses have lost their exclusive owner

vars == <<store, derived, queue, task, ipam, up, budget, breach>>

-----------------------------------------------------------------------------
IP    == 1 .. NumIPs
NoIPs == 0            \* Spec.IPs is empty
Blank == -1           \* Spec.IPs is [""]

Types   == {"ClusterSetIP", "Headless"}
Phases  == {"absent", "live", "terminating"}
Breaches == {"misfree", "uncounted", "overlap"}

Object == [phase : Phases, typ : Types, ips : IP \cup {NoIPs, Blank}, fin : BOOLEAN]
Absent == [phase |-> "absent", typ |-> "ClusterSetIP", ips |-> NoIPs, fin |-> FALSE]

\* "cur" is the running leader, "old" a deposed one whose handlers are still in flight.
Gen  == {"cur", "old"}
PCs  == {"idle", "update", "sync", "purge", "release", "unfinalize"}
Task == [pc : PCs, obj : Object, fresh : BOOLEAN]
Idle == [pc |-> "idle", obj |-> Absent, fresh |-> FALSE]
Sync == [Idle EXCEPT !.pc = "sync"]   \* what follows needs no more than the key

API(s)    == store[s][Len(store[s])]
Cached(s) == store[s][1]

Exists(o) == o.phase # "absent"

\* The address GetServiceCIDR reads out of a listed ServiceImport, if any.
Counted(o) == Exists(o) /\ o.typ = "ClusterSetIP" /\ o.ips \in IP

TypeOK ==
    /\ store \in [SI -> Seq(Object)] /\ \A s \in SI : Len(store[s]) > 0
    /\ derived \in SUBSET SI /\ queue \in SUBSET SI
    /\ task \in [Gen -> [SI -> Task]]
    /\ ipam \in [Gen -> [IP -> SI \cup {Free}]]
    /\ up \in BOOLEAN /\ budget \in 0 .. MaxDisturbances
    /\ breach \in SUBSET Breaches

NoTasks == [s \in SI |-> Idle]

Init ==
    /\ store = [s \in SI |-> <<Absent>>]
    /\ derived = {} /\ queue = {}
    /\ task = [g \in Gen |-> NoTasks]
    /\ ipam = [g \in Gen |-> [ip \in IP |-> Free]]
    /\ up = FALSE /\ budget = MaxDisturbances /\ breach = {}

-----------------------------------------------------------------------------
(* The API server and the informer.                                        *)

\* A write of s adds a version; every copy of s read before it becomes stale,
\* and an Update that carries a stale resourceVersion is refused.
Stale(t, s) == [g \in Gen |-> [t[g] EXCEPT ![s].fresh = FALSE]]

Write(s, o) ==
    /\ Len(store[s]) < MaxLag
    /\ store' = [store EXCEPT ![s] = Append(@, o)]

Disturb(kind) == kind \in Kinds /\ budget > 0 /\ budget' = budget - 1

UserWrite(s, o) ==
    /\ Write(s, o) /\ task' = Stale(task, s)
    /\ UNCHANGED <<derived, queue, ipam, up, breach>>

Create(s, typ) ==
    /\ ~Exists(API(s))
    /\ UserWrite(s, [Absent EXCEPT !.phase = "live", !.typ = typ])
    /\ UNCHANGED budget

\* With a finalizer the API server only stamps DeletionTimestamp.
Delete(s) ==
    /\ API(s).phase = "live"
    /\ Disturb("delete")
    /\ UserWrite(s, IF API(s).fin THEN [API(s) EXCEPT !.phase = "terminating"] ELSE Absent)

\* An edit of Spec.Type, and of anything the controller does not look at.
Retype(s, typ) ==
    /\ Exists(API(s)) /\ typ # API(s).typ
    /\ Disturb("retype")
    /\ UserWrite(s, [API(s) EXCEPT !.typ = typ])

Touch(s) ==
    /\ Exists(API(s))
    /\ Disturb("edit")
    /\ UserWrite(s, API(s))

\* Mutant of Deliver: an event is taken although no version is waiting.
DeliverTwice(s) ==
    /\ store' = [store EXCEPT ![s] = Tail(@)]
    /\ queue' = IF up THEN queue \cup {s} ELSE queue
    /\ UNCHANGED <<derived, task, ipam, up, budget, breach>>

\* The informer replaces the cached version and its event handler enqueues the key.
Deliver(s) ==
    /\ Len(store[s]) > 1
    /\ store' = [store EXCEPT ![s] = Tail(@)]
    /\ queue' = IF up THEN queue \cup {s} ELSE queue
    /\ UNCHANGED <<derived, task, ipam, up, budget, breach>>

\* The periodic resync and events that reach the queue late enqueue a cached key again.
Resync(s) ==
    /\ up /\ Exists(Cached(s)) /\ s \notin queue
    /\ queue' = queue \cup {s}
    /\ UNCHANGED <<store, derived, task, ipam, up, budget, breach>>

-----------------------------------------------------------------------------
(* Handle: the steps of one run of the handler for key s.                  *)

Step(g, s, t) == task' = [task EXCEPT ![g][s] = t]

\* Mutant of Requeue: the error path returns neither a delay nor the error.
RequeueForgotten(g, s) == Step(g, s, Idle) /\ UNCHANGED queue

\* An error or a requeue delay puts the key back; a deposed leader's queue is dead.
Requeue(g, s) ==
    /\ Step(g, s, Idle)
    /\ queue' = IF g = "cur" THEN queue \cup {s} ELSE queue

Finish(g, s) == Step(g, s, Idle) /\ UNCHANGED queue

Take(s) ==
    /\ up /\ s \in queue /\ task["cur"][s].pc = "idle"
    /\ queue' = queue \ {s}

\* The copy of the cached object the handler goes on with.
Enter(s, pc, o) == Step("cur", s, [pc |-> pc, obj |-> o, fresh |-> Len(store[s]) = 1])

HandleGone(s) ==
    /\ Take(s) /\ ~Exists(Cached(s))
    /\ UNCHANGED <<store, derived, task, ipam, up, budget, breach>>

HandleTerminating(s) ==
    /\ Take(s) /\ Cached(s).phase = "terminating"
    /\ Enter(s, "purge", Cached(s))
    /\ UNCHANGED <<store, derived, ipam, up, budget, breach>>

\* AddInitialInfoToServiceImport when no address has to be allocated: the finalizer,
\* and for a headless import the first address (if there is a list) set to "".
InitialInfo(o) ==
    [o EXCEPT !.fin = TRUE,
              !.ips = IF o.typ = "Headless" /\ @ # NoIPs THEN Blank ELSE @]

Unchanged(o) == o.fin /\ (o.typ = "Headless" => o.ips = NoIPs)

NeedsIP(o) == o.typ = "ClusterSetIP" /\ o.ips \notin IP

HandleLive(s) ==
    /\ Take(s) /\ Cached(s).phase = "live" /\ ~NeedsIP(Cached(s))
    /\ IF Unchanged(Cached(s)) THEN Step("cur", s, Sync)
                               ELSE Enter(s, "update", InitialInfo(Cached(s)))
    /\ UNCHANGED <<store, derived, ipam, up, budget, breach>>

\* AllocateIP: go-ipam hands out the lowest address that is free.
FreeIPs(g) == {ip \in IP : ipam[g][ip] = Free}

HandleAllocate(s) ==
    /\ Take(s) /\ Cached(s).phase = "live" /\ NeedsIP(Cached(s))
    /\ \E ip \in FreeIPs("cur") :
         /\ \A other \in FreeIPs("cur") : ip <= other
         /\ ipam' = [ipam EXCEPT !["cur"][ip] = s]
         /\ Enter(s, "update", [InitialInfo(Cached(s)) EXCEPT !.ips = ip])
    /\ UNCHANGED <<store, derived, up, budget, breach>>

\* No address left: nothing is written and the key comes back in a second.
HandleExhausted(s) ==
    /\ up /\ s \in queue /\ task["cur"][s].pc = "idle"
    /\ Cached(s).phase = "live" /\ NeedsIP(Cached(s)) /\ FreeIPs("cur") = {}
    /\ UNCHANGED vars

\* Mutant of Accepted: the write does not carry the resourceVersion that was read.
AcceptedAlways(g, s) == TRUE

\* The server's answer to the Update of the copy task t holds: o replaces the stored
\* object when the copy is fresh; storing what is already there adds no version.
Accepted(g, s) == task[g][s].fresh

Commit(s, o) == IF o = API(s) THEN UNCHANGED store ELSE Write(s, o)

\* The handler's task becomes t once the server has stored o.
AfterCommit(g, s, o, t) ==
    task' = [(IF o = API(s) THEN task ELSE Stale(task, s)) EXCEPT ![g][s] = t]

\* Update of finalizer and address. A refusal or a failed call gives the key back to the
\* queue and drops the copy, with the address that was allocated for it.
UpdateOK(g, s) ==
    /\ task[g][s].pc = "update" /\ Accepted(g, s)
    /\ Commit(s, task[g][s].obj)
    /\ AfterCommit(g, s, task[g][s].obj, Sync)
    /\ UNCHANGED <<derived, queue, ipam, up, budget, breach>>

Refused(g, s) ==
    /\ task[g][s].pc \in {"update", "unfinalize"} /\ ~Accepted(g, s)
    /\ Requeue(g, s)
    /\ UNCHANGED <<store, derived, ipam, up, budget, breach>>

\* A failed API call that never took effect. SyncPartly and AnswerLost are the others.
CallFailed(g, s) ==
    /\ task[g][s].pc \in {"update", "sync", "purge", "unfinalize"}
    /\ Disturb("failure")
    /\ Requeue(g, s)
    /\ UNCHANGED <<store, derived, ipam, up, breach>>

\* RemoveNonexistentEndpointslice and the parallel ApplyEndPointSliceWithRetry calls:
\* the local copies follow what the hub holds, nothing or some slices.
SyncOK(g, s) ==
    /\ task[g][s].pc = "sync"
    /\ derived' \in {derived \cup {s}, derived \ {s}}
    /\ Finish(g, s)
    /\ UNCHANGED <<store, ipam, up, budget, breach>>

\* Some of the calls on slices took effect before one failed: of the copies, or of the
\* DeleteCollection that starts the recycling.
SyncPartly(g, s) ==
    /\ \/ task[g][s].pc = "sync" /\ derived' \in {derived \cup {s}, derived \ {s}}
       \/ task[g][s].pc = "purge" /\ derived' = derived \ {s}
    /\ Disturb("failure")
    /\ Requeue(g, s)
    /\ UNCHANGED <<store, ipam, up, breach>>

-----------------------------------------------------------------------------
(* recycleServiceImport                                                    *)

\* Mutant of PurgeOK: an error of DeleteCollection is logged and passed over.
PurgeLogged(g, s) ==
    /\ task[g][s].pc = "purge"
    /\ derived' \in {derived, derived \ {s}}
    /\ Step(g, s, [task[g][s] EXCEPT !.pc = "release"])
    /\ UNCHANGED <<store, queue, ipam, up, budget, breach>>

\* 1. DeleteCollection of the local copies.
PurgeOK(g, s) ==
    /\ task[g][s].pc = "purge"
    /\ derived' = derived \ {s}
    /\ Step(g, s, [task[g][s] EXCEPT !.pc = "release"])
    /\ UNCHANGED <<store, queue, ipam, up, budget, breach>>

\* Mutant of HasAddress: the test of the type is dropped.
HasAddressOfAnyType(o) == o.ips # Blank

\* 2. ReleaseIP, when the copy names an address. An address that is not allocated is an
\* error and the key comes back.
HasAddress(o) == o.typ # "Headless" /\ o.ips # Blank

Release(g, s) ==
    LET ip == task[g][s].obj.ips IN
    /\ task[g][s].pc = "release" /\ HasAddress(task[g][s].obj) /\ ip \in IP
    /\ ipam[g][ip] # Free
    /\ ipam' = [ipam EXCEPT ![g][ip] = Free]
    /\ breach' = IF ipam[g][ip] = s THEN breach ELSE breach \cup {"misfree"}
    /\ Step(g, s, [task[g][s] EXCEPT !.pc = "unfinalize"])
    /\ UNCHANGED <<store, derived, queue, up, budget>>

ReleaseError(g, s) ==
    LET ip == task[g][s].obj.ips IN
    /\ task[g][s].pc = "release" /\ HasAddress(task[g][s].obj) /\ ip \in IP
    /\ ipam[g][ip] = Free
    /\ Requeue(g, s)
    /\ UNCHANGED <<store, derived, ipam, up, budget, breach>>

ReleaseSkipped(g, s) ==
    /\ task[g][s].pc = "release" /\ ~HasAddress(task[g][s].obj)
    /\ Step(g, s, [task[g][s] EXCEPT !.pc = "unfinalize"])
    /\ UNCHANGED <<store, derived, queue, ipam, up, budget, breach>>

\* 3. Update without the finalizer: the API server then drops the object.
UnfinalizeOK(g, s) ==
    /\ task[g][s].pc = "unfinalize" /\ Accepted(g, s)
    /\ Commit(s, Absent)
    /\ AfterCommit(g, s, Absent, Idle)
    /\ UNCHANGED <<derived, queue, ipam, up, budget, breach>>

\* The Update of either path is stored and its answer is lost.
AnswerLost(g, s) ==
    LET o == IF task[g][s].pc = "update" THEN task[g][s].obj ELSE Absent IN
    /\ task[g][s].pc \in {"update", "unfinalize"} /\ Accepted(g, s)
    /\ Disturb("failure")
    /\ Commit(s, o)
    /\ AfterCommit(g, s, o, Idle)
    /\ queue' = IF g = "cur" THEN queue \cup {s} ELSE queue
    /\ UNCHANGED <<derived, ipam, up, breach>>

-----------------------------------------------------------------------------
(* The leader.                                                             *)

\* The process dies: its handlers and its pool with it.
Die ==
    /\ up' = FALSE /\ queue' = {}
    /\ task' = [task EXCEPT !["cur"] = NoTasks]
    /\ ipam' = [ipam EXCEPT !["cur"] = [ip \in IP |-> Free]]

Crash ==
    /\ up /\ Disturb("crash") /\ Die
    /\ UNCHANGED <<store, derived, breach>>

\* Step 2 of the recycling indexes Spec.IPs[0] of an empty list: the process panics.
Panics(t) == t.pc = "release" /\ HasAddress(t.obj) /\ t.obj.ips = NoIPs

ReleasePanic(g, s) ==
    /\ Panics(task[g][s])
    /\ IF g = "cur" THEN Die
       ELSE /\ task' = [task EXCEPT !["old"] = NoTasks]
            /\ UNCHANGED <<up, queue, ipam>>
    /\ UNCHANGED <<store, derived, budget, breach>>

\* The lease is lost: no handler starts any more, those in flight run on.
LoseLease ==
    /\ up /\ Disturb("lease") /\ task["old"] = NoTasks
    /\ up' = FALSE /\ queue' = {}
    /\ task' = [g \in Gen |-> IF g = "old" THEN task["cur"] ELSE NoTasks]
    /\ ipam' = [g \in Gen |-> IF g = "old" /\ task["cur"] # NoTasks
                              THEN ipam["cur"] ELSE [ip \in IP |-> Free]]
    /\ breach' = IF task["cur"] = NoTasks THEN breach ELSE breach \cup {"overlap"}
    /\ UNCHANGED <<store, derived>>

\* InitNewCIDR of a new leader acquires every counted address. A second acquisition of
\* one address is an error that ends the process (StartFails).
Distinct == \A s, t \in SI :
    Counted(API(s)) /\ Counted(API(t)) /\ API(s).ips = API(t).ips => s = t

\* Mutant of Owners: a new leader starts with an empty pool.
OwnersForgotten == [ip \in IP |-> Free]

Owners == [ip \in IP |->
    IF \E s \in SI : Counted(API(s)) /\ API(s).ips = ip
    THEN CHOOSE s \in SI : Counted(API(s)) /\ API(s).ips = ip
    ELSE Free]

Start ==
    /\ ~up /\ Distinct
    /\ up' = TRUE
    /\ ipam' = [ipam EXCEPT !["cur"] = Owners]
    /\ queue' = {s \in SI : Exists(Cached(s))}
    /\ breach' = IF \A s \in SI : API(s).ips \in IP => Counted(API(s))
                 THEN breach ELSE breach \cup {"uncounted"}
    /\ UNCHANGED <<store, derived, task, budget>>

StartFails ==
    /\ ~up /\ ~Distinct
    /\ UNCHANGED vars

-----------------------------------------------------------------------------
User == \E s \in SI :
    \/ \E typ \in Types : Create(s, typ)
    \/ \E typ \in Types : Retype(s, typ)
    \/ Delete(s)
    \/ Touch(s)

Informer == \E s \in SI : Deliver(s) \/ Resync(s)

Handle(s) == HandleGone(s) \/ HandleTerminating(s) \/ HandleLive(s)
             \/ HandleAllocate(s) \/ HandleExhausted(s)

Proceed(g, s) ==
    \/ UpdateOK(g, s) \/ Refused(g, s) \/ SyncOK(g, s) \/ PurgeOK(g, s)
    \/ Release(g, s) \/ ReleaseError(g, s) \/ ReleaseSkipped(g, s) \/ UnfinalizeOK(g, s)

Fail(g, s) == CallFailed(g, s) \/ SyncPartly(g, s) \/ AnswerLost(g, s)

Next ==
    \/ User
    \/ Informer
    \/ \E s \in SI : Handle(s)
    \/ \E g \in Gen, s \in SI : Proceed(g, s) \/ Fail(g, s) \/ ReleasePanic(g, s)
    \/ Crash
    \/ LoseLease
    \/ Start
    \/ StartFails

Spec == Init /\ [][Next]_vars

\* The watch delivers, the work queue hands out its keys, a handler that has an answer
\* goes on, and a lease that nobody holds is taken.
Fairness ==
    /\ WF_vars(Start)
    /\ \A s \in SI : WF_vars(Deliver(s)) /\ WF_vars(Handle(s))
    /\ \A g \in Gen, s \in SI : WF_vars(Proceed(g, s) \/ ReleasePanic(g, s))

FairSpec == Spec /\ Fairness

-----------------------------------------------------------------------------
(* Properties.                                                             *)

\* Two ServiceImports that are in use never carry the same virtual IP.
UniqueVIP == \A s, t \in SI :
    /\ API(s).phase = "live" /\ API(s).ips \in IP
    /\ API(t).phase = "live" /\ API(t).ips = API(s).ips
    => s = t

\* Virtual IPs stay unique unless a recycling freed an address that was charged to
\* another ServiceImport, a leader started while a headless ServiceImport still carried
\* an address, or a deposed leader had handlers in flight: AllocateIP, the
\* resourceVersion check and InitializeExistingIPs leave no fourth way.
UniqueUnlessBreach == breach = {} => UniqueVIP

\* The finalizer outlives the slices: while no deposed leader interferes, the copies of a
\* ServiceImport are gone from the local cluster before the object is.
NoOrphanSlices == "overlap" \notin breach => \A s \in derived : Exists(API(s))

KeepsVIP == \A s \in SI :
    Counted(API(s)) /\ Exists(API(s)') => API(s)'.ips = API(s).ips

\* The virtual IP of a ClusterSetIP import that exists is never replaced or taken away,
\* however stale the copies are that handlers of one or two leaders write back.
VIPStable == [][KeepsVIP]_vars

\* The deletion of an import that has no address panics, and the next leader begins it anew.
PanicLoop == \E s \in SI :
    API(s).phase = "terminating" /\ HasAddress(API(s)) /\ API(s).ips = NoIPs

\* A live ClusterSetIP import gets its address, unless the pool runs dry, no leader can
\* start because two imports share an address, or every leader is ended by the deletion
\* of another import.
VIPUnlessExhausted == \A s \in SI :
    NeedsIP(API(s)) /\ API(s).phase = "live"
    ~> ~(NeedsIP(API(s)) /\ API(s).phase = "live") \/ FreeIPs("cur") = {} \/ ~Distinct
       \/ PanicLoop

\* The deletion of a headless import completes (it has no address to give back), with the
\* same exceptions.
HeadlessRecycled == \A s \in SI :
    API(s).phase = "terminating" /\ API(s).typ = "Headless"
    ~> ~Exists(API(s)) \/ API(s).typ # "Headless" \/ ~Distinct \/ PanicLoop
=============================================================================
