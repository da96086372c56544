------------------------ MODULE ServiceExportController ------------------------
(***************************************************************************)
(* The ServiceExport controller of the syncer, for one exported Service of *)
(* one cluster: it mirrors the endpoint slices of the Service to the hub   *)
(* cluster, guards the ServiceExport with a finalizer and clears the hub   *)
(* when the ServiceExport is deleted.                                      *)
(*                                                                         *)
(* Three informers feed it, each with a lag of its own: ServiceExports,    *)
(* Services and endpoint slices. The handler is split at its API calls.    *)
(***************************************************************************)
EXTENDS Integers, Sequences, FiniteSets

CONSTANTS
    Slice,            \* names of the Service's endpoint slices
    MaxVersion,       \* bound: contents the slices take over time
    MaxLag,           \* bound: versions an informer may hold back
    Kinds,            \* the kinds of disturbance that happen
    MaxDisturbances   \* bound: how many of them

ASSUME ExportAssumption ==
    MaxVersion \in Nat /\ MaxLag \in Nat /\ MaxDisturbances \in Nat

VARIABLES
    se,       \* the ServiceExport: versions from the cached one (first) to the API's (last)
    svc,      \* the Service: whether it exists, cached first, API last
    src,      \* per slice its content, cached first, API last; 0 is no such slice
    clock,    \* the latest content
    hub,      \* per slice the content stored in the hub
    queue,    \* the key is in the leader's work queue
    task,     \* per generation of the leader, the handler in flight
    up,       \* a leader's syncer is running
    budget,   \* disturbances that may still happen
    overlap,  \* history: a deposed leader had a handler in flight
    outcome   \* history: how the last run of the handler went by the work

vars == <<se, svc, src, clock, hub, queue, task, up, budget, overlap, outcome>>

-----------------------------------------------------------------------------
Export  == [phase : {"absent", "live", "terminating"}, fin : BOOLEAN]
Absent  == [phase |-> "absent", fin |-> FALSE]
Content == 0 .. MaxVersion

Gen  == {"cur", "old"}
PCs  == {"idle", "update", "prune", "apply", "purge", "unfinalize"}
Task == [pc : PCs, fresh : BOOLEAN, list : [Slice -> Content], todo : SUBSET Slice,
         failed : BOOLEAN]
NoList == [x \in Slice |-> 0]
Idle   == [pc |-> "idle", fresh |-> FALSE, list |-> NoList, todo |-> {}, failed |-> FALSE]

Outcome == {"done", "no service", "not pruned", "error lost"}

Cached(seq) == seq[1]
API(seq)    == seq[Len(seq)]
Exists(o)   == o.phase # "absent"

TypeOK ==
    /\ se \in Seq(Export) /\ Len(se) > 0
    /\ svc \in Seq(BOOLEAN) /\ Len(svc) > 0
    /\ src \in [Slice -> Seq(Content)] /\ \A x \in Slice : Len(src[x]) > 0
    /\ clock \in Content /\ hub \in [Slice -> Content]
    /\ queue \in BOOLEAN /\ task \in [Gen -> Task]
    /\ up \in BOOLEAN /\ budget \in 0 .. MaxDisturbances
    /\ overlap \in BOOLEAN /\ outcome \in Outcome

Init ==
    /\ se = <<Absent>> /\ svc = <<FALSE>>
    /\ src = [x \in Slice |-> <<0>>] /\ clock = 0 /\ hub = NoList
    /\ queue = FALSE /\ task = [g \in Gen |-> Idle] /\ up = FALSE
    /\ budget = MaxDisturbances /\ overlap = FALSE /\ outcome = "done"

-----------------------------------------------------------------------------
(* The local API server and its informers.                                 *)

Disturb(kind) == kind \in Kinds /\ budget > 0 /\ budget' = budget - 1

\* A write of the ServiceExport makes the copies read before it stale.
Stale == [g \in Gen |-> [task[g] EXCEPT !.fresh = FALSE]]

WriteExport(o) == Len(se) < MaxLag /\ se' = Append(se, o)

Create ==
    /\ ~Exists(API(se))
    /\ WriteExport([phase |-> "live", fin |-> FALSE]) /\ task' = Stale
    /\ UNCHANGED <<svc, src, clock, hub, queue, up, budget, overlap, outcome>>

Delete ==
    /\ API(se).phase = "live" /\ Disturb("delete")
    /\ WriteExport(IF API(se).fin THEN [API(se) EXCEPT !.phase = "terminating"] ELSE Absent)
    /\ task' = Stale
    /\ UNCHANGED <<svc, src, clock, hub, queue, up, overlap, outcome>>

ServiceComes ==
    /\ ~API(svc) /\ Len(svc) < MaxLag
    /\ svc' = Append(svc, TRUE)
    /\ UNCHANGED <<se, src, clock, hub, queue, task, up, budget, overlap, outcome>>

ServiceGoes ==
    /\ API(svc) /\ Len(svc) < MaxLag /\ Disturb("service")
    /\ svc' = Append(svc, FALSE)
    /\ UNCHANGED <<se, src, clock, hub, queue, task, up, overlap, outcome>>

\* The endpoint slice controller writes or deletes a slice of the Service.
SliceChanges(x) ==
    /\ clock < MaxVersion /\ Len(src[x]) < MaxLag
    /\ clock' = clock + 1
    /\ src' = [src EXCEPT ![x] = Append(@, clock + 1)]
    /\ UNCHANGED <<se, svc, hub, queue, task, up, budget, overlap, outcome>>

SliceGoes(x) ==
    /\ API(src[x]) # 0 /\ Len(src[x]) < MaxLag
    /\ src' = [src EXCEPT ![x] = Append(@, 0)]
    /\ UNCHANGED <<se, svc, clock, hub, queue, task, up, budget, overlap, outcome>>

\* Mutant of DeliverExport: an event is taken although no version is waiting.
DeliverTwice ==
    /\ se' = Tail(se) /\ queue' = up
    /\ UNCHANGED <<svc, src, clock, hub, task, up, budget, overlap, outcome>>

\* Every event of a ServiceExport enqueues its key.
DeliverExport ==
    /\ Len(se) > 1
    /\ se' = Tail(se) /\ queue' = up
    /\ UNCHANGED <<svc, src, clock, hub, task, up, budget, overlap, outcome>>

\* Services have no event handler.
DeliverService ==
    /\ Len(svc) > 1
    /\ svc' = Tail(svc)
    /\ UNCHANGED <<se, src, clock, hub, queue, task, up, budget, overlap, outcome>>

\* The event of a slice enqueues the key when the lister knows a ServiceExport for it.
DeliverSlice(x) ==
    /\ Len(src[x]) > 1
    /\ src' = [src EXCEPT ![x] = Tail(@)]
    /\ queue' = (queue \/ (up /\ Exists(Cached(se))))
    /\ UNCHANGED <<se, svc, clock, hub, task, up, budget, overlap, outcome>>

\* The resync of the informers, every 12 hours.
Resync ==
    /\ up /\ ~queue /\ Exists(Cached(se))
    /\ queue' = TRUE
    /\ UNCHANGED <<se, svc, src, clock, hub, task, up, budget, overlap, outcome>>

-----------------------------------------------------------------------------
(* Handle.                                                                 *)

Take ==
    /\ up /\ queue /\ task["cur"].pc = "idle"
    /\ queue' = FALSE

Enter(g, t) == task' = [task EXCEPT ![g] = t]

Requeue(g) == Enter(g, Idle) /\ queue' = (queue \/ g = "cur")

\* The slices the lister holds: those to apply, the others are removed from the hub.
Listed == LET list == [x \in Slice |-> Cached(src[x])] IN
    [Idle EXCEPT !.pc = "prune", !.list = list, !.todo = {x \in Slice : list[x] # 0}]

HandleGone ==
    /\ Take /\ ~Exists(Cached(se))
    /\ outcome' = "done"
    /\ UNCHANGED <<se, svc, src, clock, hub, task, up, budget, overlap>>

HandleNoService ==
    /\ Take /\ Exists(Cached(se)) /\ ~Cached(svc)
    /\ outcome' = "no service"
    /\ UNCHANGED <<se, svc, src, clock, hub, task, up, budget, overlap>>

HandleTerminating ==
    /\ Take /\ Cached(svc) /\ Cached(se).phase = "terminating"
    /\ Enter("cur", [Idle EXCEPT !.pc = "purge", !.fresh = (Len(se) = 1)])
    /\ outcome' = "done"
    /\ UNCHANGED <<se, svc, src, clock, hub, up, budget, overlap>>

HandleLive ==
    /\ Take /\ Cached(svc) /\ Cached(se).phase = "live"
    /\ IF Cached(se).fin THEN Enter("cur", Listed)
       ELSE Enter("cur", [Idle EXCEPT !.pc = "update", !.fresh = (Len(se) = 1)])
    /\ outcome' = "done"
    /\ UNCHANGED <<se, svc, src, clock, hub, up, budget, overlap>>

\* An Update is stored when the copy is the latest version.
Accepted(g) == task[g].fresh

AfterCommit(g, t) == task' = [Stale EXCEPT ![g] = t]

UpdateOK(g) ==
    /\ task[g].pc = "update" /\ Accepted(g)
    /\ WriteExport([phase |-> "live", fin |-> TRUE])
    /\ AfterCommit(g, Listed)
    /\ UNCHANGED <<svc, src, clock, hub, queue, up, budget, overlap, outcome>>

Refused(g) ==
    /\ task[g].pc \in {"update", "unfinalize"} /\ ~Accepted(g)
    /\ Requeue(g)
    /\ UNCHANGED <<se, svc, src, clock, hub, up, budget, overlap, outcome>>

\* Mutant of Prune: the slices the lister does not hold are kept.
PruneNothing(g) == hub

\* RemoveNonexistentEndpointslice: what the lister does not hold leaves the hub.
Prune(g) == [x \in Slice |-> IF x \in task[g].todo THEN hub[x] ELSE 0]

\* Mutants of Advance: the errors of the goroutines are not collected, and the run does
\* not wait for its goroutines.
AdvanceRegardless(g, t) ==
    /\ Enter(g, IF t.todo # {} THEN t ELSE Idle)
    /\ UNCHANGED queue

AdvanceWithoutWait(g, t) ==
    IF t.todo # {} /\ g = "cur" /\ task["old"] = Idle
    THEN task' = [h \in Gen |-> IF h = "old" THEN t ELSE Idle] /\ UNCHANGED queue
    ELSE IF t.todo = {} /\ t.failed THEN Requeue(g)
    ELSE Enter(g, IF t.todo # {} THEN t ELSE Idle) /\ UNCHANGED queue

\* The run is over once every slice is applied; an error of one brings the key back.
Advance(g, t) ==
    IF t.todo # {} THEN Enter(g, t) /\ UNCHANGED queue
    ELSE IF t.failed THEN Requeue(g)
    ELSE Enter(g, Idle) /\ UNCHANGED queue

PruneOK(g) ==
    /\ task[g].pc = "prune"
    /\ hub' = Prune(g)
    /\ Advance(g, [task[g] EXCEPT !.pc = "apply"])
    /\ UNCHANGED <<se, svc, src, clock, up, budget, overlap, outcome>>

\* An error of the List call that finds the stored slices is passed over.
PruneSkipped(g) ==
    /\ task[g].pc = "prune" /\ Disturb("failure")
    /\ Advance(g, [task[g] EXCEPT !.pc = "apply"])
    /\ outcome' = IF g = "cur" THEN "not pruned" ELSE outcome
    /\ UNCHANGED <<se, svc, src, clock, hub, up, overlap>>

\* ApplyEndPointSliceWithRetry, by a goroutine per slice.
ApplyOK(g, x) ==
    /\ task[g].pc = "apply" /\ x \in task[g].todo
    /\ hub' = [hub EXCEPT ![x] = task[g].list[x]]
    /\ Advance(g, [task[g] EXCEPT !.todo = @ \ {x}])
    /\ UNCHANGED <<se, svc, src, clock, up, budget, overlap, outcome>>

ApplyFails(g, x) ==
    /\ task[g].pc = "apply" /\ x \in task[g].todo /\ Disturb("failure")
    /\ hub' \in {hub, [hub EXCEPT ![x] = task[g].list[x]]}
    /\ Advance(g, [task[g] EXCEPT !.todo = @ \ {x}, !.failed = TRUE])
    /\ UNCHANGED <<se, svc, src, clock, up, overlap, outcome>>

\* The goroutines share the variable err: between the assignment and the test of the one
\* that failed, another one that succeeds clears it and no error is sent.
ApplyRaced(g, x, y) ==
    /\ task[g].pc = "apply" /\ x \in task[g].todo /\ y \in task[g].todo \ {x}
    /\ Disturb("failure")
    /\ LET applied == [hub EXCEPT ![y] = task[g].list[y]] IN
       hub' \in {applied, [applied EXCEPT ![x] = task[g].list[x]]}
    /\ Advance(g, [task[g] EXCEPT !.todo = @ \ {x, y}])
    /\ outcome' = IF g = "cur" THEN "error lost" ELSE outcome
    /\ UNCHANGED <<se, svc, src, clock, up, overlap>>

\* Mutant of PurgeOK: an error of DeleteCollection is logged and passed over.
PurgeLogged(g) ==
    /\ task[g].pc = "purge"
    /\ hub' \in {hub, NoList}
    /\ Enter(g, [task[g] EXCEPT !.pc = "unfinalize"])
    /\ UNCHANGED <<se, svc, src, clock, queue, up, budget, overlap, outcome>>

\* A terminating ServiceExport: DeleteCollection in the hub, then the finalizer.
PurgeOK(g) ==
    /\ task[g].pc = "purge"
    /\ hub' = NoList
    /\ Enter(g, [task[g] EXCEPT !.pc = "unfinalize"])
    /\ UNCHANGED <<se, svc, src, clock, queue, up, budget, overlap, outcome>>

\* Mutant of UnfinalizeOK: the list RemoveString returns is discarded.
UnfinalizeDiscarded(g) ==
    /\ task[g].pc = "unfinalize" /\ Accepted(g)
    /\ Enter(g, Idle)
    /\ UNCHANGED <<se, svc, src, clock, hub, queue, up, budget, overlap, outcome>>

UnfinalizeOK(g) ==
    /\ task[g].pc = "unfinalize" /\ Accepted(g)
    /\ WriteExport(Absent)
    /\ AfterCommit(g, Idle)
    /\ UNCHANGED <<svc, src, clock, hub, queue, up, budget, overlap, outcome>>

\* A call fails, without effect or after it took effect on some of the hub's slices.
CallFailed(g) ==
    /\ task[g].pc \in {"update", "prune", "purge", "unfinalize"} /\ Disturb("failure")
    /\ \E gone \in SUBSET Slice :
         /\ CASE task[g].pc = "prune" -> gone \cap task[g].todo = {}
              [] task[g].pc = "purge" -> TRUE
              [] OTHER -> gone = {}
         /\ hub' = [x \in Slice |-> IF x \in gone THEN 0 ELSE hub[x]]
    /\ Requeue(g)
    /\ UNCHANGED <<se, svc, src, clock, up, overlap, outcome>>

\* The Update of either path is stored and its answer is lost.
AnswerLost(g) ==
    /\ task[g].pc \in {"update", "unfinalize"} /\ Accepted(g) /\ Disturb("failure")
    /\ WriteExport(IF task[g].pc = "update" THEN [phase |-> "live", fin |-> TRUE] ELSE Absent)
    /\ AfterCommit(g, Idle) /\ queue' = (queue \/ g = "cur")
    /\ UNCHANGED <<svc, src, clock, hub, up, overlap, outcome>>

-----------------------------------------------------------------------------
(* The leader.                                                             *)

Crash ==
    /\ up /\ Disturb("crash")
    /\ up' = FALSE /\ queue' = FALSE /\ task' = [task EXCEPT !["cur"] = Idle]
    /\ UNCHANGED <<se, svc, src, clock, hub, overlap, outcome>>

\* The lease is lost: the handler in flight runs on.
LoseLease ==
    /\ up /\ Disturb("lease") /\ task["old"] = Idle
    /\ up' = FALSE /\ queue' = FALSE
    /\ task' = [g \in Gen |-> IF g = "old" THEN task["cur"] ELSE Idle]
    /\ overlap' = (overlap \/ task["cur"] # Idle)
    /\ UNCHANGED <<se, svc, src, clock, hub, outcome>>

\* The workers wait for the caches of ServiceExports and slices, not of Services: their
\* lister may still be empty.
Start ==
    /\ ~up /\ up' = TRUE
    /\ queue' = Exists(Cached(se))
    /\ \/ UNCHANGED svc
       \/ Cached(svc) /\ Len(svc) < MaxLag /\ svc' = <<FALSE>> \o svc
    /\ UNCHANGED <<se, src, clock, hub, task, budget, overlap, outcome>>

-----------------------------------------------------------------------------
Environment ==
    \/ Create \/ Delete \/ ServiceComes \/ ServiceGoes
    \/ \E x \in Slice : SliceChanges(x) \/ SliceGoes(x)

Informers ==
    \/ DeliverExport \/ DeliverService \/ Resync
    \/ \E x \in Slice : DeliverSlice(x)

Handle == HandleGone \/ HandleNoService \/ HandleTerminating \/ HandleLive

Proceed(g) ==
    \/ UpdateOK(g) \/ Refused(g) \/ PruneOK(g) \/ PurgeOK(g) \/ UnfinalizeOK(g)
    \/ \E x \in Slice : ApplyOK(g, x)

Fail(g) ==
    \/ PruneSkipped(g) \/ CallFailed(g) \/ AnswerLost(g)
    \/ \E x \in Slice : ApplyFails(g, x)
    \/ \E x, y \in Slice : ApplyRaced(g, x, y)

Leader == Crash \/ LoseLease \/ Start

Next ==
    \/ Environment \/ Informers \/ Handle \/ Leader
    \/ \E g \in Gen : Proceed(g) \/ Fail(g)

Spec == Init /\ [][Next]_vars

\* The watches deliver, the queue hands out its key, a call is answered, a lease that
\* nobody holds is taken, and the resync comes round.
Fairness ==
    /\ WF_vars(DeliverExport) /\ WF_vars(DeliverService) /\ WF_vars(Resync)
    /\ \A x \in Slice : WF_vars(DeliverSlice(x))
    /\ WF_vars(Handle) /\ WF_vars(Start)
    /\ \A g \in Gen : WF_vars(Proceed(g))

FairSpec == Spec /\ Fairness

-----------------------------------------------------------------------------
(* Properties.                                                             *)

\* Nothing is under way: every event is delivered and every run of the handler is over.
Quiescent ==
    /\ up /\ ~queue /\ \A g \in Gen : task[g].pc = "idle"
    /\ Len(se) = 1 /\ Len(svc) = 1 /\ \A x \in Slice : Len(src[x]) = 1

\* At rest the hub holds exactly the slices of a Service that is exported, unless the last
\* run found no Service, could not list the hub or lost an error, or a deposed leader was
\* writing.
HubFollows ==
    Quiescent /\ ~overlap /\ outcome = "done" /\ API(se).phase = "live"
    => \A x \in Slice : hub[x] = API(src[x])

\* The finalizer outlives the slices in the hub: a ServiceExport that is gone, or that
\* never got its finalizer, has none there (but for a deposed leader's late writes).
NoHubOrphans == ~overlap =>
    \A x \in Slice : hub[x] # 0 => Exists(API(se)) /\ API(se).fin

NotBack == ~overlap' =>
    \A x \in Slice : hub[x] # 0 /\ hub'[x] # 0 => hub[x] <= hub'[x]

\* ApplyEndPointSliceWithRetry overwrites whatever the hub holds, yet a slice of the hub
\* never goes back to an older content: runs for one key follow each other.
HubMonotone == [][NotBack]_vars

\* With the resync, the hub ends up with the slices of an exported Service whatever was
\* missed, skipped or overwritten before.
ExportConverges ==
    <>[](API(se).phase = "live" /\ API(svc) => \A x \in Slice : hub[x] = API(src[x]))

\* A deletion completes as long as the Service is there.
RecycledWithService ==
    API(se).phase = "terminating" ~> API(se).phase # "terminating" \/ ~API(svc)
=============================================================================
