------------------------- MODULE ServiceExportProofs -------------------------
(***************************************************************************)
(* Proofs about ServiceExportController, for any set of slices and any     *)
(* bounds and kinds of disturbances: the inductive invariant, first types, *)
(* handler steps and the versions of the ServiceExport, then the hub, the  *)
(* order of its contents and that it follows the cluster; and the theorems.*)
(***************************************************************************)
EXTENDS ServiceExportController, TLAPS

-----------------------------------------------------------------------------
(* The inductive invariant.                                                *)

Guarded(o) == Exists(o) /\ o.fin

\* From a live version with the finalizer on, every version up to the API's has it.
Finalized == \A i, j \in 1 .. Len(se) :
    i <= j /\ se[i].phase = "live" /\ se[i].fin => Guarded(se[j])

\* A copy that is still the latest version is the only one, and in the phase it was read.
FreshOK(t, seq) == t.fresh =>
    /\ Len(seq) = 1
    /\ t.pc = "update" => seq[1].phase = "live"
    /\ t.pc \in {"purge", "unfinalize"} => seq[1].phase = "terminating"

Copies == \A g \in Gen : FreshOK(task[g], se)

\* Only an overlap leaves a deposed leader's handler in flight, and nobody handles before
\* a leader is up.
Alone ==
    /\ ~overlap => task["old"].pc = "idle"
    /\ ~up => task["cur"].pc = "idle"

\* What a single leader knows of the hub: it writes slices only under the finalizer, and
\* takes the finalizer off only when none is left.
Shielded == ~overlap =>
    /\ \A x \in Slice : hub[x] # 0 => Guarded(API(se))
    /\ task["cur"].pc \in {"prune", "apply"} => Guarded(API(se))
    /\ task["cur"].pc = "unfinalize" => \A x \in Slice : hub[x] = 0

\* Contents reach the cache in the order of the clock.
Sources == \A x \in Slice :
    /\ \A i \in 1 .. Len(src[x]) : src[x][i] <= clock
    /\ \A i, j \in 1 .. Len(src[x]) : i <= j /\ src[x][j] # 0 => src[x][i] <= src[x][j]

\* Every content between the cache and the API, and every content to come, is v or newer.
Behind(v, seq, c) == v <= c /\ \A i \in 1 .. Len(seq) : seq[i] # 0 => v <= seq[i]

\* The hub is behind the handler's list, and the list behind the cache.
Ordered == ~overlap => \A x \in Slice :
    /\ Behind(hub[x], src[x], clock) /\ Behind(task["cur"].list[x], src[x], clock)
    /\ task["cur"].list[x] # 0 => hub[x] <= task["cur"].list[x]

\* What holds between a handler t, the phase it works for, the hub h and the cached
\* contents c while no event waits: its list is what the cache holds, the slices it has
\* dealt with are stored as listed, and at its end the hub is as the cache.
Follows(t, phase, h, c) ==
    /\ t.pc = "idle" /\ phase = "live" => \A x \in Slice : h[x] = c[x]
    /\ t.pc \in {"prune", "apply"} => \A x \in Slice : t.list[x] = c[x]
    /\ t.pc = "apply" /\ ~t.failed => \A x \in Slice \ t.todo : h[x] = t.list[x]
    /\ t.pc \in {"update", "prune", "apply"} => phase = "live"
    /\ t.pc \in {"purge", "unfinalize"} => phase = "terminating"

CachedSrc == [x \in Slice |-> Cached(src[x])]

Settled == up /\ ~queue /\ ~overlap /\ outcome = "done" =>
    Follows(task["cur"], Cached(se).phase, hub, CachedSrc)

\* The slices left to apply are among the listed ones, all of them before the pruning.
Todo == \A g \in Gen : task[g].pc = "prune" =>
    task[g].todo = {x \in Slice : task[g].list[x] # 0} /\ ~task[g].failed

IInv ==
    /\ TypeOK /\ Finalized /\ Copies /\ Alone /\ Shielded /\ Sources /\ Ordered /\ Todo
    /\ Settled

-----------------------------------------------------------------------------
(* What the operators of the model do.                                     *)

USE DEF Gen

\* The constant records have the types of the variables that hold them.
LEMMA Constants ==
  /\ Absent \in Export /\ NoList \in [Slice -> Content] /\ Idle \in Task
  /\ Idle.pc = "idle" /\ Idle.fresh = FALSE /\ Idle.failed = FALSE
  /\ Idle.list = NoList /\ Idle.todo = {} /\ \A x \in Slice : NoList[x] = 0
<1>1. 0 \in Content
  BY ExportAssumption DEF Content
<1>2. NoList \in [Slice -> Content] /\ \A x \in Slice : NoList[x] = 0
  BY <1>1, Zenon DEF NoList
<1>3. Idle \in Task
  BY <1>2, Zenon DEF Idle, Task, PCs
<1>. QED
  BY <1>2, <1>3, Zenon DEF Idle, Absent, Export

\* The versions of the export and of the slices are never empty, so API and cache have a value.
LEMMA Versions ==
  ASSUME TypeOK
  PROVE  /\ se \in Seq(Export) /\ Len(se) \in Nat /\ Len(se) > 0
         /\ API(se) \in Export /\ Cached(se) \in Export
         /\ \A i \in 1 .. Len(se) : se[i] \in Export
         /\ \A x \in Slice :
              /\ src[x] \in Seq(Content) /\ Len(src[x]) \in Nat /\ Len(src[x]) > 0
              /\ API(src[x]) \in Content /\ Cached(src[x]) \in Content
BY DEF TypeOK, API, Cached

\* The fields of a handler's task.
LEMMA Fields ==
  ASSUME NEW t \in Task
  PROVE  /\ t.pc \in PCs /\ t.fresh \in BOOLEAN /\ t.list \in [Slice -> Content]
         /\ t.todo \in SUBSET Slice /\ t.failed \in BOOLEAN
BY Zenon DEF Task

\* The task of a handler that has just listed the cached slices.
LEMMA ListedTask ==
  ASSUME TypeOK
  PROVE  /\ Listed \in Task /\ Listed.pc = "prune"
         /\ Listed.fresh = FALSE /\ Listed.failed = FALSE
         /\ \A x \in Slice : Listed.list[x] = Cached(src[x])
         /\ Listed.todo = {x \in Slice : Listed.list[x] # 0}
<1>. DEFINE list == [x \in Slice |-> Cached(src[x])]
            todo == {x \in Slice : list[x] # 0}
            t == [Idle EXCEPT !.pc = "prune", !.list = list, !.todo = todo]
<1>1. Listed = t
  BY Zenon DEF Listed
<1>2. list \in [Slice -> Content] /\ todo \in SUBSET Slice
  BY Versions, Zenon
<1>3. \A x \in Slice : list[x] = Cached(src[x])
  BY Zenon
<1>. HIDE DEF list, todo
<1>4. /\ t \in Task /\ t.pc = "prune" /\ t.fresh = FALSE /\ t.failed = FALSE
      /\ t.list = list /\ t.todo = todo
  BY <1>2, Zenon DEF Idle, Task, PCs
<1>5. todo = {x \in Slice : list[x] # 0}
  BY Zenon DEF todo
<1>. QED
  BY <1>1, <1>3, <1>4, <1>5, Zenon

\* A write by anyone makes the other handlers' copies stale and changes nothing else of them.
LEMMA StaleTasks ==
  ASSUME TypeOK
  PROVE  /\ Stale \in [Gen -> Task]
         /\ \A g \in Gen :
              /\ Stale[g].fresh = FALSE /\ Stale[g].pc = task[g].pc
              /\ Stale[g].list = task[g].list /\ Stale[g].todo = task[g].todo
              /\ Stale[g].failed = task[g].failed
<1>1. ASSUME NEW g \in Gen
      PROVE  /\ Stale[g] = [task[g] EXCEPT !.fresh = FALSE] /\ task[g] \in Task
  BY Zenon DEF Stale, TypeOK
<1>2. ASSUME NEW t \in Task
      PROVE  /\ [t EXCEPT !.fresh = FALSE] \in Task
             /\ [t EXCEPT !.fresh = FALSE].fresh = FALSE
             /\ [t EXCEPT !.fresh = FALSE].pc = t.pc
             /\ [t EXCEPT !.fresh = FALSE].list = t.list
             /\ [t EXCEPT !.fresh = FALSE].todo = t.todo
             /\ [t EXCEPT !.fresh = FALSE].failed = t.failed
  BY Zenon DEF Task
<1>3. Stale = [g \in Gen |-> [task[g] EXCEPT !.fresh = FALSE]]
  BY Zenon DEF Stale
<1>. QED
  BY <1>1, <1>2, <1>3, Zenon

\* A write of the ServiceExport.
LEMMA WriteVersions ==
  ASSUME TypeOK, NEW o \in Export, WriteExport(o)
  PROVE  /\ se' \in Seq(Export) /\ Len(se') = Len(se) + 1 /\ Len(se') > 0
         /\ \A i \in 1 .. Len(se) : se'[i] = se[i]
         /\ se'[Len(se) + 1] = o /\ API(se)' = o /\ Cached(se)' = Cached(se)
<1>1. se \in Seq(Export) /\ Len(se) \in Nat /\ Len(se) > 0
  BY Versions, Zenon
<1>2. se' = Append(se, o)
  BY Zenon DEF WriteExport
<1>3. /\ se' \in Seq(Export) /\ Len(se') = Len(se) + 1
      /\ \A i \in 1 .. Len(se) : se'[i] = se[i]
      /\ se'[Len(se) + 1] = o
  BY <1>1, <1>2
<1>. QED
  BY <1>1, <1>3 DEF API, Cached

\* The end of a run, or its next step.
LEMMA AdvanceEffect ==
  ASSUME TypeOK, NEW g \in Gen, NEW t \in Task, Advance(g, t)
  PROVE  /\ task' \in [Gen -> Task] /\ queue' \in BOOLEAN /\ (queue => queue')
         /\ \A h \in Gen : h # g => task'[h] = task[h]
         /\ \/ task'[g] = t /\ t.todo # {} /\ queue' = queue
            \/ task'[g] = Idle /\ t.todo = {} /\ (t.failed /\ g = "cur" => queue')
<1>1. task \in [Gen -> Task] /\ queue \in BOOLEAN
  BY Zenon DEF TypeOK
<1>2. CASE t.todo # {}
  BY <1>1, <1>2, Zenon DEF Advance, Enter
<1>3. CASE t.todo = {} /\ t.failed
  <2>1. task' = [task EXCEPT ![g] = Idle] /\ queue' = (queue \/ g = "cur")
    BY <1>3, Zenon DEF Advance, Requeue, Enter
  <2>2. /\ task' \in [Gen -> Task] /\ task'[g] = Idle
        /\ \A h \in Gen : h # g => task'[h] = task[h]
    BY <1>1, <2>1, Constants, Zenon
  <2>3. queue' \in BOOLEAN /\ (queue => queue') /\ (g = "cur" => queue')
    BY <1>1, <2>1, Zenon
  <2>. QED
    BY <1>3, <2>2, <2>3, Zenon
<1>4. CASE t.todo = {} /\ ~t.failed
  BY <1>1, <1>4, Constants, Zenon DEF Advance, Enter
<1>. QED
  BY <1>2, <1>3, <1>4, Zenon

-----------------------------------------------------------------------------
(* Type correctness.                                                       *)

\* A handler that ends in an error leaves its key queued, if it is the leader's.
LEMMA RequeueEffect ==
  ASSUME TypeOK, NEW g \in Gen, Requeue(g)
  PROVE  /\ task' \in [Gen -> Task] /\ task'[g] = Idle
         /\ \A h \in Gen : h # g => task'[h] = task[h]
         /\ queue' \in BOOLEAN /\ (queue => queue') /\ (g = "cur" => queue')
<1>1. task \in [Gen -> Task] /\ queue \in BOOLEAN
  BY Zenon DEF TypeOK
<1>2. task' = [task EXCEPT ![g] = Idle] /\ queue' = (queue \/ g = "cur")
  BY Zenon DEF Requeue, Enter
<1>3. queue' \in BOOLEAN /\ (queue => queue') /\ (g = "cur" => queue')
  BY <1>1, <1>2, Zenon
<1>. QED
  BY <1>1, <1>2, <1>3, Constants, Zenon

\* A handler's write sets its own task and makes the other handler's copy stale.
LEMMA CommitEffect ==
  ASSUME TypeOK, NEW g \in Gen, NEW t \in Task, AfterCommit(g, t)
  PROVE  /\ task' \in [Gen -> Task] /\ task'[g] = t
         /\ \A h \in Gen : h # g => task'[h] = Stale[h]
<1>1. Stale \in [Gen -> Task] /\ task' = [Stale EXCEPT ![g] = t]
  BY StaleTasks, Zenon DEF AfterCommit
<1>. QED
  BY <1>1, Zenon

\* A disturbance only takes from its budget.
LEMMA DisturbEffect ==
  ASSUME TypeOK, NEW kind, Disturb(kind)
  PROVE  budget' \in 0 .. MaxDisturbances
BY ExportAssumption DEF TypeOK, Disturb

\* Every step keeps the types.
LEMMA TypeStep == TypeOK /\ [Next]_vars => TypeOK'
<1>. SUFFICES ASSUME TypeOK, [Next]_vars PROVE TypeOK'
  BY Zenon
<1>. DEFINE o1 == [phase |-> "live", fin |-> TRUE]
            o2 == [phase |-> "live", fin |-> FALSE]
<1>o. o1 \in Export /\ o2 \in Export
  BY Zenon DEF Export
<1>1. CASE UNCHANGED vars
  BY <1>1, Zenon DEF vars, TypeOK
<1>2. CASE Create
  <2>1. se' \in Seq(Export) /\ Len(se') > 0
    BY <1>2, <1>o, WriteVersions, Zenon DEF Create
  <2>. QED
    BY <1>2, <2>1, StaleTasks, Zenon DEF Create, TypeOK
<1>3. CASE Delete
  <2>1. (IF API(se).fin THEN [API(se) EXCEPT !.phase = "terminating"] ELSE Absent) \in Export
    BY Versions, Constants, Zenon DEF Export
  <2>2. se' \in Seq(Export) /\ Len(se') > 0
    BY <1>3, <2>1, WriteVersions, Zenon DEF Delete
  <2>3. budget' \in 0 .. MaxDisturbances
    BY <1>3, DisturbEffect, Zenon DEF Delete
  <2>. QED
    BY <1>3, <2>2, <2>3, StaleTasks, Zenon DEF Delete, TypeOK
<1>4. CASE ServiceComes
  <2>1. svc' = Append(svc, TRUE) /\ svc \in Seq(BOOLEAN)
    BY <1>4, Zenon DEF ServiceComes, TypeOK
  <2>2. svc' \in Seq(BOOLEAN) /\ Len(svc') > 0
    BY <2>1
  <2>. QED
    BY <1>4, <2>2, Zenon DEF ServiceComes, TypeOK
<1>5. CASE ServiceGoes
  <2>1. svc' = Append(svc, FALSE) /\ svc \in Seq(BOOLEAN)
    BY <1>5, Zenon DEF ServiceGoes, TypeOK
  <2>2. svc' \in Seq(BOOLEAN) /\ Len(svc') > 0
    BY <2>1
  <2>3. budget' \in 0 .. MaxDisturbances
    BY <1>5, DisturbEffect, Zenon DEF ServiceGoes
  <2>. QED
    BY <1>5, <2>2, <2>3, Zenon DEF ServiceGoes, TypeOK
<1>6. ASSUME NEW x \in Slice, SliceChanges(x) PROVE TypeOK'
  <2>1. clock' \in Content /\ clock' = clock + 1
    BY <1>6, ExportAssumption DEF SliceChanges, TypeOK, Content
  <2>2. Append(src[x], clock + 1) \in Seq(Content) /\ Len(Append(src[x], clock + 1)) > 0
    BY <2>1, Versions
  <2>3. src' \in [Slice -> Seq(Content)] /\ \A y \in Slice : Len(src'[y]) > 0
    BY <1>6, <2>2, Zenon DEF SliceChanges, TypeOK
  <2>. QED
    BY <1>6, <2>1, <2>3, Zenon DEF SliceChanges, TypeOK
<1>7. ASSUME NEW x \in Slice, SliceGoes(x) PROVE TypeOK'
  <2>1. Append(src[x], 0) \in Seq(Content) /\ Len(Append(src[x], 0)) > 0
    BY Versions, ExportAssumption DEF Content
  <2>2. src' \in [Slice -> Seq(Content)] /\ \A y \in Slice : Len(src'[y]) > 0
    BY <1>7, <2>1, Zenon DEF SliceGoes, TypeOK
  <2>. QED
    BY <1>7, <2>2, Zenon DEF SliceGoes, TypeOK
<1>8. CASE DeliverExport
  <2>1. se' \in Seq(Export) /\ Len(se') > 0
    BY <1>8 DEF DeliverExport, TypeOK
  <2>. QED
    BY <1>8, <2>1, Zenon DEF DeliverExport, TypeOK
<1>9. CASE DeliverService
  <2>1. svc' \in Seq(BOOLEAN) /\ Len(svc') > 0
    BY <1>9 DEF DeliverService, TypeOK
  <2>. QED
    BY <1>9, <2>1, Zenon DEF DeliverService, TypeOK
<1>10. ASSUME NEW x \in Slice, DeliverSlice(x) PROVE TypeOK'
  <2>1. Tail(src[x]) \in Seq(Content) /\ Len(Tail(src[x])) > 0
    BY <1>10, Versions DEF DeliverSlice
  <2>2. src' \in [Slice -> Seq(Content)] /\ \A y \in Slice : Len(src'[y]) > 0
    BY <1>10, <2>1, Zenon DEF DeliverSlice, TypeOK
  <2>3. queue' \in BOOLEAN
    BY <1>10, Zenon DEF DeliverSlice
  <2>. QED
    BY <1>10, <2>2, <2>3, Zenon DEF DeliverSlice, TypeOK
<1>11. CASE Resync
  BY <1>11, Zenon DEF Resync, TypeOK
<1>12. CASE Handle
  <2>1. CASE HandleGone
    BY <2>1, Zenon DEF HandleGone, Take, TypeOK, Outcome
  <2>2. CASE HandleNoService
    BY <2>2, Zenon DEF HandleNoService, Take, TypeOK, Outcome
  <2>3. ASSUME NEW pc \in PCs, NEW f \in BOOLEAN
        PROVE  [Idle EXCEPT !.pc = pc, !.fresh = f] \in Task
    BY Constants, Zenon DEF Task
  <2>4. (Len(se) = 1) \in BOOLEAN
    BY Zenon
  <2>5. CASE HandleTerminating
    <3>1. PICK t \in Task : Enter("cur", t)
      BY <2>3, <2>4, <2>5, Zenon DEF HandleTerminating, PCs
    <3>. QED
      BY <2>5, <3>1, Zenon DEF HandleTerminating, Take, Enter, TypeOK, Outcome
  <2>6. CASE HandleLive
    <3>1. PICK t \in Task : Enter("cur", t)
      BY <2>3, <2>4, <2>6, ListedTask, Zenon DEF HandleLive, PCs
    <3>. QED
      BY <2>6, <3>1, Zenon DEF HandleLive, Take, Enter, TypeOK, Outcome
  <2>. QED
    BY <1>12, <2>1, <2>2, <2>5, <2>6, Zenon DEF Handle
<1>13. ASSUME NEW g \in Gen, Proceed(g) PROVE TypeOK'
  <2>. task[g] \in Task
    BY Zenon DEF TypeOK
  <2>1. CASE UpdateOK(g)
    <3>1. se' \in Seq(Export) /\ Len(se') > 0
      BY <2>1, <1>o, WriteVersions, Zenon DEF UpdateOK
    <3>2. task' \in [Gen -> Task]
      BY <2>1, ListedTask, CommitEffect, Zenon DEF UpdateOK
    <3>. QED
      BY <2>1, <3>1, <3>2, Zenon DEF UpdateOK, TypeOK
  <2>2. CASE Refused(g)
    BY <2>2, RequeueEffect, Zenon DEF Refused, TypeOK
  <2>3. CASE PruneOK(g)
    <3>1. [task[g] EXCEPT !.pc = "apply"] \in Task
      BY Zenon DEF Task, PCs
    <3>2. task' \in [Gen -> Task] /\ queue' \in BOOLEAN
      BY <2>3, <3>1, AdvanceEffect, Zenon DEF PruneOK
    <3>3. hub' \in [Slice -> Content]
      BY <2>3, ExportAssumption DEF PruneOK, Prune, TypeOK, Content
    <3>. QED
      BY <2>3, <3>2, <3>3, Zenon DEF PruneOK, TypeOK
  <2>4. CASE PurgeOK(g)
    <3>1. [task[g] EXCEPT !.pc = "unfinalize"] \in Task
      BY Zenon DEF Task, PCs
    <3>. QED
      BY <2>4, <3>1, Constants, Zenon DEF PurgeOK, Enter, TypeOK
  <2>5. CASE UnfinalizeOK(g)
    <3>1. se' \in Seq(Export) /\ Len(se') > 0
      BY <2>5, Constants, WriteVersions, Zenon DEF UnfinalizeOK
    <3>2. task' \in [Gen -> Task]
      BY <2>5, Constants, CommitEffect, Zenon DEF UnfinalizeOK
    <3>. QED
      BY <2>5, <3>1, <3>2, Zenon DEF UnfinalizeOK, TypeOK
  <2>6. ASSUME NEW x \in Slice, ApplyOK(g, x) PROVE TypeOK'
    <3>1. [task[g] EXCEPT !.todo = @ \ {x}] \in Task
      BY Zenon DEF Task
    <3>2. task' \in [Gen -> Task] /\ queue' \in BOOLEAN
      BY <2>6, <3>1, AdvanceEffect, Zenon DEF ApplyOK
    <3>3. hub' \in [Slice -> Content]
      BY <2>6, Fields, Zenon DEF ApplyOK, TypeOK
    <3>. QED
      BY <2>6, <3>2, <3>3, Zenon DEF ApplyOK, TypeOK
  <2>. QED
    BY <1>13, <2>1, <2>2, <2>3, <2>4, <2>5, <2>6, Zenon DEF Proceed
<1>14. ASSUME NEW g \in Gen, Fail(g) PROVE TypeOK'
  <2>. task[g] \in Task
    BY Zenon DEF TypeOK
  <2>1. CASE PruneSkipped(g)
    <3>1. [task[g] EXCEPT !.pc = "apply"] \in Task
      BY Zenon DEF Task, PCs
    <3>2. task' \in [Gen -> Task] /\ queue' \in BOOLEAN
      BY <2>1, <3>1, AdvanceEffect, Zenon DEF PruneSkipped
    <3>3. budget' \in 0 .. MaxDisturbances
      BY <2>1, DisturbEffect, Zenon DEF PruneSkipped
    <3>. QED
      BY <2>1, <3>2, <3>3, Zenon DEF PruneSkipped, TypeOK, Outcome
  <2>2. CASE CallFailed(g)
    <3>1. task' \in [Gen -> Task] /\ queue' \in BOOLEAN
      BY <2>2, RequeueEffect, Zenon DEF CallFailed
    <3>2. budget' \in 0 .. MaxDisturbances
      BY <2>2, DisturbEffect, Zenon DEF CallFailed
    <3>3. hub' \in [Slice -> Content]
      <4>1. PICK gone : hub' = [x \in Slice |-> IF x \in gone THEN 0 ELSE hub[x]]
        BY <2>2, Zenon DEF CallFailed
      <4>. QED
        BY <4>1, ExportAssumption DEF TypeOK, Content
    <3>. QED
      BY <2>2, <3>1, <3>2, <3>3, Zenon DEF CallFailed, TypeOK
  <2>3. CASE AnswerLost(g)
    <3>1. se' \in Seq(Export) /\ Len(se') > 0
      <4>1. PICK o \in Export : WriteExport(o)
        BY <2>3, <1>o, Constants, Zenon DEF AnswerLost
      <4>. QED
        BY <4>1, WriteVersions, Zenon
    <3>2. task' \in [Gen -> Task]
      BY <2>3, Constants, CommitEffect, Zenon DEF AnswerLost
    <3>3. budget' \in 0 .. MaxDisturbances
      BY <2>3, DisturbEffect, Zenon DEF AnswerLost
    <3>4. queue' \in BOOLEAN
      BY <2>3, Zenon DEF AnswerLost
    <3>. QED
      BY <2>3, <3>1, <3>2, <3>3, <3>4, Zenon DEF AnswerLost, TypeOK
  <2>4. ASSUME NEW x \in Slice, ApplyFails(g, x) PROVE TypeOK'
    <3>1. [task[g] EXCEPT !.todo = @ \ {x}, !.failed = TRUE] \in Task
      BY Zenon DEF Task
    <3>2. task' \in [Gen -> Task] /\ queue' \in BOOLEAN
      BY <2>4, <3>1, AdvanceEffect, Zenon DEF ApplyFails
    <3>3. hub' \in [Slice -> Content]
      <4>1. task[g].list[x] \in Content
        BY Fields, Zenon DEF TypeOK
      <4>. QED
        BY <2>4, <4>1, Zenon DEF ApplyFails, TypeOK
    <3>4. budget' \in 0 .. MaxDisturbances
      BY <2>4, DisturbEffect, Zenon DEF ApplyFails
    <3>. QED
      BY <2>4, <3>2, <3>3, <3>4, Zenon DEF ApplyFails, TypeOK
  <2>5. ASSUME NEW x \in Slice, NEW y \in Slice, ApplyRaced(g, x, y) PROVE TypeOK'
    <3>1. [task[g] EXCEPT !.todo = @ \ {x, y}] \in Task
      BY Zenon DEF Task
    <3>2. task' \in [Gen -> Task] /\ queue' \in BOOLEAN
      BY <2>5, <3>1, AdvanceEffect, Zenon DEF ApplyRaced
    <3>3. hub' \in [Slice -> Content]
      <4>. DEFINE applied == [hub EXCEPT ![y] = task[g].list[y]]
      <4>1. task[g].list \in [Slice -> Content] /\ hub \in [Slice -> Content]
        BY Fields, Zenon DEF TypeOK
      <4>2. applied \in [Slice -> Content]
        BY <4>1, Zenon
      <4>3. hub' \in {applied, [applied EXCEPT ![x] = task[g].list[x]]}
        BY <2>5, Zenon DEF ApplyRaced
      <4>. HIDE DEF applied
      <4>. QED
        BY <4>1, <4>2, <4>3, Zenon
    <3>4. budget' \in 0 .. MaxDisturbances
      BY <2>5, DisturbEffect, Zenon DEF ApplyRaced
    <3>. QED
      BY <2>5, <3>2, <3>3, <3>4, Zenon DEF ApplyRaced, TypeOK, Outcome
  <2>. QED
    BY <1>14, <2>1, <2>2, <2>3, <2>4, <2>5, Zenon DEF Fail
<1>15. CASE Leader
  <2>1. CASE Crash
    <3>1. budget' \in 0 .. MaxDisturbances
      BY <2>1, DisturbEffect, Zenon DEF Crash
    <3>. QED
      BY <2>1, <3>1, Constants, Zenon DEF Crash, TypeOK
  <2>2. CASE LoseLease
    <3>1. budget' \in 0 .. MaxDisturbances
      BY <2>2, DisturbEffect, Zenon DEF LoseLease
    <3>2. task' \in [Gen -> Task]
      BY <2>2, Constants, Zenon DEF LoseLease, TypeOK
    <3>3. overlap' \in BOOLEAN
      BY <2>2, Zenon DEF LoseLease
    <3>. QED
      BY <2>2, <3>1, <3>2, <3>3, Zenon DEF LoseLease, TypeOK
  <2>3. CASE Start
    <3>1. svc' \in Seq(BOOLEAN) /\ Len(svc') > 0
      <4>1. <<FALSE>> \o svc \in Seq(BOOLEAN) /\ Len(<<FALSE>> \o svc) > 0
        BY DEF TypeOK
      <4>. QED
        BY <2>3, <4>1, Zenon DEF Start, TypeOK
    <3>2. queue' \in BOOLEAN
      BY <2>3, Zenon DEF Start, Exists
    <3>. QED
      BY <2>3, <3>1, <3>2, Zenon DEF Start, TypeOK
  <2>. QED
    BY <1>15, <2>1, <2>2, <2>3, Zenon DEF Leader
<1>. QED
  BY <1>1, <1>2, <1>3, <1>4, <1>5, <1>6, <1>7, <1>8, <1>9, <1>10, <1>11, <1>12, <1>13,
     <1>14, <1>15, Zenon DEF Next, Environment, Informers

-----------------------------------------------------------------------------
(* What a step of a handler in flight does.                                *)

\* Moving a handler to another call changes its pc only.
LEMMA Moved ==
  ASSUME NEW t \in Task, NEW pc \in PCs
  PROVE  LET u == [t EXCEPT !.pc = pc] IN
         /\ u \in Task /\ u.pc = pc /\ u.fresh = t.fresh /\ u.list = t.list
         /\ u.todo = t.todo /\ u.failed = t.failed
BY Zenon DEF Task

\* Applying a slice takes it off the handler's list, and may record a failure.
LEMMA Applied ==
  ASSUME NEW t \in Task, NEW T \in SUBSET Slice
  PROVE  /\ LET u == [t EXCEPT !.todo = T] IN
            /\ u \in Task /\ u.pc = t.pc /\ u.fresh = t.fresh /\ u.list = t.list
            /\ u.todo = T /\ u.failed = t.failed
         /\ LET u == [t EXCEPT !.todo = T, !.failed = TRUE] IN
            /\ u \in Task /\ u.pc = t.pc /\ u.fresh = t.fresh /\ u.list = t.list
            /\ u.todo = T /\ u.failed = TRUE
BY Zenon DEF Task

\* A step of the handler of g that goes from t to u and writes nothing to the
\* ServiceExport.
Stays(g, t, u) ==
    /\ se' = se /\ \A h \in Gen : h # g => task'[h] = task[h]
    /\ \A x \in Slice :
         hub'[x] = hub[x] \/ hub'[x] = 0 \/ (t.pc = "apply" /\ hub'[x] = t.list[x])
    /\ \/ u = Idle
       \/ /\ u.fresh = t.fresh /\ u.list = t.list
          /\ \/ u.pc = "apply" /\ t.pc \in {"prune", "apply"}
             \/ u.pc = "unfinalize" /\ t.pc = "purge" /\ hub' = NoList

\* One that stores the ServiceExport.
Commits(g, t, u) ==
    /\ t.fresh /\ hub' = hub /\ \A h \in Gen : h # g => task'[h] = Stale[h]
    /\ \/ t.pc = "update" /\ WriteExport([phase |-> "live", fin |-> TRUE]) /\ u \in {Idle, Listed}
       \/ t.pc = "unfinalize" /\ WriteExport(Absent) /\ u = Idle

\* A call of a handler in flight either leaves the export alone or stores a version of it; it
\* touches neither the sources nor the leadership.
LEMMA Flight ==
  ASSUME TypeOK, NEW g \in Gen, Proceed(g) \/ Fail(g)
  PROVE  /\ task[g] \in Task /\ task'[g] \in Task /\ task[g].pc # "idle"
         /\ UNCHANGED <<svc, src, clock, up, overlap>> /\ (queue => queue')
         /\ Stays(g, task[g], task'[g]) \/ Commits(g, task[g], task'[g])
<1>. DEFINE Goal == /\ task[g].pc # "idle"
                    /\ UNCHANGED <<svc, src, clock, up, overlap>> /\ (queue => queue')
                    /\ Stays(g, task[g], task'[g]) \/ Commits(g, task[g], task'[g])
<1>t. task[g] \in Task
  BY Zenon DEF TypeOK
<1>n. task'[g] \in Task
  <2>1. Next
    BY Zenon DEF Next
  <2>. QED
    BY <2>1, TypeStep, Zenon DEF TypeOK
<1>. SUFFICES Goal
  BY <1>t, <1>n, Zenon
<1>1. CASE UpdateOK(g)
  BY <1>1, <1>t, ListedTask, CommitEffect, Zenon DEF UpdateOK, Commits, Accepted
<1>2. CASE Refused(g)
  BY <1>2, <1>t, RequeueEffect, Zenon DEF Refused, Stays
<1>3. CASE PruneOK(g)
  <2>. DEFINE u == [task[g] EXCEPT !.pc = "apply"]
  <2>1. u \in Task /\ u.pc = "apply" /\ u.fresh = task[g].fresh /\ u.list = task[g].list
    BY <1>t, Moved, Zenon DEF PCs
  <2>2. Advance(g, u) /\ task[g].pc = "prune" /\ hub' = Prune(g)
    BY <1>3, Zenon DEF PruneOK
  <2>. HIDE DEF u
  <2>3. task'[g] \in {u, Idle} /\ (queue => queue') /\ \A h \in Gen : h # g => task'[h] = task[h]
    BY <2>1, <2>2, AdvanceEffect, Zenon
  <2>4. \A x \in Slice : hub'[x] = hub[x] \/ hub'[x] = 0
    BY <2>2, Zenon DEF Prune
  <2>5. se' = se /\ UNCHANGED <<svc, src, clock, up, overlap>>
    BY <1>3, Zenon DEF PruneOK
  <2>. QED
    <3>1. Stays(g, task[g], task'[g])
      BY <2>1, <2>2, <2>3, <2>4, <2>5, Zenon DEF Stays
    <3>. QED
      BY <2>1, <2>2, <2>3, <2>4, <2>5, <3>1, Zenon
<1>4. CASE PurgeOK(g)
  <2>. DEFINE u == [task[g] EXCEPT !.pc = "unfinalize"]
  <2>1. u.pc = "unfinalize" /\ u.fresh = task[g].fresh /\ u.list = task[g].list
    BY <1>t, Moved, Zenon DEF PCs
  <2>2. task'[g] = u /\ \A h \in Gen : h # g => task'[h] = task[h]
    BY <1>4, Zenon DEF PurgeOK, Enter, TypeOK
  <2>. HIDE DEF u
  <2>. QED
    <3>1. task[g].pc = "purge" /\ hub' = NoList /\ se' = se /\ \A x \in Slice : hub'[x] = 0
      BY <1>4, Constants, Zenon DEF PurgeOK
    <3>2. Stays(g, task[g], task'[g])
      BY <2>1, <2>2, <3>1, Zenon DEF Stays
    <3>. QED
      BY <1>4, <3>2, Zenon DEF PurgeOK
<1>5. CASE UnfinalizeOK(g)
  BY <1>5, <1>t, Constants, CommitEffect, Zenon DEF UnfinalizeOK, Commits, Accepted
<1>6. ASSUME NEW x \in Slice, ApplyOK(g, x) PROVE Goal
  <2>. DEFINE u == [task[g] EXCEPT !.todo = @ \ {x}]
  <2>1. u \in Task /\ u.pc = task[g].pc /\ u.fresh = task[g].fresh /\ u.list = task[g].list
    BY <1>t, Zenon DEF Task
  <2>2. /\ Advance(g, u) /\ task[g].pc = "apply"
        /\ se' = se /\ UNCHANGED <<svc, src, clock, up, overlap>>
        /\ \A z \in Slice : hub'[z] \in {hub[z], task[g].list[z]}
    BY <1>6, Zenon DEF ApplyOK, TypeOK
  <2>. HIDE DEF u
  <2>3. task'[g] \in {u, Idle} /\ (queue => queue') /\ \A h \in Gen : h # g => task'[h] = task[h]
    BY <2>1, <2>2, AdvanceEffect, Zenon
  <2>. QED
    <3>1. Stays(g, task[g], task'[g])
      BY <2>1, <2>2, <2>3, Zenon DEF Stays
    <3>. QED
      BY <2>1, <2>2, <2>3, <3>1, Zenon
<1>7. CASE PruneSkipped(g)
  <2>. DEFINE u == [task[g] EXCEPT !.pc = "apply"]
  <2>1. u \in Task /\ u.pc = "apply" /\ u.fresh = task[g].fresh /\ u.list = task[g].list
    BY <1>t, Moved, Zenon DEF PCs
  <2>2. Advance(g, u) /\ task[g].pc = "prune" /\ hub' = hub
    BY <1>7, Zenon DEF PruneSkipped
  <2>. HIDE DEF u
  <2>3. task'[g] \in {u, Idle} /\ (queue => queue') /\ \A h \in Gen : h # g => task'[h] = task[h]
    BY <2>1, <2>2, AdvanceEffect, Zenon
  <2>5. se' = se /\ UNCHANGED <<svc, src, clock, up, overlap>>
    BY <1>7, Zenon DEF PruneSkipped
  <2>. QED
    <3>1. Stays(g, task[g], task'[g])
      BY <2>1, <2>2, <2>3, <2>5, Zenon DEF Stays
    <3>. QED
      BY <2>1, <2>2, <2>3, <2>5, <3>1, Zenon
<1>8. CASE CallFailed(g)
  <2>1. \A x \in Slice : hub'[x] = hub[x] \/ hub'[x] = 0
    <3>1. PICK gone : hub' = [x \in Slice |-> IF x \in gone THEN 0 ELSE hub[x]]
      BY <1>8, Zenon DEF CallFailed
    <3>. QED
      BY <3>1, Zenon
  <2>. QED
    <3>1. task[g].pc # "idle" /\ se' = se /\ UNCHANGED <<svc, src, clock, up, overlap>>
      BY <1>8, Zenon DEF CallFailed
    <3>2. task'[g] = Idle /\ (queue => queue') /\ \A h \in Gen : h # g => task'[h] = task[h]
      BY <1>8, RequeueEffect, Zenon DEF CallFailed
    <3>3. Stays(g, task[g], task'[g])
      BY <2>1, <3>1, <3>2, Zenon DEF Stays
    <3>. QED
      BY <3>1, <3>2, <3>3, Zenon
<1>9. CASE AnswerLost(g)
  <2>1. task'[g] = Idle /\ \A h \in Gen : h # g => task'[h] = Stale[h]
    BY <1>9, Constants, CommitEffect, Zenon DEF AnswerLost
  <2>2. \/ task[g].pc = "update" /\ WriteExport([phase |-> "live", fin |-> TRUE])
        \/ task[g].pc = "unfinalize" /\ WriteExport(Absent)
    BY <1>9, Zenon DEF AnswerLost
  <2>3. /\ task[g].fresh /\ hub' = hub /\ (queue => queue')
        /\ UNCHANGED <<svc, src, clock, up, overlap>>
    BY <1>9, Zenon DEF AnswerLost, Accepted
  <2>. QED
    <3>1. Commits(g, task[g], task'[g])
      BY <2>1, <2>2, <2>3, Zenon DEF Commits
    <3>. QED
      BY <2>2, <2>3, <3>1, Zenon
<1>10. ASSUME NEW x \in Slice, ApplyFails(g, x) PROVE Goal
  <2>. DEFINE u == [task[g] EXCEPT !.todo = @ \ {x}, !.failed = TRUE]
  <2>1. u \in Task /\ u.pc = task[g].pc /\ u.fresh = task[g].fresh /\ u.list = task[g].list
    BY <1>t, Zenon DEF Task
  <2>2. /\ Advance(g, u) /\ task[g].pc = "apply"
        /\ se' = se /\ UNCHANGED <<svc, src, clock, up, overlap>>
        /\ \A z \in Slice : hub'[z] \in {hub[z], task[g].list[z]}
    BY <1>10, Zenon DEF ApplyFails, TypeOK
  <2>. HIDE DEF u
  <2>3. task'[g] \in {u, Idle} /\ (queue => queue') /\ \A h \in Gen : h # g => task'[h] = task[h]
    BY <2>1, <2>2, AdvanceEffect, Zenon
  <2>. QED
    <3>1. Stays(g, task[g], task'[g])
      BY <2>1, <2>2, <2>3, Zenon DEF Stays
    <3>. QED
      BY <2>1, <2>2, <2>3, <3>1, Zenon
<1>11. ASSUME NEW x \in Slice, NEW y \in Slice, ApplyRaced(g, x, y) PROVE Goal
  <2>. DEFINE u == [task[g] EXCEPT !.todo = @ \ {x, y}]
              applied == [hub EXCEPT ![y] = task[g].list[y]]
  <2>1. u \in Task /\ u.pc = task[g].pc /\ u.fresh = task[g].fresh /\ u.list = task[g].list
    BY <1>t, Zenon DEF Task
  <2>2. /\ Advance(g, u) /\ task[g].pc = "apply"
        /\ se' = se /\ UNCHANGED <<svc, src, clock, up, overlap>>
        /\ hub' \in {applied, [applied EXCEPT ![x] = task[g].list[x]]}
    BY <1>11, Zenon DEF ApplyRaced
  <2>4. applied \in [Slice -> Content] /\ \A z \in Slice : applied[z] \in {hub[z], task[g].list[z]}
    BY <1>t, Fields, Zenon DEF TypeOK
  <2>. HIDE DEF u, applied
  <2>3. task'[g] \in {u, Idle} /\ (queue => queue') /\ \A h \in Gen : h # g => task'[h] = task[h]
    BY <2>1, <2>2, AdvanceEffect, Zenon
  <2>5. \A z \in Slice : hub'[z] \in {hub[z], task[g].list[z]}
    BY <2>2, <2>4, Zenon
  <2>. QED
    <3>1. Stays(g, task[g], task'[g])
      BY <2>1, <2>2, <2>3, <2>5, Zenon DEF Stays
    <3>. QED
      BY <2>1, <2>2, <2>3, <2>5, <3>1, Zenon
<1>. QED
  BY <1>1, <1>2, <1>3, <1>4, <1>5, <1>6, <1>7, <1>8, <1>9, <1>10, <1>11, Zenon
  DEF Proceed, Fail

\* What the start of a run does.
LEMMA HandleEffect ==
  ASSUME TypeOK, Handle
  PROVE  /\ UNCHANGED <<se, svc, src, clock, hub, up, overlap>>
         /\ task'["old"] = task["old"] /\ task["cur"].pc = "idle" /\ up
         /\ \/ task' = task /\ (~Exists(Cached(se)) \/ outcome' = "no service")
            \/ /\ task'["cur"].pc = "purge" /\ task'["cur"].list = NoList
               /\ Cached(se).phase = "terminating"
            \/ /\ task'["cur"].pc = "update" /\ task'["cur"].list = NoList
               /\ Cached(se).phase = "live"
            \/ task'["cur"] = Listed /\ Cached(se).phase = "live" /\ Cached(se).fin
<1>. DEFINE one == Len(se) = 1
<1>n. ASSUME NEW pc \in PCs, NEW f \in BOOLEAN
      PROVE  LET t == [Idle EXCEPT !.pc = pc, !.fresh = f] IN
             t.pc = pc /\ t.list = NoList
  BY Constants, Zenon DEF Task, PCs
<1>1. CASE HandleGone \/ HandleNoService
  BY <1>1, Zenon DEF HandleGone, HandleNoService, Take
<1>2. CASE HandleTerminating
  <2>. DEFINE t == [Idle EXCEPT !.pc = "purge", !.fresh = one]
  <2>1. t.pc = "purge" /\ t.list = NoList
    <3>1. one \in BOOLEAN
      BY Zenon
    <3>. HIDE DEF one
    <3>. QED
      BY <3>1, <1>n, Zenon DEF PCs
  <2>2. Enter("cur", t)
    BY <1>2, Zenon DEF HandleTerminating
  <2>. HIDE DEF t
  <2>3. task'["cur"] = t /\ task'["old"] = task["old"]
    BY <2>2, Zenon DEF Enter, TypeOK
  <2>. QED
    BY <1>2, <2>1, <2>3, Zenon DEF HandleTerminating, Take
<1>3. CASE HandleLive
  <2>. DEFINE t == [Idle EXCEPT !.pc = "update", !.fresh = one]
  <2>1. t.pc = "update" /\ t.list = NoList
    <3>1. one \in BOOLEAN
      BY Zenon
    <3>. HIDE DEF one
    <3>. QED
      BY <3>1, <1>n, Zenon DEF PCs
  <2>2. Enter("cur", t) \/ (Enter("cur", Listed) /\ Cached(se).fin)
    BY <1>3, Zenon DEF HandleLive
  <2>. HIDE DEF t
  <2>3. (task'["cur"] = t \/ (task'["cur"] = Listed /\ Cached(se).fin)) /\ task'["old"] = task["old"]
    BY <2>2, Zenon DEF Enter, TypeOK
  <2>. QED
    BY <1>3, <2>1, <2>3, Zenon DEF HandleLive, Take
<1>. QED
  BY <1>1, <1>2, <1>3, Zenon DEF Handle

-----------------------------------------------------------------------------
(* The versions of the ServiceExport and the copies of it.                 *)

\* A stored version keeps the finalizer when an earlier live version had it.
LEMMA FinalizedWrite ==
  ASSUME TypeOK, Finalized, NEW o \in Export, WriteExport(o),
         \A i \in 1 .. Len(se) : se[i].phase = "live" /\ se[i].fin => Guarded(o)
  PROVE  Finalized'
<1>. SUFFICES ASSUME NEW i \in 1 .. Len(se'), NEW j \in 1 .. Len(se'),
                     i <= j, se'[i].phase = "live", se'[i].fin
              PROVE  Guarded(se'[j])
  BY Zenon DEF Finalized, Guarded, Exists
<1>1. /\ Len(se) \in Nat /\ Len(se') = Len(se) + 1 /\ se'[Len(se) + 1] = o
      /\ \A k \in 1 .. Len(se) : se'[k] = se[k]
  BY Versions, WriteVersions, Zenon
<1>2. CASE j = Len(se) + 1
  <2>1. CASE i = j
    BY <2>1, <1>1, <1>2, Zenon DEF Guarded, Exists
  <2>2. CASE i # j
    <3>1. i \in 1 .. Len(se) /\ se[i].phase = "live" /\ se[i].fin
      BY <2>2, <1>1, <1>2
    <3>. QED
      BY <3>1, <1>1, <1>2, Zenon
  <2>. QED
    BY <2>1, <2>2, Zenon
<1>3. CASE j # Len(se) + 1
  <2>1. i \in 1 .. Len(se) /\ j \in 1 .. Len(se)
    BY <1>1, <1>3
  <2>2. se[i].phase = "live" /\ se[i].fin /\ se'[j] = se[j]
    BY <1>1, <2>1, Zenon
  <2>3. Guarded(se[j])
    BY <2>1, <2>2, Zenon DEF Finalized
  <2>. QED
    BY <2>2, <2>3, Zenon
<1>. QED
  BY <1>2, <1>3, Zenon

\* Delivering a version drops the oldest, which no later version depends on.
LEMMA FinalizedTail ==
  ASSUME TypeOK, Finalized, DeliverExport
  PROVE  Finalized'
<1>1. /\ Len(se) \in Nat /\ Len(se') = Len(se) - 1
      /\ \A i \in 1 .. Len(se') : se'[i] = se[i + 1] /\ i + 1 \in 1 .. Len(se)
  BY Versions DEF DeliverExport
<1>. SUFFICES ASSUME NEW i \in 1 .. Len(se'), NEW j \in 1 .. Len(se'),
                     i <= j, se'[i].phase = "live", se'[i].fin
              PROVE  Guarded(se'[j])
  BY Zenon DEF Finalized, Guarded, Exists
<1>2. i + 1 \in 1 .. Len(se) /\ j + 1 \in 1 .. Len(se) /\ i + 1 <= j + 1
  BY <1>1
<1>3. se[i + 1].phase = "live" /\ se[i + 1].fin /\ se'[j] = se[j + 1]
  BY <1>1, Zenon
<1>4. Guarded(se[j + 1])
  BY <1>2, <1>3, Zenon DEF Finalized
<1>. QED
  BY <1>3, <1>4, Zenon

\* A live version with the finalizer means that the stored export has it.
LEMMA LastGuarded ==
  ASSUME TypeOK, Finalized, NEW i \in 1 .. Len(se), se[i].phase = "live", se[i].fin
  PROVE  Guarded(API(se))
<1>1. Len(se) \in 1 .. Len(se) /\ i <= Len(se)
  BY Versions
<1>. QED
  BY <1>1, Zenon DEF Finalized, API

\* Every step keeps what is known of the export's versions, the copies and the leaders.
LEMMA ExportStep == IInv /\ [Next]_vars => Finalized' /\ Copies' /\ Alone'
<1>. SUFFICES ASSUME IInv, [Next]_vars PROVE Finalized' /\ Copies' /\ Alone'
  BY Zenon
<1>i. TypeOK /\ Finalized /\ Copies /\ Alone
  BY Zenon DEF IInv
<1>o. [phase |-> "live", fin |-> TRUE] \in Export /\ [phase |-> "live", fin |-> FALSE] \in Export
  BY Zenon DEF Export
<1>s. ASSUME se' = se, UNCHANGED <<task, overlap>>, up => up' PROVE Finalized' /\ Copies' /\ Alone'
  BY <1>i, <1>s DEF Finalized, Copies, FreshOK, Alone, Guarded, Exists
<1>w. ASSUME task' = Stale, UNCHANGED <<overlap, up>> PROVE Copies' /\ Alone'
  BY <1>i, <1>w, StaleTasks, Zenon DEF Copies, FreshOK, Alone
<1>1. CASE UNCHANGED vars
  BY <1>1, <1>s, Zenon DEF vars
<1>2. CASE Create
  <2>1. \A i \in 1 .. Len(se) : se[i].phase = "live" /\ se[i].fin
          => Guarded([phase |-> "live", fin |-> FALSE])
    BY <1>2, <1>i, LastGuarded, Zenon DEF Create, Guarded
  <2>. QED
    BY <1>2, <1>i, <1>o, <1>w, <2>1, FinalizedWrite, Zenon DEF Create
<1>3. CASE Delete
  <2>. DEFINE o == IF API(se).fin THEN [API(se) EXCEPT !.phase = "terminating"] ELSE Absent
  <2>1. o \in Export /\ (Guarded(API(se)) => Guarded(o))
    BY <1>i, Versions, Constants, Zenon DEF Export, Guarded, Exists
  <2>2. WriteExport(o) /\ task' = Stale /\ UNCHANGED <<overlap, up>>
    BY <1>3, Zenon DEF Delete
  <2>. HIDE DEF o
  <2>3. \A i \in 1 .. Len(se) : se[i].phase = "live" /\ se[i].fin => Guarded(o)
    BY <1>i, <2>1, LastGuarded, Zenon
  <2>. QED
    BY <1>i, <1>w, <2>1, <2>2, <2>3, FinalizedWrite, Zenon
<1>4. CASE DeliverExport
  <2>1. Len(se) # 1 /\ UNCHANGED <<task, overlap, up>>
    BY <1>4, <1>i, Versions DEF DeliverExport
  <2>2. Copies' /\ Alone'
    BY <1>i, <2>1, Zenon DEF Copies, FreshOK, Alone
  <2>. QED
    BY <1>4, <1>i, <2>2, FinalizedTail, Zenon
<1>5. CASE ServiceComes \/ ServiceGoes \/ DeliverService \/ Resync \/ Start
           \/ \E x \in Slice : SliceChanges(x) \/ SliceGoes(x) \/ DeliverSlice(x)
  <2>1. se' = se /\ UNCHANGED <<task, overlap>>
    BY <1>5, Zenon DEF ServiceComes, ServiceGoes, DeliverService, Resync, Start, SliceChanges,
                SliceGoes, DeliverSlice
  <2>2. up => up'
    BY <1>5, Zenon DEF ServiceComes, ServiceGoes, DeliverService, Resync, Start, SliceChanges,
                       SliceGoes, DeliverSlice
  <2>. QED
    BY <1>s, <2>1, <2>2, Zenon
<1>6. CASE Handle
  <2>u. up'
    BY <1>6, <1>i, HandleEffect, Zenon
  <2>f. Finalized' /\ se' = se /\ overlap' = overlap
    BY <1>6, <1>i, Zenon DEF Handle, HandleGone, HandleNoService, HandleTerminating, HandleLive,
                      Finalized, Guarded, Exists
  <2>e. ASSUME NEW t \in Task, Enter("cur", t), FreshOK(t, se) PROVE Finalized' /\ Copies' /\ Alone'
    <3>1. task'["cur"] = t /\ task'["old"] = task["old"]
      BY <1>i, <2>e, Zenon DEF Enter, TypeOK
    <3>2. FreshOK(t, se') /\ FreshOK(task["old"], se')
      BY <1>i, <2>e, <2>f, Zenon DEF FreshOK, Copies
    <3>. QED
      BY <1>i, <2>f, <2>u, <3>1, <3>2, Zenon DEF Copies, Alone
  <2>1. CASE HandleGone \/ HandleNoService
    BY <2>1, <2>u, <1>s, Zenon DEF HandleGone, HandleNoService
  <2>n. ASSUME NEW pc \in {"purge", "update"}, NEW f \in BOOLEAN
        PROVE  LET t == [Idle EXCEPT !.pc = pc, !.fresh = f] IN
               t \in Task /\ t.pc = pc /\ t.fresh = f
    BY Constants, Zenon DEF Task, PCs
  <2>. DEFINE one == Len(se) = 1
  <2>b. one \in BOOLEAN /\ (one <=> Len(se) = 1)
    BY Zenon
  <2>2. CASE HandleTerminating
    <3>. DEFINE t == [Idle EXCEPT !.pc = "purge", !.fresh = one]
    <3>1. Enter("cur", t) /\ se[1].phase = "terminating"
      BY <2>2, Zenon DEF HandleTerminating, Cached
    <3>. HIDE DEF one
    <3>2. t \in Task /\ t.pc = "purge" /\ t.fresh = one
      BY <2>n, <2>b, Zenon
    <3>. HIDE DEF t
    <3>3. FreshOK(t, se)
      BY <2>b, <3>1, <3>2, Zenon DEF FreshOK
    <3>. QED
      BY <2>e, <3>1, <3>2, <3>3, Zenon
  <2>3. CASE HandleLive
    <3>. DEFINE t == [Idle EXCEPT !.pc = "update", !.fresh = one]
    <3>1. (Enter("cur", t) \/ Enter("cur", Listed)) /\ se[1].phase = "live"
      BY <2>3, Zenon DEF HandleLive, Cached
    <3>. HIDE DEF one
    <3>2. t \in Task /\ t.pc = "update" /\ t.fresh = one
      BY <2>n, <2>b, Zenon
    <3>. HIDE DEF t
    <3>3. FreshOK(t, se)
      BY <2>b, <3>1, <3>2, Zenon DEF FreshOK
    <3>4. FreshOK(Listed, se) /\ Listed \in Task
      BY <1>i, ListedTask, Zenon DEF FreshOK
    <3>. QED
      BY <2>e, <3>1, <3>2, <3>3, <3>4, Zenon
  <2>. QED
    BY <1>6, <2>1, <2>2, <2>3, Zenon DEF Handle
<1>7. ASSUME NEW g \in Gen, Proceed(g) \/ Fail(g) PROVE Finalized' /\ Copies' /\ Alone'
  <2>1. Alone'
    <3>1. UNCHANGED <<overlap, up>> /\ task[g].pc # "idle"
      BY <1>7, <1>i, Flight, Zenon
    <3>2. \A h \in Gen : h # g => task'[h].pc = task[h].pc
      BY <1>7, <1>i, Flight, StaleTasks DEF Stays, Commits
    <3>. QED
      BY <1>i, <3>1, <3>2, Zenon DEF Alone
  <2>2. CASE Stays(g, task[g], task'[g])
    <3>1. Finalized'
      BY <1>i, <2>2 DEF Stays, Finalized, Guarded, Exists
    <3>2. FreshOK(task'[g], se')
      BY <1>i, <2>2, Constants, Zenon DEF Stays, Copies, FreshOK
    <3>3. \A h \in Gen : h # g => FreshOK(task'[h], se')
      BY <1>i, <2>2, Zenon DEF Stays, Copies, FreshOK
    <3>. QED
      BY <2>1, <3>1, <3>2, <3>3, Zenon DEF Copies
  <2>3. CASE Commits(g, task[g], task'[g])
    <3>1. \A h \in Gen : task'[h].fresh = FALSE
      <4>1. \A h \in Gen : h # g => task'[h].fresh = FALSE
        BY <1>i, <2>3, StaleTasks, Zenon DEF Commits
      <4>2. task'[g] \in {Idle, Listed}
        BY <2>3, Zenon DEF Commits
      <4>3. Idle.fresh = FALSE /\ Listed.fresh = FALSE
        BY <1>i, ListedTask, Constants, Zenon
      <4>. QED
        BY <4>1, <4>2, <4>3, Zenon
    <3>2. Copies'
      BY <3>1, Zenon DEF Copies, FreshOK
    <3>3. CASE task[g].pc = "update" /\ WriteExport([phase |-> "live", fin |-> TRUE])
      <4>1. Guarded([phase |-> "live", fin |-> TRUE])
        BY Zenon DEF Guarded, Exists
      <4>2. Finalized'
        BY <1>i, <1>o, <3>3, <4>1, FinalizedWrite, Zenon
      <4>. QED
        BY <2>1, <3>2, <4>2, Zenon
    <3>4. CASE task[g].pc = "unfinalize" /\ WriteExport(Absent)
      <4>1. Len(se) = 1 /\ se[1].phase = "terminating"
        BY <1>i, <2>3, <3>4, Zenon DEF Commits, Copies, FreshOK
      <4>2. \A i \in 1 .. Len(se) : se[i].phase # "live"
        BY <4>1
      <4>3. Finalized'
        BY <1>i, <3>4, <4>2, Constants, FinalizedWrite, Zenon
      <4>. QED
        BY <2>1, <3>2, <4>3, Zenon
    <3>. QED
      BY <2>3, <3>3, <3>4, Zenon DEF Commits
  <2>. QED
    BY <1>7, <1>i, <2>2, <2>3, Flight, Zenon
<1>8. CASE Crash
  <2>1. task'["old"] = task["old"] /\ task'["cur"] = Idle /\ se' = se /\ overlap' = overlap
    BY <1>8, <1>i, Zenon DEF Crash, TypeOK
  <2>2. Finalized'
    BY <1>i, <2>1 DEF Finalized, Guarded, Exists
  <2>3. FreshOK(Idle, se)
    BY Constants, Zenon DEF FreshOK
  <2>4. Copies'
    BY <1>i, <2>1, <2>3, Zenon DEF Copies
  <2>. QED
    BY <1>i, <2>1, <2>2, <2>4, Constants, Zenon DEF Alone
<1>9. CASE LoseLease
  <2>1. /\ task'["old"] = task["cur"] /\ task'["cur"] = Idle /\ se' = se
        /\ ~overlap' => task["cur"] = Idle
    BY <1>9, <1>i, Zenon DEF LoseLease
  <2>. QED
    BY <1>i, <2>1, Constants DEF Finalized, Guarded, Exists, Copies, FreshOK, Alone
<1>. QED
  BY <1>1, <1>2, <1>3, <1>4, <1>5, <1>6, <1>7, <1>8, <1>9, Zenon
  DEF Next, Environment, Informers, Leader


-----------------------------------------------------------------------------
(* The finalizer and the hub.                                              *)

\* The history of an overlap is never forgotten.
LEMMA OverlapStays == TypeOK /\ [Next]_vars /\ ~overlap' => ~overlap
<1>. SUFFICES ASSUME TypeOK, [Next]_vars, ~overlap' PROVE ~overlap
  BY Zenon
<1>1. ASSUME NEW g \in Gen, Proceed(g) \/ Fail(g) PROVE ~overlap
  BY <1>1, Flight, Zenon
<1>2. CASE LoseLease
  BY <1>2, Zenon DEF LoseLease
<1>3. CASE Crash \/ Start
  BY <1>3, Zenon DEF Crash, Start
<1>4. CASE Handle
  BY <1>4, Zenon DEF Handle, HandleGone, HandleNoService, HandleTerminating, HandleLive
<1>5. CASE Environment
  BY <1>5, Zenon DEF Environment, Create, Delete, ServiceComes, ServiceGoes, SliceChanges, SliceGoes
<1>6. CASE Informers
  BY <1>6, Zenon DEF Informers, DeliverExport, DeliverService, Resync, DeliverSlice
<1>7. CASE UNCHANGED vars
  BY <1>7, Zenon DEF vars
<1>. QED
  BY <1>1, <1>2, <1>3, <1>4, <1>5, <1>6, <1>7, Zenon DEF Next, Leader

\* Every step keeps the hub's slices under the finalizer, while no leaders overlap.
LEMMA ShieldedStep == IInv /\ [Next]_vars => Shielded'
<1>. SUFFICES ASSUME IInv, [Next]_vars, ~overlap'
              PROVE  /\ \A x \in Slice : hub'[x] # 0 => Guarded(API(se)')
                     /\ task'["cur"].pc \in {"prune", "apply"} => Guarded(API(se)')
                     /\ task'["cur"].pc = "unfinalize" => \A x \in Slice : hub'[x] = 0
  BY Zenon DEF Shielded, Guarded, Exists
<1>. DEFINE Goal == /\ \A x \in Slice : hub'[x] # 0 => Guarded(API(se)')
                    /\ task'["cur"].pc \in {"prune", "apply"} => Guarded(API(se)')
                    /\ task'["cur"].pc = "unfinalize" => \A x \in Slice : hub'[x] = 0
<1>i. TypeOK /\ Finalized /\ Copies /\ ~overlap
  BY OverlapStays, Zenon DEF IInv
<1>h. /\ \A x \in Slice : hub[x] # 0 => Guarded(API(se))
      /\ task["cur"].pc \in {"prune", "apply"} => Guarded(API(se))
      /\ task["cur"].pc = "unfinalize" => \A x \in Slice : hub[x] = 0
      /\ task["old"].pc = "idle"
  BY <1>i, Zenon DEF IInv, Shielded, Alone
<1>o. [phase |-> "live", fin |-> TRUE] \in Export /\ [phase |-> "live", fin |-> FALSE] \in Export
  BY Zenon DEF Export
<1>g. ASSUME Guarded(API(se)) => Guarded(API(se)'), hub' = hub,
             task'["cur"].pc \in {task["cur"].pc, "idle", "update", "purge"}
      PROVE  Goal
  BY <1>h, <1>g, Zenon
<1>s. ASSUME se' = se, hub' = hub,
             task'["cur"].pc \in {task["cur"].pc, "idle", "update", "purge"}
      PROVE  Goal
  BY <1>s, <1>g, Zenon DEF API
<1>1. CASE UNCHANGED vars
  BY <1>1, <1>s, Zenon DEF vars
<1>2. CASE Create
  <2>1. ~Guarded(API(se)) /\ hub' = hub /\ task' = Stale
    BY <1>2, Zenon DEF Create, Guarded
  <2>2. task'["cur"].pc = task["cur"].pc
    BY <1>i, <2>1, StaleTasks, Zenon
  <2>. QED
    BY <1>g, <2>1, <2>2, Zenon
<1>3. CASE Delete
  <2>. DEFINE o == IF API(se).fin THEN [API(se) EXCEPT !.phase = "terminating"] ELSE Absent
  <2>1. o \in Export /\ (Guarded(API(se)) => Guarded(o))
    BY <1>i, Versions, Constants, Zenon DEF Export, Guarded, Exists
  <2>2. WriteExport(o) /\ task' = Stale /\ hub' = hub
    BY <1>3, Zenon DEF Delete
  <2>. HIDE DEF o
  <2>3. API(se)' = o
    BY <1>i, <2>1, <2>2, WriteVersions, Zenon
  <2>4. task'["cur"].pc = task["cur"].pc
    BY <1>i, <2>2, StaleTasks, Zenon
  <2>. QED
    BY <1>g, <2>1, <2>2, <2>3, <2>4, Zenon
<1>4. CASE DeliverExport
  <2>1. API(se)' = API(se) /\ hub' = hub /\ task' = task
    BY <1>4, <1>i, Versions DEF DeliverExport, API
  <2>. QED
    BY <1>g, <2>1, Zenon
<1>5. CASE ServiceComes \/ ServiceGoes \/ DeliverService \/ Resync \/ Start
           \/ \E x \in Slice : SliceChanges(x) \/ SliceGoes(x) \/ DeliverSlice(x)
  <2>1. se' = se /\ hub' = hub /\ task' = task
    BY <1>5, Zenon DEF ServiceComes, ServiceGoes, DeliverService, Resync, Start, SliceChanges,
                SliceGoes, DeliverSlice
  <2>. QED
    BY <1>s, <2>1, Zenon
<1>6. CASE Handle
  <2>1. se' = se /\ hub' = hub
    BY <1>6, <1>i, HandleEffect, Zenon
  <2>2. CASE task'["cur"].pc \in {task["cur"].pc, "purge", "update"}
    BY <1>s, <2>1, <2>2, Zenon
  <2>3. CASE task'["cur"] = Listed /\ Cached(se).phase = "live" /\ Cached(se).fin
    <3>1. 1 \in 1 .. Len(se) /\ se[1].phase = "live" /\ se[1].fin
      BY <1>i, <2>3, Versions DEF Cached
    <3>2. Guarded(API(se)')
      BY <1>i, <2>1, <3>1, LastGuarded, Zenon DEF API
    <3>. QED
      BY <1>i, <2>3, <3>2, ListedTask, Zenon
  <2>. QED
    BY <1>6, <1>i, <2>2, <2>3, HandleEffect, Zenon
<1>8. ASSUME NEW g \in Gen, Proceed(g) \/ Fail(g) PROVE Goal
  <2>1. g = "cur"
    BY <1>8, <1>i, <1>h, Flight, Zenon
  <2>2. CASE Stays(g, task[g], task'[g])
    <3>1. API(se)' = API(se)
      BY <2>2, Zenon DEF Stays, API
    <3>. QED
      BY <1>h, <2>1, <2>2, <3>1, Constants, Zenon DEF Stays
  <2>3. CASE Commits(g, task[g], task'[g])
    <3>1. CASE task[g].pc = "update" /\ WriteExport([phase |-> "live", fin |-> TRUE])
                /\ task'[g] \in {Idle, Listed}
      <4>1. API(se)' = [phase |-> "live", fin |-> TRUE]
        BY <1>i, <1>o, <3>1, WriteVersions, Zenon
      <4>2. Guarded(API(se)')
        BY <4>1 DEF Guarded, Exists
      <4>. QED
        BY <1>i, <2>1, <3>1, <4>2, Constants, ListedTask, Zenon
    <3>2. CASE task[g].pc = "unfinalize" /\ task'[g] = Idle
      BY <1>h, <2>1, <2>3, <3>2, Constants, Zenon DEF Commits
    <3>. QED
      BY <2>3, <3>1, <3>2, Zenon DEF Commits
  <2>. QED
    BY <1>8, <1>i, <2>2, <2>3, Flight, Zenon
<1>9. CASE Crash \/ LoseLease
  <2>1. se' = se /\ hub' = hub /\ task'["cur"] = Idle
    BY <1>9, <1>i, Zenon DEF Crash, LoseLease, TypeOK
  <2>. QED
    BY <1>s, <2>1, Constants, Zenon
<1>. QED
  BY <1>1, <1>2, <1>3, <1>4, <1>5, <1>6, <1>8, <1>9, Zenon
  DEF Next, Environment, Informers, Leader

-----------------------------------------------------------------------------
(* The order of the contents.                                              *)

\* Contents are numbered.
LEMMA ContentNat == \A c \in Content : c \in Nat
BY ExportAssumption DEF Content

\* A slice that is absent is behind any content.
LEMMA ZeroBehind ==
  ASSUME NEW seq \in Seq(Content), NEW c \in Content
  PROVE  Behind(0, seq, c)
BY ContentNat DEF Behind

\* What the cache holds of a slice is behind all that is still to be delivered.
LEMMA CachedBehind ==
  ASSUME TypeOK, Sources, NEW x \in Slice
  PROVE  Behind(Cached(src[x]), src[x], clock)
<1>1. 1 \in 1 .. Len(src[x]) /\ \A i \in 1 .. Len(src[x]) : 1 <= i
  BY Versions
<1>. QED
  BY <1>1, Zenon DEF Sources, Cached, Behind

\* What a step does to the hub and the list of the leader.
LEMMA HubMoves ==
  ASSUME IInv, [Next]_vars, ~overlap', NEW x \in Slice
  PROVE  /\ hub'[x] \in {hub[x], 0, task["cur"].list[x]}
         /\ task'["cur"].list[x] \in {task["cur"].list[x], 0, Cached(src[x])}
<1>. DEFINE Goal == /\ hub'[x] \in {hub[x], 0, task["cur"].list[x]}
                    /\ task'["cur"].list[x] \in {task["cur"].list[x], 0, Cached(src[x])}
<1>i. TypeOK /\ ~overlap /\ task["old"].pc = "idle"
  BY OverlapStays, Zenon DEF IInv, Alone
<1>1. CASE UNCHANGED <<hub, task>>
  BY <1>1, Zenon
<1>2. CASE hub' = hub /\ task' = Stale
  BY <1>i, <1>2, StaleTasks, Zenon
<1>3. CASE Environment \/ Informers \/ UNCHANGED vars \/ Start
  BY <1>1, <1>2, <1>3, Zenon
  DEF Environment, Informers, Start, vars, Create, Delete, ServiceComes, ServiceGoes,
      SliceChanges, SliceGoes, DeliverExport, DeliverService, Resync, DeliverSlice
<1>4. CASE Handle
  BY <1>4, <1>i, HandleEffect, ListedTask, Constants, Zenon
<1>5. ASSUME NEW g \in Gen, Proceed(g) \/ Fail(g) PROVE Goal
  <2>1. g = "cur"
    BY <1>5, <1>i, Flight, Zenon
  <2>2. CASE Stays(g, task[g], task'[g])
    BY <2>1, <2>2, Constants, Zenon DEF Stays
  <2>3. CASE Commits(g, task[g], task'[g])
    BY <1>i, <2>1, <2>3, Constants, ListedTask, Zenon DEF Commits
  <2>. QED
    BY <1>5, <1>i, <2>2, <2>3, Flight, Zenon
<1>6. CASE Crash \/ LoseLease
  <2>1. hub' = hub /\ task'["cur"] = Idle
    BY <1>6, <1>i, Zenon DEF Crash, LoseLease, TypeOK
  <2>. QED
    BY <2>1, Constants, Zenon
<1>. QED
  BY <1>3, <1>4, <1>5, <1>6, Zenon DEF Next, Leader

\* A slice of the cluster keeps the order of its contents.
LEMMA SourceStep ==
  ASSUME IInv, [Next]_vars
  PROVE  /\ Sources'
         /\ \A x \in Slice, v \in Content :
              Behind(v, src[x], clock) => Behind(v, src'[x], clock')
<1>. DEFINE Fine(y) == /\ \A i \in 1 .. Len(src'[y]) : src'[y][i] <= clock'
                       /\ \A i, j \in 1 .. Len(src'[y]) :
                            i <= j /\ src'[y][j] # 0 => src'[y][i] <= src'[y][j]
                       /\ \A v \in Content : Behind(v, src[y], clock) => Behind(v, src'[y], clock')
            Goal == \A y \in Slice : Fine(y)
<1>. SUFFICES Goal
  BY Zenon DEF Sources
<1>i. TypeOK /\ Sources
  BY Zenon DEF IInv
<1>n. /\ clock \in Nat /\ \A y \in Slice : src[y] \in Seq(Nat) /\ Len(src[y]) \in Nat
      /\ \A y \in Slice : \A i \in 1 .. Len(src[y]) : src[y][i] \in Nat
  BY <1>i, ContentNat DEF TypeOK
<1>1. CASE UNCHANGED <<src, clock>>
  BY <1>1, <1>i, Zenon DEF Sources
<1>2. ASSUME NEW x \in Slice, SliceChanges(x) \/ SliceGoes(x) PROVE Goal
  <2>1. PICK c \in {0, clock + 1} : /\ src' = [src EXCEPT ![x] = Append(src[x], c)]
                                   /\ clock' \in {clock, clock + 1} /\ c <= clock'
    BY <1>2, <1>n DEF SliceChanges, SliceGoes
  <2>2. src'[x] = Append(src[x], c) /\ c \in Nat
    BY <1>n, <1>i, <2>1 DEF TypeOK
  <2>3. /\ Len(src'[x]) = Len(src[x]) + 1 /\ src'[x][Len(src[x]) + 1] = c
        /\ \A i \in 1 .. Len(src[x]) : src'[x][i] = src[x][i]
    BY <1>n, <2>2
  <2>4. \A i \in 1 .. Len(src[x]) : src[x][i] <= clock /\ src[x][i] \in Nat
    BY <1>i, <1>n, Zenon DEF Sources
  <2>5. ASSUME NEW i \in 1 .. Len(src'[x]) PROVE src'[x][i] <= clock' /\ src'[x][i] \in Nat
    <3>1. CASE i = Len(src[x]) + 1
      BY <2>1, <2>2, <2>3, <3>1, Zenon
    <3>2. CASE i \in 1 .. Len(src[x])
      BY <1>n, <2>1, <2>3, <2>4, <3>2
    <3>. QED
      BY <1>n, <2>3, <3>1, <3>2
  <2>6. ASSUME NEW i \in 1 .. Len(src'[x]), NEW j \in 1 .. Len(src'[x]),
               i <= j, src'[x][j] # 0
        PROVE  src'[x][i] <= src'[x][j]
    <3>1. CASE j = Len(src[x]) + 1
      <4>1. src'[x][j] = clock + 1
        BY <2>1, <2>3, <2>6, <3>1, Zenon
      <4>2. clock' \in Nat /\ clock' <= clock + 1
        BY <1>n, <2>1
      <4>3. src'[x][i] \in Nat /\ src'[x][i] <= clock'
        BY <2>5, <2>6, Zenon
      <4>4. \A a, b, d \in Nat : a <= b /\ b <= d => a <= d
        OBVIOUS
      <4>5. clock + 1 \in Nat
        BY <1>n
      <4>. QED
        BY <4>1, <4>2, <4>3, <4>4, <4>5, Zenon
    <3>2. CASE j # Len(src[x]) + 1
      <4>1. i \in 1 .. Len(src[x]) /\ j \in 1 .. Len(src[x])
        BY <1>n, <2>3, <2>6, <3>2
      <4>2. src'[x][i] = src[x][i] /\ src'[x][j] = src[x][j]
        BY <2>3, <4>1, Zenon
      <4>. QED
        BY <1>i, <2>6, <4>1, <4>2, Zenon DEF Sources
    <3>. QED
      BY <3>1, <3>2, Zenon
  <2>7. ASSUME NEW v \in Content, Behind(v, src[x], clock)
        PROVE  Behind(v, src'[x], clock')
    <3>1. v \in Nat /\ v <= clock /\ v <= clock'
      BY <1>n, <2>1, <2>7, ContentNat DEF Behind
    <3>2. ASSUME NEW i \in 1 .. Len(src'[x]), src'[x][i] # 0 PROVE v <= src'[x][i]
      <4>1. CASE i = Len(src[x]) + 1
        BY <1>n, <2>1, <2>3, <3>1, <3>2, <4>1
      <4>2. CASE i \in 1 .. Len(src[x])
        BY <2>3, <2>7, <3>2, <4>2, Zenon DEF Behind
      <4>. QED
        BY <1>n, <2>3, <4>1, <4>2
    <3>. QED
      BY <3>1, <3>2, Zenon DEF Behind
  <2>8. Fine(x)
    BY <2>5, <2>6, <2>7, Zenon
  <2>9. ASSUME NEW y \in Slice, y # x PROVE Fine(y)
    <3>1. src'[y] = src[y]
      BY <1>i, <2>1, <2>9, Zenon DEF TypeOK
    <3>2. \A i \in 1 .. Len(src[y]) : src[y][i] <= clock /\ src[y][i] \in Nat
      BY <1>i, <1>n, Zenon DEF Sources
    <3>3. \A i \in 1 .. Len(src'[y]) : src'[y][i] <= clock'
      BY <1>n, <2>1, <3>1, <3>2
    <3>4. \A v \in Content : Behind(v, src[y], clock) => Behind(v, src'[y], clock')
      BY <1>n, <2>1, <3>1, ContentNat DEF Behind
    <3>. QED
      BY <1>i, <3>1, <3>3, <3>4, Zenon DEF Sources
  <2>. QED
    BY <2>8, <2>9, Zenon
<1>3. ASSUME NEW x \in Slice, DeliverSlice(x) PROVE Goal
  <2>1. /\ src' = [src EXCEPT ![x] = Tail(src[x])] /\ clock' = clock /\ Len(src[x]) > 1
    BY <1>3, Zenon DEF DeliverSlice
  <2>2. src'[x] = Tail(src[x])
    BY <1>i, <2>1, Zenon DEF TypeOK
  <2>3. /\ Len(src'[x]) = Len(src[x]) - 1
        /\ \A i \in 1 .. Len(src'[x]) : src'[x][i] = src[x][i + 1] /\ i + 1 \in 1 .. Len(src[x])
    <3>1. ASSUME NEW s \in Seq(Nat), Len(s) > 1
          PROVE  /\ Len(Tail(s)) = Len(s) - 1
                 /\ \A i \in 1 .. Len(Tail(s)) : Tail(s)[i] = s[i + 1] /\ i + 1 \in 1 .. Len(s)
      BY <3>1
    <3>. QED
      BY <1>n, <2>1, <2>2, <3>1, Zenon
  <2>4. ASSUME NEW i \in 1 .. Len(src'[x]), NEW j \in 1 .. Len(src'[x]),
               i <= j, src'[x][j] # 0
        PROVE  src'[x][i] <= src'[x][j]
    <3>1. i + 1 <= j + 1 /\ i + 1 \in 1 .. Len(src[x]) /\ j + 1 \in 1 .. Len(src[x])
      BY <2>3, <2>4
    <3>2. src[x][j + 1] # 0 /\ src'[x][i] = src[x][i + 1] /\ src'[x][j] = src[x][j + 1]
      BY <2>3, <2>4, Zenon
    <3>. QED
      BY <1>i, <3>1, <3>2, Zenon DEF Sources
  <2>5. Fine(x)
    <3>1. \A i \in 1 .. Len(src'[x]) : src'[x][i] <= clock'
      BY <1>i, <2>1, <2>3, Zenon DEF Sources
    <3>2. \A v \in Content : Behind(v, src[x], clock) => Behind(v, src'[x], clock')
      BY <2>1, <2>3, Zenon DEF Behind
    <3>. QED
      BY <2>4, <3>1, <3>2, Zenon
  <2>6. \A y \in Slice : y # x => src'[y] = src[y]
    BY <1>i, <2>1, Zenon DEF TypeOK
  <2>. QED
    BY <1>i, <2>1, <2>5, <2>6 DEF Sources
<1>4. CASE Handle
  BY <1>1, <1>4, <1>i, HandleEffect, Zenon
<1>5. ASSUME NEW g \in Gen, Proceed(g) \/ Fail(g) PROVE Goal
  BY <1>1, <1>5, <1>i, Flight, Zenon
<1>6. CASE Create \/ Delete \/ ServiceComes \/ ServiceGoes \/ DeliverExport
           \/ DeliverService \/ Resync \/ Leader \/ UNCHANGED vars
  BY <1>1, <1>6, Zenon DEF Create, Delete, ServiceComes, ServiceGoes, DeliverExport,
                    DeliverService, Resync, Leader, Crash, LoseLease, Start, vars
<1>. QED
  BY <1>2, <1>3, <1>4, <1>5, <1>6, Zenon DEF Next, Environment, Informers

\* Every step keeps the hub behind the list and the list behind the cache, and takes no slice
\* of the hub back to an older content.
LEMMA OrderedStep == IInv /\ [Next]_vars => Ordered' /\ NotBack
<1>. SUFFICES ASSUME IInv, [Next]_vars, ~overlap', NEW x \in Slice
              PROVE  /\ Behind(hub'[x], src'[x], clock')
                     /\ Behind(task'["cur"].list[x], src'[x], clock')
                     /\ task'["cur"].list[x] # 0 => hub'[x] <= task'["cur"].list[x]
                     /\ hub[x] # 0 /\ hub'[x] # 0 => hub[x] <= hub'[x]
  BY Zenon DEF Ordered, NotBack
<1>. DEFINE list == task["cur"].list[x]
            cached == Cached(src[x])
<1>i. TypeOK /\ Sources /\ ~overlap
  BY OverlapStays, Zenon DEF IInv
<1>1. /\ hub[x] \in Content /\ list \in Content /\ cached \in Content /\ 0 \in Content
      /\ src[x] \in Seq(Content) /\ clock \in Content
  <2>1. hub[x] \in Content /\ clock \in Content /\ task["cur"] \in Task
    BY <1>i, Zenon DEF TypeOK
  <2>2. list \in Content
    BY <2>1, Fields, Zenon
  <2>3. cached \in Content /\ src[x] \in Seq(Content)
    BY <1>i, Versions, Zenon
  <2>4. 0 \in Content
    BY ExportAssumption DEF Content
  <2>. QED
    BY <2>1, <2>2, <2>3, <2>4, Zenon
<1>2. /\ Behind(hub[x], src[x], clock) /\ Behind(list, src[x], clock)
      /\ list # 0 => hub[x] <= list
  BY <1>i, Zenon DEF IInv, Ordered
<1>3. Behind(cached, src[x], clock) /\ Behind(0, src[x], clock)
  BY <1>i, <1>1, CachedBehind, ZeroBehind, Zenon
<1>4. hub'[x] \in {hub[x], 0, list} /\ task'["cur"].list[x] \in {list, 0, cached}
  BY HubMoves, Zenon
<1>5. \A v \in Content : Behind(v, src[x], clock) => Behind(v, src'[x], clock')
  BY SourceStep, Zenon
<1>6. cached # 0 => hub[x] <= cached /\ list <= cached
  <2>1. 1 \in 1 .. Len(src[x])
    BY <1>i, Versions
  <2>. QED
    BY <1>2, <2>1, Zenon DEF Behind, Cached
<1>7. hub[x] \in Nat /\ list \in Nat /\ cached \in Nat
  BY <1>1, ContentNat, Zenon
<1>. HIDE DEF list, cached
<1>8. Behind(hub'[x], src'[x], clock') /\ Behind(task'["cur"].list[x], src'[x], clock')
  BY <1>1, <1>2, <1>3, <1>4, <1>5, Zenon
<1>9. task'["cur"].list[x] # 0 => hub'[x] <= task'["cur"].list[x]
  BY <1>2, <1>4, <1>6, <1>7
<1>10. hub[x] # 0 /\ hub'[x] # 0 => hub[x] <= hub'[x]
  BY <1>2, <1>4, <1>7
<1>. QED
  BY <1>8, <1>9, <1>10, Zenon

-----------------------------------------------------------------------------
(* The hub follows.                                                        *)

\* Every step keeps the slices to apply those of the list until the pruning is over.
LEMMA TodoStep == IInv /\ [Next]_vars => Todo'
<1>. DEFINE Ready(t) == t.pc = "prune" =>
                t.todo = {x \in Slice : t.list[x] # 0} /\ ~t.failed
<1>. SUFFICES ASSUME IInv, [Next]_vars PROVE \A h \in Gen : Ready(task'[h])
  BY Zenon DEF Todo
<1>i. TypeOK /\ \A h \in Gen : Ready(task[h])
  BY Zenon DEF IInv, Todo
<1>c. Ready(Idle) /\ Ready(Listed)
  BY <1>i, Constants, ListedTask, Zenon
<1>w. \A h \in Gen : Ready(Stale[h])
  BY <1>i, StaleTasks
<1>1. CASE Environment \/ Informers \/ UNCHANGED vars \/ Start
  <2>1. task' = task \/ task' = Stale
    BY <1>1, Zenon DEF Environment, Informers, Start, vars, Create, Delete, ServiceComes, ServiceGoes,
      SliceChanges, SliceGoes, DeliverExport, DeliverService, Resync, DeliverSlice
  <2>. QED
    BY <1>i, <1>w, <2>1
<1>2. CASE Handle
  <2>1. task' = task \/ task'["cur"].pc # "prune" \/ task'["cur"] = Listed
    BY <1>2, <1>i, HandleEffect, Zenon
  <2>2. task'["old"] = task["old"]
    BY <1>2, <1>i, HandleEffect, Zenon
  <2>. QED
    BY <1>i, <1>c, <2>1, <2>2
<1>3. ASSUME NEW g \in Gen, Proceed(g) \/ Fail(g) PROVE \A h \in Gen : Ready(task'[h])
  <2>1. CASE Stays(g, task[g], task'[g])
    <3>1. task'[g] = Idle \/ task'[g].pc # "prune"
      BY <2>1, Zenon DEF Stays
    <3>2. \A h \in Gen : h # g => task'[h] = task[h]
      BY <2>1, Zenon DEF Stays
    <3>. QED
      BY <1>i, <1>c, <3>1, <3>2
  <2>2. CASE Commits(g, task[g], task'[g])
    <3>1. task'[g] \in {Idle, Listed} /\ \A h \in Gen : h # g => task'[h] = Stale[h]
      BY <2>2, Zenon DEF Commits
    <3>. QED
      BY <1>c, <1>w, <3>1
  <2>. QED
    BY <1>3, <1>i, <2>1, <2>2, Flight, Zenon
<1>4. CASE Crash \/ LoseLease
  <2>1. task'["cur"] = Idle /\ task'["old"] \in {task["old"], task["cur"]}
    BY <1>4, <1>i, Zenon DEF Crash, LoseLease, TypeOK
  <2>. QED
    BY <1>i, <1>c, <2>1
<1>. QED
  BY <1>1, <1>2, <1>3, <1>4, Zenon DEF Next, Leader

\* The cached slices, as one function.
LEMMA CachedSrcType ==
  ASSUME TypeOK
  PROVE  CachedSrc \in [Slice -> Content]
BY Versions, Zenon DEF CachedSrc

\* A step of the leader's handler that leaves the key out of the queue.
LEMMA SettledFlight ==
  ASSUME IInv, Proceed("cur") \/ Fail("cur"), up, ~queue', ~overlap, outcome' = "done"
  PROVE  Follows(task'["cur"], Cached(se)'.phase, hub', CachedSrc')
<1>. DEFINE t == task["cur"]
            u == task'["cur"]
            Goal == Follows(u, Cached(se)'.phase, hub', CachedSrc')
<1>i. TypeOK
  BY Zenon DEF IInv
<1>g. "cur" \in Gen
  BY Zenon
<1>t. t \in Task /\ t.todo \in SUBSET Slice /\ t.list \in [Slice -> Content] /\ t.failed \in BOOLEAN
  BY <1>i, Fields, Zenon DEF TypeOK
<1>q. ~queue /\ src' = src /\ CachedSrc' = CachedSrc
  BY <1>i, <1>g, Flight, Zenon DEF CachedSrc
<1>b. Cached(se)'.phase = Cached(se).phase
  <2>1. CASE se' = se
    BY <2>1, Zenon DEF Cached
  <2>2. ASSUME NEW o \in Export, WriteExport(o) PROVE Cached(se)' = Cached(se)
    BY <1>i, <2>2, WriteVersions, Zenon
  <2>3. se' = se \/ \E o \in Export : WriteExport(o)
    BY <1>i, <1>g, Flight, Constants, Zenon DEF Stays, Commits, Export
  <2>. QED
    BY <2>1, <2>2, <2>3, Zenon
<1>f. ASSUME outcome = "done" PROVE Follows(t, Cached(se).phase, hub, CachedSrc)
  BY <1>f, <1>q, Zenon DEF IInv, Settled
<1>r. t.pc = "prune" => t.todo = {x \in Slice : t.list[x] # 0} /\ ~t.failed
  BY <1>g, Zenon DEF IInv, Todo
<1>1. CASE UpdateOK("cur")
  <2>1. u = Listed /\ t.pc = "update" /\ outcome = "done"
    BY <1>1, <1>i, <1>g, ListedTask, CommitEffect, Zenon DEF UpdateOK
  <2>2. Cached(se).phase = "live"
    BY <1>f, <2>1, Zenon DEF Follows
  <2>3. u.pc = "prune" /\ \A x \in Slice : u.list[x] = CachedSrc[x]
    BY <1>i, <2>1, ListedTask, Zenon DEF CachedSrc
  <2>. QED
    BY <1>b, <1>q, <2>2, <2>3, Zenon DEF Follows
<1>2. CASE Refused("cur") \/ CallFailed("cur")
  BY <1>2, <1>i, <1>g, RequeueEffect, Zenon DEF Refused, CallFailed
<1>3. CASE AnswerLost("cur")
  <2>1. queue'
    BY <1>3, Zenon DEF AnswerLost
  <2>. QED
    BY <2>1, Zenon
<1>4. CASE PruneSkipped("cur") \/ \E x, y \in Slice : ApplyRaced("cur", x, y)
  BY <1>4, Zenon DEF PruneSkipped, ApplyRaced
<1>5. CASE PruneOK("cur")
  <2>. DEFINE v == [t EXCEPT !.pc = "apply"]
  <2>1. v \in Task /\ v.pc = "apply" /\ v.list = t.list /\ v.todo = t.todo /\ v.failed = t.failed
    BY <1>t, Moved, Zenon DEF PCs
  <2>2. Advance("cur", v) /\ t.pc = "prune" /\ hub' = Prune("cur") /\ outcome = "done"
    BY <1>5, Zenon DEF PruneOK
  <2>. HIDE DEF v
  <2>3. u = v \/ (u = Idle /\ v.todo = {})
    BY <1>i, <1>g, <2>1, <2>2, AdvanceEffect, Zenon
  <2>4. Cached(se).phase = "live" /\ \A x \in Slice : t.list[x] = CachedSrc[x]
    BY <1>f, <2>2, Zenon DEF Follows
  <2>5. \A x \in Slice \ t.todo : hub'[x] = 0 /\ t.list[x] = 0
    BY <1>r, <2>2, Zenon DEF Prune
  <2>6. CASE u = v
    BY <1>b, <1>q, <2>1, <2>4, <2>5, <2>6, Zenon DEF Follows
  <2>7. CASE u = Idle /\ v.todo = {}
    <3>1. \A x \in Slice : hub'[x] = CachedSrc[x]
      BY <2>1, <2>4, <2>5, <2>7, Zenon
    <3>. QED
      BY <1>q, <2>7, <3>1, Constants, Zenon DEF Follows
  <2>. QED
    BY <2>3, <2>6, <2>7, Zenon
<1>6. CASE PurgeOK("cur")
  <2>1. u.pc = "unfinalize" /\ t.pc = "purge" /\ outcome = "done"
    BY <1>6, <1>t, <1>i, Moved, Zenon DEF PurgeOK, Enter, TypeOK, PCs
  <2>2. Cached(se).phase = "terminating"
    BY <1>f, <2>1, Zenon DEF Follows
  <2>. QED
    BY <1>b, <2>1, <2>2, Zenon DEF Follows
<1>7. CASE UnfinalizeOK("cur")
  <2>1. u = Idle /\ t.pc = "unfinalize" /\ outcome = "done"
    BY <1>7, <1>i, <1>g, Constants, CommitEffect, Zenon DEF UnfinalizeOK
  <2>2. Cached(se).phase = "terminating"
    BY <1>f, <2>1, Zenon DEF Follows
  <2>. QED
    BY <1>b, <2>1, <2>2, Constants, Zenon DEF Follows
<1>8. ASSUME NEW x \in Slice, ApplyOK("cur", x) PROVE Goal
  <2>. DEFINE v == [t EXCEPT !.todo = @ \ {x}]
  <2>1. v \in Task /\ v.pc = t.pc /\ v.list = t.list /\ v.todo = t.todo \ {x} /\ v.failed = t.failed
    BY <1>t, Zenon DEF Task
  <2>2. Advance("cur", v) /\ t.pc = "apply" /\ outcome = "done"
    BY <1>8, Zenon DEF ApplyOK
  <2>3. hub'[x] = t.list[x] /\ \A z \in Slice : z # x => hub'[z] = hub[z]
    BY <1>8, <1>i, Zenon DEF ApplyOK, TypeOK
  <2>. HIDE DEF v
  <2>4. u = v \/ (u = Idle /\ v.todo = {} /\ ~v.failed)
    BY <1>i, <1>g, <2>1, <2>2, AdvanceEffect, Zenon
  <2>5. Cached(se).phase = "live" /\ \A z \in Slice : t.list[z] = CachedSrc[z]
    BY <1>f, <2>2, Zenon DEF Follows
  <2>6. ~t.failed => \A z \in Slice \ t.todo : hub[z] = t.list[z]
    BY <1>f, <2>2, Zenon DEF Follows
  <2>7. ~v.failed => \A z \in Slice \ v.todo : hub'[z] = v.list[z]
    BY <2>1, <2>3, <2>6, Zenon
  <2>8. CASE u = v
    BY <1>b, <1>q, <2>1, <2>2, <2>5, <2>7, <2>8, Zenon DEF Follows
  <2>9. CASE u = Idle /\ v.todo = {} /\ ~v.failed
    <3>1. \A z \in Slice : hub'[z] = CachedSrc[z]
      BY <2>1, <2>5, <2>7, <2>9, Zenon
    <3>. QED
      BY <1>q, <2>9, <3>1, Constants, Zenon DEF Follows
  <2>. QED
    BY <2>4, <2>8, <2>9, Zenon
<1>9. ASSUME NEW x \in Slice, ApplyFails("cur", x) PROVE Goal
  <2>. DEFINE v == [t EXCEPT !.todo = @ \ {x}, !.failed = TRUE]
  <2>1. v \in Task /\ v.pc = t.pc /\ v.list = t.list /\ v.failed = TRUE
    BY <1>t, Zenon DEF Task
  <2>2. Advance("cur", v) /\ t.pc = "apply" /\ outcome = "done"
    BY <1>9, Zenon DEF ApplyFails
  <2>. HIDE DEF v
  <2>3. u = v
    BY <1>i, <1>g, <2>1, <2>2, AdvanceEffect, Zenon
  <2>4. Cached(se).phase = "live" /\ \A z \in Slice : t.list[z] = CachedSrc[z]
    BY <1>f, <2>2, Zenon DEF Follows
  <2>. QED
    BY <1>b, <1>q, <2>1, <2>2, <2>3, <2>4, Zenon DEF Follows
<1>. QED
  BY <1>1, <1>2, <1>3, <1>4, <1>5, <1>6, <1>7, <1>8, <1>9, Zenon DEF Proceed, Fail

\* Every step keeps the hub as the cache while no event waits.
LEMMA SettledStep == IInv /\ [Next]_vars => Settled'
<1>. SUFFICES ASSUME IInv, [Next]_vars, up', ~queue', ~overlap', outcome' = "done"
              PROVE  Follows(task'["cur"], Cached(se)'.phase, hub', CachedSrc')
  BY Zenon DEF Settled, Follows
<1>. DEFINE Goal == Follows(task'["cur"], Cached(se)'.phase, hub', CachedSrc')
<1>i. TypeOK /\ ~overlap
  BY OverlapStays, Zenon DEF IInv
<1>k. ASSUME up, ~queue, outcome = "done", hub' = hub, Cached(se)' = Cached(se),
             CachedSrc' = CachedSrc, task' = task \/ task' = Stale
      PROVE  Goal
  <2>1. Follows(task["cur"], Cached(se).phase, hub, CachedSrc)
    BY <1>i, <1>k, Zenon DEF IInv, Settled
  <2>2. /\ task'["cur"].pc = task["cur"].pc /\ task'["cur"].list = task["cur"].list
        /\ task'["cur"].todo = task["cur"].todo /\ task'["cur"].failed = task["cur"].failed
    BY <1>i, <1>k, StaleTasks, Zenon
  <2>. QED
    BY <1>k, <2>1, <2>2, Zenon DEF Follows
<1>1. CASE UNCHANGED vars
  BY <1>1, <1>k, Zenon DEF vars, Cached, CachedSrc
<1>2. CASE Create \/ Delete
  <2>1. PICK o \in Export : WriteExport(o)
    BY <1>2, <1>i, Versions, Constants, Zenon DEF Create, Delete, Export
  <2>2. Cached(se)' = Cached(se)
    BY <1>i, <2>1, WriteVersions, Zenon
  <2>3. /\ UNCHANGED <<src, hub, queue, up, outcome>> /\ task' = Stale
    BY <1>2, Zenon DEF Create, Delete
  <2>4. CachedSrc' = CachedSrc /\ up /\ ~queue
    BY <2>3, Zenon DEF CachedSrc
  <2>. QED
    BY <1>k, <2>2, <2>3, <2>4, Zenon
<1>3. CASE ServiceComes \/ ServiceGoes \/ DeliverService
  <2>1. UNCHANGED <<se, src, hub, queue, up, outcome, task>>
    BY <1>3, Zenon DEF ServiceComes, ServiceGoes, DeliverService
  <2>2. Cached(se)' = Cached(se) /\ CachedSrc' = CachedSrc /\ up /\ ~queue
    BY <2>1, Zenon DEF Cached, CachedSrc
  <2>. QED
    BY <1>k, <2>1, <2>2, Zenon
<1>4. ASSUME NEW x \in Slice, SliceChanges(x) \/ SliceGoes(x) PROVE Goal
  <2>1. UNCHANGED <<se, hub, queue, up, outcome, task>>
    BY <1>4, Zenon DEF SliceChanges, SliceGoes
  <2>2. PICK c \in Nat : src' = [src EXCEPT ![x] = Append(src[x], c)]
    <3>1. clock + 1 \in Nat /\ 0 \in Nat
      BY <1>i, ContentNat DEF TypeOK
    <3>. QED
      BY <1>4, <3>1, Zenon DEF SliceChanges, SliceGoes
  <2>3. \A y \in Slice : Cached(src'[y]) = Cached(src[y])
    <3>1. ASSUME NEW y \in Slice, y # x PROVE src'[y] = src[y]
      BY <1>i, <2>2, <3>1, Zenon DEF TypeOK
    <3>2. src'[x] = Append(src[x], c) /\ src[x] \in Seq(Nat) /\ Len(src[x]) > 0
      BY <1>i, <2>2, Versions, ContentNat DEF TypeOK
    <3>3. \A q \in Seq(Nat), d \in Nat : Len(q) > 0 => Append(q, d)[1] = q[1]
      OBVIOUS
    <3>4. src'[x][1] = src[x][1]
      BY <3>2, <3>3
    <3>. QED
      BY <3>1, <3>4, Zenon DEF Cached
  <2>4. Cached(se)' = Cached(se) /\ CachedSrc' = CachedSrc /\ up /\ ~queue
    BY <2>1, <2>3, Zenon DEF Cached, CachedSrc
  <2>. QED
    BY <1>k, <2>1, <2>4, Zenon
<1>5. CASE DeliverExport \/ Resync
  <2>1. queue' = up' \/ queue' = TRUE
    BY <1>5, Zenon DEF DeliverExport, Resync
  <2>. QED
    BY <2>1, Zenon
<1>6. ASSUME NEW x \in Slice, DeliverSlice(x) PROVE Goal
  <2>1. UNCHANGED <<se, hub, up, outcome, task, overlap>>
    BY <1>6, Zenon DEF DeliverSlice
  <2>2. up /\ ~queue /\ ~Exists(Cached(se))
    <3>1. queue' = (queue \/ (up /\ Exists(Cached(se)))) /\ up' = up
      BY <1>6, Zenon DEF DeliverSlice
    <3>. QED
      BY <3>1, Zenon
  <2>3. Follows(task["cur"], Cached(se).phase, hub, CachedSrc)
    BY <1>i, <2>1, <2>2, Zenon DEF IInv, Settled
  <2>4. task["cur"].pc = "idle" /\ Cached(se).phase # "live"
    <3>1. task["cur"].pc \in PCs
      BY <1>i, Fields, Zenon DEF TypeOK
    <3>. QED
      BY <2>2, <2>3, <3>1, Zenon DEF Follows, PCs, Exists
  <2>5. task'["cur"].pc = "idle" /\ Cached(se)'.phase # "live"
    BY <2>1, <2>4, Zenon DEF Cached
  <2>. QED
    BY <2>5, Zenon DEF Follows
<1>7. CASE Handle
  <2>1. Cached(se)' = Cached(se) /\ CachedSrc' = CachedSrc /\ task["cur"].pc = "idle"
    BY <1>7, <1>i, HandleEffect, Zenon DEF Cached, CachedSrc
  <2>2. CASE task' = task /\ ~Exists(Cached(se))
    BY <2>1, <2>2, Zenon DEF Follows, Exists
  <2>3. CASE task'["cur"].pc = "purge" /\ Cached(se).phase = "terminating"
    BY <2>1, <2>3, Zenon DEF Follows
  <2>4. CASE task'["cur"].pc = "update" /\ Cached(se).phase = "live"
    BY <2>1, <2>4, Zenon DEF Follows
  <2>5. CASE task'["cur"] = Listed /\ Cached(se).phase = "live"
    <3>1. Listed.pc = "prune" /\ \A x \in Slice : Listed.list[x] = CachedSrc[x]
      BY <1>i, ListedTask, Zenon DEF CachedSrc
    <3>. QED
      BY <2>1, <2>5, <3>1, Zenon DEF Follows
  <2>. QED
    BY <1>7, <1>i, <2>2, <2>3, <2>4, <2>5, HandleEffect, Zenon
<1>8. ASSUME NEW g \in Gen, Proceed(g) \/ Fail(g) PROVE Goal
  <2>1. task[g].pc # "idle" /\ up' = up
    BY <1>8, <1>i, Flight, Zenon
  <2>2. g = "cur"
    BY <1>i, <2>1, Zenon DEF IInv, Alone
  <2>. QED
    BY <1>8, <1>i, <2>1, <2>2, SettledFlight, Zenon
<1>9. CASE Crash \/ LoseLease
  BY <1>9, Zenon DEF Crash, LoseLease
<1>10. CASE Start
  <2>1. ~up /\ UNCHANGED <<se, task>> /\ ~Exists(Cached(se))
    BY <1>10, Zenon DEF Start
  <2>2. task'["cur"].pc = "idle" /\ Cached(se)'.phase # "live"
    BY <2>1, Zenon DEF IInv, Alone, Cached, Exists
  <2>. QED
    BY <2>2, Zenon DEF Follows
<1>. QED
  BY <1>1, <1>2, <1>3, <1>4, <1>5, <1>6, <1>7, <1>8, <1>9, <1>10, Zenon
  DEF Next, Environment, Informers, Leader

-----------------------------------------------------------------------------
(* The theorems.                                                           *)

\* The invariant holds initially.
LEMMA InitIInv == Init => IInv
<1>. SUFFICES ASSUME Init PROVE IInv
  BY Zenon
<1>1. TypeOK
  <2>1. 0 \in Content /\ <<0>> \in Seq(Content) /\ Len(<<0>>) = 1
    BY ExportAssumption DEF Content
  <2>2. <<Absent>> \in Seq(Export) /\ Len(<<Absent>>) = 1
    BY Constants
  <2>3. <<FALSE>> \in Seq(BOOLEAN) /\ Len(<<FALSE>>) = 1
    OBVIOUS
  <2>4. src \in [Slice -> Seq(Content)] /\ \A x \in Slice : Len(src[x]) > 0
    BY <2>1 DEF Init
  <2>5. se \in Seq(Export) /\ Len(se) > 0 /\ svc \in Seq(BOOLEAN) /\ Len(svc) > 0
    BY <2>2, <2>3 DEF Init
  <2>6. task \in [Gen -> Task] /\ hub \in [Slice -> Content] /\ clock \in Content
    BY <2>1, Constants, Zenon DEF Init
  <2>7. queue \in BOOLEAN /\ up \in BOOLEAN /\ overlap \in BOOLEAN
    BY Zenon DEF Init
  <2>8. budget \in 0 .. MaxDisturbances
    BY ExportAssumption DEF Init
  <2>9. outcome \in Outcome
    BY Zenon DEF Init, Outcome
  <2>. QED
    BY <2>4, <2>5, <2>6, <2>7, <2>8, <2>9, Zenon DEF TypeOK
<1>2. /\ se = <<Absent>> /\ hub = NoList /\ ~up
      /\ \A g \in Gen : task[g] = Idle
      /\ \A x \in Slice : src[x] = <<0>>
  BY Zenon DEF Init
<1>3. Absent.phase = "absent"
  BY Zenon DEF Absent
<1>4. Finalized
  BY <1>2, <1>3 DEF Finalized
<1>5. Copies /\ Alone /\ Todo /\ Settled
  BY <1>2, Constants, Zenon DEF Copies, FreshOK, Alone, Todo, Settled
<1>6. Shielded
  BY <1>2, Constants, Zenon DEF Shielded
<1>7. clock = 0
  BY Zenon DEF Init
<1>8. Sources
  BY <1>2, <1>7 DEF Sources
<1>9. \A x \in Slice : src[x] \in Seq(Content) /\ clock \in Content
  BY <1>1, Zenon DEF TypeOK
<1>10. Ordered
  BY <1>2, <1>9, Constants, ZeroBehind DEF Ordered
<1>. QED
  BY <1>1, <1>4, <1>5, <1>6, <1>8, <1>10, Zenon DEF IInv

\* The invariant the others follow from is inductive.
THEOREM Invariance == Spec => []IInv
<1>1. IInv /\ [Next]_vars => IInv'
  <2>. SUFFICES ASSUME IInv, [Next]_vars PROVE IInv'
    BY Zenon
  <2>1. TypeOK'
    BY TypeStep, Zenon DEF IInv
  <2>. QED
    BY <2>1, ExportStep, ShieldedStep, SourceStep, OrderedStep, TodoStep, SettledStep, Zenon DEF IInv
<1>. QED
  BY <1>1, InitIInv, PTL DEF Spec

\* Every variable of the controller keeps its type.
THEOREM TypeCorrect == Spec => []TypeOK
<1>1. IInv => TypeOK
  BY Zenon DEF IInv
<1>. QED
  BY <1>1, Invariance, PTL

\* At rest the hub holds exactly the slices of an exported Service, unless the last run
\* met no Service, skipped the pruning or lost an error, or two leaders overlapped.
THEOREM HubConsistency == Spec => []HubFollows
<1>1. IInv => HubFollows
  <2>. SUFFICES ASSUME IInv, Quiescent, ~overlap, outcome = "done", API(se).phase = "live",
                       NEW x \in Slice
                PROVE  hub[x] = API(src[x])
    BY Zenon DEF HubFollows
  <2>1. Cached(se) = API(se) /\ Cached(src[x]) = API(src[x])
    BY Zenon DEF Quiescent, Cached, API
  <2>2. up /\ ~queue /\ task["cur"].pc = "idle"
    BY Zenon DEF Quiescent
  <2>3. Follows(task["cur"], Cached(se).phase, hub, CachedSrc)
    BY <2>2, Zenon DEF IInv, Settled
  <2>4. hub[x] = CachedSrc[x]
    BY <2>1, <2>2, <2>3, Zenon DEF Follows
  <2>. QED
    BY <2>1, <2>4, Zenon DEF CachedSrc
<1>. QED
  BY <1>1, Invariance, PTL

\* No slice is left in the hub without a ServiceExport whose finalizer guards it.
THEOREM HubGuarded == Spec => []NoHubOrphans
<1>1. IInv => NoHubOrphans
  BY Zenon DEF IInv, Shielded, Guarded, NoHubOrphans
<1>. QED
  BY <1>1, Invariance, PTL

\* The content of a slice in the hub never goes back to an older one.
THEOREM HubOrder == Spec => HubMonotone
<1>1. IInv /\ [Next]_vars => [NotBack]_vars
  BY OrderedStep, Zenon
<1>. QED
  BY <1>1, Invariance, PTL DEF Spec, HubMonotone

=============================================================================
