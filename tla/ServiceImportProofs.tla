------------------------- MODULE ServiceImportProofs -------------------------
(***************************************************************************)
(* Proofs about ServiceImportController, for any set of ServiceImports, any*)
(* pool and any number and kind of disturbances: the inductive invariant,  *)
(* first types, versions and the handlers' copies, then leaders, recycling,*)
(* slices and owners; and the theorems.                                    *)
(***************************************************************************)
EXTENDS ServiceImportController, TLAPS

-----------------------------------------------------------------------------
(* The inductive invariant.                                                *)

Recycling == {"purge", "release", "unfinalize"}

\* What the versions between the cache and the API look like: a terminating one has the
\* finalizer, only a new incarnation without address follows it, and the finalizer stays
\* on from a live version that has it to the end.
History == \A s \in SI : \A i, j \in 1 .. Len(store[s]) :
    /\ store[s][i].phase = "terminating" => store[s][i].fin
    /\ i < j /\ store[s][i].phase = "terminating" /\ store[s][j].phase = "live"
       => store[s][j].ips \notin IP
    /\ i <= j /\ store[s][i].phase = "live" /\ store[s][i].fin
       => Exists(store[s][j]) /\ store[s][j].fin

\* What a handler's copy t has in common with the stored object, the last of versions v.
CopyOK(t, v) ==
    /\ t.fresh => t.pc \in {"update"} \cup Recycling /\ Len(v) = 1
    /\ t.pc = "update" => t.obj.phase = "live" /\ t.obj.fin
    /\ t.pc = "update" /\ t.fresh =>
         /\ v[Len(v)].phase = "live" /\ v[Len(v)].typ = t.obj.typ
         /\ Counted(v[Len(v)]) => t.obj.ips = v[Len(v)].ips
    /\ t.pc \in Recycling => t.obj.phase = "terminating"
    /\ t.pc \in Recycling /\ t.fresh => v[Len(v)] = t.obj

Copies == \A g \in Gen, s \in SI : CopyOK(task[g][s], store[s])

\* A leader that is down has no handlers, and only an overlap leaves old ones.
Leaders ==
    /\ ~up => \A s \in SI : task["cur"][s].pc = "idle"
    /\ "overlap" \notin breach => \A s \in SI : task["old"][s].pc = "idle"

\* While nothing went wrong, the pool charges an address to the import that carries it
\* or is about to, and a recycling only finds an import that carries none.
Ownership == breach = {} =>
    /\ UniqueVIP
    /\ up => \A s \in SI :
         /\ API(s).phase = "live" /\ API(s).ips \in IP => ipam["cur"][API(s).ips] = s
         /\ LET t == task["cur"][s] IN
            t.pc = "update" /\ t.fresh /\ t.obj.ips \in IP => ipam["cur"][t.obj.ips] = s

Recycled == "overlap" \notin breach => \A s \in SI :
    task["cur"][s].pc \in Recycling => ~(API(s).phase = "live" /\ API(s).ips \in IP)

\* The slices of an import exist only under its finalizer.
Slices == "overlap" \notin breach => \A s \in SI :
    /\ s \in derived \/ task["cur"][s].pc = "sync" => Exists(API(s)) /\ API(s).fin
    /\ task["cur"][s].pc \in {"release", "unfinalize"} => s \notin derived

IInv == TypeOK /\ History /\ Copies /\ Leaders /\ Ownership /\ Recycled /\ Slices

-----------------------------------------------------------------------------
(* Type correctness.                                                       *)

USE DEF Gen

\* The running leader and a deposed one.
LEMMA Generations == "cur" \in Gen /\ "old" \in Gen
BY Zenon

\* A missing ServiceImport is an object.
LEMMA AbsentType == Absent \in Object
BY Zenon DEF Absent, Object, Phases, Types, NoIPs

\* The constant tasks are tasks.
LEMMA IdleType == Idle \in Task /\ Sync \in Task /\ NoTasks \in [SI -> Task]
BY AbsentType, Zenon DEF Idle, Sync, Task, PCs, NoTasks

\* What the constant tasks hold.
LEMMA TaskConstants ==
  /\ Idle.pc = "idle" /\ Idle.fresh = FALSE /\ Sync.pc = "sync" /\ Sync.fresh = FALSE
  /\ Idle # Sync /\ \A s \in SI : NoTasks[s] = Idle
<1>1. Idle.pc = "idle" /\ Idle.fresh = FALSE /\ Sync.pc = "sync" /\ Sync.fresh = FALSE
  BY Zenon DEF Idle, Sync
<1>. QED
  BY <1>1, Zenon DEF NoTasks

\* The stored and the cached object of an import.
LEMMA VersionType ==
  ASSUME TypeOK, NEW s \in SI
  PROVE  API(s) \in Object /\ Cached(s) \in Object
BY DEF TypeOK, API, Cached

\* The versions of an import, of which there is always one.
LEMMA StoreType ==
  ASSUME TypeOK, NEW s \in SI
  PROVE  store[s] \in Seq(Object) /\ Len(store[s]) \in Nat /\ Len(store[s]) > 0
BY DEF TypeOK

\* What a write of s does to the versions.
LEMMA WriteVersions ==
  ASSUME TypeOK, NEW s \in SI, NEW o \in Object, Write(s, o)
  PROVE  /\ store' \in [SI -> Seq(Object)]
         /\ \A t \in SI : Len(store[t])' > 0
         /\ \A t \in SI \ {s} : store'[t] = store[t] /\ API(t)' = API(t)
         /\ Len(store'[s]) = Len(store[s]) + 1
         /\ \A i \in 1 .. Len(store[s]) : store'[s][i] = store[s][i]
         /\ store'[s][Len(store[s]) + 1] = o
         /\ API(s)' = o
<1>1. store[s] \in Seq(Object) /\ store'[s] = Append(store[s], o)
  BY Zenon DEF TypeOK, Write
<1>2. /\ store'[s] \in Seq(Object)
      /\ Len(store'[s]) = Len(store[s]) + 1
      /\ \A i \in 1 .. Len(store[s]) : store'[s][i] = store[s][i]
      /\ store'[s][Len(store[s]) + 1] = o
  BY <1>1
<1>3. \A t \in SI \ {s} : store'[t] = store[t]
  BY Zenon DEF TypeOK, Write
<1>4. store' \in [SI -> Seq(Object)]
  BY <1>2, <1>3, Zenon DEF TypeOK, Write
<1>5. ASSUME NEW t \in SI PROVE Len(store[t])' > 0
  <2>1. CASE t = s BY <2>1, <1>2, StoreType
  <2>2. CASE t # s BY <2>2, <1>3, StoreType, Zenon
  <2>. QED BY <2>1, <2>2, Zenon
<1>6. API(s)' = o /\ \A t \in SI \ {s} : API(t)' = API(t)
  BY <1>2, <1>3, Zenon DEF API
<1>. QED
  BY <1>2, <1>3, <1>4, <1>5, <1>6, Zenon

\* What a delivery does to them.
LEMMA DeliverVersions ==
  ASSUME TypeOK, NEW s \in SI, Deliver(s)
  PROVE  /\ store' \in [SI -> Seq(Object)]
         /\ \A t \in SI : Len(store[t])' > 0
         /\ \A t \in SI \ {s} : store'[t] = store[t]
         /\ Len(store[s]) > 1 /\ Len(store'[s]) = Len(store[s]) - 1
         /\ \A i \in 1 .. Len(store'[s]) : store'[s][i] = store[s][i + 1]
         /\ \A t \in SI : API(t)' = API(t)
<1>1. store[s] \in Seq(Object) /\ store'[s] = Tail(store[s]) /\ Len(store[s]) > 1
  BY Zenon DEF TypeOK, Deliver
<1>2. /\ store'[s] \in Seq(Object)
      /\ Len(store'[s]) = Len(store[s]) - 1
      /\ \A i \in 1 .. Len(store'[s]) : store'[s][i] = store[s][i + 1]
  BY <1>1
<1>3. \A t \in SI \ {s} : store'[t] = store[t]
  BY Zenon DEF TypeOK, Deliver
<1>4. store' \in [SI -> Seq(Object)]
  BY <1>2, <1>3, Zenon DEF TypeOK, Deliver
<1>5. API(s)' = API(s)
  BY <1>1, <1>2 DEF API
<1>6. ASSUME NEW t \in SI PROVE Len(store[t])' > 0 /\ API(t)' = API(t)
  <2>1. CASE t = s BY <2>1, <1>1, <1>2, <1>5, StoreType
  <2>2. CASE t # s BY <2>2, <1>3, StoreType, Zenon DEF API
  <2>. QED BY <2>1, <2>2, Zenon
<1>. QED
  BY <1>1, <1>2, <1>3, <1>4, <1>6, Zenon

\* A write makes the other copies of s stale and touches nothing else of the tasks.
LEMMA StaleTasks ==
  ASSUME TypeOK, NEW s \in SI
  PROVE  /\ Stale(task, s) \in [Gen -> [SI -> Task]]
         /\ \A g \in Gen, t \in SI :
              /\ Stale(task, s)[g][t].pc = task[g][t].pc
              /\ Stale(task, s)[g][t].obj = task[g][t].obj
              /\ t # s => Stale(task, s)[g][t] = task[g][t]
              /\ t = s => Stale(task, s)[g][t].fresh = FALSE
<1>1. ASSUME NEW g \in Gen
      PROVE  /\ [task[g] EXCEPT ![s].fresh = FALSE] \in [SI -> Task]
             /\ \A t \in SI :
                  LET u == [task[g] EXCEPT ![s].fresh = FALSE][t] IN
                  /\ u.pc = task[g][t].pc /\ u.obj = task[g][t].obj
                  /\ t # s => u = task[g][t]
                  /\ t = s => u.fresh = FALSE
  <2>1. task[g] \in [SI -> Task] /\ task[g][s] \in Task
    BY Zenon DEF TypeOK
  <2>. DEFINE new == [task[g][s] EXCEPT !.fresh = FALSE]
  <2>2. /\ new \in Task /\ new.fresh = FALSE
        /\ new.pc = task[g][s].pc /\ new.obj = task[g][s].obj
    BY <2>1, Zenon DEF Task
  <2>3. [task[g] EXCEPT ![s].fresh = FALSE] = [task[g] EXCEPT ![s] = new]
    BY Zenon
  <2>. HIDE DEF new
  <2>. QED
    BY <2>1, <2>2, <2>3, Zenon
<1>. QED
  BY <1>1, Zenon DEF Stale

\* A committed version is the import's last and leaves the other imports alone.
LEMMA CommitVersions ==
  ASSUME TypeOK, NEW s \in SI, NEW o \in Object, Commit(s, o)
  PROVE  /\ store' \in [SI -> Seq(Object)]
         /\ \A t \in SI : Len(store[t])' > 0
         /\ \A t \in SI \ {s} : store'[t] = store[t] /\ API(t)' = API(t)
         /\ API(s)' = o
<1>1. CASE o = API(s)
  BY <1>1, StoreType, Zenon DEF Commit, TypeOK, API
<1>2. CASE o # API(s)
  BY <1>2, WriteVersions, Zenon DEF Commit
<1>. QED
  BY <1>1, <1>2, Zenon

\* A handler's write sets its own task; the other handler's copy of that import goes stale
\* unless the write changed nothing.
LEMMA AfterCommitTasks ==
  ASSUME TypeOK, NEW g \in Gen, NEW s \in SI, NEW o \in Object, NEW t \in Task,
         AfterCommit(g, s, o, t)
  PROVE  /\ task' \in [Gen -> [SI -> Task]]
         /\ task'[g][s] = t
         /\ \A h \in Gen, r \in SI : r # s => task'[h][r] = task[h][r]
         /\ \A h \in Gen : h # g =>
              /\ task'[h][s].pc = task[h][s].pc /\ task'[h][s].obj = task[h][s].obj
              /\ task'[h][s].fresh => task[h][s].fresh /\ o = API(s)
<1>1. CASE o = API(s)
  BY <1>1, Zenon DEF AfterCommit, TypeOK
<1>2. CASE o # API(s)
  <2>. DEFINE st == Stale(task, s)
  <2>1. task' = [st EXCEPT ![g][s] = t]
    BY <1>2, Zenon DEF AfterCommit
  <2>2. /\ st \in [Gen -> [SI -> Task]]
        /\ \A h \in Gen, r \in SI :
             /\ st[h][r].pc = task[h][r].pc /\ st[h][r].obj = task[h][r].obj
             /\ r # s => st[h][r] = task[h][r]
             /\ r = s => st[h][r].fresh = FALSE
    <3>. HIDE DEF Gen
    <3>. QED BY StaleTasks, Zenon
  <2>. HIDE DEF st
  <2>. QED
    BY <1>2, <2>1, <2>2
<1>. QED
  BY <1>1, <1>2, Zenon

\* A user's write keeps the types.
LEMMA UserWriteType ==
  ASSUME TypeOK, NEW s \in SI, NEW o \in Object, UserWrite(s, o),
         budget' \in 0 .. MaxDisturbances
  PROVE  TypeOK'
BY WriteVersions, StaleTasks, Zenon DEF UserWrite, TypeOK

\* A disturbance only takes from its budget.
LEMMA DisturbType ==
  ASSUME TypeOK, NEW k, Disturb(k)
  PROVE  budget' \in 0 .. MaxDisturbances
BY ConstantsAssumption DEF TypeOK, Disturb

\* A step of one handler leaves the other handlers alone.
LEMMA StepType ==
  ASSUME TypeOK, NEW g \in Gen, NEW s \in SI, NEW t \in Task, Step(g, s, t)
  PROVE  /\ task' \in [Gen -> [SI -> Task]]
         /\ task'[g][s] = t
         /\ \A h \in Gen, r \in SI : h # g \/ r # s => task'[h][r] = task[h][r]
BY Zenon DEF TypeOK, Step

\* The users' steps keep the types.
LEMMA UserType == ASSUME TypeOK, User PROVE TypeOK'
<1>. PICK s \in SI :
        \/ \E typ \in Types : Create(s, typ)
        \/ \E typ \in Types : Retype(s, typ)
        \/ Delete(s) \/ Touch(s)
  BY Zenon DEF User
<1>0. API(s) \in Object
  BY VersionType, Zenon
<1>1. ASSUME NEW typ \in Types, Create(s, typ) PROVE TypeOK'
  <2>1. [Absent EXCEPT !.phase = "live", !.typ = typ] \in Object
    BY Zenon DEF Absent, Object, Phases, NoIPs
  <2>. QED BY <1>1, <2>1, UserWriteType, Zenon DEF Create, TypeOK
<1>2. ASSUME NEW typ \in Types, Retype(s, typ) PROVE TypeOK'
  <2>1. [API(s) EXCEPT !.typ = typ] \in Object
    BY <1>0, Zenon DEF Object
  <2>. QED BY <1>2, <2>1, UserWriteType, DisturbType, Zenon DEF Retype
<1>3. CASE Delete(s)
  <2>1. (IF API(s).fin THEN [API(s) EXCEPT !.phase = "terminating"] ELSE Absent) \in Object
    BY <1>0, AbsentType, Zenon DEF Object, Phases
  <2>. QED BY <1>3, <2>1, UserWriteType, DisturbType, Zenon DEF Delete
<1>4. CASE Touch(s)
  BY <1>0, <1>4, UserWriteType, DisturbType, Zenon DEF Touch
<1>. QED
  BY <1>1, <1>2, <1>3, <1>4, Zenon

\* What AddInitialInfoToServiceImport makes of an object.
LEMMA InitialInfoType ==
  ASSUME NEW o \in Object
  PROVE  /\ InitialInfo(o) \in Object
         /\ InitialInfo(o).phase = o.phase /\ InitialInfo(o).typ = o.typ
         /\ InitialInfo(o).fin = TRUE
         /\ InitialInfo(o).ips \in IP => InitialInfo(o).ips = o.ips
         /\ o.typ = "ClusterSetIP" => InitialInfo(o).ips = o.ips
         /\ \A ip \in IP : LET a == [InitialInfo(o) EXCEPT !.ips = ip] IN
              /\ a \in Object /\ a.phase = o.phase /\ a.typ = o.typ
              /\ a.fin = TRUE /\ a.ips = ip
<1>. DEFINE i == InitialInfo(o)
<1>1. /\ i \in Object /\ i.phase = o.phase /\ i.typ = o.typ /\ i.fin = TRUE
      /\ i.ips = IF o.typ = "Headless" /\ o.ips # NoIPs THEN Blank ELSE o.ips
  BY Zenon DEF InitialInfo, Object
<1>2. Blank \notin IP
  BY ConstantsAssumption DEF Blank, IP
<1>. HIDE DEF i
<1>3. ASSUME NEW ip \in IP
      PROVE  LET a == [i EXCEPT !.ips = ip] IN
             /\ a \in Object /\ a.phase = o.phase /\ a.typ = o.typ
             /\ a.fin = TRUE /\ a.ips = ip
  BY <1>1, Zenon DEF Object
<1>. QED
  BY <1>1, <1>2, <1>3, Zenon DEF i, Types

\* A handler that begins holds the object it read, fresh if nothing was to be delivered.
LEMMA EnterType ==
  ASSUME TypeOK, NEW s \in SI, NEW pc \in PCs, NEW o \in Object, Enter(s, pc, o)
  PROVE  /\ task' \in [Gen -> [SI -> Task]]
         /\ task'["cur"][s] = [pc |-> pc, obj |-> o, fresh |-> Len(store[s]) = 1]
         /\ \A h \in Gen, r \in SI : h # "cur" \/ r # s => task'[h][r] = task[h][r]
<1>. DEFINE t == [pc |-> pc, obj |-> o, fresh |-> Len(store[s]) = 1]
<1>1. t \in Task
  BY Zenon DEF Task
<1>2. Step("cur", s, t)
  BY Zenon DEF Enter
<1>. HIDE DEF t
<1>3. /\ task' \in [Gen -> [SI -> Task]] /\ task'["cur"][s] = t
      /\ \A h \in Gen, r \in SI : h # "cur" \/ r # s => task'[h][r] = task[h][r]
  BY <1>1, <1>2, StepType, Zenon
<1>. QED
  BY <1>3, Zenon DEF t

\* Taking a key off the queue keeps the types.
LEMMA HandleType == ASSUME TypeOK, NEW s \in SI, Handle(s) PROVE TypeOK'
<1>0. Cached(s) \in Object /\ InitialInfo(Cached(s)) \in Object
  BY VersionType, InitialInfoType, Zenon
<1>1. CASE HandleGone(s)
  BY <1>1, Zenon DEF HandleGone, Take, TypeOK
<1>2. CASE HandleTerminating(s)
  <2>1. task' \in [Gen -> [SI -> Task]]
    BY <1>0, <1>2, EnterType, Zenon DEF HandleTerminating, PCs
  <2>. QED BY <1>2, <2>1, Zenon DEF HandleTerminating, Take, TypeOK
<1>3. CASE HandleLive(s)
  <2>1. task' \in [Gen -> [SI -> Task]]
    BY <1>0, <1>3, EnterType, StepType, IdleType, Zenon DEF HandleLive, PCs
  <2>. QED BY <1>3, <2>1, Zenon DEF HandleLive, Take, TypeOK
<1>4. CASE HandleAllocate(s)
  <2>. PICK ip \in FreeIPs("cur") :
          /\ ipam' = [ipam EXCEPT !["cur"][ip] = s]
          /\ Enter(s, "update", [InitialInfo(Cached(s)) EXCEPT !.ips = ip])
    BY <1>4, Zenon DEF HandleAllocate
  <2>0. ip \in IP
    BY Zenon DEF FreeIPs
  <2>1. [InitialInfo(Cached(s)) EXCEPT !.ips = ip] \in Object
    BY <1>0, <2>0, InitialInfoType, Zenon
  <2>2. task' \in [Gen -> [SI -> Task]]
    BY <2>1, EnterType, Zenon DEF PCs
  <2>3. ipam' \in [Gen -> [IP -> SI \cup {Free}]]
    BY <2>0, Zenon DEF TypeOK
  <2>. QED BY <1>4, <2>2, <2>3, Zenon DEF HandleAllocate, Take, TypeOK
<1>5. CASE HandleExhausted(s)
  BY <1>5, Zenon DEF HandleExhausted, vars, TypeOK
<1>. QED
  BY <1>1, <1>2, <1>3, <1>4, <1>5, Zenon DEF Handle

\* Moving a handler to another call changes its pc only.
LEMMA TaskType ==
  ASSUME TypeOK, NEW g \in Gen, NEW s \in SI
  PROVE  /\ task[g][s] \in Task /\ task[g][s].obj \in Object
         /\ \A pc \in PCs : LET t == [task[g][s] EXCEPT !.pc = pc] IN
              /\ t \in Task /\ t.pc = pc
              /\ t.obj = task[g][s].obj /\ t.fresh = task[g][s].fresh
<1>1. task[g][s] \in Task
  BY Zenon DEF TypeOK
<1>. QED
  BY <1>1, Zenon DEF Task

\* A handler that ends in an error goes idle.
LEMMA RequeueType ==
  ASSUME TypeOK, NEW g \in Gen, NEW s \in SI, Requeue(g, s)
  PROVE  /\ task' \in [Gen -> [SI -> Task]] /\ queue' \in SUBSET SI
         /\ task'[g][s] = Idle
         /\ \A h \in Gen, r \in SI : h # g \/ r # s => task'[h][r] = task[h][r]
<1>1. Step(g, s, Idle)
  BY Zenon DEF Requeue
<1>. QED
  BY <1>1, StepType, IdleType DEF Requeue, TypeOK

\* A call that succeeds keeps the types.
LEMMA ProceedType ==
  ASSUME TypeOK, NEW g \in Gen, NEW s \in SI, Proceed(g, s)
  PROVE  TypeOK'
<1>. DEFINE to(pc) == [task[g][s] EXCEPT !.pc = pc]
<1>0. to("release") \in Task /\ to("unfinalize") \in Task
  BY TaskType DEF PCs
<1>. HIDE DEF to
<1>1. CASE UpdateOK(g, s)
  BY <1>1, CommitVersions, AfterCommitTasks, TaskType, IdleType DEF UpdateOK, TypeOK
<1>2. CASE Refused(g, s)
  BY <1>2, RequeueType, Zenon DEF Refused, TypeOK
<1>3. CASE SyncOK(g, s)
  BY <1>3, StepType, IdleType, Zenon DEF SyncOK, Finish, TypeOK
<1>4. CASE PurgeOK(g, s)
  <2>1. Step(g, s, to("release"))
    BY <1>4, Zenon DEF PurgeOK, to
  <2>. QED BY <1>0, <1>4, <2>1, StepType, Zenon DEF PurgeOK, TypeOK
<1>5. CASE Release(g, s)
  <2>1. Step(g, s, to("unfinalize"))
    BY <1>5, Zenon DEF Release, to
  <2>2. task' \in [Gen -> [SI -> Task]]
    BY <1>0, <2>1, StepType, Zenon
  <2>3. ipam' \in [Gen -> [IP -> SI \cup {Free}]]
    BY <1>5, Zenon DEF Release, TypeOK
  <2>4. breach' \in SUBSET Breaches
    BY <1>5, Zenon DEF Release, TypeOK, Breaches
  <2>. QED BY <1>5, <2>2, <2>3, <2>4, Zenon DEF Release, TypeOK
<1>6. CASE ReleaseError(g, s)
  BY <1>6, RequeueType, Zenon DEF ReleaseError, TypeOK
<1>7. CASE ReleaseSkipped(g, s)
  <2>1. Step(g, s, to("unfinalize"))
    BY <1>7, Zenon DEF ReleaseSkipped, to
  <2>. QED BY <1>0, <1>7, <2>1, StepType, Zenon DEF ReleaseSkipped, TypeOK
<1>8. CASE UnfinalizeOK(g, s)
  BY <1>8, CommitVersions, AfterCommitTasks, AbsentType, IdleType, Zenon DEF UnfinalizeOK, TypeOK
<1>. QED
  BY <1>1, <1>2, <1>3, <1>4, <1>5, <1>6, <1>7, <1>8, Zenon DEF Proceed

\* A call that fails keeps the types.
LEMMA FailType ==
  ASSUME TypeOK, NEW g \in Gen, NEW s \in SI, Fail(g, s)
  PROVE  TypeOK'
<1>1. CASE CallFailed(g, s)
  BY <1>1, RequeueType, DisturbType, Zenon DEF CallFailed, TypeOK
<1>2. CASE SyncPartly(g, s)
  BY <1>2, RequeueType, DisturbType, Zenon DEF SyncPartly, TypeOK
<1>3. CASE AnswerLost(g, s)
  <2>. DEFINE o == IF task[g][s].pc = "update" THEN task[g][s].obj ELSE Absent
  <2>1. o \in Object
    BY TaskType, AbsentType, Zenon
  <2>2. Commit(s, o) /\ AfterCommit(g, s, o, Idle)
    BY <1>3, Zenon DEF AnswerLost
  <2>. HIDE DEF o
  <2>3. /\ store' \in [SI -> Seq(Object)] /\ \A t \in SI : Len(store[t])' > 0
        /\ task' \in [Gen -> [SI -> Task]]
    BY <2>1, <2>2, CommitVersions, AfterCommitTasks, IdleType, Zenon
  <2>4. budget' \in 0 .. MaxDisturbances
    BY <1>3, DisturbType, Zenon DEF AnswerLost
  <2>. QED BY <1>3, <2>3, <2>4, Zenon DEF AnswerLost, TypeOK
<1>. QED
  BY <1>1, <1>2, <1>3, Zenon DEF Fail

\* A leader that ends takes its handlers with it and leaves a deposed one's alone.
LEMMA DieType ==
  ASSUME TypeOK, Die
  PROVE  /\ task' \in [Gen -> [SI -> Task]] /\ ipam' \in [Gen -> [IP -> SI \cup {Free}]]
         /\ task'["cur"] = NoTasks /\ task'["old"] = task["old"]
BY IdleType, Zenon DEF Die, TypeOK

\* Leaders coming and going keep the types.
LEMMA LeaderType ==
  ASSUME TypeOK,
         \/ Crash \/ LoseLease \/ Start \/ StartFails
         \/ \E g \in Gen, s \in SI : ReleasePanic(g, s)
  PROVE  TypeOK'
<1>1. CASE Crash
  BY <1>1, DieType, DisturbType, Zenon DEF Crash, Die, TypeOK
<1>2. CASE LoseLease
  <2>1. task' \in [Gen -> [SI -> Task]]
    BY <1>2, IdleType, Zenon DEF LoseLease, TypeOK
  <2>2. ipam' \in [Gen -> [IP -> SI \cup {Free}]]
    BY <1>2, Zenon DEF LoseLease, TypeOK
  <2>3. breach' \in SUBSET Breaches
    BY <1>2, Zenon DEF LoseLease, TypeOK, Breaches
  <2>. QED BY <1>2, <2>1, <2>2, <2>3, DisturbType, Zenon DEF LoseLease, TypeOK
<1>3. CASE Start
  <2>1. Owners \in [IP -> SI \cup {Free}]
    BY Zenon DEF Owners
  <2>2. breach' \in SUBSET Breaches
    BY <1>3, Zenon DEF Start, TypeOK, Breaches
  <2>. QED BY <1>3, <2>1, <2>2, Zenon DEF Start, TypeOK
<1>4. CASE StartFails
  BY <1>4, Zenon DEF StartFails, vars, TypeOK
<1>5. ASSUME NEW g \in Gen, NEW s \in SI, ReleasePanic(g, s) PROVE TypeOK'
  <2>1. CASE g = "cur"
    BY <1>5, <2>1, DieType, Zenon DEF ReleasePanic, Die, TypeOK
  <2>2. CASE g = "old"
    BY <1>5, <2>2, IdleType, Zenon DEF ReleasePanic, TypeOK
  <2>. QED BY <2>1, <2>2, Zenon
<1>. QED
  BY <1>1, <1>2, <1>3, <1>4, <1>5, Zenon

\* Every step keeps the types.
LEMMA TypeStep == ASSUME TypeOK, [Next]_vars PROVE TypeOK'
<1>1. CASE UNCHANGED vars
  BY <1>1, Zenon DEF vars, TypeOK
<1>2. CASE Informer
  <2>. PICK s \in SI : Deliver(s) \/ Resync(s)
    BY <1>2, Zenon DEF Informer
  <2>1. CASE Deliver(s)
    BY <2>1, DeliverVersions, Zenon DEF Deliver, TypeOK
  <2>2. CASE Resync(s)
    BY <2>2, Zenon DEF Resync, TypeOK
  <2>. QED BY <2>1, <2>2, Zenon
<1>. QED
  BY <1>1, <1>2, UserType, HandleType, ProceedType, FailType, LeaderType, Zenon DEF Next

\* Every value the controller, its pool and its informer hold has its type.
THEOREM TypeCorrect == Spec => []TypeOK
<1>1. ASSUME Init PROVE TypeOK
  <2>1. <<Absent>> \in Seq(Object) /\ Len(<<Absent>>) = 1
    BY AbsentType
  <2>2. store \in [SI -> Seq(Object)] /\ \A s \in SI : Len(store[s]) > 0
    BY <1>1, <2>1 DEF Init
  <2>3. task \in [Gen -> [SI -> Task]]
    BY <1>1, IdleType, Zenon DEF Init
  <2>4. budget \in 0 .. MaxDisturbances
    BY <1>1, ConstantsAssumption DEF Init
  <2>. QED BY <1>1, <2>2, <2>3, <2>4, Zenon DEF Init, TypeOK
<1>. QED
  BY <1>1, TypeStep, PTL DEF Spec

-----------------------------------------------------------------------------
(* The versions between the cache and the API.                             *)

\* What History says of the stored object.
LEMMA LastVersion ==
  ASSUME TypeOK, History, NEW s \in SI, NEW i \in 1 .. Len(store[s])
  PROVE  /\ API(s).phase = "terminating" => API(s).fin
         /\ i < Len(store[s]) /\ store[s][i].phase = "terminating" /\ API(s).phase = "live"
            => API(s).ips \notin IP
         /\ store[s][i].phase = "live" /\ store[s][i].fin => Exists(API(s)) /\ API(s).fin
<1>1. Len(store[s]) \in 1 .. Len(store[s]) /\ i <= Len(store[s])
  BY StoreType
<1>. QED
  BY <1>1, Zenon DEF History, API

\* A version keeps History if it keeps the finalizer and brings an address only over a live
\* object.
LEMMA HistoryWrite ==
  ASSUME TypeOK, History, NEW s \in SI, NEW o \in Object, Write(s, o),
         o.phase = "terminating" => o.fin,
         o.phase = "live" /\ o.ips \in IP
           => API(s).phase = "live" /\ (API(s).ips \in IP \/ Len(store[s]) = 1),
         \/ Exists(API(s)) /\ API(s).fin => Exists(o) /\ o.fin
         \/ Len(store[s]) = 1 /\ API(s).phase # "live"
  PROVE  History'
<1>. SUFFICES ASSUME NEW r \in SI, NEW i \in 1 .. Len(store'[r]), NEW j \in 1 .. Len(store'[r])
     PROVE  /\ store'[r][i].phase = "terminating" => store'[r][i].fin
            /\ i < j /\ store'[r][i].phase = "terminating" /\ store'[r][j].phase = "live"
               => store'[r][j].ips \notin IP
            /\ i <= j /\ store'[r][i].phase = "live" /\ store'[r][i].fin
               => Exists(store'[r][j]) /\ store'[r][j].fin
  BY Zenon DEF History, Exists
<1>1. CASE r # s
  BY <1>1, WriteVersions DEF History
<1>2. CASE r = s
  <2>. DEFINE n == Len(store[s])
  <2>0. /\ n \in Nat /\ n > 0 /\ Len(store'[s]) = n + 1
        /\ \A k \in 1 .. n : store'[s][k] = store[s][k]
        /\ store'[s][n + 1] = o
    BY WriteVersions, StoreType, Zenon
  <2>1. CASE i \in 1 .. n /\ j \in 1 .. n
    BY <1>2, <2>0, <2>1 DEF History
  <2>2. CASE i \in 1 .. n /\ j = n + 1
    <3>1. store'[s][i] = store[s][i] /\ store'[s][j] = o
      BY <2>0, <2>2, Zenon
    <3>2. store[s][i].phase = "terminating" => store[s][i].fin
      BY <2>2, Zenon DEF History
    <3>3. n = 1 => store[s][i] = API(s)
      BY <2>0, <2>2 DEF API
    <3>4. ~(i < n) => store[s][i] = API(s)
      BY <2>0, <2>2 DEF API
    <3>. HIDE DEF n
    <3>. QED
      BY <1>2, <3>1, <3>2, <3>3, <3>4, <2>2, LastVersion, Zenon DEF n
  <2>3. CASE i = n + 1
    BY <1>2, <2>0, <2>3 DEF Exists
  <2>4. (i \in 1 .. n \/ i = n + 1) /\ (j \in 1 .. n \/ j = n + 1)
    BY <1>2, <2>0
  <2>. HIDE DEF n
  <2>. QED
    BY <2>1, <2>2, <2>3, <2>4, Zenon
<1>. QED
  BY <1>1, <1>2, Zenon

\* The same for a write that changes nothing and so stores no version.
LEMMA HistoryCommit ==
  ASSUME TypeOK, History, NEW s \in SI, NEW o \in Object, Commit(s, o),
         o.phase = "terminating" => o.fin,
         o.phase = "live" /\ o.ips \in IP
           => API(s).phase = "live" /\ (API(s).ips \in IP \/ Len(store[s]) = 1),
         \/ Exists(API(s)) /\ API(s).fin => Exists(o) /\ o.fin
         \/ Len(store[s]) = 1 /\ API(s).phase # "live"
  PROVE  History'
<1>1. CASE o = API(s)
  BY <1>1 DEF Commit, History
<1>2. CASE o # API(s)
  BY <1>2, HistoryWrite, Zenon DEF Commit
<1>. QED
  BY <1>1, <1>2, Zenon

\* Delivering a version drops the oldest.
LEMMA HistoryDeliver ==
  ASSUME TypeOK, History, NEW s \in SI, Deliver(s)
  PROVE  History'
<1>. SUFFICES ASSUME NEW r \in SI, NEW i \in 1 .. Len(store'[r]), NEW j \in 1 .. Len(store'[r])
     PROVE  /\ store'[r][i].phase = "terminating" => store'[r][i].fin
            /\ i < j /\ store'[r][i].phase = "terminating" /\ store'[r][j].phase = "live"
               => store'[r][j].ips \notin IP
            /\ i <= j /\ store'[r][i].phase = "live" /\ store'[r][i].fin
               => Exists(store'[r][j]) /\ store'[r][j].fin
  BY Zenon DEF History, Exists
<1>1. CASE r # s
  BY <1>1, DeliverVersions DEF History
<1>2. CASE r = s
  <2>1. /\ i + 1 \in 1 .. Len(store[s]) /\ j + 1 \in 1 .. Len(store[s])
        /\ store'[s][i] = store[s][i + 1] /\ store'[s][j] = store[s][j + 1]
    BY <1>2, DeliverVersions, StoreType
  <2>2. (i < j => i + 1 < j + 1) /\ (i <= j => i + 1 <= j + 1)
    OBVIOUS
  <2>3. /\ store[s][i + 1].phase = "terminating" => store[s][i + 1].fin
        /\ i + 1 < j + 1 /\ store[s][i + 1].phase = "terminating" /\ store[s][j + 1].phase = "live"
           => store[s][j + 1].ips \notin IP
        /\ i + 1 <= j + 1 /\ store[s][i + 1].phase = "live" /\ store[s][i + 1].fin
           => Exists(store[s][j + 1]) /\ store[s][j + 1].fin
    BY <2>1, Zenon DEF History
  <2>. QED
    BY <1>2, <2>1, <2>2, <2>3, Zenon
<1>. QED
  BY <1>1, <1>2, Zenon

\* What the users' writes have in common.
UserObject(s, o) ==
    /\ o.phase = "terminating" => o.fin
    /\ o.phase = "live" /\ o.ips \in IP => API(s).phase = "live" /\ API(s).ips = o.ips
    /\ Exists(API(s)) /\ API(s).fin => Exists(o) /\ o.fin
    /\ Counted(API(s)) /\ Exists(o) => o.ips = API(s).ips

\* Every step of a user writes an object a user may write.
LEMMA UserWrites ==
  ASSUME TypeOK, History, User
  PROVE  \E s \in SI, o \in Object : UserWrite(s, o) /\ UserObject(s, o)
<1>. PICK s \in SI :
        \/ \E typ \in Types : Create(s, typ)
        \/ \E typ \in Types : Retype(s, typ)
        \/ Delete(s) \/ Touch(s)
  BY Zenon DEF User
<1>0. API(s) \in Object /\ (API(s).phase = "terminating" => API(s).fin)
  <2>1. 1 \in 1 .. Len(store[s])
    BY StoreType
  <2>. QED BY <2>1, VersionType, LastVersion, Zenon
<1>1. ASSUME NEW typ \in Types, Create(s, typ)
      PROVE  \E o \in Object : UserWrite(s, o) /\ UserObject(s, o)
  <2>. DEFINE o == [Absent EXCEPT !.phase = "live", !.typ = typ]
  <2>1. o \in Object /\ o.phase = "live" /\ o.ips = NoIPs
    BY Zenon DEF Absent, Object, Phases, NoIPs
  <2>2. NoIPs \notin IP
    BY DEF NoIPs, IP
  <2>3. UserWrite(s, o) /\ ~Exists(API(s))
    BY <1>1, Zenon DEF Create
  <2>. HIDE DEF o
  <2>. QED BY <2>1, <2>2, <2>3, Zenon DEF UserObject, Counted
<1>2. ASSUME NEW typ \in Types, Retype(s, typ)
      PROVE  \E o \in Object : UserWrite(s, o) /\ UserObject(s, o)
  <2>. DEFINE o == [API(s) EXCEPT !.typ = typ]
  <2>1. o \in Object /\ o.phase = API(s).phase /\ o.ips = API(s).ips /\ o.fin = API(s).fin
    BY <1>0, Zenon DEF Object
  <2>3. UserWrite(s, o)
    BY <1>2, Zenon DEF Retype
  <2>. HIDE DEF o
  <2>. QED BY <1>0, <2>1, <2>3, Zenon DEF UserObject, Exists
<1>3. ASSUME Delete(s), API(s).fin
      PROVE  \E o \in Object : UserWrite(s, o) /\ UserObject(s, o)
  <2>. DEFINE o == [API(s) EXCEPT !.phase = "terminating"]
  <2>1. /\ o \in Object /\ o.phase = "terminating"
        /\ o.ips = API(s).ips /\ o.fin = API(s).fin
    BY <1>0, Zenon DEF Object, Phases
  <2>3. UserWrite(s, o)
    BY <1>3, Zenon DEF Delete
  <2>. HIDE DEF o
  <2>. QED BY <1>3, <2>1, <2>3, Zenon DEF UserObject, Exists
<1>4. ASSUME Delete(s), ~API(s).fin
      PROVE  \E o \in Object : UserWrite(s, o) /\ UserObject(s, o)
  <2>1. UserWrite(s, Absent)
    BY <1>4, Zenon DEF Delete
  <2>2. Absent.phase = "absent"
    BY Zenon DEF Absent
  <2>. QED BY <1>4, <2>1, <2>2, AbsentType, Zenon DEF UserObject, Exists
<1>5. ASSUME Touch(s)
      PROVE  \E o \in Object : UserWrite(s, o) /\ UserObject(s, o)
  BY <1>0, <1>5, Zenon DEF Touch, UserObject
<1>. QED
  BY <1>1, <1>2, <1>3, <1>4, <1>5, Zenon

\* The three steps in which a handler's Update is stored.
Stores(g, s) == UpdateOK(g, s) \/ UnfinalizeOK(g, s) \/ AnswerLost(g, s)

\* What the handlers' writes have in common.
HandlerObject(g, s, o) ==
    /\ task[g][s].fresh /\ Len(store[s]) = 1
    /\ \/ /\ task[g][s].pc = "update" /\ o = task[g][s].obj
          /\ o.phase = "live" /\ o.fin /\ API(s).phase = "live"
          /\ Counted(API(s)) => o.ips = API(s).ips
       \/ /\ task[g][s].pc = "unfinalize" /\ o = Absent
          /\ API(s).phase = "terminating"

\* Taking the finalizer off a terminating import removes it.
LEMMA UnfinalizeObject ==
  ASSUME Copies, NEW g \in Gen, NEW s \in SI, task[g][s].pc = "unfinalize", task[g][s].fresh
  PROVE  HandlerObject(g, s, Absent)
<1>1. CopyOK(task[g][s], store[s])
  BY Zenon DEF Copies
<1>2. Len(store[s]) = 1 /\ API(s) = task[g][s].obj /\ task[g][s].obj.phase = "terminating"
  BY <1>1, Zenon DEF CopyOK, Recycling, API
<1>. QED
  BY <1>2, Zenon DEF HandlerObject

\* Every write of a handler stores an object a handler may write.
LEMMA HandlerWrites ==
  ASSUME TypeOK, Copies, NEW g \in Gen, NEW s \in SI, Stores(g, s)
  PROVE  \E o \in Object, t \in {Idle, Sync} :
            /\ Commit(s, o) /\ AfterCommit(g, s, o, t) /\ HandlerObject(g, s, o)
            /\ t = Sync => task[g][s].pc = "update"
<1>0. task[g][s].obj \in Object
  BY TaskType, Zenon
<1>1. CASE UpdateOK(g, s)
  BY <1>0, <1>1 DEF UpdateOK, Accepted, Copies, CopyOK, HandlerObject, API
<1>2. CASE UnfinalizeOK(g, s)
  <2>1. /\ task[g][s].pc = "unfinalize" /\ task[g][s].fresh
        /\ Commit(s, Absent) /\ AfterCommit(g, s, Absent, Idle)
    BY <1>2, Zenon DEF UnfinalizeOK, Accepted
  <2>. QED BY <2>1, AbsentType, TaskConstants, UnfinalizeObject, Zenon
<1>3. CASE AnswerLost(g, s)
  <2>1. CASE task[g][s].pc = "update"
    BY <1>0, <1>3, <2>1 DEF AnswerLost, Accepted, Copies, CopyOK, HandlerObject, API
  <2>2. CASE task[g][s].pc = "unfinalize"
    <3>1. task[g][s].fresh /\ Commit(s, Absent) /\ AfterCommit(g, s, Absent, Idle)
      BY <1>3, <2>2, Zenon DEF AnswerLost, Accepted
    <3>. QED BY <2>2, <3>1, AbsentType, TaskConstants, UnfinalizeObject, Zenon
  <2>. QED BY <1>3, <2>1, <2>2, Zenon DEF AnswerLost
<1>. QED
  BY <1>1, <1>2, <1>3, Zenon DEF Stores

-----------------------------------------------------------------------------
(* The handlers' copies.                                                   *)

\* A step that leaves the versions alone.
Quiet ==
    \/ \E s \in SI : Resync(s) \/ Handle(s)
    \/ \E g \in Gen, s \in SI :
         \/ Refused(g, s) \/ SyncOK(g, s) \/ PurgeOK(g, s) \/ Release(g, s)
         \/ ReleaseError(g, s) \/ ReleaseSkipped(g, s) \/ CallFailed(g, s)
         \/ SyncPartly(g, s) \/ ReleasePanic(g, s)
    \/ Crash \/ LoseLease \/ Start \/ StartFails
    \/ UNCHANGED vars

\* The steps, sorted by who writes ServiceImports.
LEMMA StepKinds ==
  ASSUME [Next]_vars
  PROVE  \/ User \/ (\E s \in SI : Deliver(s))
         \/ (\E g \in Gen, s \in SI : Stores(g, s))
         \/ Quiet
BY Zenon DEF Next, Informer, Proceed, Fail, Stores, Quiet

\* The remaining steps write none.
LEMMA QuietStore == ASSUME Quiet PROVE UNCHANGED store
<1>1. ASSUME NEW s \in SI, Resync(s) \/ Handle(s) PROVE UNCHANGED store
  BY <1>1, Zenon DEF Resync, Handle, HandleGone, HandleTerminating, HandleLive, HandleAllocate,
              HandleExhausted, vars
<1>2. ASSUME NEW g \in Gen, NEW s \in SI,
             \/ Refused(g, s) \/ SyncOK(g, s) \/ PurgeOK(g, s) \/ Release(g, s)
             \/ ReleaseError(g, s) \/ ReleaseSkipped(g, s) \/ CallFailed(g, s)
             \/ SyncPartly(g, s) \/ ReleasePanic(g, s)
      PROVE  UNCHANGED store
  BY <1>2, Zenon DEF Refused, SyncOK, PurgeOK, Release, ReleaseError, ReleaseSkipped,
              CallFailed, SyncPartly, ReleasePanic
<1>3. Crash \/ LoseLease \/ Start \/ StartFails \/ UNCHANGED vars => UNCHANGED store
  BY Zenon DEF Crash, LoseLease, Start, StartFails, vars
<1>. QED
  BY <1>1, <1>2, <1>3, Zenon DEF Quiet

\* Every step keeps History.
LEMMA HistoryStep == ASSUME TypeOK, History, Copies, [Next]_vars PROVE History'
<1>1. CASE User
  <2>. PICK s \in SI, o \in Object : UserWrite(s, o) /\ UserObject(s, o)
    BY <1>1, UserWrites, Zenon
  <2>. QED BY HistoryWrite, Zenon DEF UserWrite, UserObject
<1>2. ASSUME NEW s \in SI, Deliver(s) PROVE History'
  BY <1>2, HistoryDeliver, Zenon
<1>3. ASSUME NEW g \in Gen, NEW s \in SI, Stores(g, s) PROVE History'
  <2>. PICK o \in Object : Commit(s, o) /\ HandlerObject(g, s, o)
    BY <1>3, HandlerWrites, Zenon
  <2>1. Absent.phase = "absent"
    BY Zenon DEF Absent
  <2>. QED BY <2>1, HistoryCommit, Zenon DEF HandlerObject, Exists
<1>4. CASE Quiet
  BY <1>4, QuietStore DEF History
<1>. QED
  BY <1>1, <1>2, <1>3, <1>4, StepKinds, Zenon

\* An idle handler, and one that syncs, hold no copy.
LEMMA CopyConstants == \A v : CopyOK(Idle, v) /\ CopyOK(Sync, v)
BY TaskConstants, Zenon DEF CopyOK, Recycling

\* What a copy may turn into: one that is no longer fresh, or a later step of the recycling.
LEMMA CopyFades ==
  ASSUME NEW t, NEW u, NEW v, NEW w, CopyOK(t, v),
         u.pc = t.pc, u.obj = t.obj, ~u.fresh
  PROVE  CopyOK(u, w)
BY Zenon DEF CopyOK

\* A handler that keeps its copy and its place keeps what is known of it.
LEMMA CopyAlike ==
  ASSUME NEW t, NEW u, NEW v, CopyOK(t, v),
         u.pc = t.pc, u.obj = t.obj, u.fresh, t.fresh
  PROVE  CopyOK(u, v)
BY Zenon DEF CopyOK

\* So does one that moves on within the recycling.
LEMMA RecyclingAlike ==
  ASSUME NEW t, NEW u, NEW v, CopyOK(t, v), t.pc \in Recycling, u.pc \in Recycling,
         u.obj = t.obj, u.fresh = t.fresh
  PROVE  CopyOK(u, v)
BY Zenon DEF CopyOK, Recycling

\* Copies are sound after a handler step that only changes the task of s.
LEMMA CopiesOneStep ==
  ASSUME Copies, NEW g \in Gen, NEW s \in SI, UNCHANGED store,
         \A h \in Gen, r \in SI : h # g \/ r # s => task'[h][r] = task[h][r],
         CopyOK(task'[g][s], store[s])
  PROVE  Copies'
<1>. SUFFICES ASSUME NEW h \in Gen, NEW r \in SI PROVE CopyOK(task'[h][r], store'[r])
  BY Zenon DEF Copies
<1>1. CopyOK(task'[h][r], store[r])
  BY Zenon DEF Copies
<1>. QED
  BY <1>1, Zenon

\* The copy a handler has just made.
LEMMA NewCopy ==
  ASSUME NEW s \in SI, NEW pc \in {"update", "purge"}, NEW o \in Object,
         pc = "purge" => o = Cached(s) /\ o.phase = "terminating",
         pc = "update" => /\ o.phase = "live" /\ o.fin
                          /\ Cached(s).phase = "live" /\ Cached(s).typ = o.typ
                          /\ Counted(Cached(s)) => o.ips = Cached(s).ips
  PROVE  CopyOK([pc |-> pc, obj |-> o, fresh |-> Len(store[s]) = 1], store[s])
<1>. DEFINE t == [pc |-> pc, obj |-> o, fresh |-> Len(store[s]) = 1]
<1>1. t.pc = pc /\ t.obj = o /\ (t.fresh <=> Len(store[s]) = 1)
  BY Zenon
<1>2. Len(store[s]) = 1 => API(s) = Cached(s)
  BY Zenon DEF API, Cached
<1>. HIDE DEF t
<1>3. CopyOK(t, store[s])
  BY <1>1, <1>2, Zenon DEF CopyOK, Recycling, API
<1>. QED
  BY <1>3, Zenon DEF t

\* A handler begins with a copy of the cached object.
LEMMA CopiesHandle ==
  ASSUME TypeOK, History, Copies, NEW s \in SI, Handle(s)
  PROVE  Copies'
<1>0. Cached(s) \in Object /\ InitialInfo(Cached(s)) \in Object
  BY VersionType, InitialInfoType, Zenon
<1>2. CASE HandleGone(s) \/ HandleExhausted(s)
  BY <1>2, Zenon DEF HandleGone, HandleExhausted, vars, Copies
<1>3. CASE HandleTerminating(s)
  <2>1. /\ task'["cur"][s] = [pc |-> "purge", obj |-> Cached(s), fresh |-> Len(store[s]) = 1]
        /\ \A h \in Gen, r \in SI : h # "cur" \/ r # s => task'[h][r] = task[h][r]
    BY <1>0, <1>3, EnterType, Zenon DEF HandleTerminating, PCs
  <2>2. CopyOK(task'["cur"][s], store[s])
    BY <1>0, <1>3, <2>1, NewCopy, Zenon DEF HandleTerminating
  <2>. QED BY <1>3, <2>1, <2>2, CopiesOneStep, Zenon DEF HandleTerminating
<1>4. CASE HandleLive(s)
  <2>1. CASE Unchanged(Cached(s))
    <3>1. Step("cur", s, Sync) /\ UNCHANGED store
      BY <1>4, <2>1, Zenon DEF HandleLive
    <3>2. /\ task'["cur"][s] = Sync
          /\ \A h \in Gen, r \in SI : h # "cur" \/ r # s => task'[h][r] = task[h][r]
      BY <3>1, StepType, IdleType, Zenon
    <3>. QED BY <3>1, <3>2, CopyConstants, CopiesOneStep, Zenon
  <2>2. CASE ~Unchanged(Cached(s))
    <3>. DEFINE o == InitialInfo(Cached(s))
    <3>1. o \in Object /\ o.phase = "live" /\ o.fin /\ o.typ = Cached(s).typ
          /\ (Counted(Cached(s)) => o.ips = Cached(s).ips)
      BY <1>0, <1>4, InitialInfoType, Zenon DEF HandleLive, Counted
    <3>2. Enter(s, "update", o)
      BY <1>4, <2>2, Zenon DEF HandleLive
    <3>. HIDE DEF o
    <3>3. /\ task'["cur"][s] = [pc |-> "update", obj |-> o, fresh |-> Len(store[s]) = 1]
          /\ \A h \in Gen, r \in SI : h # "cur" \/ r # s => task'[h][r] = task[h][r]
      BY <3>1, <3>2, EnterType, Zenon DEF PCs
    <3>4. CopyOK(task'["cur"][s], store[s])
      BY <1>4, <3>1, <3>3, NewCopy, Zenon DEF HandleLive
    <3>. QED BY <1>4, <3>3, <3>4, CopiesOneStep, Zenon DEF HandleLive
  <2>. QED BY <2>1, <2>2, Zenon
<1>5. CASE HandleAllocate(s)
  <2>. PICK ip \in FreeIPs("cur") :
          Enter(s, "update", [InitialInfo(Cached(s)) EXCEPT !.ips = ip])
    BY <1>5, Zenon DEF HandleAllocate
  <2>. DEFINE o == [InitialInfo(Cached(s)) EXCEPT !.ips = ip]
  <2>1. ip \in IP
    BY Zenon DEF FreeIPs
  <2>2. o \in Object /\ o.phase = "live" /\ o.fin /\ o.typ = Cached(s).typ
    BY <1>0, <1>5, <2>1, InitialInfoType, Zenon DEF HandleAllocate
  <2>3. ~Counted(Cached(s))
    BY <1>5, Zenon DEF HandleAllocate, NeedsIP, Counted
  <2>4. Enter(s, "update", o)
    BY Zenon
  <2>. HIDE DEF o
  <2>5. /\ task'["cur"][s] = [pc |-> "update", obj |-> o, fresh |-> Len(store[s]) = 1]
        /\ \A h \in Gen, r \in SI : h # "cur" \/ r # s => task'[h][r] = task[h][r]
    BY <2>2, <2>4, EnterType, Zenon DEF PCs
  <2>6. CopyOK(task'["cur"][s], store[s])
    BY <1>5, <2>2, <2>3, <2>5, NewCopy, Zenon DEF HandleAllocate
  <2>. QED BY <1>5, <2>5, <2>6, CopiesOneStep, Zenon DEF HandleAllocate
<1>. QED
  BY <1>2, <1>3, <1>4, <1>5, Zenon DEF Handle

\* A step of a handler that stores nothing: it ends the run or moves the recycling on.
InFlight(g, s) ==
    \/ Refused(g, s) \/ SyncOK(g, s) \/ PurgeOK(g, s) \/ Release(g, s)
    \/ ReleaseError(g, s) \/ ReleaseSkipped(g, s) \/ CallFailed(g, s) \/ SyncPartly(g, s)

\* The calls that store no ServiceImport: the handler goes idle or moves on in the recycling.
LEMMA InFlightTask ==
  ASSUME TypeOK, NEW g \in Gen, NEW s \in SI, InFlight(g, s)
  PROVE  /\ UNCHANGED <<store, up>>
         /\ \A h \in Gen, r \in SI : h # g \/ r # s => task'[h][r] = task[h][r]
         /\ \/ task'[g][s] = Idle /\ UNCHANGED <<ipam, breach>>
            \/ /\ task'[g][s].obj = task[g][s].obj /\ task'[g][s].fresh = task[g][s].fresh
               /\ \/ PurgeOK(g, s) /\ task[g][s].pc = "purge" /\ task'[g][s].pc = "release"
                  \/ /\ Release(g, s) \/ ReleaseSkipped(g, s)
                     /\ task[g][s].pc = "release" /\ task'[g][s].pc = "unfinalize"
<1>. HIDE DEF Gen
<1>. DEFINE to(pc) == [task[g][s] EXCEPT !.pc = pc]
<1>0. /\ to("release") \in Task /\ to("unfinalize") \in Task
      /\ to("release").pc = "release" /\ to("unfinalize").pc = "unfinalize"
      /\ to("release").obj = task[g][s].obj /\ to("unfinalize").obj = task[g][s].obj
      /\ to("release").fresh = task[g][s].fresh /\ to("unfinalize").fresh = task[g][s].fresh
  <2>1. task[g][s] \in Task
    BY TaskType, Zenon
  <2>. QED BY <2>1, Zenon DEF Task, PCs
<1>1. PurgeOK(g, s) => Step(g, s, to("release"))
  BY Zenon DEF PurgeOK
<1>2. Release(g, s) \/ ReleaseSkipped(g, s) => Step(g, s, to("unfinalize"))
  BY Zenon DEF Release, ReleaseSkipped
<1>. HIDE DEF to
<1>3. CASE PurgeOK(g, s)
  BY <1>0, <1>1, <1>3, StepType, Zenon DEF PurgeOK
<1>4. CASE Release(g, s) \/ ReleaseSkipped(g, s)
  <2>1. /\ UNCHANGED <<store, up>> /\ task[g][s].pc = "release"
    BY <1>4, Zenon DEF Release, ReleaseSkipped
  <2>. QED BY <1>0, <1>2, <1>4, <2>1, StepType, Zenon
<1>5. CASE Refused(g, s) \/ ReleaseError(g, s) \/ CallFailed(g, s) \/ SyncPartly(g, s)
  <2>1. Requeue(g, s) /\ UNCHANGED <<store, up, ipam, breach>>
    BY <1>5, Zenon DEF Refused, ReleaseError, CallFailed, SyncPartly
  <2>. QED BY <2>1, RequeueType, Zenon
<1>6. CASE SyncOK(g, s)
  <2>1. Step(g, s, Idle) /\ UNCHANGED <<store, up, ipam, breach>>
    BY <1>6, Zenon DEF SyncOK, Finish
  <2>. QED BY <2>1, StepType, IdleType
<1>. QED
  BY <1>3, <1>4, <1>5, <1>6, Zenon DEF InFlight

\* What the death or the deposition of a leader does to the tasks.
LEMMA LeaderTasks ==
  ASSUME TypeOK, NEW h \in Gen, NEW r \in SI,
         \/ Crash \/ LoseLease \/ (\E g \in Gen, s \in SI : ReleasePanic(g, s))
  PROVE  \/ task'[h][r] = Idle \/ task'[h][r] = task[h][r]
         \/ LoseLease /\ h = "old" /\ task'[h][r] = task["cur"][r]
<1>1. CASE Crash
  BY <1>1, DieType, TaskConstants, Zenon DEF Crash
<1>2. CASE LoseLease
  BY <1>2, TaskConstants, Zenon DEF LoseLease
<1>3. ASSUME NEW g \in Gen, NEW s \in SI, ReleasePanic(g, s)
      PROVE task'[h][r] = Idle \/ task'[h][r] = task[h][r]
  <2>1. CASE g = "cur"
    BY <1>3, <2>1, DieType, TaskConstants, Zenon DEF ReleasePanic
  <2>2. CASE g = "old"
    BY <1>3, <2>2, TaskConstants, Zenon DEF ReleasePanic, TypeOK
  <2>. QED BY <2>1, <2>2, Zenon
<1>. QED
  BY <1>1, <1>2, <1>3, Zenon

\* Every step keeps what is known of the copies.
LEMMA CopiesStep == ASSUME TypeOK, History, Copies, [Next]_vars PROVE Copies'
<1>1. CASE User
  <2>. PICK s \in SI, o \in Object : UserWrite(s, o)
    BY <1>1, UserWrites, Zenon
  <2>. SUFFICES ASSUME NEW h \in Gen, NEW r \in SI PROVE CopyOK(task'[h][r], store'[r])
    BY Zenon DEF Copies
  <2>1. CASE r # s
    <3>1. task'[h][r] = task[h][r]
      BY <2>1, StaleTasks, Zenon DEF UserWrite
    <3>2. store'[r] = store[r]
      BY <2>1, WriteVersions, Zenon DEF UserWrite
    <3>. QED BY <3>1, <3>2, Zenon DEF Copies
  <2>2. CASE r = s
    <3>1. /\ task'[h][s].pc = task[h][s].pc /\ task'[h][s].obj = task[h][s].obj
          /\ ~task'[h][s].fresh
      BY StaleTasks, Zenon DEF UserWrite
    <3>. QED BY <2>2, <3>1, CopyFades, Zenon DEF Copies
  <2>. QED BY <2>1, <2>2, Zenon
<1>2. ASSUME NEW s \in SI, Deliver(s) PROVE Copies'
  <2>. SUFFICES ASSUME NEW h \in Gen, NEW r \in SI PROVE CopyOK(task'[h][r], store'[r])
    BY Zenon DEF Copies
  <2>1. UNCHANGED task
    BY <1>2, Zenon DEF Deliver
  <2>2. CASE r # s
    <3>1. store'[r] = store[r]
      BY <1>2, <2>2, DeliverVersions, Zenon
    <3>. QED BY <2>1, <3>1, Zenon DEF Copies
  <2>3. CASE r = s
    <3>1. ~task[h][s].fresh
      <4>1. Len(store[s]) # 1
        <5>1. Len(store[s]) > 1
          BY <1>2, Zenon DEF Deliver
        <5>2. \A n \in Nat : n > 1 => n # 1
          OBVIOUS
        <5>3. Len(store[s]) \in Nat
          BY StoreType, Zenon
        <5>. QED BY <5>1, <5>2, <5>3, Zenon
      <4>. QED BY <4>1, Zenon DEF Copies, CopyOK
    <3>. QED BY <2>1, <2>3, <3>1, CopyFades, Zenon DEF Copies
  <2>. QED BY <2>2, <2>3, Zenon
<1>3. ASSUME NEW g \in Gen, NEW s \in SI, Stores(g, s) PROVE Copies'
  <2>. PICK o \in Object, t \in {Idle, Sync} : Commit(s, o) /\ AfterCommit(g, s, o, t)
    BY <1>3, HandlerWrites, Zenon
  <2>. SUFFICES ASSUME NEW h \in Gen, NEW r \in SI PROVE CopyOK(task'[h][r], store'[r])
    BY Zenon DEF Copies
  <2>0. t \in Task
    BY IdleType, Zenon
  <2>1. CASE r # s
    <3>1. task'[h][r] = task[h][r] /\ store'[r] = store[r]
      <4>. HIDE DEF Gen
      <4>. QED BY <2>0, <2>1, AfterCommitTasks, CommitVersions
    <3>. QED BY <3>1, Zenon DEF Copies
  <2>2. CASE r = s /\ h = g
    <3>1. task'[h][r] = t
      BY <2>0, <2>2, AfterCommitTasks
    <3>. QED BY <3>1, CopyConstants, Zenon
  <2>3. CASE r = s /\ h # g
    <3>1. /\ task'[h][s].pc = task[h][s].pc /\ task'[h][s].obj = task[h][s].obj
          /\ task'[h][s].fresh => task[h][s].fresh /\ o = API(s)
      BY <2>0, <2>3, AfterCommitTasks
    <3>2. o = API(s) => store' = store
      BY Zenon DEF Commit
    <3>3. CASE task'[h][s].fresh
      <4>1. CopyOK(task[h][s], store'[s]) /\ task[h][s].fresh
        BY <3>1, <3>2, <3>3, Zenon DEF Copies
      <4>. QED BY <2>3, <3>1, <3>3, <4>1, CopyAlike, Zenon
    <3>4. CASE ~task'[h][s].fresh
      BY <2>3, <3>1, <3>4, CopyFades, Zenon DEF Copies
    <3>. QED BY <3>3, <3>4, Zenon
  <2>. QED BY <2>1, <2>2, <2>3, Zenon
<1>4. CASE Quiet
  <2>1. ASSUME NEW s \in SI, Resync(s) PROVE Copies'
    BY <2>1, Zenon DEF Resync, Copies
  <2>2. ASSUME NEW g \in Gen, NEW s \in SI, InFlight(g, s) PROVE Copies'
    <3>1. CopyOK(task[g][s], store[s])
      BY Zenon DEF Copies
    <3>2. CopyOK(task'[g][s], store[s])
      <4>1. CASE task'[g][s] = Idle
        BY <4>1, CopyConstants, Zenon
      <4>2. CASE task'[g][s] # Idle
        <5>1. /\ task'[g][s].obj = task[g][s].obj /\ task'[g][s].fresh = task[g][s].fresh
              /\ task[g][s].pc \in Recycling /\ task'[g][s].pc \in Recycling
          BY <2>2, <4>2, InFlightTask, Zenon DEF Recycling
        <5>. QED BY <3>1, <5>1, RecyclingAlike, Zenon
      <4>. QED BY <4>1, <4>2, Zenon
    <3>3. /\ UNCHANGED store
          /\ \A h \in Gen, r \in SI : h # g \/ r # s => task'[h][r] = task[h][r]
      <4>. HIDE DEF Gen
      <4>. QED BY <2>2, InFlightTask, SMTT(20)
    <3>. HIDE DEF Gen
    <3>. QED BY <3>2, <3>3, CopiesOneStep, Zenon
  <2>3. CASE Crash \/ LoseLease \/ (\E g \in Gen, s \in SI : ReleasePanic(g, s))
    <3>. SUFFICES ASSUME NEW h \in Gen, NEW r \in SI PROVE CopyOK(task'[h][r], store'[r])
      BY Zenon DEF Copies
    <3>1. UNCHANGED store
      BY <1>4, QuietStore, Zenon
    <3>2. CopyOK(task'[h][r], store[r])
      BY <2>3, LeaderTasks, CopyConstants, Zenon DEF Copies
    <3>. QED BY <3>1, <3>2, Zenon
  <2>4. CASE Start \/ StartFails \/ UNCHANGED vars
    BY <2>4, Zenon DEF Start, StartFails, vars, Copies
  <2>. QED BY <1>4, <2>1, <2>2, <2>3, <2>4, CopiesHandle, Zenon DEF Quiet, InFlight
<1>. QED
  BY <1>1, <1>2, <1>3, <1>4, StepKinds, Zenon


-----------------------------------------------------------------------------
(* Who runs handlers.                                                      *)

\* The steps after the first of a handler's run.
Running(g, s) == Stores(g, s) \/ InFlight(g, s) \/ ReleasePanic(g, s)

\* The steps of Next, sorted for the rest of the proof.
LEMMA Sorted ==
  ASSUME [Next]_vars
  PROVE  \/ User \/ (\E s \in SI : Deliver(s) \/ Resync(s) \/ Handle(s))
         \/ (\E g \in Gen, s \in SI : Running(g, s))
         \/ Crash \/ LoseLease \/ Start \/ StartFails \/ UNCHANGED vars
BY Zenon DEF Next, Informer, Proceed, Fail, Running, Stores, InFlight

\* Handlers run for a leader that is up, or for a deposed one after an overlap.
LEMMA RunningLeader ==
  ASSUME Leaders, NEW g \in Gen, NEW s \in SI, Running(g, s)
  PROVE  /\ g = "cur" => up
         /\ "overlap" \notin breach => g = "cur"
<1>1. task[g][s].pc # "idle"
  <2>1. CASE Stores(g, s)
    BY <2>1, Zenon DEF Stores, UpdateOK, UnfinalizeOK, AnswerLost
  <2>2. CASE InFlight(g, s)
    BY <2>2, Zenon DEF InFlight, Refused, SyncOK, PurgeOK, Release, ReleaseError, ReleaseSkipped,
                CallFailed, SyncPartly
  <2>3. CASE ReleasePanic(g, s)
    BY <2>3, Zenon DEF ReleasePanic, Panics
  <2>. QED BY <2>1, <2>2, <2>3, Zenon DEF Running
<1>. QED
  BY <1>1, Zenon DEF Leaders

\* What went wrong is never forgotten.
LEMMA BreachGrows == ASSUME [Next]_vars PROVE breach \subseteq breach'
<1>1. CASE User
  BY <1>1, Zenon DEF User, Create, Retype, Delete, Touch, UserWrite
<1>2. ASSUME NEW s \in SI, Deliver(s) \/ Resync(s) \/ Handle(s) PROVE breach' = breach
  BY <1>2, Zenon DEF Deliver, Resync, Handle, HandleGone, HandleTerminating, HandleLive,
              HandleAllocate, HandleExhausted, vars
<1>3. ASSUME NEW g \in Gen, NEW s \in SI, Running(g, s) PROVE breach \subseteq breach'
  <2>1. CASE Stores(g, s)
    BY <2>1, Zenon DEF Stores, UpdateOK, UnfinalizeOK, AnswerLost
  <2>2. CASE InFlight(g, s)
    BY <2>2, Zenon DEF InFlight, Refused, SyncOK, PurgeOK, Release, ReleaseError, ReleaseSkipped,
                CallFailed, SyncPartly
  <2>3. CASE ReleasePanic(g, s)
    BY <2>3, Zenon DEF ReleasePanic
  <2>. QED BY <1>3, <2>1, <2>2, <2>3, Zenon DEF Running
<1>4. Crash \/ LoseLease \/ Start \/ StartFails \/ UNCHANGED vars => breach \subseteq breach'
  BY Zenon DEF Crash, LoseLease, Start, StartFails, vars
<1>. QED
  BY <1>1, <1>2, <1>3, <1>4, Sorted, Zenon

\* What a stored Update changes, for the running leader and for a deposed one.
LEMMA StoresEffect ==
  ASSUME TypeOK, Copies, NEW g \in Gen, NEW s \in SI, Stores(g, s)
  PROVE  /\ UNCHANGED <<derived, ipam, up, breach>>
         /\ \A h \in Gen, r \in SI : h # g \/ r # s => task'[h][r].pc = task[h][r].pc
         /\ \A h \in Gen, r \in SI : r # s => task'[h][r] = task[h][r] /\ API(r)' = API(r)
         /\ \/ /\ task[g][s].pc = "update" /\ task[g][s].fresh /\ API(s)' = task[g][s].obj
               /\ API(s)'.phase = "live" /\ API(s)'.fin
               /\ task'[g][s].pc \in {"idle", "sync"} /\ ~task'[g][s].fresh
            \/ /\ task[g][s].pc = "unfinalize" /\ API(s)' = Absent
               /\ task'[g][s].pc = "idle" /\ ~task'[g][s].fresh
<1>1. UNCHANGED <<derived, ipam, up, breach>>
  BY Zenon DEF Stores, UpdateOK, UnfinalizeOK, AnswerLost
<1>. PICK o \in Object, t \in {Idle, Sync} :
        /\ Commit(s, o) /\ AfterCommit(g, s, o, t) /\ HandlerObject(g, s, o)
        /\ t = Sync => task[g][s].pc = "update"
  BY HandlerWrites, Zenon
<1>2. t \in Task
  BY IdleType, Zenon
<1>3. /\ task'[g][s] = t
      /\ \A h \in Gen, r \in SI : r # s => task'[h][r] = task[h][r]
      /\ \A h \in Gen : h # g => task'[h][s].pc = task[h][s].pc
  <2>. HIDE DEF Gen
  <2>. QED BY <1>2, AfterCommitTasks
<1>4. API(s)' = o /\ \A r \in SI \ {s} : API(r)' = API(r)
  BY CommitVersions, Zenon
<1>5. \A h \in Gen, r \in SI : h # g \/ r # s => task'[h][r].pc = task[h][r].pc
  BY <1>3, Zenon
<1>6. ~t.fresh /\ t.pc \in {"idle", "sync"} /\ (t # Sync => t.pc = "idle")
  BY TaskConstants, Zenon
<1>7. \A h \in Gen, r \in SI : r # s => task'[h][r] = task[h][r] /\ API(r)' = API(r)
  BY <1>3, <1>4, Zenon
<1>8. CASE task[g][s].pc = "update"
  BY <1>1, <1>3, <1>4, <1>5, <1>6, <1>7, <1>8, Zenon DEF HandlerObject
<1>9. CASE task[g][s].pc # "update"
  BY <1>1, <1>3, <1>4, <1>5, <1>6, <1>7, <1>9, Zenon DEF HandlerObject
<1>. QED
  BY <1>8, <1>9, Zenon

\* A user's step writes one import and touches neither pool, slices nor leaders.
LEMMA UserEffect ==
  ASSUME TypeOK, History, User
  PROVE  /\ UNCHANGED <<derived, ipam, up, breach>>
         /\ \A h \in Gen, r \in SI :
              /\ task'[h][r].pc = task[h][r].pc /\ task'[h][r].obj = task[h][r].obj
              /\ task'[h][r].fresh => task[h][r].fresh
         /\ \E s \in SI : /\ UserObject(s, API(s)')
                          /\ \A r \in SI \ {s} : API(r)' = API(r)
<1>. PICK s \in SI, o \in Object : UserWrite(s, o) /\ UserObject(s, o)
  BY UserWrites, Zenon
<1>1. UNCHANGED <<derived, ipam, up, breach>> /\ task' = Stale(task, s) /\ Write(s, o)
  BY Zenon DEF UserWrite
<1>2. \A h \in Gen, r \in SI :
        /\ task'[h][r].pc = task[h][r].pc /\ task'[h][r].obj = task[h][r].obj
        /\ task'[h][r].fresh => task[h][r].fresh
  BY <1>1, StaleTasks
<1>3. API(s)' = o /\ \A r \in SI \ {s} : API(r)' = API(r)
  BY <1>1, WriteVersions, Zenon
<1>. QED
  BY <1>1, <1>2, <1>3, Zenon

\* The first step of a run, by what the handler goes on with.
Entered(s, t) ==
    \/ t.pc = "purge" /\ Cached(s).phase = "terminating" /\ UNCHANGED ipam
    \/ t.pc = "sync" /\ Cached(s).phase = "live" /\ Cached(s).fin /\ UNCHANGED ipam
    \/ /\ t.pc = "update" /\ Cached(s).phase = "live" /\ UNCHANGED ipam
       /\ t.obj.ips \in IP => t.obj.ips = Cached(s).ips
       /\ t.fresh => Len(store[s]) = 1
    \/ /\ t.pc = "update" /\ t.obj.ips \in IP /\ ipam["cur"][t.obj.ips] = Free
       /\ ipam' = [ipam EXCEPT !["cur"][t.obj.ips] = s]

\* Beginning a handler writes nothing to the API.
LEMMA HandleEffect ==
  ASSUME TypeOK, NEW s \in SI, Handle(s)
  PROVE  /\ UNCHANGED <<store, derived, up, breach>> /\ up
         /\ \A h \in Gen, r \in SI : h # "cur" \/ r # s => task'[h][r] = task[h][r]
         /\ \/ UNCHANGED <<task, ipam>>
            \/ Entered(s, task'["cur"][s])
<1>0. Cached(s) \in Object /\ InitialInfo(Cached(s)) \in Object
  BY VersionType, InitialInfoType, Zenon
<1>1. CASE HandleGone(s) \/ HandleExhausted(s)
  BY <1>1, Zenon DEF HandleGone, HandleExhausted, Take, vars
<1>2. CASE HandleTerminating(s)
  <2>1. /\ task'["cur"][s] = [pc |-> "purge", obj |-> Cached(s), fresh |-> Len(store[s]) = 1]
        /\ \A h \in Gen, r \in SI : h # "cur" \/ r # s => task'[h][r] = task[h][r]
    BY <1>0, <1>2, EnterType, Zenon DEF HandleTerminating, PCs
  <2>2. task'["cur"][s].pc = "purge"
    BY <2>1
  <2>. QED BY <1>2, <2>1, <2>2, Zenon DEF HandleTerminating, Take, Entered
<1>3. CASE HandleLive(s) /\ Unchanged(Cached(s))
  <2>1. /\ task'["cur"][s] = Sync
        /\ \A h \in Gen, r \in SI : h # "cur" \/ r # s => task'[h][r] = task[h][r]
    BY <1>3, StepType, IdleType, Zenon DEF HandleLive
  <2>. QED BY <1>3, <2>1, TaskConstants, Zenon DEF HandleLive, Take, Unchanged, Entered
<1>4. CASE HandleLive(s) /\ ~Unchanged(Cached(s))
  <2>. DEFINE o == InitialInfo(Cached(s))
  <2>1. o \in Object /\ (o.ips \in IP => o.ips = Cached(s).ips)
    BY <1>0, InitialInfoType, Zenon
  <2>2. Enter(s, "update", o)
    BY <1>4, Zenon DEF HandleLive
  <2>. HIDE DEF o
  <2>3. /\ task'["cur"][s] = [pc |-> "update", obj |-> o, fresh |-> Len(store[s]) = 1]
        /\ \A h \in Gen, r \in SI : h # "cur" \/ r # s => task'[h][r] = task[h][r]
    BY <2>1, <2>2, EnterType, Zenon DEF PCs
  <2>4. /\ task'["cur"][s].pc = "update" /\ task'["cur"][s].obj = o
        /\ task'["cur"][s].fresh => Len(store[s]) = 1
    <3>. DEFINE t == [pc |-> "update", obj |-> o, fresh |-> Len(store[s]) = 1]
    <3>1. t.pc = "update" /\ t.obj = o /\ (t.fresh <=> Len(store[s]) = 1)
      BY Zenon
    <3>2. task'["cur"][s] = t
      BY <2>3, Zenon
    <3>. HIDE DEF t
    <3>. QED BY <3>1, <3>2, Zenon
  <2>. QED BY <1>4, <2>1, <2>3, <2>4, Zenon DEF HandleLive, Take, Entered
<1>5. CASE HandleAllocate(s)
  <2>. PICK ip \in FreeIPs("cur") :
          /\ ipam' = [ipam EXCEPT !["cur"][ip] = s]
          /\ Enter(s, "update", [InitialInfo(Cached(s)) EXCEPT !.ips = ip])
    BY <1>5, Zenon DEF HandleAllocate
  <2>. DEFINE o == [InitialInfo(Cached(s)) EXCEPT !.ips = ip]
  <2>1. ip \in IP /\ ipam["cur"][ip] = Free
    BY Zenon DEF FreeIPs
  <2>2. o \in Object /\ o.ips = ip
    BY <1>0, <2>1, InitialInfoType, Zenon
  <2>3. Enter(s, "update", o)
    BY Zenon
  <2>. HIDE DEF o
  <2>4. /\ task'["cur"][s] = [pc |-> "update", obj |-> o, fresh |-> Len(store[s]) = 1]
        /\ \A h \in Gen, r \in SI : h # "cur" \/ r # s => task'[h][r] = task[h][r]
    BY <2>2, <2>3, EnterType, Zenon DEF PCs
  <2>5. task'["cur"][s].pc = "update" /\ task'["cur"][s].obj.ips = ip
    BY <2>2, <2>4
  <2>. QED BY <1>5, <2>1, <2>4, <2>5, Zenon DEF HandleAllocate, Take, Entered
<1>. QED
  BY <1>1, <1>2, <1>3, <1>4, <1>5, Zenon DEF Handle

\* Every step keeps what is known of the leaders.
LEMMA LeadersStep ==
  ASSUME TypeOK, History, Copies, Leaders, [Next]_vars
  PROVE  Leaders'
<1>1. CASE User
  BY <1>1, UserEffect, Zenon DEF Leaders
<1>2. ASSUME NEW s \in SI, Deliver(s) \/ Resync(s) PROVE Leaders'
  BY <1>2, Zenon DEF Deliver, Resync, Leaders
<1>3. ASSUME NEW s \in SI, Handle(s) PROVE Leaders'
  BY <1>3, HandleEffect, Zenon DEF Leaders
<1>4. ASSUME NEW g \in Gen, NEW s \in SI, Running(g, s) PROVE Leaders'
  <2>0. (g = "cur" => up) /\ ("overlap" \notin breach => g = "cur") /\ breach \subseteq breach'
    BY <1>4, RunningLeader, BreachGrows, Zenon
  <2>1. CASE Stores(g, s)
    BY <2>0, <2>1, StoresEffect, SMTT(20) DEF Leaders
  <2>2. CASE InFlight(g, s)
    <3>1. UNCHANGED up /\ \A h \in Gen, r \in SI : h # g => task'[h][r] = task[h][r]
      <4>. HIDE DEF Gen
      <4>. QED BY <2>2, InFlightTask
    <3>. QED BY <2>0, <3>1, Zenon DEF Leaders
  <2>3. CASE ReleasePanic(g, s)
    <3>1. CASE g = "cur"
      BY <2>3, <3>1, DieType, TaskConstants, Zenon DEF ReleasePanic, Leaders
    <3>2. CASE g = "old"
      BY <2>0, <2>3, <3>2, Zenon DEF ReleasePanic, Leaders, TypeOK
    <3>. QED BY <3>1, <3>2, Zenon
  <2>. QED BY <1>4, <2>1, <2>2, <2>3, Zenon DEF Running
<1>5. CASE Crash
  BY <1>5, DieType, TaskConstants, Zenon DEF Crash, Leaders
<1>6. CASE LoseLease
  BY <1>6, TaskConstants, Zenon DEF LoseLease, Leaders
<1>7. CASE Start \/ StartFails \/ UNCHANGED vars
  BY <1>7, Zenon DEF Start, StartFails, vars, Leaders
<1>. QED
  BY <1>1, <1>2, <1>3, <1>4, <1>5, <1>6, <1>7, Sorted, Zenon

-----------------------------------------------------------------------------
(* Recycling finds no import in use.                                       *)

\* Informer steps leave the API as it is.
LEMMA ApiUnchanged ==
  ASSUME TypeOK, NEW s \in SI, Deliver(s) \/ Resync(s)
  PROVE  /\ \A r \in SI : API(r)' = API(r)
         /\ UNCHANGED <<derived, task, ipam, up, breach>>
<1>1. CASE Deliver(s)
  BY <1>1, DeliverVersions, Zenon DEF Deliver
<1>2. CASE Resync(s)
  BY <1>2, Zenon DEF Resync, API
<1>. QED
  BY <1>1, <1>2, Zenon

\* The import a handler finds terminating in its cache carries no address any more if
\* the API server has a later, live version of it.
LEMMA CachedTerminating ==
  ASSUME TypeOK, History, NEW s \in SI, Cached(s).phase = "terminating"
  PROVE  ~(API(s).phase = "live" /\ API(s).ips \in IP)
<1>1. 1 \in 1 .. Len(store[s]) /\ (1 < Len(store[s]) \/ Len(store[s]) = 1)
  <2>1. \A n \in Nat : n > 0 => 1 \in 1 .. n /\ (1 < n \/ n = 1)
    OBVIOUS
  <2>2. Len(store[s]) \in Nat /\ Len(store[s]) > 0
    BY StoreType, Zenon
  <2>. QED BY <2>1, <2>2, Zenon
<1>2. CASE Len(store[s]) = 1
  BY <1>2, Zenon DEF API, Cached
<1>3. CASE 1 < Len(store[s])
  BY <1>1, <1>3, LastVersion, Zenon DEF Cached
<1>. QED
  BY <1>1, <1>2, <1>3, Zenon

\* Every step keeps a recycled import without an address.
LEMMA RecycledStep ==
  ASSUME TypeOK, History, Copies, Leaders, Recycled, [Next]_vars
  PROVE  Recycled'
<1>. SUFFICES ASSUME "overlap" \notin breach', NEW r \in SI,
                     task'["cur"][r].pc \in Recycling
              PROVE  ~(API(r)'.phase = "live" /\ API(r)'.ips \in IP)
  BY Zenon DEF Recycled
<1>0. "overlap" \notin breach
  BY BreachGrows, Zenon
<1>1. CASE User
  <2>1. task["cur"][r].pc \in Recycling
    BY <1>1, UserEffect, Zenon
  <2>2. API(r)'.phase = "live" /\ API(r)'.ips \in IP
        => API(r).phase = "live" /\ API(r).ips \in IP
    BY <1>1, UserEffect, Zenon DEF UserObject
  <2>. QED BY <1>0, <2>1, <2>2, Zenon DEF Recycled
<1>2. ASSUME NEW s \in SI, Deliver(s) \/ Resync(s)
      PROVE  ~(API(r)'.phase = "live" /\ API(r)'.ips \in IP)
  BY <1>0, <1>2, ApiUnchanged, Zenon DEF Recycled
<1>3. ASSUME NEW s \in SI, Handle(s)
      PROVE  ~(API(r)'.phase = "live" /\ API(r)'.ips \in IP)
  <2>1. API(r)' = API(r)
    BY <1>3, HandleEffect, Zenon DEF API
  <2>2. CASE task'["cur"][r] = task["cur"][r]
    BY <1>0, <2>1, <2>2, Zenon DEF Recycled
  <2>3. CASE r = s /\ Entered(s, task'["cur"][s])
    BY <2>1, <2>3, CachedTerminating, Zenon DEF Entered, Recycling
  <2>. QED BY <1>3, <2>2, <2>3, HandleEffect, Zenon
<1>4. ASSUME NEW g \in Gen, NEW s \in SI, Running(g, s)
      PROVE  ~(API(r)'.phase = "live" /\ API(r)'.ips \in IP)
  <2>0. g = "cur"
    BY <1>0, <1>4, RunningLeader, Zenon
  <2>1. CASE Stores(g, s)
    <3>1. task'[g][s].pc \notin Recycling
      BY <2>1, StoresEffect DEF Recycling
    <3>2. r # s
      BY <2>0, <3>1, Zenon
    <3>3. task'["cur"][r] = task["cur"][r] /\ API(r)' = API(r)
      <4>. HIDE DEF Gen
      <4>. QED BY <2>1, <3>2, StoresEffect, Generations
    <3>. QED BY <1>0, <3>3, Zenon DEF Recycled
  <2>2. CASE InFlight(g, s)
    <3>1. task'["cur"][r].pc \in Recycling => task["cur"][r].pc \in Recycling
      <4>. HIDE DEF Gen
      <4>. QED BY <2>0, <2>2, InFlightTask, TaskConstants, Generations DEF Recycling
    <3>2. API(r)' = API(r)
      BY <2>2, InFlightTask, Zenon DEF API
    <3>. QED BY <1>0, <3>1, <3>2, Zenon DEF Recycled
  <2>3. CASE ReleasePanic(g, s)
    BY <2>0, <2>3, DieType, TaskConstants, Zenon DEF ReleasePanic, Recycling
  <2>. QED BY <1>4, <2>1, <2>2, <2>3, Zenon DEF Running
<1>5. CASE Crash
  BY <1>5, DieType, TaskConstants, Zenon DEF Crash, Recycling
<1>6. CASE LoseLease
  BY <1>6, TaskConstants, Zenon DEF LoseLease, Recycling
<1>7. CASE Start \/ StartFails \/ UNCHANGED vars
  BY <1>0, <1>7, Zenon DEF Start, StartFails, vars, Recycled, API
<1>. QED
  BY <1>1, <1>2, <1>3, <1>4, <1>5, <1>6, <1>7, Sorted, Zenon

-----------------------------------------------------------------------------
(* The slices and the finalizer.                                           *)

Guarded(o) == Exists(o) /\ o.fin

SlicesOf(s) ==
    /\ s \in derived \/ task["cur"][s].pc = "sync" => Guarded(API(s))
    /\ task["cur"][s].pc \in {"release", "unfinalize"} => s \notin derived

\* A call that stores no import keeps its slices under the finalizer.
LEMMA SlicesInFlight ==
  ASSUME TypeOK, NEW s \in SI, InFlight("cur", s), \A r \in SI : SlicesOf(r)
  PROVE  \A r \in SI : SlicesOf(r)'
<1>. SUFFICES ASSUME NEW r \in SI PROVE SlicesOf(r)'
  BY Zenon
<1>1. API(r)' = API(r)
  BY InFlightTask, Zenon DEF API
<1>2. CASE r # s
  <2>1. task'["cur"][r] = task["cur"][r]
    BY <1>2, InFlightTask, Zenon
  <2>2. r \in derived' <=> r \in derived
    BY <1>2, Zenon DEF InFlight, Refused, SyncOK, PurgeOK, Release, ReleaseError, ReleaseSkipped,
                CallFailed, SyncPartly
  <2>. QED BY <1>1, <2>1, <2>2, Zenon DEF SlicesOf
<1>3. CASE r = s /\ (SyncOK("cur", s) \/ SyncPartly("cur", s))
  <2>1. task["cur"][s].pc = "sync" \/ s \notin derived'
    BY <1>3, Zenon DEF SyncOK, SyncPartly
  <2>2. task'["cur"][s].pc = "idle"
    BY <1>3, StepType, IdleType, TaskConstants DEF SyncOK, SyncPartly, Finish, Requeue
  <2>. QED BY <1>1, <1>3, <2>1, <2>2, Zenon DEF SlicesOf
<1>4. CASE r = s /\ PurgeOK("cur", s)
  <2>1. s \notin derived'
    BY <1>4, Zenon DEF PurgeOK
  <2>2. task'["cur"][s].pc # "sync"
    BY InFlightTask, TaskConstants, Zenon
  <2>. QED BY <1>4, <2>1, <2>2, Zenon DEF SlicesOf
<1>5. CASE /\ r = s
           /\ \/ Refused("cur", s) \/ Release("cur", s) \/ ReleaseError("cur", s)
              \/ ReleaseSkipped("cur", s) \/ CallFailed("cur", s)
  <2>1. UNCHANGED derived
    BY <1>5, Zenon DEF Refused, Release, ReleaseError, ReleaseSkipped, CallFailed
  <2>2. \/ task'["cur"][s].pc = "idle"
        \/ task["cur"][s].pc = "release" /\ task'["cur"][s].pc = "unfinalize"
        \/ PurgeOK("cur", s)
    BY InFlightTask, TaskConstants, Zenon
  <2>. QED BY <1>1, <1>4, <1>5, <2>1, <2>2, Zenon DEF SlicesOf
<1>. QED
  BY <1>2, <1>3, <1>4, <1>5, Zenon DEF InFlight

\* Every step keeps the slices under the finalizer.
LEMMA SlicesStep ==
  ASSUME TypeOK, History, Copies, Leaders, Slices, [Next]_vars
  PROVE  Slices'
<1>. SUFFICES ASSUME "overlap" \notin breach', NEW r \in SI PROVE SlicesOf(r)'
  BY Zenon DEF Slices, SlicesOf, Guarded
<1>0. "overlap" \notin breach
  BY BreachGrows, Zenon
<1>a. \A s \in SI : SlicesOf(s)
  BY <1>0, Zenon DEF Slices, SlicesOf, Guarded
<1>1. CASE User
  <2>1. Guarded(API(r)) => Guarded(API(r)')
    BY <1>1, UserEffect, Zenon DEF UserObject, Guarded
  <2>2. task'["cur"][r].pc = task["cur"][r].pc /\ derived' = derived
    BY <1>1, UserEffect, Zenon
  <2>. QED BY <1>a, <2>1, <2>2, Zenon DEF SlicesOf
<1>2. ASSUME NEW s \in SI, Deliver(s) \/ Resync(s) PROVE SlicesOf(r)'
  BY <1>a, <1>2, ApiUnchanged, Zenon DEF SlicesOf
<1>3. ASSUME NEW s \in SI, Handle(s) PROVE SlicesOf(r)'
  <2>1. API(r)' = API(r) /\ derived' = derived
    BY <1>3, HandleEffect, Zenon DEF API
  <2>2. CASE task'["cur"][r] = task["cur"][r]
    BY <1>a, <2>1, <2>2, Zenon DEF SlicesOf
  <2>3. CASE r = s /\ Entered(s, task'["cur"][s])
    <3>1. task'["cur"][s].pc = "sync" => Guarded(API(s))
      <4>1. 1 \in 1 .. Len(store[s])
        BY StoreType
      <4>2. task'["cur"][s].pc = "sync" => Cached(s).phase = "live" /\ Cached(s).fin
        BY <2>3, Zenon DEF Entered
      <4>. QED BY <4>1, <4>2, LastVersion, Zenon DEF Cached, Guarded
    <3>2. task'["cur"][s].pc \notin {"release", "unfinalize"}
      BY <2>3, Zenon DEF Entered
    <3>. QED BY <1>a, <2>1, <2>3, <3>1, <3>2, Zenon DEF SlicesOf
  <2>. QED BY <1>3, <2>2, <2>3, HandleEffect, Zenon
<1>4. ASSUME NEW g \in Gen, NEW s \in SI, Running(g, s) PROVE SlicesOf(r)'
  <2>0. g = "cur"
    BY <1>0, <1>4, RunningLeader, Zenon
  <2>1. CASE Stores(g, s)
    <3>0. derived' = derived
      BY <2>1, StoresEffect, Zenon
    <3>1. CASE r # s
      <4>1. task'["cur"][r] = task["cur"][r] /\ API(r)' = API(r)
        <5>. HIDE DEF Gen
        <5>. QED BY <2>1, <3>1, StoresEffect, Generations
      <4>. QED BY <1>a, <3>0, <4>1, Zenon DEF SlicesOf
    <3>2. CASE r = s /\ task[g][s].pc = "update"
      <4>1. Guarded(API(s)') /\ task'["cur"][s].pc \in {"idle", "sync"}
        BY <2>0, <2>1, <3>2, StoresEffect, Zenon DEF Guarded, Exists
      <4>. QED BY <3>2, <4>1, Zenon DEF SlicesOf
    <3>3. CASE r = s /\ task[g][s].pc # "update"
      <4>1. task["cur"][s].pc = "unfinalize" /\ task'["cur"][s].pc = "idle"
        BY <2>0, <2>1, <3>3, StoresEffect, Zenon
      <4>. QED BY <1>a, <3>0, <3>3, <4>1, Zenon DEF SlicesOf
    <3>. QED BY <3>1, <3>2, <3>3, Zenon
  <2>2. CASE InFlight(g, s)
    BY <1>a, <2>0, <2>2, SlicesInFlight, Zenon
  <2>3. CASE ReleasePanic(g, s)
    <3>1. task'["cur"][r].pc = "idle" /\ UNCHANGED <<store, derived>>
      BY <2>0, <2>3, DieType, TaskConstants, Zenon DEF ReleasePanic
    <3>. QED BY <1>a, <3>1, Zenon DEF SlicesOf, API
  <2>. QED BY <1>4, <2>1, <2>2, <2>3, Zenon DEF Running
<1>5. CASE Crash \/ LoseLease
  <2>1. task'["cur"][r].pc = "idle" /\ UNCHANGED <<store, derived>>
    BY <1>5, DieType, TaskConstants, Zenon DEF Crash, LoseLease
  <2>. QED BY <1>a, <2>1, Zenon DEF SlicesOf, API
<1>6. CASE Start \/ StartFails \/ UNCHANGED vars
  BY <1>a, <1>6, Zenon DEF Start, StartFails, vars, SlicesOf, API
<1>. QED
  BY <1>1, <1>2, <1>3, <1>4, <1>5, <1>6, Sorted, Zenon

-----------------------------------------------------------------------------
(* The owners of the addresses.                                            *)

\* s carries address ip or is about to.
Carries(s, ip) == API(s).phase = "live" /\ API(s).ips = ip

Claims(s, ip) ==
    task["cur"][s].pc = "update" /\ task["cur"][s].fresh /\ task["cur"][s].obj.ips = ip

OwnerOf(s, ip) == Carries(s, ip) \/ Claims(s, ip) => ipam["cur"][ip] = s

\* Ownership, import by import and address by address.
LEMMA OwnershipMeans ==
  Ownership <=> (breach = {} => UniqueVIP /\ (up => \A s \in SI, ip \in IP : OwnerOf(s, ip)))
BY Zenon DEF Ownership, OwnerOf, Carries, Claims

\* UniqueVIP, address by address.
LEMMA UniqueMeans ==
  UniqueVIP <=> \A s, t \in SI, ip \in IP : Carries(s, ip) /\ Carries(t, ip) => s = t
BY Zenon DEF UniqueVIP, Carries

\* A release frees an address no other import carries.
LEMMA OwnershipInFlight ==
  ASSUME TypeOK, Leaders, Recycled, breach' = {}, breach = {}, NEW s \in SI,
         InFlight("cur", s), \A r \in SI, ip \in IP : OwnerOf(r, ip)
  PROVE  \A r \in SI, ip \in IP : OwnerOf(r, ip)'
<1>. SUFFICES ASSUME NEW r \in SI, NEW ip \in IP PROVE OwnerOf(r, ip)'
  BY Zenon
<1>1. Carries(r, ip)' <=> Carries(r, ip)
  BY InFlightTask, Zenon DEF Carries, API
<1>2. Claims(r, ip)' => Claims(r, ip) /\ r # s
  <2>1. r # s => task'["cur"][r] = task["cur"][r]
    BY InFlightTask, Zenon
  <2>2. task'["cur"][s].pc # "update"
    BY InFlightTask, TaskConstants, Zenon
  <2>. QED BY <2>1, <2>2, Zenon DEF Claims
<1>3. CASE UNCHANGED ipam
  BY <1>1, <1>2, <1>3, Zenon DEF OwnerOf
<1>4. CASE Release("cur", s)
  <2>. DEFINE f == task["cur"][s].obj.ips
  <2>1. /\ f \in IP /\ ipam' = [ipam EXCEPT !["cur"][f] = Free]
        /\ task["cur"][s].pc = "release" /\ ipam["cur"][f] = s
    BY <1>4, Zenon DEF Release
  <2>2. ~Carries(s, f)
    BY <2>1, Zenon DEF Recycled, Recycling, Carries
  <2>3. r = s => ~Claims(r, ip)'
    BY <1>2, Zenon
  <2>4. ip # f => ipam'["cur"][ip] = ipam["cur"][ip]
    BY <2>1, Zenon DEF TypeOK
  <2>. HIDE DEF f
  <2>5. ip = f => ~Carries(r, ip)' /\ ~Claims(r, ip)'
    BY <1>1, <1>2, <2>1, <2>2, <2>3, Zenon DEF OwnerOf
  <2>6. CASE ip = f
    BY <2>5, <2>6, Zenon DEF OwnerOf
  <2>7. CASE ip # f
    BY <1>1, <1>2, <2>4, <2>7 DEF OwnerOf
  <2>. QED BY <2>6, <2>7, Zenon
<1>. QED
  BY <1>3, <1>4, InFlightTask, Zenon DEF PurgeOK, ReleaseSkipped

\* An allocation takes an address the pool has free.
LEMMA OwnershipHandle ==
  ASSUME TypeOK, Copies, NEW s \in SI, Handle(s), \A r \in SI, ip \in IP : OwnerOf(r, ip)
  PROVE  \A r \in SI, ip \in IP : OwnerOf(r, ip)'
<1>. SUFFICES ASSUME NEW r \in SI, NEW ip \in IP PROVE OwnerOf(r, ip)'
  BY Zenon
<1>1. Carries(r, ip)' <=> Carries(r, ip)
  BY HandleEffect, Zenon DEF Carries, API
<1>2. r # s => (Claims(r, ip)' <=> Claims(r, ip))
  BY HandleEffect, Zenon DEF Claims
<1>3. CASE UNCHANGED ipam /\ (r # s \/ UNCHANGED task)
  BY <1>1, <1>2, <1>3, Zenon DEF OwnerOf, Claims
<1>. DEFINE t == task'["cur"][s]
<1>4. CASE r = s /\ UNCHANGED ipam /\ Entered(s, t)
  <2>1. CASE Claims(s, ip)'
    <3>1. t.pc = "update" /\ t.fresh /\ t.obj.ips = ip
      BY <2>1, Zenon DEF Claims
    <3>2. ~(ipam["cur"][ip] = Free /\ ipam' = [ipam EXCEPT !["cur"][ip] = s])
      BY <1>4, ConstantsAssumption DEF TypeOK
    <3>3. Cached(s).phase = "live" /\ Cached(s).ips = ip /\ Len(store[s]) = 1
      BY <1>4, <3>1, <3>2, Zenon DEF Entered
    <3>4. Carries(s, ip)
      BY <3>3, Zenon DEF Carries, API, Cached
    <3>. QED BY <1>4, <3>4, Zenon DEF OwnerOf
  <2>2. CASE ~Claims(s, ip)'
    BY <1>1, <1>4, <2>2, Zenon DEF OwnerOf
  <2>. QED BY <2>1, <2>2, Zenon
<1>5. CASE /\ t.pc = "update" /\ t.obj.ips \in IP /\ ipam["cur"][t.obj.ips] = Free
           /\ ipam' = [ipam EXCEPT !["cur"][t.obj.ips] = s]
  <2>1. ip # t.obj.ips => ipam'["cur"][ip] = ipam["cur"][ip]
    BY <1>5, Zenon DEF TypeOK
  <2>2. ip = t.obj.ips => ipam'["cur"][ip] = s
    BY <1>5, Zenon DEF TypeOK
  <2>3. ip = t.obj.ips => ~Carries(r, ip) /\ (r # s => ~Claims(r, ip))
    BY <1>5, ConstantsAssumption, Zenon DEF OwnerOf
  <2>4. ip # t.obj.ips => ~Claims(s, ip)'
    BY Zenon DEF Claims
  <2>. HIDE DEF t
  <2>5. CASE ip = t.obj.ips
    <3>1. r # s => ~Carries(r, ip)' /\ ~Claims(r, ip)'
      BY <1>1, <1>2, <2>3, <2>5, Zenon
    <3>. QED BY <2>2, <2>5, <3>1, Zenon DEF OwnerOf
  <2>6. CASE ip # t.obj.ips
    <3>1. Carries(r, ip)' \/ Claims(r, ip)' => Carries(r, ip) \/ Claims(r, ip)
      BY <1>1, <1>2, <2>4, <2>6, Zenon
    <3>. QED BY <2>1, <2>6, <3>1, Zenon DEF OwnerOf
  <2>. QED BY <2>5, <2>6, Zenon
<1>. QED
  BY <1>3, <1>4, <1>5, HandleEffect, Zenon DEF Entered

\* When addresses are distinct, a new leader's pool charges each to its import.
LEMMA OwnersRight ==
  ASSUME Distinct, NEW s \in SI, NEW ip \in IP, Counted(API(s)), API(s).ips = ip
  PROVE  Owners[ip] = s
BY Zenon DEF Owners, Distinct

\* Every step keeps the pool's accounts right while nothing goes wrong.
LEMMA OwnershipStep ==
  ASSUME TypeOK, History, Copies, Leaders, Recycled, Ownership, [Next]_vars
  PROVE  Ownership'
<1>. SUFFICES ASSUME breach' = {}
              PROVE  UniqueVIP' /\ (up' => \A s \in SI, ip \in IP : OwnerOf(s, ip)')
  BY Zenon DEF Ownership, OwnerOf, Carries, Claims
<1>0. breach = {}
  BY BreachGrows, Zenon
<1>a. UniqueVIP /\ (up => \A s \in SI, ip \in IP : OwnerOf(s, ip))
  BY <1>0, OwnershipMeans, Zenon
<1>b. ASSUME \A s \in SI, ip \in IP : Carries(s, ip)' => Carries(s, ip) PROVE UniqueVIP'
  BY <1>a, <1>b, UniqueMeans, Zenon DEF UniqueVIP, Carries
<1>c. ASSUME UNCHANGED store PROVE UniqueVIP'
  BY <1>a, <1>c, Zenon DEF UniqueVIP, API
<1>1. CASE User
  <2>1. ASSUME NEW s \in SI, NEW ip \in IP
        PROVE (Carries(s, ip)' => Carries(s, ip)) /\ (Claims(s, ip)' => Claims(s, ip))
    <3>1. Carries(s, ip)' => Carries(s, ip)
      <4>1. PICK r \in SI : UserObject(r, API(r)') /\ \A q \in SI \ {r} : API(q)' = API(q)
        BY <1>1, UserEffect, Zenon
      <4>2. CASE s = r
        BY <4>1, <4>2, Zenon DEF UserObject, Carries
      <4>3. CASE s # r
        BY <4>1, <4>3, Zenon DEF Carries
      <4>. QED BY <4>2, <4>3, Zenon
    <3>2. /\ task'["cur"][s].pc = task["cur"][s].pc /\ task'["cur"][s].obj = task["cur"][s].obj
          /\ task'["cur"][s].fresh => task["cur"][s].fresh
      BY <1>1, UserEffect, Zenon
    <3>. QED BY <3>1, <3>2, Zenon DEF Claims
  <2>2. UNCHANGED <<up, ipam>>
    BY <1>1, UserEffect, Zenon
  <2>3. up' => \A s \in SI, ip \in IP : OwnerOf(s, ip)'
    BY <1>a, <2>1, <2>2, Zenon DEF OwnerOf
  <2>. QED BY <1>b, <2>1, <2>3, Zenon
<1>2. ASSUME NEW s \in SI, Deliver(s) \/ Resync(s)
      PROVE UniqueVIP' /\ (up' => \A r \in SI, ip \in IP : OwnerOf(r, ip)')
  <2>1. ASSUME NEW r \in SI, NEW ip \in IP
        PROVE (Carries(r, ip)' => Carries(r, ip)) /\ (Claims(r, ip)' => Claims(r, ip))
    BY <1>2, ApiUnchanged, Zenon DEF Carries, Claims
  <2>2. UNCHANGED <<up, ipam>>
    BY <1>2, ApiUnchanged, Zenon
  <2>3. up' => \A r \in SI, ip \in IP : OwnerOf(r, ip)'
    BY <1>a, <2>1, <2>2, Zenon DEF OwnerOf
  <2>. QED BY <1>b, <2>1, <2>3, Zenon
<1>3. ASSUME NEW s \in SI, Handle(s)
      PROVE UniqueVIP' /\ (up' => \A r \in SI, ip \in IP : OwnerOf(r, ip)')
  BY <1>a, <1>c, <1>3, HandleEffect, OwnershipHandle, Zenon
<1>4. ASSUME NEW g \in Gen, NEW s \in SI, Running(g, s)
      PROVE UniqueVIP' /\ (up' => \A r \in SI, ip \in IP : OwnerOf(r, ip)')
  <2>0. g = "cur" /\ up
    BY <1>0, <1>4, RunningLeader, Zenon
  <2>1. CASE Stores(g, s)
    <3>1. UNCHANGED <<ipam, up>>
      BY <2>1, StoresEffect, Zenon
    <3>2. ASSUME NEW r \in SI, NEW ip \in IP, r # s
          PROVE (Carries(r, ip)' <=> Carries(r, ip)) /\ (Claims(r, ip)' <=> Claims(r, ip))
      <4>1. task'["cur"][r] = task["cur"][r] /\ API(r)' = API(r)
        <5>. HIDE DEF Gen
        <5>. QED BY <2>1, <3>2, StoresEffect, Generations
      <4>. QED BY <4>1, Zenon DEF Carries, Claims
    <3>3. ASSUME NEW ip \in IP
          PROVE (Carries(s, ip)' => Claims(s, ip)) /\ ~Claims(s, ip)'
      <4>1. Absent.phase # "live"
        BY Zenon DEF Absent
      <4>. QED BY <2>0, <2>1, <4>1, StoresEffect, Zenon DEF Carries, Claims
    <3>4. \A r \in SI, ip \in IP : OwnerOf(r, ip)'
      BY <1>a, <2>0, <3>1, <3>2, <3>3, Zenon DEF OwnerOf
    <3>5. \A r, q \in SI, ip \in IP : Carries(r, ip)' /\ Carries(q, ip)' => r = q
      BY <3>4, Zenon DEF OwnerOf
    <3>. QED BY <3>4, <3>5, Zenon DEF UniqueVIP, Carries
  <2>2. CASE InFlight(g, s)
    BY <1>a, <1>c, <1>0, <2>0, <2>2, InFlightTask, OwnershipInFlight, Zenon
  <2>3. CASE ReleasePanic(g, s)
    BY <1>c, <2>0, <2>3, Zenon DEF ReleasePanic, Die
  <2>. QED BY <1>4, <2>1, <2>2, <2>3, Zenon DEF Running
<1>5. CASE Crash \/ LoseLease
  BY <1>c, <1>5, Zenon DEF Crash, Die, LoseLease
<1>6. CASE Start
  <2>1. \A s \in SI : API(s).ips \in IP => Counted(API(s))
    BY <1>6, Zenon DEF Start
  <2>2. UNCHANGED <<store, task>> /\ Distinct /\ ipam'["cur"] = Owners
    BY <1>6, Zenon DEF Start, TypeOK
  <2>3. ASSUME NEW s \in SI, NEW ip \in IP PROVE OwnerOf(s, ip)'
    <3>1. ~Claims(s, ip)'
      BY <1>6, <2>2, Zenon DEF Start, Leaders, Claims
    <3>2. Carries(s, ip)' => Counted(API(s)) /\ API(s).ips = ip
      BY <2>1, <2>2, Zenon DEF Carries, API
    <3>. QED BY <2>2, <3>1, <3>2, OwnersRight, Zenon DEF OwnerOf
  <2>. QED BY <1>c, <2>2, <2>3, Zenon
<1>7. CASE StartFails \/ UNCHANGED vars
  <2>1. UNCHANGED <<store, task, ipam, up>>
    BY <1>7, Zenon DEF StartFails, vars
  <2>2. ASSUME NEW s \in SI, NEW ip \in IP, OwnerOf(s, ip) PROVE OwnerOf(s, ip)'
    BY <2>1, <2>2, Zenon DEF OwnerOf, Carries, Claims, API
  <2>. QED BY <1>a, <1>c, <2>1, <2>2, Zenon
<1>. QED
  BY <1>1, <1>2, <1>3, <1>4, <1>5, <1>6, <1>7, Sorted, Zenon

-----------------------------------------------------------------------------
(* The theorems.                                                           *)

\* The invariant holds initially.
LEMMA InitIInv == ASSUME Init PROVE IInv
<1>1. TypeOK
  <2>1. <<Absent>> \in Seq(Object) /\ Len(<<Absent>>) = 1
    BY AbsentType
  <2>2. store \in [SI -> Seq(Object)] /\ \A s \in SI : Len(store[s]) > 0
    BY <2>1 DEF Init
  <2>3. task \in [Gen -> [SI -> Task]]
    BY IdleType, Zenon DEF Init
  <2>4. budget \in 0 .. MaxDisturbances
    BY ConstantsAssumption DEF Init
  <2>. QED BY <2>2, <2>3, <2>4, Zenon DEF Init, TypeOK
<1>2. ASSUME NEW s \in SI
      PROVE  /\ store[s] = <<Absent>> /\ Len(store[s]) = 1 /\ store[s][1] = Absent
             /\ API(s) = Absent /\ \A g \in Gen : task[g][s] = Idle
  BY TaskConstants, Zenon DEF Init, API
<1>3. Absent.phase = "absent"
  BY Zenon DEF Absent
<1>4. History
  <2>. SUFFICES ASSUME NEW s \in SI, NEW i \in 1 .. Len(store[s])
                PROVE  store[s][i].phase \notin {"live", "terminating"}
    BY Zenon DEF History
  <2>1. i = 1
    BY <1>2
  <2>. QED BY <1>2, <1>3, <2>1, Zenon
<1>5. Copies
  BY <1>2, CopyConstants, Zenon DEF Copies
<1>6. Leaders
  BY <1>2, TaskConstants, Zenon DEF Leaders
<1>7. UniqueVIP
  BY <1>2, <1>3, Zenon DEF UniqueVIP
<1>8. ~up /\ derived = {}
  BY Zenon DEF Init
<1>9. Ownership
  BY <1>7, <1>8, Zenon DEF Ownership
<1>10. Recycled /\ Slices
  BY <1>2, <1>8, TaskConstants, Zenon DEF Recycled, Slices, Recycling
<1>. QED
  BY <1>1, <1>4, <1>5, <1>6, <1>9, <1>10, Zenon DEF IInv

\* The inductive invariant: the cached versions, the handlers' copies, the pool and the
\* copied slices agree after every step of handlers, users, informer and leaders.
THEOREM Invariance == Spec => []IInv
<1>1. ASSUME IInv, [Next]_vars PROVE IInv'
  BY <1>1, TypeStep, HistoryStep, CopiesStep, LeadersStep, RecycledStep, SlicesStep,
     OwnershipStep, Zenon DEF IInv
<1>. QED
  BY InitIInv, <1>1, PTL DEF Spec

\* A virtual IP has one user as long as no recycling freed an address charged to another
\* import, no start overlooked one and no deposed leader was still writing.
THEOREM Uniqueness == Spec => []UniqueUnlessBreach
<1>1. ASSUME IInv PROVE UniqueUnlessBreach
  BY <1>1, Zenon DEF IInv, Ownership, UniqueUnlessBreach
<1>. QED
  BY Invariance, <1>1, PTL

\* recycleServiceImport takes the finalizer off only when the copied slices are gone.
THEOREM SlicesBeforeObject == Spec => []NoOrphanSlices
<1>1. ASSUME IInv PROVE NoOrphanSlices
  BY <1>1, Zenon DEF IInv, TypeOK, Slices, NoOrphanSlices
<1>. QED
  BY Invariance, <1>1, PTL

\* The resourceVersion check of Update keeps every address that was assigned, whatever
\* the number of leaders that write.
THEOREM Stability == Spec => VIPStable
<1>1. ASSUME IInv, [Next]_vars
      PROVE  KeepsVIP
  <2>0. TypeOK /\ History /\ Copies
    BY <1>1, Zenon DEF IInv
  <2>. SUFFICES ASSUME NEW r \in SI, Counted(API(r)), Exists(API(r)')
                PROVE  API(r)'.ips = API(r).ips
    BY Zenon DEF KeepsVIP
  <2>1. CASE User
    BY <2>0, <2>1, UserEffect, Zenon DEF UserObject
  <2>2. ASSUME NEW s \in SI, Deliver(s) PROVE API(r)' = API(r)
    BY <2>0, <2>2, ApiUnchanged, Zenon
  <2>3. ASSUME NEW g \in Gen, NEW s \in SI, Stores(g, s) PROVE API(r)'.ips = API(r).ips
    <3>. PICK o \in Object : Commit(s, o) /\ HandlerObject(g, s, o)
      BY <2>0, <2>3, HandlerWrites, Zenon
    <3>1. API(s)' = o /\ \A q \in SI \ {s} : API(q)' = API(q)
      BY <2>0, CommitVersions, Zenon
    <3>2. Absent.phase = "absent"
      BY Zenon DEF Absent
    <3>. QED BY <3>1, <3>2, Zenon DEF HandlerObject, Exists
  <2>4. CASE Quiet
    BY <2>4, QuietStore, Zenon DEF API
  <2>. QED BY <1>1, <2>1, <2>2, <2>3, <2>4, StepKinds, Zenon
<1>. QED
  BY Invariance, <1>1, PTL DEF Spec, VIPStable
=============================================================================
