--------------------------- MODULE EndpointSliceSteps ---------------------------
(***************************************************************************)
(* The steps of EndpointSliceController, one by one: the two invariants    *)
(* that EndpointSliceProofs is about, and what each action, except the one *)
(* that makes a plan, does to them.                                        *)
(***************************************************************************)
EXTENDS EndpointSliceController, EndpointSliceSoundness, TLAPS

-----------------------------------------------------------------------------
(* The first invariant: what every copy of a slice has in common.          *)

\* n incarnations of the Service so far.
Proper(s, n) ==
    /\ IsSlice(s) /\ s.owner <= n
    /\ Fits(s.eps) /\ \A e \in s.eps : IsEndpoint(e)

ProperIn(f, n) == DOMAIN f \subseteq SliceId /\ \A u \in DOMAIN f : Proper(f[u], n)

\* w is an earlier version of the slice s, or s itself.
Older(w, s) ==
    w.gen <= s.gen /\ w.owner = s.owner /\ w.type = s.type /\ (w.dying => s.dying)

WorldOK ==
    /\ lastUid \in 1 .. MaxUid
    /\ svc = NoObject \/ (IsService(svc) /\ svc.uid = lastUid)
    /\ DOMAIN pods \subseteq Pod /\ \A p \in DOMAIN pods : pods[p] \in PodStates[p]
    /\ DOMAIN nodes \subseteq Node /\ \A n \in DOMAIN nodes : nodes[n] \in NodeStates[n]
    /\ ZonesKnown(cpus)
    /\ queue \in BOOLEAN /\ retries \in 0 .. MaxRetries
    /\ budget \in 0 .. MaxDisturbances /\ lost \in BOOLEAN

IsSeq(q) == q \in Seq({q[i] : i \in DOMAIN q})

SlicesOK ==
    /\ ProperIn(api, lastUid) /\ ProperIn(cache, lastUid)
    /\ IsSeq(stream)
    /\ \A i \in DOMAIN stream :
         /\ stream[i].id \in SliceId
         /\ stream[i].slice = NoObject \/ Proper(stream[i].slice, lastUid)
    /\ DOMAIN tracker \subseteq SliceId /\ \A u \in DOMAIN tracker : tracker[u] \in Nat \cup {-1}

\* No copy of a stored slice is ahead of it, and no deletion of it is on its way.
CopiesOK ==
    \A u \in DOMAIN api :
        /\ u \in DOMAIN cache => Older(cache[u], api[u])
        /\ \A i \in DOMAIN stream : stream[i].id = u =>
             stream[i].slice # NoObject /\ Older(stream[i].slice, api[u])
        /\ u \in DOMAIN tracker => tracker[u] \in 0 .. api[u].gen

\* The same of what the worker holds.
HeldOK ==
    \A u \in DOMAIN api :
        /\ u \in DOMAIN worker.slices => Older(worker.slices[u], api[u])
        /\ worker.track.id = u => worker.track.gen \in 0 .. api[u].gen
        /\ worker.pc # "idle" => api[u].owner <= worker.svc.uid

WorkerFields == {"pc", "svc", "pods", "slices", "todo", "plan", "legacy", "track", "err"}

\* The worker between its calls.
WorkerOK ==
    /\ DOMAIN worker = WorkerFields
    /\ worker.pc \in {"idle", "plan", "apply", "track"}
    /\ worker.pc = "idle" => worker = Idle
    /\ worker.pc # "idle" => IsService(worker.svc) /\ worker.svc.uid \in 1 .. lastUid
    /\ worker.todo \subseteq AddressTypes /\ DOMAIN worker.pods \subseteq Pod
    /\ ProperIn(worker.slices, lastUid) /\ \A u \in DOMAIN worker.slices : ~worker.slices[u].dying
    /\ worker.legacy \subseteq DOMAIN worker.slices
    /\ IF worker.pc = "track"
       THEN worker.track.id \in SliceId /\ worker.track.gen \in Nat \cup {-1}
       ELSE worker.track = NoTrack

PlanFields == {"create", "update", "delete", "ezi"}

\* What is left of a plan: slices of the worker's Service, of an address type it is done with.
PlanOf(t) ==
    /\ \A c \in worker.plan.create : Item(worker.svc, t, c)
    /\ \A u \in DOMAIN worker.plan.update :
         /\ Item(worker.svc, t, worker.plan.update[u])
         /\ u \in DOMAIN worker.slices
         /\ worker.slices[u].owner = worker.svc.uid /\ worker.slices[u].type = t

PlanOK ==
    /\ DOMAIN worker.plan = PlanFields
    /\ worker.pc \in {"idle", "plan"} => worker.plan = NoPlan
    /\ worker.plan.delete \subseteq DOMAIN worker.slices
    /\ worker.pc \in {"apply", "track"} => \E t \in AddressTypes \ worker.todo : PlanOf(t)

Inv1 == WorldOK /\ SlicesOK /\ CopiesOK /\ HeldOK /\ WorkerOK /\ PlanOK

-----------------------------------------------------------------------------
(* The second invariant: what the worker knows of its own writes.          *)

\* The slices whose endpoints count, see Live.
Mine(u) == u \in DOMAIN api /\ svc # NoObject /\ api[u].owner = svc.uid /\ ~api[u].dying

\* The version w of u is not older than what the tracker expects, or is about to expect.
Fresh(u, w) ==
    IF worker.track.id = u THEN worker.track.gen <= w.gen
    ELSE u \in DOMAIN tracker => tracker[u] <= w.gen

\* The versions of u that a run may still start from.
InCache(u, w)  == u \in DOMAIN cache /\ w = cache[u] /\ Fresh(u, w)
InStream(u, w) == (\E i \in DOMAIN stream : stream[i].id = u /\ stream[i].slice = w) /\ Fresh(u, w)
Version(u, w)  == InCache(u, w) \/ InStream(u, w) \/ w = api[u]

Narrower(x, y) == x.ports = y.ports /\ Keys(x) \subseteq Keys(y)

FoundAt(u) == u \in DOMAIN cache \/ u \in DOMAIN tracker \/ worker.track.id = u

Found == \A u : Mine(u) => FoundAt(u)

\* The event i carries the version w of u.
SentAt(i, u, w) == stream[i].id = u /\ stream[i].slice = w /\ Fresh(u, w)

\* A later version is narrower than an earlier one.
NarrowsAt(u) ==
    /\ \A x, y : InCache(u, x) /\ Version(u, y) => Narrower(y, x)
    /\ \A i, j \in DOMAIN stream : \A x, y :
         /\ i <= j /\ SentAt(i, u, x) /\ SentAt(j, u, y) => Narrower(y, x)
    /\ \A x : InStream(u, x) => Narrower(api[u], x)

Narrowing == \A u : Mine(u) => NarrowsAt(u)

Apart ==
    \A u, v : Mine(u) /\ Mine(v) /\ u # v /\ api[u].type = api[v].type =>
        \A x, y : Version(u, x) /\ Version(v, y) => Disjoint(x, y)

\* The slices of an address type the run has yet to look at are in its list, as they are
\* or wider.
Covered ==
    /\ \A u : Mine(u) /\ worker.pc # "idle" /\ api[u].type \in worker.todo =>
         u \in DOMAIN worker.slices /\ \A x : Version(u, x) => Narrower(x, worker.slices[u])
    /\ \A u, v : /\ Mine(u) /\ Mine(v) /\ u # v /\ worker.pc # "idle"
                 /\ api[u].type = api[v].type /\ api[u].type \in worker.todo
                 => Disjoint(worker.slices[u], worker.slices[v])

\* What is left of the plan meets nothing.
PlanApart ==
    /\ \A c, d \in worker.plan.create : c # d => Disjoint(c, d)
    /\ \A c \in worker.plan.create : \A u \in DOMAIN worker.plan.update :
         Disjoint(c, worker.plan.update[u])
    /\ \A u, v \in DOMAIN worker.plan.update :
         Mine(u) /\ Mine(v) /\ u # v => Disjoint(worker.plan.update[u], worker.plan.update[v])
    /\ \A c \in worker.plan.create : \A v : Mine(v) /\ api[v].type = c.type =>
         \A y : Version(v, y) => Disjoint(c, y)
    /\ \A u \in DOMAIN worker.plan.update : \A v :
         Mine(u) /\ Mine(v) /\ u # v /\ api[v].type = api[u].type =>
         \A y : Version(v, y) => Disjoint(worker.plan.update[u], y)

Knows == Found /\ Narrowing /\ Apart /\ Covered /\ PlanApart

Inv2 == ~lost => Knows

-----------------------------------------------------------------------------
(* Functions and sequences.                                                *)

(* With and Without change one entry. *)
LEMMA WithFacts ==
    ASSUME NEW f, NEW u, NEW x
    PROVE  /\ DOMAIN With(f, u, x) = DOMAIN f \cup {u} /\ With(f, u, x)[u] = x
           /\ \A v \in DOMAIN f \ {u} : With(f, u, x)[v] = f[v]
BY Zenon DEF With

(* A restriction keeps the entries it has. *)
LEMMA RestrictFacts ==
    ASSUME NEW f, NEW S
    PROVE  DOMAIN Restrict(f, S) = S /\ \A v \in S : Restrict(f, S)[v] = f[v]
BY Zenon DEF Restrict

(* Without keeps all entries but one. *)
LEMMA WithoutFacts ==
    ASSUME NEW f, NEW u
    PROVE  DOMAIN Without(f, u) = DOMAIN f \ {u} /\ \A v \in DOMAIN f \ {u} : Without(f, u)[v] = f[v]
BY Zenon DEF Without, Restrict

(* An event at the end of the stream, and the stream without its first event. *)
LEMMA AppendFacts ==
    ASSUME NEW q, IsSeq(q), NEW e
    PROVE  /\ IsSeq(Append(q, e)) /\ DOMAIN Append(q, e) = DOMAIN q \cup {Len(q) + 1}
           /\ Len(q) \in Nat /\ DOMAIN q = 1 .. Len(q)
           /\ \A i \in DOMAIN q : Append(q, e)[i] = q[i]
           /\ Append(q, e)[Len(q) + 1] = e
<1> DEFINE S == {q[i] : i \in DOMAIN q}
           T == S \cup {e}
           r == Append(q, e)
           R == {r[i] : i \in DOMAIN r}
<1>1. q \in Seq(S)
  BY DEF IsSeq
<1>2. Len(q) \in Nat /\ DOMAIN q = 1 .. Len(q)
  BY <1>1
<1> HIDE DEF S
<1>3. q \in Seq(T) /\ e \in T
  BY <1>1
<1> HIDE DEF T
<1>4. r \in Seq(T) /\ Len(r) = Len(q) + 1
  BY <1>3
<1>5. DOMAIN r = 1 .. Len(q) + 1 /\ (\A i \in 1 .. Len(q) : r[i] = q[i]) /\ r[Len(q) + 1] = e
  BY <1>2, <1>3
<1>6. DOMAIN r = DOMAIN q \cup {Len(q) + 1}
  BY <1>2, <1>5
<1> HIDE DEF r
<1>7. r = [i \in 1 .. Len(r) |-> r[i]]
  BY <1>4
<1>8. r \in [1 .. Len(r) -> R]
  BY <1>4, <1>5, <1>7
<1>9. r \in Seq(R)
  <2> HIDE DEF R
  <2> QED
    BY <1>2, <1>4, <1>8
<1> QED
  BY <1>2, <1>5, <1>6, <1>9 DEF r, IsSeq

(* The tail of a sequence has its elements, one place earlier. *)
LEMMA TailFacts ==
    ASSUME NEW q, IsSeq(q), q # << >>
    PROVE  /\ IsSeq(Tail(q)) /\ 1 \in DOMAIN q /\ Head(q) = q[1] /\ DOMAIN q \subseteq Nat
           /\ \A i \in DOMAIN Tail(q) : i + 1 \in DOMAIN q /\ Tail(q)[i] = q[i + 1]
<1> DEFINE S == {q[i] : i \in DOMAIN q}
           r == Tail(q)
           R == {r[i] : i \in DOMAIN r}
<1>1. q \in Seq(S)
  BY DEF IsSeq
<1> HIDE DEF S
<1>2. Len(q) \in Nat \ {0} /\ DOMAIN q = 1 .. Len(q) /\ Head(q) = q[1]
  BY <1>1
<1>3. r \in Seq(S) /\ Len(r) = Len(q) - 1 /\ DOMAIN r = 1 .. Len(q) - 1
  BY <1>1, <1>2
<1>4. \A i \in DOMAIN r : r[i] = q[i + 1]
  BY <1>1, <1>2, <1>3
<1> HIDE DEF r
<1>5. r = [i \in 1 .. Len(r) |-> r[i]]
  BY <1>3
<1>6. r \in [1 .. Len(r) -> R]
  BY <1>3, <1>5
<1>7. r \in Seq(R)
  <2> HIDE DEF R
  <2> QED
    BY <1>2, <1>3, <1>6
<1>8. (\A i \in DOMAIN r : i + 1 \in DOMAIN q) /\ 1 \in DOMAIN q /\ DOMAIN q \subseteq Nat
  BY <1>2, <1>3
<1>9. IsSeq(r)
  BY <1>7 DEF IsSeq
<1> QED
  BY <1>2, <1>4, <1>8, <1>9 DEF r

(* The empty stream. *)
LEMMA EmptyFacts == IsSeq(<< >>) /\ DOMAIN << >> = {}
<1> DEFINE S == {<< >>[i] : i \in DOMAIN << >>}
<1>1. << >> \in Seq(S)
  OBVIOUS
<1> QED
  BY <1>1 DEF IsSeq

-----------------------------------------------------------------------------
(* What the steps have in common. *)

\* Every stored slice is the one before or a later version of it, or is new to everyone and
\* of the worker's Service.
Ages ==
    \A u \in DOMAIN api' :
        IF u \in DOMAIN api THEN Older(api[u], api'[u])
        ELSE u \in FreshIds /\ worker.pc # "idle" /\ api'[u].owner = worker.svc.uid

\* A write of the slice u emits one event, with the slice or with its deletion.
Emits(u) ==
    \E s : /\ stream' = Append(stream, [id |-> u, slice |-> s])
           /\ IF u \in DOMAIN api' THEN s = api'[u] ELSE s = NoObject

Writes == Ages /\ ProperIn(api', lastUid') /\ (stream' = stream \/ \E u \in SliceId : Emits(u))

\* The plan p is what is left of the plan q.
Lesser(p, q) ==
    /\ DOMAIN p = PlanFields
    /\ p.create \subseteq q.create /\ p.delete \subseteq q.delete
    /\ DOMAIN p.update \subseteq DOMAIN q.update
    /\ \A u \in DOMAIN p.update : p.update[u] = q.update[u]

\* The worker goes on with what it has.
GoesOn ==
    /\ worker.pc # "idle"
    /\ DOMAIN worker' = WorkerFields /\ worker'.pc \in {"plan", "apply", "track"}
    /\ worker'.svc = worker.svc /\ worker'.pods = worker.pods /\ worker'.slices = worker.slices
    /\ worker'.todo = worker.todo /\ worker'.legacy \subseteq worker.legacy
    /\ Lesser(worker'.plan, worker.plan)
    /\ worker'.pc = "plan" => worker'.plan = NoPlan
    /\ worker.pc = "plan" /\ worker'.pc # "plan" => worker.todo = {}
    /\ IF worker'.pc = "track"
       THEN /\ worker'.track.id \in SliceId /\ worker'.track.gen \in Nat \cup {-1}
            /\ worker'.track.id \in DOMAIN api' => worker'.track.gen \in 0 .. api'[worker'.track.id].gen
       ELSE worker'.track = NoTrack

Onward == worker' = worker \/ worker' = Idle \/ GoesOn

Later == lastUid' \in Nat /\ lastUid <= lastUid'

(* An earlier version of an earlier version is one. *)
LEMMA OlderTransitive ==
    ASSUME NEW x, NEW y, NEW z, IsSlice(x), IsSlice(y), IsSlice(z), Older(x, y), Older(y, z)
    PROVE  Older(x, z)
BY DEF Older, IsSlice

(* What was proper stays so when the Service is created again. *)
LEMMA ProperStays ==
    ASSUME WorldOK, Later, NEW s, Proper(s, lastUid)
    PROVE  Proper(s, lastUid')
<1>1. s.owner <= lastUid'
  BY DEF Proper, IsSlice, WorldOK, Later
<1> QED
  BY <1>1, Zenon DEF Proper

(* So do all slices of a function. *)
LEMMA ProperInStays ==
    ASSUME WorldOK, Later, NEW f, ProperIn(f, lastUid)
    PROVE  ProperIn(f, lastUid')
BY ProperStays, Zenon DEF ProperIn

(* A write of the API server that the cache has not seen. *)
LEMMA WritesCopies ==
    ASSUME WorldOK, SlicesOK, CopiesOK, Later, Writes, UNCHANGED <<cache, tracker>>
    PROVE  SlicesOK' /\ CopiesOK'
<1>1. ProperIn(cache', lastUid')
  BY ProperInStays, Zenon DEF SlicesOK
<1>2. IsSeq(stream')
  <2>1. CASE stream' = stream
    BY <2>1, Zenon DEF SlicesOK
  <2>2. ASSUME NEW u \in SliceId, Emits(u) PROVE IsSeq(stream')
    <3>1. PICK s : stream' = Append(stream, [id |-> u, slice |-> s])
      BY <2>2, Zenon DEF Emits
    <3> QED
      BY <3>1, AppendFacts, Zenon DEF SlicesOK
  <2> QED
    BY <2>1, <2>2, Zenon DEF Writes
<1>3. ASSUME NEW i \in DOMAIN stream'
      PROVE  \/ i \in DOMAIN stream /\ stream'[i] = stream[i]
             \/ /\ stream'[i].id \in SliceId
                /\ IF stream'[i].id \in DOMAIN api' THEN stream'[i].slice = api'[stream'[i].id]
                   ELSE stream'[i].slice = NoObject
  <2>1. CASE stream' = stream
    BY <2>1, Zenon
  <2>2. ASSUME NEW u \in SliceId, Emits(u)
        PROVE  \/ i \in DOMAIN stream /\ stream'[i] = stream[i]
               \/ /\ stream'[i].id \in SliceId
                  /\ IF stream'[i].id \in DOMAIN api' THEN stream'[i].slice = api'[stream'[i].id]
                     ELSE stream'[i].slice = NoObject
    <3>1. PICK s : /\ stream' = Append(stream, [id |-> u, slice |-> s])
                   /\ IF u \in DOMAIN api' THEN s = api'[u] ELSE s = NoObject
      BY <2>2, Zenon DEF Emits
    <3> DEFINE e == [id |-> u, slice |-> s]
    <3>2. e.id = u /\ e.slice = s
      OBVIOUS
    <3> HIDE DEF e
    <3>3. stream' = Append(stream, e)
      BY <3>1, Zenon DEF e
    <3>4. (i \in DOMAIN stream /\ stream'[i] = stream[i]) \/ stream'[i] = e
      <4>1. IsSeq(stream)
        BY Zenon DEF SlicesOK
      <4>2. /\ DOMAIN stream' = DOMAIN stream \cup {Len(stream) + 1}
            /\ \A j \in DOMAIN stream : stream'[j] = stream[j]
            /\ stream'[Len(stream) + 1] = e
        BY <3>3, <4>1, AppendFacts
      <4> QED
        BY <4>2, Zenon
    <3> QED
      BY <3>1, <3>2, <3>4, Zenon
  <2> QED
    BY <2>1, <2>2, Zenon DEF Writes
<1>4. \A u \in DOMAIN api' : Proper(api'[u], lastUid')
  BY Zenon DEF Writes, ProperIn
<1>5. ASSUME NEW i \in DOMAIN stream'
      PROVE  stream'[i].id \in SliceId /\ (stream'[i].slice = NoObject \/ Proper(stream'[i].slice, lastUid'))
  <2>1. CASE i \in DOMAIN stream /\ stream'[i] = stream[i]
    <3>1. stream[i].id \in SliceId /\ (stream[i].slice = NoObject \/ Proper(stream[i].slice, lastUid))
      BY <2>1, Zenon DEF SlicesOK
    <3> QED
      BY <2>1, <3>1, ProperStays, Zenon
  <2> QED
    BY <1>3, <1>4, <2>1, Zenon
<1>6. SlicesOK'
  BY <1>1, <1>2, <1>5, Zenon DEF SlicesOK, Writes
<1>7. ASSUME NEW u \in DOMAIN api'
      PROVE  /\ u \in DOMAIN cache => Older(cache[u], api'[u])
             /\ \A i \in DOMAIN stream' : stream'[i].id = u =>
                  stream'[i].slice # NoObject /\ Older(stream'[i].slice, api'[u])
             /\ u \in DOMAIN tracker => tracker[u] \in 0 .. api'[u].gen
  <2>0. IsSlice(api'[u]) /\ api'[u] # NoObject /\ Older(api'[u], api'[u])
    <3>1. IsSlice(api'[u])
      BY <1>4, Zenon DEF Proper
    <3>2. DOMAIN api'[u] # DOMAIN NoObject
      BY <3>1 DEF IsSlice, SliceFields, NoObject
    <3> QED
      BY <3>1, <3>2 DEF IsSlice, Older
  <2>1. CASE u \in DOMAIN api
    <3>1. Older(api[u], api'[u])
      BY <2>1, Zenon DEF Writes, Ages
    <3>2. IsSlice(api[u])
      BY <2>1, Zenon DEF SlicesOK, ProperIn, Proper
    <3>3. ASSUME u \in DOMAIN cache PROVE Older(cache[u], api'[u])
      <4>1. Older(cache[u], api[u]) /\ IsSlice(cache[u])
        BY <2>1, <3>3, Zenon DEF CopiesOK, SlicesOK, ProperIn, Proper
      <4> QED
        BY <2>0, <3>1, <3>2, <4>1, OlderTransitive, Zenon
    <3>4. ASSUME NEW i \in DOMAIN stream', stream'[i].id = u
          PROVE  stream'[i].slice # NoObject /\ Older(stream'[i].slice, api'[u])
      <4>1. CASE i \in DOMAIN stream /\ stream'[i] = stream[i]
        <5>1. stream[i].slice # NoObject /\ Older(stream[i].slice, api[u])
          BY <2>1, <3>4, <4>1, Zenon DEF CopiesOK
        <5>2. IsSlice(stream[i].slice)
          BY <4>1, <5>1, Zenon DEF SlicesOK, Proper
        <5> QED
          BY <2>0, <3>1, <3>2, <4>1, <5>1, <5>2, OlderTransitive, Zenon
      <4> QED
        BY <1>3, <2>0, <3>4, <4>1, Zenon
    <3>5. ASSUME u \in DOMAIN tracker PROVE tracker[u] \in 0 .. api'[u].gen
      <4>1. tracker[u] \in 0 .. api[u].gen
        BY <2>1, <3>5, Zenon DEF CopiesOK
      <4> QED
        BY <2>0, <3>1, <3>2, <4>1 DEF Older, IsSlice
    <3> QED
      BY <3>3, <3>4, <3>5, Zenon
  <2>2. CASE u \notin DOMAIN api
    <3>1. u \in FreshIds
      BY <2>2, Zenon DEF Writes, Ages
    <3>2. u \notin DOMAIN cache /\ u \notin DOMAIN tracker /\ \A i \in DOMAIN stream : stream[i].id # u
      BY <3>1, Zenon DEF FreshIds
    <3> QED
      BY <1>3, <2>0, <3>2, Zenon
  <2> QED
    BY <2>1, <2>2, Zenon
<1>8. CopiesOK'
  BY <1>7, Zenon DEF CopiesOK
<1> QED
  BY <1>6, <1>8, Zenon

(* The worker's record before a run and after it. *)
LEMMA IdleFields ==
    /\ DOMAIN Idle = WorkerFields /\ Idle.pc = "idle" /\ Idle.todo = {} /\ DOMAIN Idle.pods = {}
    /\ DOMAIN Idle.slices = {} /\ Idle.legacy = {} /\ Idle.track = NoTrack /\ Idle.plan = NoPlan
    /\ NoTrack.id = NoId /\ DOMAIN NoPlan = PlanFields
    /\ NoPlan.create = {} /\ DOMAIN NoPlan.update = {} /\ NoPlan.delete = {}
BY DEF Idle, NoTrack, NoPlan, WorkerFields, PlanFields

(* The worker that goes on, or stops. *)
LEMMA OnwardWorker ==
    ASSUME WorldOK, WorkerOK, PlanOK, Later, Onward
    PROVE  WorkerOK' /\ PlanOK'
<1>1. CASE worker' = worker
  <2>1. ProperIn(worker'.slices, lastUid')
    BY <1>1, ProperInStays, Zenon DEF WorkerOK
  <2>2. worker.pc # "idle" => worker.svc.uid \in 1 .. lastUid'
    BY DEF WorkerOK, Later, WorldOK
  <2>3. WorkerOK'
    BY <1>1, <2>1, <2>2, Zenon DEF WorkerOK
  <2>4. PlanOK'
    BY <1>1, Zenon DEF PlanOK, PlanOf
  <2> QED
    BY <2>3, <2>4, Zenon
<1>2. CASE worker' = Idle
  <2>1. WorkerOK'
    BY <1>2, IdleFields, Zenon DEF WorkerOK, ProperIn
  <2>2. PlanOK'
    BY <1>2, IdleFields, Zenon DEF PlanOK
  <2> QED
    BY <2>1, <2>2, Zenon
<1>3. CASE GoesOn
  <2>1. ProperIn(worker'.slices, lastUid')
    BY <1>3, ProperInStays, Zenon DEF WorkerOK, GoesOn
  <2>2. worker'.svc.uid \in 1 .. lastUid' /\ IsService(worker'.svc)
    <3>1. worker.svc.uid \in 1 .. lastUid /\ IsService(worker.svc) /\ worker'.svc = worker.svc
      BY <1>3, Zenon DEF WorkerOK, GoesOn
    <3> QED
      BY <3>1 DEF Later, WorldOK
  <2>3. worker'.pc \in {"plan", "apply", "track"} /\ worker'.pc # "idle"
    BY <1>3, Zenon DEF GoesOn
  <2>4. WorkerOK'
    BY <1>3, <2>1, <2>2, <2>3, Zenon DEF WorkerOK, GoesOn
  <2>5. worker'.pc \in {"idle", "plan"} => worker'.plan = NoPlan
    BY <1>3, <2>3, Zenon DEF GoesOn
  <2>6. worker'.plan.delete \subseteq DOMAIN worker'.slices
    BY <1>3, Zenon DEF GoesOn, Lesser, PlanOK
  <2>7. DOMAIN worker'.plan = PlanFields /\ worker'.todo = worker.todo
    BY <1>3, Zenon DEF GoesOn, Lesser
  <2>8. CASE worker.pc = "plan"
    <3>1. worker'.plan.create = {} /\ DOMAIN worker'.plan.update = {}
      <4>1. worker.plan = NoPlan
        BY <2>8, Zenon DEF PlanOK
      <4> QED
        BY <1>3, <4>1, IdleFields, Zenon DEF GoesOn, Lesser
    <3>2. \A t : PlanOf(t)'
      BY <3>1, Zenon DEF PlanOf
    <3>3. worker'.pc # "plan" => "IPv4" \in AddressTypes \ worker'.todo
      BY <1>3, <2>8, Zenon DEF GoesOn, AddressTypes
    <3> QED
      BY <2>4, <2>5, <2>6, <2>7, <3>2, <3>3, Zenon DEF PlanOK
  <2>9. CASE worker.pc \in {"apply", "track"}
    <3>1. PICK t \in AddressTypes \ worker.todo : PlanOf(t)
      BY <2>9, Zenon DEF PlanOK
    <3>2. PlanOf(t)'
      BY <1>3, <3>1, Zenon DEF PlanOf, GoesOn, Lesser
    <3> QED
      BY <2>4, <2>5, <2>6, <2>7, <3>1, <3>2, Zenon DEF PlanOK
  <2>10. worker.pc = "plan" \/ worker.pc \in {"apply", "track"}
    BY <1>3, Zenon DEF WorkerOK, GoesOn
  <2> QED
    BY <2>4, <2>8, <2>9, <2>10, Zenon
<1> QED
  BY <1>1, <1>2, <1>3, Zenon DEF Onward

(* What the worker holds while the API server writes. *)
LEMMA OnwardHeld ==
    ASSUME WorldOK, SlicesOK, HeldOK, WorkerOK, Onward, Ages, ProperIn(api', lastUid')
    PROVE  HeldOK'
<1> SUFFICES ASSUME NEW u \in DOMAIN api'
             PROVE  /\ u \in DOMAIN worker'.slices => Older(worker'.slices[u], api'[u])
                    /\ worker'.track.id = u => worker'.track.gen \in 0 .. api'[u].gen
                    /\ worker'.pc # "idle" => api'[u].owner <= worker'.svc.uid
  BY Zenon DEF HeldOK
<1>1. u \in SliceId /\ IsSlice(api'[u]) /\ u # NoId
  BY SliceIdAssumption, Zenon DEF ProperIn, Proper
<1>2. ASSUME u \in DOMAIN worker.slices PROVE Older(worker.slices[u], api'[u])
  <2>1. CASE u \in DOMAIN api
    <3>1. Older(worker.slices[u], api[u]) /\ Older(api[u], api'[u])
      BY <1>2, <2>1, Zenon DEF HeldOK, Ages
    <3>2. IsSlice(api[u]) /\ IsSlice(worker.slices[u])
      BY <1>2, <2>1, Zenon DEF SlicesOK, WorkerOK, ProperIn, Proper
    <3> QED
      BY <1>1, <3>1, <3>2, OlderTransitive, Zenon
  <2>2. CASE u \notin DOMAIN api
    <3>1. u \in FreshIds
      BY <2>2, Zenon DEF Ages
    <3> QED
      BY <1>2, <3>1, Zenon DEF FreshIds
  <2> QED
    BY <2>1, <2>2, Zenon
<1>3. ASSUME worker.track.id = u PROVE worker.track.gen \in 0 .. api'[u].gen
  <2>1. CASE u \in DOMAIN api
    <3>1. worker.track.gen \in 0 .. api[u].gen /\ Older(api[u], api'[u])
      BY <1>3, <2>1, Zenon DEF HeldOK, Ages
    <3>2. IsSlice(api[u])
      BY <1>2, <2>1, Zenon DEF SlicesOK, ProperIn, Proper
    <3> QED
      BY <1>1, <3>1, <3>2 DEF Older, IsSlice
  <2>2. CASE u \notin DOMAIN api
    <3>1. u \in FreshIds
      BY <2>2, Zenon DEF Ages
    <3> QED
      BY <1>3, <3>1, Zenon DEF FreshIds
  <2> QED
    BY <2>1, <2>2, Zenon
<1>4. ASSUME worker.pc # "idle" PROVE api'[u].owner <= worker.svc.uid
  <2>1. CASE u \in DOMAIN api
    BY <1>4, <2>1, Zenon DEF HeldOK, Ages, Older
  <2>2. CASE u \notin DOMAIN api
    <3>1. api'[u].owner = worker.svc.uid
      BY <2>2, Zenon DEF Ages
    <3> QED
      BY <1>1, <3>1 DEF IsSlice
  <2> QED
    BY <2>1, <2>2, Zenon
<1>5. CASE worker' = worker
  BY <1>2, <1>3, <1>4, <1>5, Zenon
<1>6. CASE worker' = Idle
  BY <1>1, <1>6, IdleFields, Zenon
<1>7. CASE GoesOn
  <2>1. worker'.track.id = u => worker'.track.gen \in 0 .. api'[u].gen
    <3>1. NoTrack.id # u
      BY <1>1, IdleFields, Zenon
    <3> QED
      BY <1>7, <3>1, Zenon DEF GoesOn
  <2> QED
    BY <1>2, <1>4, <1>7, <2>1, Zenon DEF GoesOn
<1> QED
  BY <1>5, <1>6, <1>7, Zenon DEF Onward

(* A step that leaves cache and tracker alone. *)
LEMMA PlainStep ==
    ASSUME Inv1, WorldOK', Later, Writes, Onward, UNCHANGED <<cache, tracker>>
    PROVE  Inv1'
<1>1. SlicesOK' /\ CopiesOK'
  BY WritesCopies, Zenon DEF Inv1
<1>2. WorkerOK' /\ PlanOK'
  BY OnwardWorker, Zenon DEF Inv1
<1>3. HeldOK'
  BY OnwardHeld, Zenon DEF Inv1, Writes
<1> QED
  BY <1>1, <1>2, <1>3, Zenon DEF Inv1

(* A slice is a version of itself. *)
LEMMA OlderItself == ASSUME NEW s, IsSlice(s) PROVE Older(s, s)
BY DEF Older, IsSlice

(* Nothing is written. *)
LEMMA StillWrites ==
    ASSUME Inv1, Later, UNCHANGED <<api, stream>>
    PROVE  Writes
<1>1. Ages
  BY OlderItself, Zenon DEF Ages, Inv1, SlicesOK, ProperIn, Proper
<1>2. ProperIn(api', lastUid')
  BY ProperInStays, Zenon DEF Inv1, SlicesOK
<1> QED
  BY <1>1, <1>2, Zenon DEF Writes

(* A slice is deleted. *)
LEMMA DropWrites ==
    ASSUME Inv1, NEW u \in DOMAIN api, DropSlice(u), UNCHANGED lastUid
    PROVE  Writes
<1>1. DOMAIN api' = DOMAIN api \ {u} /\ \A v \in DOMAIN api \ {u} : api'[v] = api[v]
  BY WithoutFacts, Zenon DEF DropSlice
<1>2. Ages
  BY <1>1, OlderItself, Zenon DEF Ages, Inv1, SlicesOK, ProperIn, Proper
<1>3. ProperIn(api', lastUid') /\ u \in SliceId
  BY <1>1, Zenon DEF Inv1, SlicesOK, ProperIn
<1>4. Emits(u)
  BY <1>1, Zenon DEF DropSlice, Emit, Emits
<1> QED
  BY <1>2, <1>3, <1>4, Zenon DEF Writes

(* A slice is stored again. *)
LEMMA StoreWrites ==
    ASSUME Inv1, NEW u \in DOMAIN api, NEW s, Proper(s, lastUid), Older(api[u], s),
           api' = With(api, u, s), Emit(u, api'[u]), UNCHANGED lastUid
    PROVE  Writes
<1>1. DOMAIN api' = DOMAIN api /\ api'[u] = s /\ \A v \in DOMAIN api \ {u} : api'[v] = api[v]
  BY Zenon DEF With
<1>2. \A v \in DOMAIN api : v \in SliceId /\ Proper(api[v], lastUid) /\ IsSlice(api[v])
  BY Zenon DEF Inv1, SlicesOK, ProperIn, Proper
<1>3. Ages
  BY <1>1, <1>2, OlderItself, Zenon DEF Ages
<1>4. ProperIn(api', lastUid') /\ u \in SliceId
  BY <1>1, <1>2, Zenon DEF ProperIn
<1>5. Emits(u)
  BY <1>1, Zenon DEF Emit, Emits
<1> QED
  BY <1>3, <1>4, <1>5, Zenon DEF Writes

\* A slice that may be written over old.
Rewrite(old, new) ==
    /\ DOMAIN new = SliceFields /\ new.owner = old.owner /\ new.type = old.type
    /\ Fits(new.eps) /\ \A e \in new.eps : IsEndpoint(e)

(* What the API server stores for a write. *)
LEMMA StoredFacts ==
    ASSUME NEW old, NEW n, Proper(old, n), NEW new, Rewrite(old, new), NEW s, s = Stored(old, new)
    PROVE  /\ Proper(s, n) /\ Older(old, s) /\ s.eps = new.eps /\ s.ports = new.ports
           /\ s.gen = old.gen => new.eps = old.eps /\ new.ports = old.ports
           /\ s.dying = old.dying
<1>1. /\ DOMAIN s = SliceFields /\ s.owner = old.owner /\ s.type = old.type /\ s.eps = new.eps
      /\ s.ports = new.ports /\ s.dying = old.dying /\ s.rv = old.rv + 1
      /\ s.gen = IF new.eps = old.eps /\ new.ports = old.ports THEN old.gen ELSE old.gen + 1
  BY DEF Stored, Rewrite, SliceFields
<1>2. IsSlice(old) /\ old.gen \in Nat /\ old.rv \in Nat
  BY Zenon DEF Proper, IsSlice
<1>3. s.rv \in Nat /\ s.gen \in Nat /\ old.gen <= s.gen
      /\ (s.gen = old.gen => new.eps = old.eps /\ new.ports = old.ports)
  BY <1>1, <1>2
<1>4. IsSlice(s)
  BY <1>1, <1>2, <1>3, Zenon DEF IsSlice
<1>5. Proper(s, n)
  BY <1>1, <1>4, Zenon DEF Proper, Rewrite
<1>6. Older(old, s)
  BY <1>1, <1>3, Zenon DEF Older
<1> QED
  BY <1>1, <1>3, <1>5, <1>6, Zenon

(* An Update of the API server is a write. *)
LEMMA PutWrites ==
    ASSUME Inv1, NEW u \in DOMAIN api, NEW new, Rewrite(api[u], new), PutSlice(u, new), UNCHANGED lastUid
    PROVE  Writes
<1>1. CASE UNCHANGED store
  <2>1. Later
    BY DEF Later, Inv1, WorldOK
  <2> QED
    BY <1>1, <2>1, StillWrites, Zenon DEF store
<1>2. CASE api' = With(api, u, Stored(api[u], new)) /\ Emit(u, api'[u])
  <2> DEFINE s == Stored(api[u], new)
  <2>1. Proper(api[u], lastUid)
    BY Zenon DEF Inv1, SlicesOK, ProperIn
  <2>2. Proper(s, lastUid) /\ Older(api[u], s)
    BY <2>1, StoredFacts, Zenon
  <2>3. api' = With(api, u, s)
    BY <1>2, Zenon
  <2> HIDE DEF s
  <2> QED
    BY <1>2, <2>2, <2>3, StoreWrites, Zenon
<1> QED
  BY <1>1, <1>2, Zenon DEF PutSlice

(* A new slice of the worker's Service. *)
LEMMA CreateWrites ==
    ASSUME Inv1, worker.pc # "idle", NEW u \in FreshIds, NEW s, Proper(s, lastUid),
           s.owner = worker.svc.uid,
           api' = With(api, u, s), Emit(u, s), UNCHANGED lastUid
    PROVE  Writes
<1>1. DOMAIN api' = DOMAIN api \cup {u} /\ api'[u] = s /\ \A v \in DOMAIN api \ {u} : api'[v] = api[v]
  BY Zenon DEF With
<1>2. \A v \in DOMAIN api : v \in SliceId /\ Proper(api[v], lastUid) /\ IsSlice(api[v])
  BY Zenon DEF Inv1, SlicesOK, ProperIn, Proper
<1>3. u \in SliceId /\ u \notin DOMAIN api
  BY Zenon DEF FreshIds
<1>4. Ages
  BY <1>1, <1>2, <1>3, OlderItself, Zenon DEF Ages
<1>5. ProperIn(api', lastUid')
  BY <1>1, <1>2, <1>3, Zenon DEF ProperIn
<1>6. Emits(u)
  BY <1>1, Zenon DEF Emit, Emits
<1> QED
  BY <1>3, <1>4, <1>5, <1>6, Zenon DEF Writes

-----------------------------------------------------------------------------
(* The worker's record.                                                    *)

(* A plan is a part of itself. *)
LEMMA LesserItself ==
    ASSUME NEW p, DOMAIN p = PlanFields
    PROVE  Lesser(p, p)
BY Zenon DEF Lesser

(* No plan is a part of any. *)
LEMMA NoPlanLesser == ASSUME NEW p PROVE Lesser(NoPlan, p)
BY IdleFields, Zenon DEF Lesser

(* A call that failed, a namespace that is being deleted, an address type that is done. *)
LEMMA BackToPlan ==
    ASSUME Inv1, worker.pc = "apply", NEW err,
           worker' = [worker EXCEPT !.pc = "plan", !.plan = NoPlan, !.err = err]
    PROVE  GoesOn /\ worker'.track = NoTrack
<1>1. DOMAIN worker = WorkerFields /\ worker.track = NoTrack
  BY Zenon DEF Inv1, WorkerOK
<1>2. /\ DOMAIN worker' = WorkerFields /\ worker'.pc = "plan" /\ worker'.plan = NoPlan
      /\ worker'.svc = worker.svc /\ worker'.pods = worker.pods /\ worker'.slices = worker.slices
      /\ worker'.todo = worker.todo /\ worker'.legacy = worker.legacy /\ worker'.track = worker.track
  BY <1>1 DEF WorkerFields
<1> QED
  BY <1>1, <1>2, NoPlanLesser, Zenon DEF GoesOn

(* The worker leaves its plan; nothing is left to track. *)
LEMMA BackToPlanQuietly ==
    ASSUME Inv1, worker.pc = "apply",
           worker' = [worker EXCEPT !.pc = "plan", !.plan = NoPlan]
    PROVE  GoesOn /\ worker'.track = NoTrack
<1>1. DOMAIN worker = WorkerFields /\ worker.track = NoTrack
  BY Zenon DEF Inv1, WorkerOK
<1>2. /\ DOMAIN worker' = WorkerFields /\ worker'.pc = "plan" /\ worker'.plan = NoPlan
      /\ worker'.svc = worker.svc /\ worker'.pods = worker.pods /\ worker'.slices = worker.slices
      /\ worker'.todo = worker.todo /\ worker'.legacy = worker.legacy /\ worker'.track = worker.track
  BY <1>1 DEF WorkerFields
<1> QED
  BY <1>1, <1>2, NoPlanLesser, Zenon DEF GoesOn

(* After a failed call the worker drops the plan. *)
LEMMA FailedGoesOn == ASSUME Inv1, worker.pc = "apply", Failed PROVE GoesOn /\ worker'.track = NoTrack
BY BackToPlan, Zenon DEF Failed

(* A call that was answered. *)
LEMMA AnsweredGoesOn ==
    ASSUME Inv1, worker.pc = "apply", NEW id \in SliceId, NEW gen \in Nat \cup {-1}, NEW plan,
           Lesser(plan, worker.plan), id \in DOMAIN api' => gen \in 0 .. api'[id].gen,
           Answered(id, gen, plan)
    PROVE  /\ GoesOn /\ worker'.plan = plan /\ worker'.pc = "track"
           /\ worker'.track.id = id /\ worker'.track.gen = gen
<1>1. DOMAIN worker = WorkerFields
  BY Zenon DEF Inv1, WorkerOK
<1>2. /\ DOMAIN worker' = WorkerFields /\ worker'.pc = "track" /\ worker'.plan = plan
      /\ worker'.svc = worker.svc /\ worker'.pods = worker.pods /\ worker'.slices = worker.slices
      /\ worker'.todo = worker.todo /\ worker'.legacy = worker.legacy
      /\ worker'.track.id = id /\ worker'.track.gen = gen
  BY <1>1 DEF WorkerFields, Answered
<1> QED
  BY <1>2, Zenon DEF GoesOn

(* The tracker was told. *)
LEMMA TrackGoesOn ==
    ASSUME Inv1, Track
    PROVE  GoesOn /\ worker'.plan = worker.plan
<1>1. DOMAIN worker = WorkerFields /\ worker.pc = "track" /\ DOMAIN worker.plan = PlanFields
  BY Zenon DEF Inv1, WorkerOK, PlanOK, Track
<1>2. /\ DOMAIN worker' = WorkerFields /\ worker'.pc = "apply" /\ worker'.plan = worker.plan
      /\ worker'.svc = worker.svc /\ worker'.pods = worker.pods /\ worker'.slices = worker.slices
      /\ worker'.todo = worker.todo /\ worker'.legacy = worker.legacy /\ worker'.track = NoTrack
  BY <1>1 DEF WorkerFields, Track
<1> QED
  BY <1>1, <1>2, LesserItself, Zenon DEF GoesOn

(* The last loop of Reconcile. *)
LEMMA LegacyGoesOn ==
    ASSUME Inv1, NEW u \in worker.legacy, DeleteLegacy(u)
    PROVE  GoesOn /\ (worker'.track.id = u \/ worker'.track = NoTrack)
<1>1. /\ DOMAIN worker = WorkerFields /\ worker.pc = "plan" /\ worker.track = NoTrack
      /\ DOMAIN worker.plan = PlanFields /\ u \in SliceId /\ worker.todo = {} /\ worker.plan = NoPlan
  BY Zenon DEF Inv1, WorkerOK, PlanOK, ProperIn, DeleteLegacy
<1>2. CASE /\ u \in DOMAIN api /\ DropSlice(u)
           /\ worker' = [worker EXCEPT !.pc = "track", !.legacy = @ \ {u},
                                       !.track = [id |-> u, gen |-> deletionExpected]]
  <2>1. /\ DOMAIN worker' = WorkerFields /\ worker'.pc = "track" /\ worker'.plan = worker.plan
        /\ worker'.svc = worker.svc /\ worker'.pods = worker.pods /\ worker'.slices = worker.slices
        /\ worker'.todo = worker.todo /\ worker'.legacy \subseteq worker.legacy
        /\ worker'.track.id = u /\ worker'.track.gen = -1
    BY <1>1, <1>2 DEF WorkerFields, deletionExpected
  <2>2. u \notin DOMAIN api'
    BY <1>2, WithoutFacts, Zenon DEF DropSlice
  <2> QED
    BY <1>1, <2>1, <2>2, LesserItself, Zenon DEF GoesOn
<1>3. CASE worker' = [worker EXCEPT !.legacy = @ \ {u}, !.err = TRUE]
  <2>1. /\ DOMAIN worker' = WorkerFields /\ worker'.pc = worker.pc /\ worker'.plan = worker.plan
        /\ worker'.svc = worker.svc /\ worker'.pods = worker.pods /\ worker'.slices = worker.slices
        /\ worker'.todo = worker.todo /\ worker'.legacy \subseteq worker.legacy
        /\ worker'.track = worker.track
    BY <1>1, <1>3 DEF WorkerFields
  <2> QED
    BY <1>1, <2>1, LesserItself, Zenon DEF GoesOn
<1> QED
  BY <1>2, <1>3, Zenon DEF DeleteLegacy

-----------------------------------------------------------------------------
(* The first invariant, action by action.                                  *)

\* What the proofs need of SetNodes.
ZonesCounted == \A f : DOMAIN f \subseteq Node => ZonesKnown(SetNodes(f))

(* A step that leaves Service, pods and nodes alone. *)
LEMMA SameWorld ==
    ASSUME Inv1, UNCHANGED env, UNCHANGED cpus, queue' \in BOOLEAN, retries' \in 0 .. MaxRetries,
           budget' \in 0 .. MaxDisturbances, lost' \in BOOLEAN
    PROVE  WorldOK' /\ Later
<1>1. lastUid' = lastUid /\ lastUid \in 1 .. MaxUid
  BY Zenon DEF Inv1, WorldOK, env
<1>2. Later
  BY <1>1, BoundAssumption DEF Later
<1>3. WorldOK'
  BY <1>1, Zenon DEF Inv1, WorldOK, env
<1> QED
  BY <1>2, <1>3, Zenon

(* A disturbance leaves a number of them. *)
LEMMA BudgetTyped ==
    ASSUME Inv1, NEW kind, Disturb(kind) \/ Fault(kind)
    PROVE  budget' \in 0 .. MaxDisturbances
BY BoundAssumption DEF Inv1, WorldOK, Disturb, Fault

(* The world around the controller. *)
LEMMA WorldTyped ==
    ASSUME Inv1
    PROVE  /\ queue \in BOOLEAN /\ retries \in 0 .. MaxRetries /\ 0 \in 0 .. MaxRetries
           /\ budget \in 0 .. MaxDisturbances /\ lost \in BOOLEAN
BY BoundAssumption DEF Inv1, WorldOK

(* An external write of a slice. *)
LEMMA Inv1External ==
    ASSUME Inv1, Fits({}), NEW u \in DOMAIN api,
           ExternalDelete(u) \/ ExternalClear(u) \/ ExternalMark(u) \/ FinalizerRemoved(u) \/ GarbageCollect(u)
    PROVE  Inv1'
<1>1. /\ UNCHANGED env /\ UNCHANGED topo /\ UNCHANGED <<cache, tracker, queue, retries, worker, lost>>
      /\ budget' = budget \/ \E kind : Disturb(kind)
  BY Zenon DEF ExternalDelete, ExternalClear, ExternalMark, FinalizerRemoved, GarbageCollect
<1>2. budget' \in 0 .. MaxDisturbances
  BY <1>1, BudgetTyped, WorldTyped, Zenon
<1>3. WorldOK' /\ Later
  BY <1>1, <1>2, SameWorld, WorldTyped, Zenon DEF topo
<1>4. UNCHANGED lastUid
  BY <1>1, Zenon DEF env
<1>5. Proper(api[u], lastUid)
  BY Zenon DEF Inv1, SlicesOK, ProperIn
<1>6. Writes
  <2>1. CASE DropSlice(u)
    BY <1>4, <2>1, DropWrites, Zenon
  <2>2. CASE ExternalClear(u)
    <3> DEFINE new == [api[u] EXCEPT !.eps = {}]
    <3>1. DOMAIN new = SliceFields /\ new.owner = api[u].owner /\ new.type = api[u].type /\ new.eps = {}
      BY <1>5 DEF Proper, IsSlice, SliceFields
    <3>3. PutSlice(u, new)
      BY <2>2, Zenon DEF ExternalClear
    <3> HIDE DEF new
    <3>4. Rewrite(api[u], new)
      BY <3>1, Zenon DEF Rewrite
    <3> QED
      BY <1>4, <3>3, <3>4, PutWrites, Zenon
  <2>3. CASE ExternalMark(u)
    <3> DEFINE s == [api[u] EXCEPT !.dying = TRUE, !.gen = @ + 1, !.rv = @ + 1]
    <3>1. api' = [api EXCEPT ![u] = s] /\ Emit(u, api'[u])
      BY <2>3 DEF ExternalMark
    <3>2. /\ DOMAIN s = SliceFields /\ s.owner = api[u].owner /\ s.type = api[u].type /\ s.eps = api[u].eps
          /\ s.dying = TRUE /\ s.gen = api[u].gen + 1 /\ s.rv = api[u].rv + 1
      BY <1>5 DEF Proper, IsSlice, SliceFields
    <3> HIDE DEF s
    <3>3. api[u].gen \in Nat /\ api[u].rv \in Nat
      BY <1>5, Zenon DEF Proper, IsSlice
    <3>4. s.gen \in Nat /\ s.rv \in Nat /\ api[u].gen <= s.gen
      BY <3>2, <3>3
    <3>5. IsSlice(s)
      BY <1>5, <3>2, <3>4, Zenon DEF Proper, IsSlice
    <3>6. Proper(s, lastUid) /\ Older(api[u], s)
      BY <1>5, <3>2, <3>4, <3>5, Zenon DEF Proper, Older
    <3>7. DOMAIN api' = DOMAIN api /\ api'[u] = s /\ \A v \in DOMAIN api \ {u} : api'[v] = api[v]
      BY <3>1, Zenon
    <3>8. \A v \in DOMAIN api : v \in SliceId /\ Proper(api[v], lastUid) /\ IsSlice(api[v])
      BY Zenon DEF Inv1, SlicesOK, ProperIn, Proper
    <3>9. Ages
      BY <3>6, <3>7, <3>8, OlderItself, Zenon DEF Ages
    <3>10. ProperIn(api', lastUid') /\ u \in SliceId
      BY <1>4, <3>6, <3>7, <3>8, Zenon DEF ProperIn
    <3>11. Emits(u)
      BY <3>1, <3>7, Zenon DEF Emit, Emits
    <3> QED
      BY <3>9, <3>10, <3>11, Zenon DEF Writes
  <2> QED
    BY <2>1, <2>2, <2>3, Zenon DEF ExternalDelete, FinalizerRemoved, GarbageCollect
<1> QED
  BY <1>1, <1>3, <1>6, PlainStep, Zenon DEF Onward

(* Events of the Service, the pods and the nodes. *)
LEMMA Inv1Service ==
    ASSUME Inv1, ServiceGoes \/ Resync \/ \E s \in ServiceStates : ServiceComes(s) \/ ServiceChanges(s)
    PROVE  Inv1'
<1>1. /\ UNCHANGED <<pods, nodes, topo, store, cache, tracker, retries, worker, lost>>
      /\ queue' = TRUE
      /\ budget' = budget \/ \E kind : Disturb(kind)
  BY Zenon DEF ServiceGoes, Resync, ServiceComes, ServiceChanges, env
<1>2. budget' \in 0 .. MaxDisturbances
  BY <1>1, BudgetTyped, WorldTyped, Zenon
<1>3. /\ lastUid' \in 1 .. MaxUid /\ Later
      /\ svc' = NoObject \/ (IsService(svc') /\ svc'.uid = lastUid')
  <2>0. lastUid \in 1 .. MaxUid
    BY Zenon DEF Inv1, WorldOK
  <2>1. CASE ServiceGoes
    BY <2>0, <2>1, BoundAssumption DEF ServiceGoes, Later
  <2>2. CASE Resync
    BY <2>0, <2>2, BoundAssumption DEF Resync, Later, env, Inv1, WorldOK
  <2>3. ASSUME NEW s \in ServiceStates, ServiceComes(s)
        PROVE  lastUid' \in 1 .. MaxUid /\ Later /\ IsService(svc') /\ svc'.uid = lastUid'
    <3>1. IsService(s)
      BY ServiceAssumption, Zenon
    <3>2. lastUid' \in 1 .. MaxUid /\ Later
      BY <2>0, <2>3, BoundAssumption DEF ServiceComes, Later
    <3>3. svc' = [s EXCEPT !.uid = lastUid']
      BY <2>3, Zenon DEF ServiceComes
    <3>4. DOMAIN svc' = DOMAIN s /\ svc'.uid = lastUid' /\ svc'.dying = s.dying
          /\ svc'.families = s.families /\ svc'.clusterIP = s.clusterIP
      BY <3>1, <3>3 DEF IsService
    <3> QED
      BY <3>1, <3>2, <3>4, Zenon DEF IsService
  <2>4. ASSUME NEW s \in ServiceStates, ServiceChanges(s)
        PROVE  lastUid' \in 1 .. MaxUid /\ Later /\ IsService(svc') /\ svc'.uid = lastUid'
    <3>1. IsService(s) /\ IsService(svc) /\ svc.uid = lastUid
      BY <2>4, ServiceAssumption, Zenon DEF ServiceChanges, Inv1, WorldOK
    <3>2. lastUid' \in 1 .. MaxUid /\ Later /\ lastUid' = lastUid
      <4>1. lastUid' = lastUid
        BY <2>4, Zenon DEF ServiceChanges
      <4> QED
        BY <2>0, <4>1, BoundAssumption DEF Later
    <3>3. svc' = [s EXCEPT !.uid = svc.uid, !.dying = svc.dying \/ s.dying]
      BY <2>4 DEF ServiceChanges
    <3>4. DOMAIN svc' = DOMAIN s /\ svc'.uid = svc.uid /\ svc'.dying = (svc.dying \/ s.dying)
          /\ svc'.families = s.families /\ svc'.clusterIP = s.clusterIP
      BY <3>1, <3>3 DEF IsService
    <3> QED
      BY <3>1, <3>2, <3>4, Zenon DEF IsService
  <2> QED
    BY <2>1, <2>2, <2>3, <2>4, Zenon
<1>4. WorldOK'
  <2>1. queue' \in BOOLEAN
    BY <1>1, Zenon
  <2> QED
    BY <1>1, <1>2, <1>3, <2>1, Zenon DEF Inv1, WorldOK, topo
<1>5. Writes
  BY <1>1, <1>3, StillWrites, Zenon DEF store
<1> QED
  BY <1>1, <1>3, <1>4, <1>5, PlainStep, Zenon DEF Onward

(* The pods (addPod, updatePod, deletePod). *)
LEMMA Inv1Pods ==
    ASSUME Inv1, NEW p \in Pod,
           \/ \E s \in PodStates[p] : PodComes(p, s)
           \/ p \in DOMAIN pods /\ (PodGoes(p) \/ \E s \in PodStates[p] : PodChanges(p, s))
    PROVE  Inv1'
<1>1. /\ UNCHANGED <<svc, nodes, lastUid, topo, store, cache, tracker, retries, worker, lost>>
      /\ \E kind : Disturb(kind)
      /\ \E q : queue' = (queue \/ q)
  BY Zenon DEF PodComes, PodGoes, PodChanges
<1>2. budget' \in 0 .. MaxDisturbances /\ queue' \in BOOLEAN
  BY <1>1, BudgetTyped, Zenon
<1>3. DOMAIN pods \subseteq Pod /\ \A q \in DOMAIN pods : pods[q] \in PodStates[q]
  BY Zenon DEF Inv1, WorldOK
<1>4. DOMAIN pods' \subseteq Pod /\ \A q \in DOMAIN pods' : pods'[q] \in PodStates[q]
  <2>1. ASSUME NEW s \in PodStates[p], PodComes(p, s)
        PROVE  DOMAIN pods' \subseteq Pod /\ \A q \in DOMAIN pods' : pods'[q] \in PodStates[q]
    <3>1. pods' = With(pods, p, s)
      BY <2>1, Zenon DEF PodComes
    <3> QED
      BY <1>3, <3>1, Zenon DEF With
  <2>2. CASE PodGoes(p)
    <3>1. pods' = Without(pods, p)
      BY <2>2, Zenon DEF PodGoes
    <3> QED
      BY <1>3, <3>1, WithoutFacts, Zenon
  <2>3. ASSUME p \in DOMAIN pods, NEW s \in PodStates[p], PodChanges(p, s)
        PROVE  DOMAIN pods' \subseteq Pod /\ \A q \in DOMAIN pods' : pods'[q] \in PodStates[q]
    <3>1. pods' = [pods EXCEPT ![p] = s]
      BY <2>3, Zenon DEF PodChanges
    <3> QED
      BY <1>3, <3>1, Zenon
  <2> QED
    BY <2>1, <2>2, <2>3, Zenon
<1>5. WorldOK' /\ Later
  <2>1. lastUid \in 1 .. MaxUid /\ lastUid' = lastUid
    BY <1>1, Zenon DEF Inv1, WorldOK
  <2>2. Later
    BY <2>1, BoundAssumption DEF Later
  <2>3. WorldOK'
    BY <1>1, <1>2, <1>4, Zenon DEF Inv1, WorldOK, topo
  <2> QED
    BY <2>2, <2>3, Zenon
<1>6. Writes
  BY <1>1, <1>5, StillWrites, Zenon DEF store
<1> QED
  BY <1>1, <1>5, <1>6, PlainStep, Zenon DEF Onward

(* The nodes (addNode, updateNode, deleteNode). *)
LEMMA Inv1Nodes ==
    ASSUME Inv1, ZonesCounted, NEW n \in Node,
           \/ NodeComesOrGoes(n)
           \/ n \in DOMAIN nodes /\ \E s \in NodeStates[n] : NodeChanges(n, s)
    PROVE  Inv1'
<1>1. /\ UNCHANGED <<svc, pods, lastUid, store, cache, tracker, retries, worker, lost>>
      /\ \E kind : Disturb(kind)
      /\ checkNodeTopologyDistribution \/ UNCHANGED <<cpus, queue>>
  BY Zenon DEF NodeComesOrGoes, NodeChanges
<1>2. DOMAIN nodes \subseteq Node /\ \A m \in DOMAIN nodes : nodes[m] \in NodeStates[m]
  BY Zenon DEF Inv1, WorldOK
<1>3. DOMAIN nodes' \subseteq Node /\ \A m \in DOMAIN nodes' : nodes'[m] \in NodeStates[m]
  <2>1. CASE nodes' = Without(nodes, n)
    BY <1>2, <2>1, WithoutFacts, Zenon
  <2>2. ASSUME NEW s \in NodeStates[n], nodes' = With(nodes, n, s)
        PROVE  DOMAIN nodes' \subseteq Node /\ \A m \in DOMAIN nodes' : nodes'[m] \in NodeStates[m]
    BY <1>2, <2>2, Zenon DEF With
  <2>3. ASSUME n \in DOMAIN nodes, NEW s \in NodeStates[n], nodes' = [nodes EXCEPT ![n] = s]
        PROVE  DOMAIN nodes' \subseteq Node /\ \A m \in DOMAIN nodes' : nodes'[m] \in NodeStates[m]
    BY <1>2, <2>3, Zenon
  <2> QED
    BY <2>1, <2>2, <2>3, Zenon DEF NodeComesOrGoes, NodeChanges
<1>4. ZonesKnown(cpus') /\ queue' \in BOOLEAN
  <2>1. CASE checkNodeTopologyDistribution
    <3>1. cpus' = SetNodes(nodes') /\ \E q : queue' = (queue \/ q)
      BY <2>1, Zenon DEF checkNodeTopologyDistribution
    <3> QED
      BY <1>3, <3>1, Zenon DEF ZonesCounted
  <2>2. CASE UNCHANGED <<cpus, queue>>
    BY <2>2, WorldTyped, Zenon DEF Inv1, WorldOK
  <2> QED
    BY <1>1, <2>1, <2>2, Zenon
<1>5. WorldOK' /\ Later
  <2>1. lastUid \in 1 .. MaxUid /\ lastUid' = lastUid
    BY <1>1, Zenon DEF Inv1, WorldOK
  <2>2. Later
    BY <2>1, BoundAssumption DEF Later
  <2>3. budget' \in 0 .. MaxDisturbances
    BY <1>1, BudgetTyped, Zenon
  <2>4. WorldOK'
    BY <1>1, <1>3, <1>4, <2>3, Zenon DEF Inv1, WorldOK
  <2> QED
    BY <2>2, <2>4, Zenon
<1>6. Writes
  BY <1>1, <1>5, StillWrites, Zenon DEF store
<1> QED
  BY <1>1, <1>5, <1>6, PlainStep, Zenon DEF Onward

(* handleErr: the retry budget is never exceeded. *)
LEMMA HandleErrTyped ==
    ASSUME Inv1, NEW err, NEW queued \in BOOLEAN, handleErr(err, queued)
    PROVE  worker' = Idle /\ queue' \in BOOLEAN /\ retries' \in 0 .. MaxRetries
<1>1. /\ worker' = Idle
      /\ \/ queue' = TRUE /\ retries' = retries + 1 /\ retries < MaxRetries
         \/ queue' = queued /\ retries' = 0
  BY Zenon DEF handleErr
<1>2. retries \in 0 .. MaxRetries
  BY WorldTyped, Zenon
<1>3. (retries' = retries + 1 /\ retries < MaxRetries) \/ retries' = 0
  BY <1>1, Zenon
<1>4. retries' \in 0 .. MaxRetries
  BY <1>2, <1>3, BoundAssumption
<1> QED
  BY <1>1, <1>4, Zenon

(* A run that ends before it begins, and one that ends. *)
LEMMA Inv1Ends ==
    ASSUME Inv1, SyncSkipped \/ SyncStale \/ SyncEnds
    PROVE  Inv1'
<1>1. /\ UNCHANGED env /\ UNCHANGED topo /\ UNCHANGED store
      /\ UNCHANGED <<cache, tracker, budget, lost>>
      /\ \E err : handleErr(err, FALSE) \/ handleErr(err, queue)
  BY Zenon DEF SyncSkipped, SyncStale, SyncEnds
<1>2. worker' = Idle /\ queue' \in BOOLEAN /\ retries' \in 0 .. MaxRetries
  BY <1>1, HandleErrTyped, WorldTyped, Zenon
<1>3. WorldOK' /\ Later
  BY <1>1, <1>2, SameWorld, WorldTyped, Zenon DEF topo
<1>4. Writes
  BY <1>1, <1>3, StillWrites, Zenon DEF store
<1> QED
  BY <1>1, <1>2, <1>3, <1>4, PlainStep, Zenon DEF Onward

(* SyncDeleted forgets what was tracked. *)
LEMMA Inv1SyncDeleted ==
    ASSUME Inv1, SyncDeleted
    PROVE  Inv1'
<1>1. /\ UNCHANGED env /\ UNCHANGED topo /\ UNCHANGED store
      /\ UNCHANGED <<cache, budget, lost>> /\ tracker' = << >> /\ handleErr(FALSE, FALSE)
  BY Zenon DEF SyncDeleted
<1>2. worker' = Idle /\ queue' \in BOOLEAN /\ retries' \in 0 .. MaxRetries
  BY <1>1, HandleErrTyped, Zenon
<1>3. WorldOK' /\ Later
  BY <1>1, <1>2, SameWorld, WorldTyped, Zenon DEF topo
<1>4. Writes
  BY <1>1, <1>3, StillWrites, Zenon DEF store
<1>5. WorkerOK' /\ PlanOK'
  BY <1>2, <1>3, OnwardWorker, Zenon DEF Inv1, Onward
<1>6. HeldOK'
  BY <1>2, <1>4, OnwardHeld, Zenon DEF Inv1, Onward, Writes
<1>7. DOMAIN tracker' = {} /\ lastUid' = lastUid
  BY <1>1, EmptyFacts, Zenon DEF env
<1>8. SlicesOK'
  BY <1>1, <1>7, Zenon DEF Inv1, SlicesOK, store
<1>9. CopiesOK'
  BY <1>1, <1>7, Zenon DEF Inv1, CopiesOK, store
<1> QED
  BY <1>3, <1>5, <1>6, <1>8, <1>9, Zenon DEF Inv1

(* The informer. *)
LEMMA Inv1Deliver ==
    ASSUME Inv1, Deliver
    PROVE  Inv1'
<1> DEFINE e == Head(stream)
<1>1. /\ UNCHANGED env /\ UNCHANGED topo /\ UNCHANGED <<api, retries, worker, budget, lost>>
      /\ stream # << >> /\ stream' = Tail(stream)
      /\ \E q : queue' = (queue \/ q)
      /\ \/ e.slice = NoObject /\ cache' = Without(cache, e.id) /\ tracker' = Without(tracker, e.id)
         \/ e.slice # NoObject /\ cache' = With(cache, e.id, e.slice) /\ tracker' = tracker
  BY Zenon DEF Deliver
<1>2. queue' \in BOOLEAN
  BY <1>1, Zenon
<1>3. WorldOK' /\ Later
  BY <1>1, <1>2, SameWorld, WorldTyped, Zenon DEF topo
<1>4. IsSeq(stream)
  BY Zenon DEF Inv1, SlicesOK
<1>5. /\ IsSeq(stream') /\ 1 \in DOMAIN stream /\ e = stream[1]
      /\ \A i \in DOMAIN stream' : i + 1 \in DOMAIN stream /\ stream'[i] = stream[i + 1]
  BY <1>1, <1>4, TailFacts, Zenon
<1>6. e.id \in SliceId /\ (e.slice = NoObject \/ Proper(e.slice, lastUid))
  BY <1>5, Zenon DEF Inv1, SlicesOK
<1>7. \A u \in DOMAIN api : e.id = u => e.slice # NoObject /\ Older(e.slice, api[u])
  BY <1>5, Zenon DEF Inv1, CopiesOK
<1> HIDE DEF e
<1>8. lastUid' = lastUid
  BY <1>1, Zenon DEF env
<1>9. WorkerOK' /\ PlanOK'
  BY <1>1, <1>3, OnwardWorker, Zenon DEF Inv1, Onward
<1>10. HeldOK'
  BY <1>1, Zenon DEF Inv1, HeldOK
<1>11. \A i \in DOMAIN stream' :
         stream'[i].id \in SliceId /\ (stream'[i].slice = NoObject \/ Proper(stream'[i].slice, lastUid))
  BY <1>5, Zenon DEF Inv1, SlicesOK
<1>12. \A u \in DOMAIN api : \A i \in DOMAIN stream' : stream'[i].id = u =>
         stream'[i].slice # NoObject /\ Older(stream'[i].slice, api[u])
  BY <1>5, Zenon DEF Inv1, CopiesOK
<1>13. CASE e.slice = NoObject /\ cache' = Without(cache, e.id) /\ tracker' = Without(tracker, e.id)
  <2>1. /\ DOMAIN cache' \subseteq DOMAIN cache /\ \A v \in DOMAIN cache' : cache'[v] = cache[v]
        /\ DOMAIN tracker' \subseteq DOMAIN tracker /\ \A v \in DOMAIN tracker' : tracker'[v] = tracker[v]
    BY <1>13, Zenon DEF Without, Restrict
  <2>2. SlicesOK'
    BY <1>1, <1>5, <1>8, <1>11, <2>1, Zenon DEF Inv1, SlicesOK, ProperIn
  <2>3. CopiesOK'
    BY <1>1, <1>12, <2>1, Zenon DEF Inv1, CopiesOK
  <2> QED
    BY <1>3, <1>9, <1>10, <2>2, <2>3, Zenon DEF Inv1
<1>14. CASE e.slice # NoObject /\ cache' = With(cache, e.id, e.slice) /\ tracker' = tracker
  <2>1. DOMAIN cache' = DOMAIN cache \cup {e.id} /\ cache'[e.id] = e.slice
        /\ \A v \in DOMAIN cache \ {e.id} : cache'[v] = cache[v]
    BY <1>14, Zenon DEF With
  <2>2. ProperIn(cache', lastUid)
    BY <1>6, <1>14, <2>1, Zenon DEF Inv1, SlicesOK, ProperIn
  <2>3. SlicesOK'
    BY <1>1, <1>5, <1>8, <1>11, <1>14, <2>2, Zenon DEF Inv1, SlicesOK
  <2>4. CopiesOK'
    BY <1>1, <1>7, <1>12, <1>14, <2>1, Zenon DEF Inv1, CopiesOK
  <2> QED
    BY <1>3, <1>9, <1>10, <2>3, <2>4, Zenon DEF Inv1
<1> QED
  BY <1>1, <1>13, <1>14, Zenon

(* The informer lists the slices again. *)
LEMMA Inv1Relist ==
    ASSUME Inv1, Relist
    PROVE  Inv1'
<1> DEFINE gone == DOMAIN cache \ DOMAIN api
<1>1. /\ UNCHANGED env /\ UNCHANGED topo /\ UNCHANGED <<api, retries, worker, lost>>
      /\ \E kind : Disturb(kind)
      /\ \E q, r : queue' = (queue \/ q \/ r)
      /\ tracker' = Restrict(tracker, DOMAIN tracker \ gone) /\ cache' = api /\ stream' = << >>
  BY Zenon DEF Relist
<1>2. queue' \in BOOLEAN /\ budget' \in 0 .. MaxDisturbances
  BY <1>1, BudgetTyped, Zenon
<1>3. WorldOK' /\ Later
  BY <1>1, <1>2, SameWorld, WorldTyped, Zenon DEF topo
<1>4. WorkerOK' /\ PlanOK'
  BY <1>1, <1>3, OnwardWorker, Zenon DEF Inv1, Onward
<1>5. HeldOK'
  BY <1>1, Zenon DEF Inv1, HeldOK
<1>6. IsSeq(stream') /\ DOMAIN stream' = {} /\ lastUid' = lastUid
  BY <1>1, EmptyFacts, Zenon DEF env
<1>7. DOMAIN tracker' \subseteq DOMAIN tracker /\ \A v \in DOMAIN tracker' : tracker'[v] = tracker[v]
  BY <1>1, Zenon DEF Restrict
<1>8. SlicesOK'
  BY <1>1, <1>6, <1>7, Zenon DEF Inv1, SlicesOK
<1>9. \A u \in DOMAIN api : Older(api[u], api[u])
  BY OlderItself, Zenon DEF Inv1, SlicesOK, ProperIn, Proper
<1>10. CopiesOK'
  BY <1>1, <1>6, <1>7, <1>9, Zenon DEF Inv1, CopiesOK
<1> QED
  BY <1>3, <1>4, <1>5, <1>8, <1>10, Zenon DEF Inv1

(* The process starts again: cache, tracker and topology cache are new. *)
LEMMA Inv1Restart ==
    ASSUME Inv1, ZonesCounted, Restart
    PROVE  Inv1'
<1>1. /\ UNCHANGED env /\ UNCHANGED <<api, lost>> /\ \E kind : Disturb(kind)
      /\ queue' = (svc # NoObject \/ api # << >>) /\ retries' = 0 /\ worker' = Idle
      /\ tracker' = << >> /\ cache' = api /\ stream' = << >> /\ cpus' = SetNodes(nodes)
  BY Zenon DEF Restart
<1>2. queue' \in BOOLEAN /\ budget' \in 0 .. MaxDisturbances /\ retries' \in 0 .. MaxRetries
  BY <1>1, BudgetTyped, WorldTyped, Zenon
<1>3. ZonesKnown(cpus') /\ lastUid \in 1 .. MaxUid /\ lastUid' = lastUid
  BY <1>1, Zenon DEF Inv1, WorldOK, env, ZonesCounted
<1>4. WorldOK' /\ Later
  <2>1. Later
    BY <1>3, BoundAssumption DEF Later
  <2>2. WorldOK'
    BY <1>1, <1>2, <1>3, Zenon DEF Inv1, WorldOK, env
  <2> QED
    BY <2>1, <2>2, Zenon
<1>5. WorkerOK' /\ PlanOK'
  BY <1>1, <1>4, OnwardWorker, Zenon DEF Inv1, Onward
<1>6. \A u \in DOMAIN api : Older(api[u], api[u]) /\ u # NoId
  BY OlderItself, SliceIdAssumption, Zenon DEF Inv1, SlicesOK, ProperIn, Proper
<1>7. HeldOK'
  BY <1>1, <1>6, IdleFields, Zenon DEF HeldOK
<1>8. IsSeq(stream') /\ DOMAIN stream' = {} /\ DOMAIN tracker' = {}
  BY <1>1, EmptyFacts, Zenon
<1>9. SlicesOK'
  BY <1>1, <1>3, <1>8, Zenon DEF Inv1, SlicesOK
<1>10. CopiesOK'
  BY <1>1, <1>6, <1>8, Zenon DEF CopiesOK
<1> QED
  BY <1>4, <1>5, <1>7, <1>9, <1>10, Zenon DEF Inv1

(* The address types of a Service. *)
LEMMA TypesKnown ==
    ASSUME NEW s, IsService(s)
    PROVE  getAddressTypesForService(s) \subseteq AddressTypes
<1>1. s.families \subseteq AddressTypes /\ s.clusterIP \in AddressTypes \cup {"None"}
  BY Zenon DEF IsService
<1>2. CASE s.families # {}
  BY <1>1, <1>2 DEF getAddressTypesForService
<1>3. CASE s.families = {} /\ s.clusterIP # "None"
  BY <1>1, <1>3 DEF getAddressTypesForService
<1>4. CASE s.families = {} /\ s.clusterIP = "None"
  BY <1>4 DEF getAddressTypesForService, AddressTypes
<1> QED
  BY <1>2, <1>3, <1>4, Zenon

(* What a run starts from. *)
LEMMA BeginsFacts ==
    ASSUME Inv1, SyncBegins
    PROVE  /\ worker.pc = "idle" /\ svc # NoObject /\ UNCHANGED env /\ UNCHANGED store
           /\ UNCHANGED <<cpus, cache, tracker, retries, budget, lost>> /\ queue' = FALSE
           /\ ~StaleSlices(worker'.slices)
           /\ DOMAIN worker' = WorkerFields /\ worker'.pc = "plan" /\ worker'.svc = svc
           /\ worker'.pods = pods /\ worker'.todo \subseteq AddressTypes
           /\ worker'.legacy \subseteq DOMAIN worker'.slices
           /\ worker'.track = NoTrack /\ worker'.plan = NoPlan
           /\ DOMAIN worker'.slices = {u \in DOMAIN cache : ~cache[u].dying}
           /\ \A u \in DOMAIN worker'.slices : worker'.slices[u] = cache[u]
<1> DEFINE slices == dropEndpointSlicesPendingDeletion(cache)
           types == getAddressTypesForService(svc)
           legacy == {u \in DOMAIN slices : slices[u].type \notin types}
<1>1. /\ worker.pc = "idle" /\ svc # NoObject /\ UNCHANGED env /\ UNCHANGED store
      /\ UNCHANGED <<cpus, cache, tracker, retries, budget, lost>> /\ queue' = FALSE
      /\ ~StaleSlices(slices)
      /\ worker' = [Idle EXCEPT !.pc = "plan", !.svc = svc, !.pods = pods, !.slices = slices,
                                !.todo = types, !.legacy = legacy]
  BY Zenon DEF SyncBegins
<1>2. legacy \subseteq DOMAIN slices
  BY Zenon
<1>3. types \subseteq AddressTypes
  BY <1>1, TypesKnown, Zenon DEF Inv1, WorldOK
<1>4. DOMAIN slices = {u \in DOMAIN cache : ~cache[u].dying} /\ \A u \in DOMAIN slices : slices[u] = cache[u]
  BY Zenon DEF dropEndpointSlicesPendingDeletion, Restrict
<1> HIDE DEF slices, types, legacy
<1>5. /\ DOMAIN worker' = WorkerFields /\ worker'.pc = "plan" /\ worker'.svc = svc
      /\ worker'.pods = pods /\ worker'.slices = slices
      /\ worker'.todo = types /\ worker'.legacy = legacy /\ worker'.track = NoTrack /\ worker'.plan = NoPlan
  <2>1. worker' = [Idle EXCEPT !.pc = "plan", !.svc = svc, !.pods = pods, !.slices = slices,
                               !.todo = types, !.legacy = legacy]
    BY <1>1, Zenon
  <2> QED
    BY <2>1 DEF Idle, WorkerFields
<1> QED
  BY <1>1, <1>2, <1>3, <1>4, <1>5, Zenon

(* A run of syncService starts from what the listers hold. *)
LEMMA Inv1SyncBegins ==
    ASSUME Inv1, SyncBegins
    PROVE  Inv1'
<1>1. /\ svc # NoObject /\ UNCHANGED env /\ UNCHANGED store
      /\ UNCHANGED <<cpus, cache, tracker, retries, budget, lost>> /\ queue' = FALSE
      /\ DOMAIN worker' = WorkerFields /\ worker'.pc = "plan" /\ worker'.svc = svc
      /\ worker'.pods = pods /\ worker'.todo \subseteq AddressTypes
      /\ worker'.legacy \subseteq DOMAIN worker'.slices
      /\ worker'.track = NoTrack /\ worker'.plan = NoPlan
      /\ DOMAIN worker'.slices = {u \in DOMAIN cache : ~cache[u].dying}
      /\ \A u \in DOMAIN worker'.slices : worker'.slices[u] = cache[u]
  BY BeginsFacts, Zenon
<1>2. queue' \in BOOLEAN
  BY <1>1, Zenon
<1>3. WorldOK' /\ Later
  BY <1>1, <1>2, SameWorld, WorldTyped, Zenon
<1>4. SlicesOK' /\ CopiesOK'
  <2>1. Writes
    BY <1>1, <1>3, StillWrites, Zenon DEF store
  <2> QED
    BY <1>1, <1>3, <2>1, WritesCopies, Zenon DEF Inv1
<1>5. lastUid' = lastUid /\ lastUid \in 1 .. MaxUid /\ IsService(svc) /\ svc.uid = lastUid
  BY <1>1, Zenon DEF env, Inv1, WorldOK
<1>6. worker'.svc.uid \in 1 .. lastUid'
  BY <1>1, <1>5, BoundAssumption
<1>7. ProperIn(worker'.slices, lastUid') /\ \A u \in DOMAIN worker'.slices : ~worker'.slices[u].dying
  BY <1>1, <1>5, Zenon DEF Inv1, SlicesOK, ProperIn
<1>8. WorkerOK'
  BY <1>1, <1>5, <1>6, <1>7, Zenon DEF WorkerOK, Inv1, WorldOK
<1>9. PlanOK'
  BY <1>1, IdleFields, Zenon DEF PlanOK
<1>10. HeldOK'
  <2>1. \A u \in DOMAIN api : u # NoId /\ api[u].owner <= lastUid
    BY SliceIdAssumption, Zenon DEF Inv1, SlicesOK, ProperIn, Proper
  <2> QED
    BY <1>1, <1>5, <2>1, IdleFields, Zenon DEF HeldOK, Inv1, CopiesOK, store
<1> QED
  BY <1>3, <1>4, <1>8, <1>9, <1>10, Zenon DEF Inv1

(* What a call may take from the plan. *)
LEMMA LesserCreate ==
    ASSUME Inv1, NEW s, NEW p, p = [worker.plan EXCEPT !.create = @ \ {s}]
    PROVE  /\ Lesser(p, worker.plan)
           /\ p.create = worker.plan.create \ {s} /\ p.update = worker.plan.update
<1>1. DOMAIN worker.plan = PlanFields
  BY Zenon DEF Inv1, PlanOK
<1>2. /\ DOMAIN p = PlanFields /\ p.create = worker.plan.create \ {s}
      /\ p.update = worker.plan.update /\ p.delete = worker.plan.delete
  BY <1>1 DEF PlanFields
<1> QED
  BY <1>2, Zenon DEF Lesser

(* A plan is less by the slice that was updated. *)
LEMMA LesserUpdate ==
    ASSUME Inv1, NEW u, NEW p, p = [worker.plan EXCEPT !.update = Without(@, u)]
    PROVE  /\ Lesser(p, worker.plan) /\ p.create = worker.plan.create
           /\ DOMAIN p.update = DOMAIN worker.plan.update \ {u}
<1>1. DOMAIN worker.plan = PlanFields
  BY Zenon DEF Inv1, PlanOK
<1>2. /\ DOMAIN p = PlanFields /\ p.create = worker.plan.create
      /\ p.update = Without(worker.plan.update, u) /\ p.delete = worker.plan.delete
  BY <1>1 DEF PlanFields
<1>3. /\ DOMAIN p.update = DOMAIN worker.plan.update \ {u}
      /\ \A v \in DOMAIN p.update : p.update[v] = worker.plan.update[v]
  BY <1>2, Zenon DEF Without, Restrict
<1> QED
  BY <1>2, <1>3, Zenon DEF Lesser

(* A plan is less by the slice that was deleted. *)
LEMMA LesserDelete ==
    ASSUME Inv1, NEW u, NEW p, p = [worker.plan EXCEPT !.delete = @ \ {u}]
    PROVE  Lesser(p, worker.plan)
<1>1. DOMAIN worker.plan = PlanFields
  BY Zenon DEF Inv1, PlanOK
<1>2. /\ DOMAIN p = PlanFields /\ p.create = worker.plan.create
      /\ p.update = worker.plan.update /\ p.delete = worker.plan.delete \ {u}
  BY <1>1 DEF PlanFields
<1> QED
  BY <1>2, Zenon DEF Lesser

(* What the worker creates: a slice of its Service, under an id nobody remembers. *)
LEMMA CreateFacts ==
    ASSUME Inv1, worker.pc = "apply", NEW s \in ToCreate, CreateSlice(s)
    PROVE  /\ s \in worker.plan.create
           /\ \E t \in AddressTypes \ worker.todo : Item(worker.svc, t, s)
           /\ Proper(NewSlice(s), lastUid) /\ NewSlice(s).owner = worker.svc.uid
           /\ NewSlice(s).gen = 1 /\ NewSlice(s).type = s.type
           /\ NewSlice(s).eps = s.eps /\ NewSlice(s).ports = s.ports /\ NewSlice(s).dying = FALSE
<1>1. s \in worker.plan.create
  BY Zenon DEF ToCreate
<1>2. PICK t \in AddressTypes \ worker.todo : Item(worker.svc, t, s)
  BY <1>1, Zenon DEF Inv1, PlanOK, PlanOf
<1>3. /\ DOMAIN NewSlice(s) = SliceFields /\ NewSlice(s).owner = s.owner /\ NewSlice(s).type = s.type
      /\ NewSlice(s).eps = s.eps /\ NewSlice(s).ports = s.ports /\ NewSlice(s).dying = s.dying
      /\ NewSlice(s).gen = 1 /\ NewSlice(s).rv = 1
  BY <1>2 DEF Item, SliceFields, NewSlice
<1>4. worker.svc.uid \in 1 .. lastUid /\ lastUid \in 1 .. MaxUid
  BY Zenon DEF Inv1, WorkerOK, WorldOK
<1>5. worker.svc.uid \in 1 .. MaxUid /\ worker.svc.uid <= lastUid /\ 1 \in Nat
  BY <1>4, BoundAssumption
<1>6. s.owner = worker.svc.uid /\ s.type = t /\ s.dying = FALSE
      /\ Fits(s.eps) /\ \A e \in s.eps : IsEndpoint(e)
  BY <1>2, Zenon DEF Item
<1>7. IsSlice(NewSlice(s))
  BY <1>2, <1>3, <1>5, <1>6, Zenon DEF IsSlice
<1>8. Proper(NewSlice(s), lastUid)
  BY <1>3, <1>5, <1>6, <1>7, Zenon DEF Proper
<1> QED
  BY <1>1, <1>2, <1>3, <1>6, <1>8, Zenon

\* The id of a slice the worker creates.
NewId == CHOOSE i \in FreshIds : TRUE

(* Create, with its answer or without. *)
LEMMA CreateStep ==
    ASSUME Inv1, worker.pc = "apply", NEW s \in ToCreate, CreateSlice(s), UNCHANGED lastUid
    PROVE  /\ Writes /\ NewId \in FreshIds /\ api' = With(api, NewId, NewSlice(s))
           /\ Emit(NewId, NewSlice(s)) /\ GoesOn
           /\ \/ /\ worker'.plan.create = worker.plan.create \ {s}
                 /\ worker'.plan.update = worker.plan.update
                 /\ worker'.track.id = NewId /\ worker'.track.gen = 1 /\ UNCHANGED <<budget, lost>>
              \/ lost' = TRUE /\ Fault("lost")
<1> DEFINE u == NewId
           x == NewSlice(s)
           p == [worker.plan EXCEPT !.create = @ \ {s}]
<1>1. u \in FreshIds
  BY Zenon DEF CreateSlice, NewId
<1>2. api' = With(api, u, x) /\ Emit(u, x)
      /\ \/ Answered(u, 1, p) /\ UNCHANGED <<budget, lost>>
         \/ Failed /\ Fault("lost") /\ lost' = TRUE
  BY Zenon DEF CreateSlice, NewId
<1>3. Proper(x, lastUid) /\ x.owner = worker.svc.uid /\ x.gen = 1
  BY CreateFacts, Zenon
<1>4. u \in SliceId /\ api'[u] = x
  BY <1>1, <1>2, Zenon DEF FreshIds, With
<1>5. Lesser(p, worker.plan) /\ p.create = worker.plan.create \ {s} /\ p.update = worker.plan.update
  BY LesserCreate
<1> HIDE DEF u, x, p
<1>6. Writes
  BY <1>1, <1>2, <1>3, CreateWrites, Zenon
<1>7. 1 \in Nat \cup {-1} /\ (u \in DOMAIN api' => 1 \in 0 .. api'[u].gen)
  BY <1>3, <1>4
<1>8. CASE Answered(u, 1, p) /\ UNCHANGED <<budget, lost>>
  <2>1. GoesOn /\ worker'.plan = p /\ worker'.track.id = u /\ worker'.track.gen = 1
    BY <1>4, <1>5, <1>7, <1>8, AnsweredGoesOn, Zenon
  <2> QED
    BY <1>1, <1>2, <1>5, <1>6, <1>8, <2>1, Zenon DEF u, x
<1>9. CASE Failed /\ Fault("lost") /\ lost' = TRUE
  <2>1. GoesOn
    BY <1>9, FailedGoesOn, Zenon
  <2> QED
    BY <1>1, <1>2, <1>6, <1>9, <2>1, Zenon DEF u, x
<1> QED
  BY <1>2, <1>8, <1>9, Zenon

(* What the worker updates: a slice its Service owns. *)
LEMMA UpdateFacts ==
    ASSUME Inv1, worker.pc = "apply", NEW u \in ToUpdate, UpdateSlice(u)
    PROVE  /\ u \in DOMAIN api /\ u \in DOMAIN worker.plan.update
           /\ api[u].owner = worker.svc.uid /\ Proper(api[u], lastUid)
           /\ Rewrite(api[u], worker.plan.update[u])
<1>1. u \in DOMAIN worker.plan.update /\ u \in DOMAIN api
  BY Zenon DEF ToUpdate, UpdateSlice, Accepted
<1>2. PICK t \in AddressTypes \ worker.todo : PlanOf(t)
  BY Zenon DEF Inv1, PlanOK
<1>3. /\ Item(worker.svc, t, worker.plan.update[u]) /\ u \in DOMAIN worker.slices
      /\ worker.slices[u].owner = worker.svc.uid /\ worker.slices[u].type = t
  BY <1>1, <1>2, Zenon DEF PlanOf
<1>4. Older(worker.slices[u], api[u]) /\ Proper(api[u], lastUid)
  BY <1>1, <1>3, Zenon DEF Inv1, HeldOK, SlicesOK, ProperIn
<1>5. api[u].owner = worker.svc.uid /\ api[u].type = t
  BY <1>3, <1>4, Zenon DEF Older
<1> QED
  BY <1>1, <1>3, <1>4, <1>5, Zenon DEF Rewrite, Item

(* Update, with its answer or without. *)
LEMMA UpdateStep ==
    ASSUME Inv1, worker.pc = "apply", NEW u \in ToUpdate, UpdateSlice(u), UNCHANGED lastUid
    PROVE  /\ Writes /\ PutSlice(u, worker.plan.update[u]) /\ GoesOn
           /\ \/ /\ worker'.plan.create = worker.plan.create
                 /\ DOMAIN worker'.plan.update = DOMAIN worker.plan.update \ {u}
                 /\ worker'.track.id = u /\ worker'.track.gen = api'[u].gen /\ UNCHANGED <<budget, lost>>
              \/ lost' = TRUE /\ Fault("lost")
<1> DEFINE p == [worker.plan EXCEPT !.update = Without(@, u)]
           g == api'[u].gen
<1>1. /\ PutSlice(u, worker.plan.update[u])
      /\ \/ Answered(u, g, p) /\ UNCHANGED <<budget, lost>>
         \/ Failed /\ Fault("lost") /\ lost' = TRUE
  BY Zenon DEF UpdateSlice
<1>2. u \in DOMAIN api /\ Rewrite(api[u], worker.plan.update[u]) /\ Proper(api[u], lastUid)
  BY UpdateFacts, Zenon
<1>3. Writes
  BY <1>1, <1>2, PutWrites, Zenon
<1>4. Lesser(p, worker.plan) /\ p.create = worker.plan.create
      /\ DOMAIN p.update = DOMAIN worker.plan.update \ {u}
  BY LesserUpdate
<1>5. u \in SliceId /\ u \in DOMAIN api'
  <2>1. CASE UNCHANGED store
    BY <1>2, <2>1, Zenon DEF store, Inv1, SlicesOK, ProperIn
  <2>2. CASE api' = With(api, u, Stored(api[u], worker.plan.update[u]))
    BY <1>2, <2>2, Zenon DEF With, Inv1, SlicesOK, ProperIn
  <2> QED
    BY <1>1, <2>1, <2>2, Zenon DEF PutSlice
<1>6. IsSlice(api'[u])
  BY <1>3, <1>5, Zenon DEF Writes, ProperIn, Proper
<1>7. g \in Nat /\ g \in Nat \cup {-1} /\ g \in 0 .. api'[u].gen
  BY <1>6 DEF IsSlice
<1> HIDE DEF p, g
<1>8. CASE Answered(u, g, p) /\ UNCHANGED <<budget, lost>>
  <2>1. GoesOn /\ worker'.plan = p /\ worker'.track.id = u /\ worker'.track.gen = g
    BY <1>4, <1>5, <1>7, <1>8, AnsweredGoesOn, Zenon
  <2> QED
    BY <1>1, <1>3, <1>4, <1>8, <2>1, Zenon DEF g
<1>9. CASE Failed /\ Fault("lost") /\ lost' = TRUE
  <2>1. GoesOn
    BY <1>9, FailedGoesOn, Zenon
  <2> QED
    BY <1>1, <1>3, <1>9, <2>1, Zenon
<1> QED
  BY <1>1, <1>8, <1>9, Zenon

(* Delete, with its answer or without. *)
LEMMA DeleteStep ==
    ASSUME Inv1, worker.pc = "apply", NEW u \in ToDelete, DeleteSlice(u), UNCHANGED lastUid
    PROVE  /\ Writes /\ u \in DOMAIN api /\ DropSlice(u) /\ GoesOn
           /\ worker'.track.id = u \/ worker'.track = NoTrack
<1> DEFINE p == [worker.plan EXCEPT !.delete = @ \ {u}]
<1>1. /\ u \in DOMAIN api /\ DropSlice(u)
      /\ Answered(u, deletionExpected, p) \/ Failed
  BY Zenon DEF DeleteSlice
<1>2. Writes
  BY <1>1, DropWrites, Zenon
<1>3. Lesser(p, worker.plan)
  BY LesserDelete
<1>4. u \in SliceId /\ u \notin DOMAIN api'
  BY <1>1, Zenon DEF DropSlice, Without, Restrict, Inv1, SlicesOK, ProperIn
<1>5. deletionExpected \in Nat \cup {-1}
  BY DEF deletionExpected
<1> DEFINE g == deletionExpected
<1> HIDE DEF p, g
<1>6. CASE Answered(u, g, p)
  BY <1>1, <1>2, <1>3, <1>4, <1>5, <1>6, AnsweredGoesOn, Zenon DEF g
<1>7. CASE Failed
  BY <1>1, <1>2, <1>7, FailedGoesOn, Zenon
<1> QED
  BY <1>1, <1>6, <1>7, Zenon DEF g

(* Calls that change nothing. *)
LEMMA CallFails ==
    ASSUME Inv1, worker.pc = "apply",
           \/ \E s \in ToCreate : CreateFails(s)
           \/ CreateInTerminating
           \/ \E u \in ToUpdate : UpdateFails(u)
           \/ \E u \in ToDelete : DeleteFails(u)
    PROVE  /\ GoesOn /\ worker'.track = NoTrack /\ UNCHANGED <<api, stream, lost>>
           /\ budget' = budget \/ \E kind : Fault(kind)
<1>1. /\ UNCHANGED store /\ UNCHANGED lost /\ (budget' = budget \/ \E kind : Fault(kind))
      /\ Failed \/ worker' = [worker EXCEPT !.pc = "plan", !.plan = NoPlan]
  BY Zenon DEF CreateFails, CreateInTerminating, UpdateFails, DeleteFails
<1>2. GoesOn /\ worker'.track = NoTrack
  BY <1>1, FailedGoesOn, BackToPlanQuietly, Zenon
<1> QED
  BY <1>1, <1>2, Zenon DEF store

(* The calls of finalize. *)
LEMMA Inv1Apply ==
    ASSUME Inv1, Apply
    PROVE  Inv1'
<1>1. /\ worker.pc = "apply" /\ UNCHANGED env /\ UNCHANGED topo
      /\ UNCHANGED <<cache, tracker, queue, retries>>
  BY Zenon DEF Apply
<1>2. UNCHANGED lastUid /\ Later
  <2>1. UNCHANGED lastUid
    BY <1>1, Zenon DEF env
  <2> QED
    BY <2>1, BoundAssumption DEF Later, Inv1, WorldOK
<1>3. Writes /\ GoesOn /\ lost' \in BOOLEAN /\ (budget' = budget \/ \E kind : Fault(kind))
  <2>1. ASSUME NEW s \in ToCreate, CreateSlice(s)
        PROVE  Writes /\ GoesOn /\ lost' \in BOOLEAN /\ (budget' = budget \/ \E kind : Fault(kind))
    BY <1>1, <1>2, <2>1, CreateStep, WorldTyped, Zenon
  <2>2. ASSUME NEW u \in ToUpdate, UpdateSlice(u)
        PROVE  Writes /\ GoesOn /\ lost' \in BOOLEAN /\ (budget' = budget \/ \E kind : Fault(kind))
    BY <1>1, <1>2, <2>2, UpdateStep, WorldTyped, Zenon
  <2>3. ASSUME NEW u \in ToDelete, DeleteSlice(u)
        PROVE  Writes /\ GoesOn /\ lost' \in BOOLEAN /\ (budget' = budget \/ \E kind : Fault(kind))
    <3>1. lost' = lost /\ (budget' = budget \/ \E kind : Fault(kind))
      BY <2>3, Zenon DEF DeleteSlice
    <3> QED
      BY <1>1, <1>2, <2>3, <3>1, DeleteStep, WorldTyped, Zenon
  <2>4. CASE \/ \E s \in ToCreate : CreateFails(s)
             \/ CreateInTerminating
             \/ \E u \in ToUpdate : UpdateFails(u)
             \/ \E u \in ToDelete : DeleteFails(u)
    <3>1. GoesOn /\ UNCHANGED <<api, stream, lost>> /\ (budget' = budget \/ \E kind : Fault(kind))
      BY <1>1, <2>4, CallFails, Zenon
    <3> QED
      BY <1>2, <3>1, StillWrites, WorldTyped, Zenon
  <2> QED
    BY <2>1, <2>2, <2>3, <2>4, Zenon DEF Apply
<1>4. budget' \in 0 .. MaxDisturbances
  BY <1>3, BudgetTyped, WorldTyped, Zenon
<1>5. WorldOK'
  BY <1>1, <1>3, <1>4, SameWorld, WorldTyped, Zenon DEF topo
<1> QED
  BY <1>1, <1>2, <1>3, <1>5, PlainStep, Zenon DEF Onward

(* The tracker takes the generation of the answer. *)
LEMMA Inv1Track ==
    ASSUME Inv1, Track
    PROVE  Inv1'
<1>1. /\ UNCHANGED env /\ UNCHANGED topo /\ UNCHANGED store
      /\ UNCHANGED <<cache, queue, retries, budget, lost>>
      /\ worker.pc = "track" /\ tracker' = With(tracker, worker.track.id, worker.track.gen)
  BY Zenon DEF Track
<1>2. WorldOK' /\ Later
  BY <1>1, SameWorld, WorldTyped, Zenon DEF topo
<1>3. Onward
  BY TrackGoesOn, Zenon DEF Onward
<1>4. WorkerOK' /\ PlanOK'
  BY <1>2, <1>3, OnwardWorker, Zenon DEF Inv1
<1>5. Writes
  BY <1>1, <1>2, StillWrites, Zenon DEF store
<1>6. HeldOK'
  BY <1>3, <1>5, OnwardHeld, Zenon DEF Inv1, Writes
<1>7. worker.track.id \in SliceId /\ worker.track.gen \in Nat \cup {-1} /\ lastUid' = lastUid
  BY <1>1, Zenon DEF Inv1, WorkerOK, env
<1>8. /\ DOMAIN tracker' = DOMAIN tracker \cup {worker.track.id}
      /\ tracker'[worker.track.id] = worker.track.gen
      /\ \A v \in DOMAIN tracker \ {worker.track.id} : tracker'[v] = tracker[v]
  BY <1>1, Zenon DEF With
<1>9. DOMAIN tracker' \subseteq SliceId /\ \A v \in DOMAIN tracker' : tracker'[v] \in Nat \cup {-1}
  BY <1>7, <1>8, Zenon DEF Inv1, SlicesOK
<1>10. SlicesOK'
  BY <1>1, <1>7, <1>9, Zenon DEF Inv1, SlicesOK, store
<1>11. ASSUME NEW v \in DOMAIN api, v \in DOMAIN tracker' PROVE tracker'[v] \in 0 .. api[v].gen
  BY <1>8, <1>11, Zenon DEF Inv1, CopiesOK, HeldOK
<1>12. CopiesOK'
  BY <1>1, <1>11, Zenon DEF Inv1, CopiesOK, store
<1> QED
  BY <1>2, <1>4, <1>6, <1>10, <1>12, Zenon DEF Inv1

(* An address type is done. *)
LEMMA Inv1Done ==
    ASSUME Inv1, AddressTypeDone
    PROVE  Inv1'
<1>1. /\ UNCHANGED env /\ UNCHANGED topo /\ UNCHANGED store
      /\ UNCHANGED <<cache, tracker, queue, retries, budget, lost>>
      /\ worker.pc = "apply" /\ worker' = [worker EXCEPT !.pc = "plan", !.plan = NoPlan]
  BY Zenon DEF AddressTypeDone
<1>2. WorldOK' /\ Later
  BY <1>1, SameWorld, WorldTyped, Zenon DEF topo
<1>3. GoesOn
  BY <1>1, BackToPlanQuietly, Zenon
<1>4. Writes
  BY <1>1, <1>2, StillWrites, Zenon DEF store
<1> QED
  BY <1>1, <1>2, <1>3, <1>4, PlainStep, Zenon DEF Onward

(* A slice of an address type the Service lost is deleted. *)
LEMMA Inv1Legacy ==
    ASSUME Inv1, NEW u \in worker.legacy, DeleteLegacy(u)
    PROVE  Inv1'
<1>1. /\ UNCHANGED env /\ UNCHANGED topo /\ UNCHANGED <<cache, tracker, queue, retries, lost>>
      /\ (u \in DOMAIN api /\ DropSlice(u)) \/ UNCHANGED store
      /\ budget' = budget \/ \E kind : Fault(kind)
  BY Zenon DEF DeleteLegacy
<1>2. budget' \in 0 .. MaxDisturbances
  BY <1>1, BudgetTyped, WorldTyped, Zenon
<1>3. WorldOK' /\ Later
  BY <1>1, <1>2, SameWorld, WorldTyped, Zenon DEF topo
<1>4. Writes
  BY <1>1, <1>3, StillWrites, DropWrites, Zenon DEF store, env
<1> QED
  BY <1>1, <1>3, <1>4, LegacyGoesOn, PlainStep, Zenon DEF Onward

(* A version is as narrow as itself. *)
LEMMA NarrowerItself == ASSUME NEW x PROVE Narrower(x, x)
BY Zenon DEF Narrower

(* Narrower than a narrower version. *)
LEMMA NarrowerTransitive ==
    ASSUME NEW x, NEW y, NEW z, Narrower(x, y), Narrower(y, z)
    PROVE  Narrower(x, z)
BY Zenon DEF Narrower

(* Two slices are apart in either order. *)
LEMMA DisjointSymmetric == ASSUME NEW x, NEW y, Disjoint(x, y) PROVE Disjoint(y, x)
BY Zenon DEF Disjoint

(* Narrower versions of slices that are apart are apart. *)
LEMMA NarrowerDisjoint ==
    ASSUME NEW x, NEW y, NEW z, Narrower(x, y), Disjoint(y, z)
    PROVE  Disjoint(x, z)
BY Zenon DEF Disjoint, Narrower

\* Every version of v is narrower than one before.
Shrunk(v) ==
    /\ Mine(v) /\ api'[v].type = api[v].type
    /\ \A w : Version(v, w)' => \E x : Version(v, x) /\ Narrower(w, x)

\* The planned slice c meets nothing but u.
Alone(u, c) ==
    /\ \A v : Mine(v) /\ v # u /\ api[v].type = c.type => \A y : Version(v, y) => Disjoint(c, y)
    /\ \A d \in worker'.plan.create : Disjoint(c, d)
    /\ \A v \in DOMAIN worker'.plan.update : v # u /\ Mine(v) => Disjoint(c, worker'.plan.update[v])
    /\ u \notin DOMAIN worker'.plan.update /\ c.type \notin worker.todo

\* The slice u is stored as the planned slice c.
Put(u, c) ==
    /\ Alone(u, c) /\ api'[u].type = c.type
    /\ \A w : Version(u, w)' => Narrower(w, c)

Changed(v, u, c) == Shrunk(v) \/ (v = u /\ Put(u, c))

\* The worker has stopped, or goes on with the same list.
Continues ==
    \/ worker'.pc = "idle" /\ worker'.plan = NoPlan
    \/ /\ worker.pc # "idle" /\ worker'.todo = worker.todo /\ worker'.slices = worker.slices
       /\ Lesser(worker'.plan, worker.plan)

(* Versions stay apart when each new one is narrower than one there was. *)
LEMMA ApartStep ==
    ASSUME Knows, NEW u, NEW c, \A v : Mine(v)' => Changed(v, u, c)
    PROVE  Apart'
<1> SUFFICES ASSUME NEW a, NEW b, Mine(a)', Mine(b)', a # b, api'[a].type = api'[b].type,
                    NEW x, NEW y, Version(a, x)', Version(b, y)'
             PROVE  Disjoint(x, y)
  BY Zenon DEF Apart
<1>1. CASE Shrunk(a) /\ Shrunk(b)
  <2>1. PICK p : Version(a, p) /\ Narrower(x, p)
    BY <1>1, Zenon DEF Shrunk
  <2>2. PICK q : Version(b, q) /\ Narrower(y, q)
    BY <1>1, Zenon DEF Shrunk
  <2>3. Disjoint(p, q)
    BY <1>1, <2>1, <2>2, Zenon DEF Shrunk, Knows, Apart
  <2> QED
    BY <2>1, <2>2, <2>3, NarrowerDisjoint, DisjointSymmetric, Zenon
<1>2. ASSUME NEW v, NEW p, NEW q, v # u, Shrunk(v), Put(u, c), api'[v].type = api'[u].type,
             Version(u, p)', Version(v, q)'
      PROVE  Disjoint(p, q)
  <2>1. PICK r : Version(v, r) /\ Narrower(q, r)
    BY <1>2, Zenon DEF Shrunk
  <2>2. Disjoint(c, r) /\ Narrower(p, c)
    BY <1>2, <2>1, Zenon DEF Shrunk, Put, Alone
  <2> QED
    BY <2>1, <2>2, NarrowerDisjoint, DisjointSymmetric, Zenon
<1>3. CASE Shrunk(a) /\ b = u /\ Put(u, c)
  <2>1. Disjoint(y, x)
    BY <1>2, <1>3, Zenon
  <2> QED
    BY <2>1, DisjointSymmetric, Zenon
<1>4. CASE Shrunk(b) /\ a = u /\ Put(u, c)
  BY <1>2, <1>4, Zenon
<1>5. Changed(a, u, c) /\ Changed(b, u, c) /\ a # b
  BY Zenon
<1> QED
  BY <1>1, <1>3, <1>4, <1>5, Zenon DEF Changed

(* The list of the run covers narrower versions too. *)
LEMMA CoveredStep ==
    ASSUME Knows, NEW u, NEW c, \A v : Mine(v)' => Changed(v, u, c), Continues
    PROVE  Covered'
<1>1. CASE worker'.pc = "idle"
  BY <1>1, Zenon DEF Covered
<1>2. CASE /\ worker.pc # "idle" /\ worker'.todo = worker.todo /\ worker'.slices = worker.slices
           /\ worker'.pc # "idle"
  <2>1. ASSUME NEW v, Mine(v)', api'[v].type \in worker.todo PROVE Shrunk(v)
    BY <2>1, Zenon DEF Changed, Put, Alone
  <2>2. ASSUME NEW v, Mine(v)', api'[v].type \in worker.todo
        PROVE  v \in DOMAIN worker.slices /\ \A x : Version(v, x)' => Narrower(x, worker.slices[v])
    <3>1. Shrunk(v)
      BY <2>1, <2>2, Zenon
    <3>2. v \in DOMAIN worker.slices /\ \A x : Version(v, x) => Narrower(x, worker.slices[v])
      BY <1>2, <2>2, <3>1, Zenon DEF Shrunk, Knows, Covered
    <3> QED
      BY <3>1, <3>2, NarrowerTransitive, Zenon DEF Shrunk
  <2>3. ASSUME NEW v, NEW w, Mine(v)', Mine(w)', v # w, api'[v].type = api'[w].type,
               api'[v].type \in worker.todo
        PROVE  Disjoint(worker.slices[v], worker.slices[w])
    <3>1. Shrunk(v) /\ Shrunk(w)
      BY <2>1, <2>3, Zenon
    <3> QED
      BY <1>2, <2>3, <3>1, Zenon DEF Shrunk, Knows, Covered
  <2> QED
    BY <1>2, <2>2, <2>3, Zenon DEF Covered
<1> QED
  BY <1>1, <1>2, Zenon DEF Continues

(* The plan avoids narrower versions too. *)
LEMMA PlanApartStep ==
    ASSUME Knows, NEW u, NEW c, \A v : Mine(v)' => Changed(v, u, c), Continues
    PROVE  PlanApart'
<1>1. CASE worker'.plan = NoPlan
  BY <1>1, IdleFields, Zenon DEF PlanApart
<1>2. CASE Lesser(worker'.plan, worker.plan)
  <2> DEFINE q == worker'.plan
  <2>1. /\ q.create \subseteq worker.plan.create /\ DOMAIN q.update \subseteq DOMAIN worker.plan.update
        /\ \A v \in DOMAIN q.update : q.update[v] = worker.plan.update[v]
    BY <1>2, Zenon DEF Lesser
  <2>2. ASSUME NEW v \in DOMAIN q.update, Mine(v)' PROVE Shrunk(v)
    BY <2>2, Zenon DEF Changed, Put, Alone
  <2> HIDE DEF q
  <2>3. /\ \A e, d \in q.create : e # d => Disjoint(e, d)
        /\ \A e \in q.create : \A v \in DOMAIN q.update : Disjoint(e, q.update[v])
    BY <2>1, Zenon DEF Knows, PlanApart
  <2>4. ASSUME NEW a \in DOMAIN q.update, NEW b \in DOMAIN q.update, Mine(a)', Mine(b)', a # b
        PROVE  Disjoint(q.update[a], q.update[b])
    <3>1. Mine(a) /\ Mine(b)
      BY <2>2, <2>4, Zenon DEF Shrunk
    <3> QED
      BY <2>1, <2>4, <3>1, Zenon DEF Knows, PlanApart
  <2>5. ASSUME NEW e \in q.create, NEW v, Mine(v)', api'[v].type = e.type, NEW y, Version(v, y)'
        PROVE  Disjoint(e, y)
    <3>1. CASE Shrunk(v)
      <4>1. PICK r : Version(v, r) /\ Narrower(y, r)
        BY <2>5, <3>1, Zenon DEF Shrunk
      <4>2. Disjoint(e, r)
        BY <2>1, <2>5, <3>1, <4>1, Zenon DEF Shrunk, Knows, PlanApart
      <4> QED
        BY <4>1, <4>2, NarrowerDisjoint, DisjointSymmetric, Zenon
    <3>2. CASE v = u /\ Put(u, c)
      <4>1. Narrower(y, c) /\ Disjoint(c, e)
        BY <2>5, <3>2, Zenon DEF Put, Alone, q
      <4> QED
        BY <4>1, NarrowerDisjoint, DisjointSymmetric, Zenon
    <3> QED
      BY <2>5, <3>1, <3>2, Zenon DEF Changed
  <2>6. ASSUME NEW a \in DOMAIN q.update, NEW v, Mine(a)', Mine(v)', a # v, api'[v].type = api'[a].type,
               NEW y, Version(v, y)'
        PROVE  Disjoint(q.update[a], y)
    <3>1. Shrunk(a)
      BY <2>2, <2>6, Zenon
    <3>2. CASE Shrunk(v)
      <4>1. PICK r : Version(v, r) /\ Narrower(y, r)
        BY <2>6, <3>2, Zenon DEF Shrunk
      <4>2. Disjoint(q.update[a], r)
        BY <2>1, <2>6, <3>1, <3>2, <4>1, Zenon DEF Shrunk, Knows, PlanApart
      <4> QED
        BY <4>1, <4>2, NarrowerDisjoint, DisjointSymmetric, Zenon
    <3>3. CASE v = u /\ Put(u, c)
      <4>1. Narrower(y, c) /\ Disjoint(c, q.update[a])
        BY <2>6, <3>1, <3>3, Zenon DEF Put, Alone, Shrunk, q
      <4> QED
        BY <4>1, NarrowerDisjoint, DisjointSymmetric, Zenon
    <3> QED
      BY <2>6, <3>2, <3>3, Zenon DEF Changed
  <2> QED
    BY <2>3, <2>4, <2>5, <2>6, Zenon DEF PlanApart, q
<1> QED
  BY <1>1, <1>2, Zenon DEF Continues

(* A step of which every slice is found, narrows, and is changed as above. *)
LEMMA KnowsStep ==
    ASSUME Knows, Continues, NEW u, NEW c,
           \A v : Mine(v)' => FoundAt(v)' /\ NarrowsAt(v)' /\ Changed(v, u, c)
    PROVE  Knows'
<1>1. \A v : Mine(v)' => Changed(v, u, c)
  BY Zenon
<1>2. Apart' /\ Covered' /\ PlanApart'
  BY <1>1, ApartStep, CoveredStep, PlanApartStep, Zenon
<1>3. Found' /\ Narrowing'
  BY Zenon DEF Found, Narrowing
<1> QED
  BY <1>2, <1>3, Zenon DEF Knows

\* Nothing happens to v but that, possibly, a narrower version is stored and sent.
Follows(v) ==
    /\ Mine(v) /\ api'[v].type = api[v].type /\ Narrower(api'[v], api[v])
    /\ v \in DOMAIN cache' => v \in DOMAIN cache /\ cache'[v] = cache[v]
    /\ \A i \in DOMAIN stream' : stream'[i].id = v =>
         \/ i \in DOMAIN stream /\ stream'[i] = stream[i]
         \/ stream'[i].slice = api'[v] /\ \A j \in DOMAIN stream : ~(i <= j)
    /\ \A w : Version(v, w)' /\ Fresh(v, w)' => Fresh(v, w)

(* When the version that is added is narrower, every version holds no more than one there was. *)
LEMMA FollowsShrunk ==
    ASSUME NEW v, Follows(v)
    PROVE  Shrunk(v)
<1> SUFFICES ASSUME NEW w, Version(v, w)' PROVE \E x : Version(v, x) /\ Narrower(w, x)
  BY Zenon DEF Shrunk, Follows
<1>1. CASE w = api'[v]
  BY <1>1, Zenon DEF Follows, Version
<1>2. CASE InCache(v, w)'
  <2>1. InCache(v, w)
    BY <1>2, Zenon DEF InCache, Follows, Version
  <2> QED
    BY <2>1, NarrowerItself, Zenon DEF Version
<1>3. CASE InStream(v, w)'
  <2>1. PICK i \in DOMAIN stream' : stream'[i].id = v /\ stream'[i].slice = w
    BY <1>3, Zenon DEF InStream
  <2>2. Fresh(v, w)
    BY <1>3, Zenon DEF InStream, Follows, Version
  <2>3. CASE w = api'[v]
    BY <1>1, <2>3, Zenon
  <2>4. CASE i \in DOMAIN stream /\ stream'[i] = stream[i]
    <3>1. InStream(v, w)
      BY <2>1, <2>2, <2>4, Zenon DEF InStream
    <3> QED
      BY <3>1, NarrowerItself, Zenon DEF Version
  <2> QED
    BY <2>1, <2>3, <2>4, Zenon DEF Follows
<1> QED
  BY <1>1, <1>2, <1>3, Zenon DEF Version

(* A version that is added after all others, and narrower, keeps the order. *)
LEMMA FollowsNarrows ==
    ASSUME Knows, NEW v, Follows(v)
    PROVE  NarrowsAt(v)'
<1>1. NarrowsAt(v) /\ Narrower(api'[v], api[v])
  BY Zenon DEF Follows, Knows, Narrowing
<1>2. ASSUME NEW x, InCache(v, x)' PROVE InCache(v, x)
  BY <1>2, Zenon DEF InCache, Follows, Version
<1>3. ASSUME NEW x, InStream(v, x)', x # api'[v] PROVE InStream(v, x)
  BY <1>3, Zenon DEF InStream, Follows, Version
<1>4. ASSUME NEW x, InCache(v, x)' \/ InStream(v, x)' PROVE Narrower(api'[v], x)
  <2>1. CASE x = api'[v]
    BY <2>1, NarrowerItself, Zenon
  <2>2. CASE InCache(v, x) \/ InStream(v, x)
    <3>1. Narrower(api[v], x)
      BY <1>1, <2>2, Zenon DEF NarrowsAt, Version
    <3> QED
      BY <1>1, <3>1, NarrowerTransitive, Zenon
  <2> QED
    BY <1>2, <1>3, <1>4, <2>1, <2>2, Zenon
<1>5. ASSUME NEW x, NEW y, InCache(v, x)', Version(v, y)' PROVE Narrower(y, x)
  <2>1. CASE y = api'[v]
    BY <1>4, <1>5, <2>1, Zenon
  <2>2. CASE y # api'[v]
    <3>1. InCache(v, x) /\ Version(v, y)
      BY <1>2, <1>3, <1>5, <2>2, Zenon DEF Version
    <3> QED
      BY <1>1, <3>1, Zenon DEF NarrowsAt
  <2> QED
    BY <2>1, <2>2, Zenon
<1>6. ASSUME NEW i \in DOMAIN stream', NEW j \in DOMAIN stream', i <= j, NEW x, NEW y,
             SentAt(i, v, x)', SentAt(j, v, y)'
      PROVE  Narrower(y, x)
  <2>1. InStream(v, x)' /\ InStream(v, y)' /\ Fresh(v, x) /\ Fresh(v, y)
    BY <1>6, Zenon DEF InStream, SentAt, Follows, Version
  <2>2. CASE stream'[j].slice = api'[v]
    BY <1>4, <1>6, <2>1, <2>2, Zenon DEF SentAt
  <2>3. CASE j \in DOMAIN stream /\ stream'[j] = stream[j]
    <3>1. i \in DOMAIN stream /\ stream'[i] = stream[i]
      BY <1>6, <2>3, Zenon DEF Follows, SentAt
    <3>2. SentAt(i, v, x) /\ SentAt(j, v, y)
      BY <1>6, <2>1, <2>3, <3>1, Zenon DEF SentAt
    <3> QED
      BY <1>1, <1>6, <2>3, <3>1, <3>2, Zenon DEF NarrowsAt
  <2> QED
    BY <1>6, <2>2, <2>3, Zenon DEF Follows, SentAt
<1> QED
  BY <1>4, <1>5, <1>6, Zenon DEF NarrowsAt

\* All versions of v hold the same.
Even(v) == \A w : Version(v, w)' => Narrower(w, api'[v]) /\ Narrower(api'[v], w)

(* Where all versions hold the same, they are in order. *)
LEMMA EvenNarrows ==
    ASSUME NEW v, Even(v)
    PROVE  NarrowsAt(v)'
<1>1. ASSUME NEW x, NEW y, Version(v, x)', Version(v, y)' PROVE Narrower(y, x)
  <2>1. Narrower(y, api'[v]) /\ Narrower(api'[v], x)
    BY <1>1, Zenon DEF Even
  <2> QED
    BY <2>1, NarrowerTransitive, Zenon
<1>2. ASSUME NEW x, InCache(v, x)' \/ InStream(v, x)' PROVE Version(v, x)'
  BY <1>2, Zenon DEF Version
<1>3. ASSUME NEW x, InStream(v, x)' PROVE Narrower(api'[v], x)
  BY <1>2, <1>3, Zenon DEF Even
<1>4. ASSUME NEW i \in DOMAIN stream', NEW x, SentAt(i, v, x)' PROVE InStream(v, x)'
  BY <1>4, Zenon DEF InStream, SentAt
<1>5. /\ \A x, y : InCache(v, x)' /\ Version(v, y)' => Narrower(y, x)
      /\ \A i, j \in DOMAIN stream' : \A x, y : SentAt(i, v, x)' /\ SentAt(j, v, y)' => Narrower(y, x)
  BY <1>1, <1>2, <1>4, Zenon
<1> QED
  BY <1>3, <1>5, Zenon DEF NarrowsAt

\* Nothing at all happens to v.
Still(v) ==
    /\ UNCHANGED <<cache, tracker>> /\ api'[v] = api[v]
    /\ \A i \in DOMAIN stream' : stream'[i].id = v => i \in DOMAIN stream /\ stream'[i] = stream[i]
    /\ \/ worker'.track = worker.track
       \/ worker'.track.id # v /\ worker.track.id # v

(* A slice that the step does not touch stays found and in order. *)
LEMMA StillFollows ==
    ASSUME Knows, NEW v, Mine(v), Still(v)
    PROVE  FoundAt(v)' /\ NarrowsAt(v)' /\ Shrunk(v)
<1>1. \A w : Fresh(v, w)' => Fresh(v, w)
  BY Zenon DEF Fresh, Still
<1>2. Follows(v)
  BY <1>1, NarrowerItself, Zenon DEF Follows, Still
<1>3. FoundAt(v)'
  BY Zenon DEF Knows, Found, FoundAt, Still
<1> QED
  BY <1>2, <1>3, FollowsShrunk, FollowsNarrows, Zenon

(* A worker that goes on needs to know no more than before. *)
LEMMA OnwardContinues ==
    ASSUME Inv1, Onward
    PROVE  Continues
<1>1. CASE worker' = worker
  BY <1>1, LesserItself, Zenon DEF Continues, Inv1, PlanOK
<1>2. CASE worker' = Idle
  BY <1>2, IdleFields, Zenon DEF Continues
<1>3. CASE GoesOn
  BY <1>3, Zenon DEF GoesOn, Continues
<1> QED
  BY <1>1, <1>2, <1>3, Zenon DEF Onward

(* What is known stays known when versions only get narrower. *)
LEMMA KnowsShrinks ==
    ASSUME Knows, Continues, \A v : Mine(v)' => FoundAt(v)' /\ NarrowsAt(v)' /\ Shrunk(v)
    PROVE  Knows'
<1>1. \A v : Mine(v)' => FoundAt(v)' /\ NarrowsAt(v)' /\ Changed(v, 0, 0)
  BY Zenon DEF Changed
<1> QED
  BY <1>1, KnowsStep, Zenon

(* No slice is written. *)
LEMMA QuietStep ==
    ASSUME Inv1, Knows, Onward, UNCHANGED <<api, stream, cache, tracker>>, worker'.track = worker.track,
           \A v : Mine(v)' => Mine(v)
    PROVE  Knows'
<1>1. \A v : Still(v)
  BY Zenon DEF Still
<1> QED
  BY <1>1, OnwardContinues, StillFollows, KnowsShrinks, Zenon

\* The answer to a call on u goes to the tracker next, or nothing does.
TracksOnly(u) == worker'.track = worker.track \/ (worker.track = NoTrack /\ worker'.track.id = u)

(* A write of another slice. *)
LEMMA OthersStill ==
    ASSUME Inv1, UNCHANGED <<cache, tracker>>, NEW u, NEW s,
           stream' = Append(stream, [id |-> u, slice |-> s]), TracksOnly(u),
           NEW v \in DOMAIN api, v # u, api'[v] = api[v]
    PROVE  Still(v)
<1> DEFINE e == [id |-> u, slice |-> s]
<1>1. IsSeq(stream) /\ v # NoId
  BY SliceIdAssumption, Zenon DEF Inv1, SlicesOK, ProperIn
<1>2. e.id = u /\ stream' = Append(stream, e)
  BY Zenon
<1> HIDE DEF e
<1>3. /\ DOMAIN stream' = DOMAIN stream \cup {Len(stream) + 1}
      /\ \A i \in DOMAIN stream : stream'[i] = stream[i]
      /\ stream'[Len(stream) + 1] = e
  BY <1>1, <1>2, AppendFacts
<1>4. \A i \in DOMAIN stream' : stream'[i].id = v => i \in DOMAIN stream /\ stream'[i] = stream[i]
  BY <1>2, <1>3, Zenon
<1> QED
  BY <1>1, <1>4, IdleFields, Zenon DEF Still, TracksOnly

-----------------------------------------------------------------------------
(* The second invariant: steps that only narrow what is known.             *)

(* A slice is deleted, by anyone. *)
LEMMA DropStep ==
    ASSUME Inv1, Knows, Onward, NEW u, DropSlice(u), UNCHANGED <<svc, cache, tracker>>, TracksOnly(u)
    PROVE  Knows'
<1>1. /\ DOMAIN api' = DOMAIN api \ {u} /\ \A v \in DOMAIN api \ {u} : api'[v] = api[v]
      /\ stream' = Append(stream, [id |-> u, slice |-> NoObject])
  BY WithoutFacts, Zenon DEF DropSlice, Emit
<1>2. ASSUME NEW v, Mine(v)' PROVE FoundAt(v)' /\ NarrowsAt(v)' /\ Shrunk(v)
  <2>1. v \in DOMAIN api /\ v # u /\ api'[v] = api[v]
    BY <1>1, <1>2, Zenon DEF Mine
  <2>2. Mine(v)
    BY <1>2, <2>1, Zenon DEF Mine
  <2>3. Still(v)
    BY <1>1, <2>1, OthersStill, Zenon
  <2> QED
    BY <2>2, <2>3, StillFollows, Zenon
<1> QED
  BY <1>2, OnwardContinues, KnowsShrinks, Zenon

(* The worker tells the tracker what it was about to expect. *)
LEMMA TrackStep ==
    ASSUME Inv1, Knows, Track
    PROVE  Knows'
<1>1. /\ UNCHANGED env /\ UNCHANGED store /\ UNCHANGED cache
      /\ tracker' = With(tracker, worker.track.id, worker.track.gen)
  BY Zenon DEF Track
<1>2. GoesOn /\ worker'.track.id = NoId
  <2>1. GoesOn /\ worker'.pc # "track"
    <3>1. worker'.pc = "apply"
      BY DEF Track, Inv1, WorkerOK, WorkerFields
    <3> QED
      BY <3>1, TrackGoesOn, Zenon
  <2> QED
    BY <2>1, IdleFields, Zenon DEF GoesOn
<1>3. /\ DOMAIN tracker' = DOMAIN tracker \cup {worker.track.id}
      /\ tracker'[worker.track.id] = worker.track.gen
      /\ \A v \in DOMAIN tracker \ {worker.track.id} : tracker'[v] = tracker[v]
  BY <1>1, Zenon DEF With
<1>4. ASSUME NEW v, Mine(v)' PROVE FoundAt(v)' /\ NarrowsAt(v)' /\ Shrunk(v)
  <2>1. Mine(v) /\ v # NoId
    BY <1>1, <1>4, SliceIdAssumption, Zenon DEF Mine, env, store, Inv1, SlicesOK, ProperIn
  <2>2. \A w : Fresh(v, w)' => Fresh(v, w)
    BY <1>2, <1>3, <2>1, Zenon DEF Fresh
  <2>3. Follows(v)
    BY <1>1, <2>1, <2>2, NarrowerItself, Zenon DEF Follows, store
  <2>4. FoundAt(v)'
    BY <1>1, <1>3, <2>1, Zenon DEF Knows, Found, FoundAt
  <2> QED
    BY <2>3, <2>4, FollowsShrunk, FollowsNarrows, Zenon
<1> QED
  BY <1>2, <1>4, OnwardContinues, KnowsShrinks, Zenon DEF Onward

(* The event of a write comes after all others. *)
LEMMA SentLast ==
    ASSUME Inv1, NEW u, NEW s, stream' = Append(stream, [id |-> u, slice |-> s])
    PROVE  \A i \in DOMAIN stream' :
             \/ i \in DOMAIN stream /\ stream'[i] = stream[i]
             \/ stream'[i].slice = s /\ \A j \in DOMAIN stream : ~(i <= j)
<1> DEFINE e == [id |-> u, slice |-> s]
<1>1. IsSeq(stream) /\ e.slice = s /\ stream' = Append(stream, e)
  BY Zenon DEF Inv1, SlicesOK
<1> HIDE DEF e
<1>2. /\ DOMAIN stream' = DOMAIN stream \cup {Len(stream) + 1}
      /\ Len(stream) \in Nat /\ DOMAIN stream = 1 .. Len(stream)
      /\ \A i \in DOMAIN stream : stream'[i] = stream[i]
      /\ stream'[Len(stream) + 1] = e
  BY <1>1, AppendFacts
<1>3. \A j \in DOMAIN stream : ~(Len(stream) + 1 <= j)
  BY <1>2
<1> QED
  BY <1>1, <1>2, <1>3, Zenon

(* Someone else empties a slice. *)
LEMMA ClearFacts ==
    ASSUME Inv1, NEW u \in DOMAIN api, ExternalClear(u)
    PROVE  /\ UNCHANGED env /\ UNCHANGED <<cache, tracker, worker, lost>>
           /\ \/ UNCHANGED <<api, stream>>
              \/ \E s : /\ api' = With(api, u, s) /\ stream' = Append(stream, [id |-> u, slice |-> s])
                        /\ s.ports = api[u].ports /\ s.type = api[u].type /\ s.eps = {}
                        /\ s.owner = api[u].owner /\ s.dying = api[u].dying
<1> DEFINE new == [api[u] EXCEPT !.eps = {}]
           s == Stored(api[u], new)
<1>1. UNCHANGED env /\ UNCHANGED <<cache, tracker, worker, lost>> /\ PutSlice(u, new)
  BY Zenon DEF ExternalClear
<1>2. DOMAIN api[u] = SliceFields
  BY Zenon DEF Inv1, SlicesOK, ProperIn, Proper, IsSlice
<1>3. DOMAIN new = SliceFields /\ new.ports = api[u].ports /\ new.type = api[u].type
      /\ new.eps = {} /\ new.owner = api[u].owner
  BY <1>2 DEF SliceFields
<1> HIDE DEF new
<1>4. s.ports = api[u].ports /\ s.type = api[u].type /\ s.eps = {}
      /\ s.owner = api[u].owner /\ s.dying = api[u].dying
  BY <1>3 DEF Stored, SliceFields
<1>5. CASE UNCHANGED store
  BY <1>1, <1>5, Zenon DEF store
<1>6. CASE api' = With(api, u, s) /\ Emit(u, api'[u])
  <2>1. stream' = Append(stream, [id |-> u, slice |-> s]) /\ api' = With(api, u, s)
    BY <1>6, Zenon DEF Emit, With
  <2> HIDE DEF s
  <2> QED
    BY <1>1, <1>4, <2>1, Zenon
<1> QED
  BY <1>1, <1>5, <1>6, Zenon DEF PutSlice

(* Someone else empties a slice: what it held is in no other. *)
LEMMA ClearStep ==
    ASSUME Inv1, Knows, NEW u \in DOMAIN api, ExternalClear(u)
    PROVE  Knows'
<1>1. /\ UNCHANGED env /\ UNCHANGED <<cache, tracker, worker, lost>> /\ Onward /\ Continues
  BY ClearFacts, OnwardContinues, Zenon DEF Onward
<1>2. CASE UNCHANGED <<api, stream>>
  <2>1. \A v : Mine(v)' => Mine(v)
    BY <1>1, <1>2, Zenon DEF Mine, env
  <2> QED
    BY <1>1, <1>2, <2>1, QuietStep, Zenon
<1>3. ASSUME NEW s, api' = With(api, u, s), stream' = Append(stream, [id |-> u, slice |-> s]),
             s.ports = api[u].ports, s.type = api[u].type, s.eps = {},
             s.owner = api[u].owner, s.dying = api[u].dying
      PROVE  Knows'
  <2>1. DOMAIN api' = DOMAIN api /\ api'[u] = s /\ \A v \in DOMAIN api \ {u} : api'[v] = api[v]
    BY <1>3, Zenon DEF With
  <2>3. \A i \in DOMAIN stream' : \/ i \in DOMAIN stream /\ stream'[i] = stream[i]
                                  \/ stream'[i].slice = s /\ \A j \in DOMAIN stream : ~(i <= j)
    BY <1>3, SentLast, Zenon
  <2>2. ASSUME NEW v, Mine(v)' PROVE FoundAt(v)' /\ NarrowsAt(v)' /\ Shrunk(v)
    <3>1. Mine(v) /\ v \in DOMAIN api
      BY <1>1, <1>3, <2>1, <2>2, Zenon DEF Mine, env
    <3>2. CASE v # u
      <4>1. Still(v)
        BY <1>1, <1>3, <2>1, <3>1, <3>2, OthersStill, Zenon DEF TracksOnly
      <4> QED
        BY <3>1, <4>1, StillFollows, Zenon
    <3>3. CASE v = u
      <4>1. \A i \in DOMAIN stream' : \/ i \in DOMAIN stream /\ stream'[i] = stream[i]
                                      \/ stream'[i].slice = api'[v] /\ \A j \in DOMAIN stream : ~(i <= j)
        BY <2>1, <2>3, <3>3, Zenon
      <4>2. \A w : Fresh(v, w)' => Fresh(v, w)
        BY <1>1, Zenon DEF Fresh
      <4>3. Narrower(api'[v], api[v])
        BY <1>3, <2>1, <3>3, Zenon DEF Narrower, Keys, Hashes
      <4>4. Follows(v)
        BY <1>1, <1>3, <2>1, <3>1, <3>3, <4>1, <4>2, <4>3, Zenon DEF Follows
      <4>5. FoundAt(v)'
        BY <1>1, <3>1, Zenon DEF Knows, Found, FoundAt
      <4> QED
        BY <4>4, <4>5, FollowsShrunk, FollowsNarrows, Zenon
    <3> QED
      BY <3>2, <3>3, Zenon
  <2> QED
    BY <1>1, <2>2, KnowsShrinks, Zenon
<1> QED
  BY <1>2, <1>3, ClearFacts, Zenon

(* Someone else deletes a slice with a finalizer. *)
LEMMA MarkStep ==
    ASSUME Inv1, Knows, NEW u \in DOMAIN api, ExternalMark(u)
    PROVE  Knows'
<1> DEFINE s == api'[u]
<1>1. /\ UNCHANGED env /\ UNCHANGED <<cache, tracker, worker, lost>>
      /\ stream' = Append(stream, [id |-> u, slice |-> s])
  BY Zenon DEF ExternalMark, Emit
<1>2. Continues /\ TracksOnly(u)
  BY <1>1, OnwardContinues, Zenon DEF Onward, TracksOnly
<1>3. DOMAIN api[u] = SliceFields
  BY Zenon DEF Inv1, SlicesOK, ProperIn, Proper, IsSlice
<1>4. DOMAIN api' = DOMAIN api /\ api'[u].dying = TRUE /\ \A v \in DOMAIN api \ {u} : api'[v] = api[v]
  BY <1>3 DEF ExternalMark, SliceFields
<1> HIDE DEF s
<1>5. ASSUME NEW v, Mine(v)' PROVE FoundAt(v)' /\ NarrowsAt(v)' /\ Shrunk(v)
  <2>1. v # u /\ v \in DOMAIN api /\ api'[v] = api[v]
    BY <1>4, <1>5, Zenon DEF Mine
  <2>2. Mine(v)
    BY <1>1, <1>5, <2>1, Zenon DEF Mine, env
  <2>3. Still(v)
    BY <1>1, <1>2, <2>1, OthersStill, Zenon
  <2> QED
    BY <2>2, <2>3, StillFollows, Zenon
<1> QED
  BY <1>2, <1>5, KnowsShrinks, Zenon

(* An event reaches the cache. *)
LEMMA DeliverStep ==
    ASSUME Inv1, Knows, Deliver
    PROVE  Knows'
<1> DEFINE e == Head(stream)
<1>1. /\ UNCHANGED env /\ UNCHANGED <<api, worker, lost>> /\ stream # << >> /\ stream' = Tail(stream)
      /\ \/ e.slice = NoObject /\ cache' = Without(cache, e.id) /\ tracker' = Without(tracker, e.id)
         \/ e.slice # NoObject /\ cache' = With(cache, e.id, e.slice) /\ tracker' = tracker
  BY Zenon DEF Deliver
<1>2. IsSeq(stream)
  BY Zenon DEF Inv1, SlicesOK
<1>3. /\ 1 \in DOMAIN stream /\ e = stream[1] /\ DOMAIN stream \subseteq Nat
      /\ \A i \in DOMAIN stream' : i + 1 \in DOMAIN stream /\ stream'[i] = stream[i + 1]
  BY <1>1, <1>2, TailFacts, Zenon
<1>4. \A i \in DOMAIN stream' : i \in Nat
  <2>1. \A i \in DOMAIN stream' : i \in DOMAIN Tail(stream)
    BY <1>1, Zenon
  <2>2. stream \in Seq({stream[i] : i \in DOMAIN stream})
    BY <1>2, Zenon DEF IsSeq
  <2>3. \A i \in DOMAIN Tail(stream) : i \in Nat
    BY <1>1, <2>2
  <2> QED
    BY <2>1, <2>3, Zenon
<1>5. \A u \in DOMAIN api : e.id = u => e.slice # NoObject
  BY <1>3, Zenon DEF Inv1, CopiesOK
<1> HIDE DEF e
<1>6. ASSUME NEW v, Mine(v)' PROVE FoundAt(v)' /\ NarrowsAt(v)' /\ Shrunk(v)
  <2>1. Mine(v) /\ v \in DOMAIN api
    BY <1>1, <1>6, Zenon DEF Mine, env
  <2>2. /\ v \in DOMAIN tracker' <=> v \in DOMAIN tracker
        /\ v \in DOMAIN tracker => tracker'[v] = tracker[v]
        /\ v \in DOMAIN cache => v \in DOMAIN cache'
        /\ v \in DOMAIN cache' /\ cache'[v] # e.slice => v \in DOMAIN cache /\ cache'[v] = cache[v]
        /\ v \in DOMAIN cache' /\ v # e.id => v \in DOMAIN cache /\ cache'[v] = cache[v]
    <3>1. CASE e.slice = NoObject /\ cache' = Without(cache, e.id) /\ tracker' = Without(tracker, e.id)
      BY <1>5, <2>1, <3>1, Zenon DEF Without, Restrict
    <3>2. CASE e.slice # NoObject /\ cache' = With(cache, e.id, e.slice) /\ tracker' = tracker
      BY <3>2, Zenon DEF With
    <3> QED
      BY <1>1, <3>1, <3>2, Zenon
  <2>3. \A w : Fresh(v, w)' => Fresh(v, w)
    BY <1>1, <2>2, Zenon DEF Fresh
  <2>4. ASSUME NEW i \in DOMAIN stream', NEW x, SentAt(i, v, x)' PROVE SentAt(i + 1, v, x)
    BY <1>3, <2>3, <2>4, Zenon DEF SentAt
  <2>5. ASSUME NEW x, InStream(v, x)' PROVE \E i \in DOMAIN stream' : SentAt(i + 1, v, x)
    <3>1. PICK i \in DOMAIN stream' : SentAt(i, v, x)'
      BY <2>5, Zenon DEF InStream, SentAt
    <3> QED
      BY <2>4, <3>1, Zenon
  <2>6. ASSUME NEW i \in DOMAIN stream, NEW x, SentAt(i, v, x) PROVE InStream(v, x)
    BY <2>6, Zenon DEF InStream, SentAt
  <2>7. ASSUME NEW x, InCache(v, x)' PROVE InCache(v, x) \/ SentAt(1, v, x)
    BY <1>3, <2>2, <2>3, <2>7, Zenon DEF InCache, SentAt
  <2>8. ASSUME NEW x, Version(v, x)' PROVE Version(v, x)
    <3>1. CASE InCache(v, x)'
      BY <1>3, <2>6, <2>7, <3>1, Zenon DEF Version
    <3>2. CASE InStream(v, x)'
      BY <1>3, <2>5, <2>6, <3>2, Zenon DEF Version
    <3>3. CASE x = api'[v]
      BY <1>1, <3>3, Zenon DEF Version
    <3> QED
      BY <2>8, <3>1, <3>2, <3>3, Zenon DEF Version
  <2>9. Shrunk(v)
    BY <1>1, <2>1, <2>8, NarrowerItself, Zenon DEF Shrunk
  <2>10. FoundAt(v)'
    BY <1>1, <2>1, <2>2, Zenon DEF Knows, Found, FoundAt
  <2>11. NarrowsAt(v)
    BY <2>1, Zenon DEF Knows, Narrowing
  <2>12. ASSUME NEW x, NEW y, InCache(v, x)', Version(v, y)' PROVE Narrower(y, x)
    <3>1. CASE InCache(v, x)
      BY <2>8, <2>11, <2>12, <3>1, Zenon DEF NarrowsAt
    <3>2. CASE SentAt(1, v, x)
      <4>1. CASE InCache(v, y)'
        BY <2>12, <4>1, NarrowerItself, Zenon DEF InCache
      <4>2. CASE y = api'[v]
        BY <1>1, <1>3, <2>6, <2>11, <3>2, <4>2, Zenon DEF NarrowsAt
      <4>3. CASE InStream(v, y)'
        <5>1. PICK i \in DOMAIN stream' : SentAt(i + 1, v, y)
          BY <2>5, <4>3, Zenon
        <5>2. i + 1 \in DOMAIN stream /\ 1 <= i + 1
          BY <1>3, <1>4
        <5> QED
          BY <1>3, <2>11, <3>2, <5>1, <5>2, Zenon DEF NarrowsAt
      <4> QED
        BY <2>12, <4>1, <4>2, <4>3, Zenon DEF Version
    <3> QED
      BY <2>7, <2>12, <3>1, <3>2, Zenon
  <2>13. ASSUME NEW i \in DOMAIN stream', NEW j \in DOMAIN stream', NEW x, NEW y, i <= j,
                SentAt(i, v, x)', SentAt(j, v, y)'
         PROVE  Narrower(y, x)
    <3>1. i + 1 \in DOMAIN stream /\ j + 1 \in DOMAIN stream
      BY <1>3, Zenon
    <3>2. i + 1 <= j + 1
      BY <1>4, <2>13
    <3>3. SentAt(i + 1, v, x) /\ SentAt(j + 1, v, y)
      BY <2>4, <2>13, Zenon
    <3> QED
      BY <2>11, <3>1, <3>2, <3>3, Zenon DEF NarrowsAt
  <2>14. ASSUME NEW x, InStream(v, x)' PROVE Narrower(api'[v], x)
    BY <1>1, <1>3, <2>5, <2>6, <2>11, <2>14, Zenon DEF NarrowsAt
  <2>15. NarrowsAt(v)'
    BY <2>12, <2>13, <2>14, Zenon DEF NarrowsAt
  <2> QED
    BY <2>9, <2>10, <2>15, Zenon
<1> QED
  BY <1>1, <1>6, OnwardContinues, KnowsShrinks, Zenon DEF Onward

(* The informer lists everything, in the same process or in a new one. *)
LEMMA ListStep ==
    ASSUME Inv1, Knows, UNCHANGED <<svc, api>>, cache' = api, stream' = << >>, Onward
    PROVE  Knows'
<1>1. DOMAIN stream' = {}
  BY EmptyFacts, Zenon
<1>2. ASSUME NEW v, Mine(v)' PROVE FoundAt(v)' /\ NarrowsAt(v)' /\ Shrunk(v)
  <2>1. Mine(v) /\ FoundAt(v)'
    BY <1>2, Zenon DEF Mine, FoundAt
  <2>2. \A w : Version(v, w)' => w = api[v]
    BY <1>1, Zenon DEF Version, InCache, InStream
  <2>3. Even(v)
    BY <2>2, NarrowerItself, Zenon DEF Even
  <2>4. Shrunk(v)
    BY <2>1, <2>2, NarrowerItself, Zenon DEF Shrunk, Version
  <2> QED
    BY <2>1, <2>3, <2>4, EvenNarrows, Zenon
<1> QED
  BY <1>2, OnwardContinues, KnowsShrinks, Zenon

-----------------------------------------------------------------------------
(* The second invariant: the steps of the worker.                          *)

(* While a run is on, a slice that counts belongs to the Service of the run. *)
LEMMA MineIsTheWorkers ==
    ASSUME Inv1, worker.pc # "idle", NEW u, Mine(u)
    PROVE  api[u].owner = worker.svc.uid
<1>1. u \in DOMAIN api /\ svc.uid = lastUid /\ api[u].owner = lastUid /\ lastUid \in 1 .. MaxUid
  BY Zenon DEF Mine, Inv1, WorldOK
<1>2. lastUid <= worker.svc.uid /\ worker.svc.uid \in 1 .. lastUid
  BY <1>1, Zenon DEF Inv1, HeldOK, WorkerOK
<1> QED
  BY <1>1, <1>2, BoundAssumption

(* A run starts: the tracker found no slice missing and none too old. *)
LEMMA SyncBeginsStep ==
    ASSUME Inv1, Knows, SyncBegins
    PROVE  Knows'
<1>1. /\ worker.pc = "idle" /\ UNCHANGED env /\ UNCHANGED store /\ UNCHANGED <<cache, tracker>>
      /\ ~StaleSlices(worker'.slices)
      /\ worker'.track = NoTrack /\ worker'.plan = NoPlan
      /\ DOMAIN worker'.slices = {u \in DOMAIN cache : ~cache[u].dying}
      /\ \A u \in DOMAIN worker'.slices : worker'.slices[u] = cache[u]
  BY BeginsFacts, Zenon
<1>2. worker.track = NoTrack
  BY <1>1, Zenon DEF Inv1, WorkerOK
<1>3. \A v : (Mine(v)' => Mine(v)) /\ Still(v)
  BY <1>1, <1>2, Zenon DEF Mine, Still, env, store
<1>4. \A v : Mine(v)' => FoundAt(v)' /\ NarrowsAt(v)' /\ Shrunk(v)
  BY <1>3, StillFollows, Zenon
<1>5. Apart'
  <2>1. \A v : Mine(v)' => Changed(v, 0, 0)
    BY <1>4, Zenon DEF Changed
  <2> QED
    BY <2>1, ApartStep, Zenon
<1>6. PlanApart'
  BY <1>1, IdleFields, Zenon DEF PlanApart
<1>7. ASSUME NEW v, Mine(v)' PROVE v \in DOMAIN worker'.slices /\ InCache(v, cache[v])
  <2>1. Mine(v) /\ v \in DOMAIN api /\ v # NoId /\ ~api[v].dying
    BY <1>3, <1>7, SliceIdAssumption, Zenon DEF Mine, Inv1, SlicesOK, ProperIn
  <2>2. v \in DOMAIN cache \/ v \in DOMAIN tracker
    BY <1>2, <2>1, IdleFields, Zenon DEF Knows, Found, FoundAt
  <2>3. v \in DOMAIN tracker => tracker[v] \in 0 .. api[v].gen
    BY <2>1, Zenon DEF Inv1, CopiesOK
  <2>4. v \in DOMAIN tracker => tracker[v] \in Nat /\ tracker[v] # deletionExpected
    BY <2>3 DEF deletionExpected
  <2>5. v \in DOMAIN cache => ~cache[v].dying
    BY <2>1, Zenon DEF Inv1, CopiesOK, Older
  <2>6. v \in DOMAIN worker'.slices
    BY <1>1, <2>2, <2>4, <2>5, Zenon DEF StaleSlices
  <2>7. v \in DOMAIN cache /\ worker'.slices[v] = cache[v]
    BY <1>1, <2>6, Zenon
  <2>8. v \in DOMAIN tracker => ~(tracker[v] > cache[v].gen)
    BY <1>1, <2>6, <2>7, Zenon DEF StaleSlices
  <2>9. IsSlice(cache[v])
    BY <2>7, Zenon DEF Inv1, SlicesOK, ProperIn, Proper
  <2>10. cache[v].gen \in Nat
    BY <2>9, Zenon DEF IsSlice
  <2>11. v \in DOMAIN tracker => tracker[v] <= cache[v].gen
    BY <2>4, <2>8, <2>10
  <2>12. Fresh(v, cache[v])
    BY <1>2, <2>1, <2>11, IdleFields, Zenon DEF Fresh
  <2> QED
    BY <2>6, <2>7, <2>12, Zenon DEF InCache
<1>8. ASSUME NEW v, NEW x, Version(v, x)' PROVE Version(v, x)
  <2>1. Fresh(v, x)' => Fresh(v, x)
    BY <1>1, <1>2, Zenon DEF Fresh
  <2> QED
    BY <1>1, <1>8, <2>1, Zenon DEF Version, InCache, InStream, store
<1>9. ASSUME NEW v, Mine(v)', NEW x, Version(v, x)' PROVE Narrower(x, worker'.slices[v])
  <2>1. Mine(v) /\ InCache(v, cache[v]) /\ Version(v, x) /\ worker'.slices[v] = cache[v]
    BY <1>1, <1>3, <1>7, <1>8, <1>9, Zenon
  <2> QED
    BY <2>1, Zenon DEF Knows, Narrowing, NarrowsAt
<1>10. ASSUME NEW v, NEW w, Mine(v)', Mine(w)', v # w, api'[v].type = api'[w].type
       PROVE  Disjoint(worker'.slices[v], worker'.slices[w])
  <2>1. /\ Mine(v) /\ Version(v, cache[v]) /\ worker'.slices[v] = cache[v]
        /\ Mine(w) /\ Version(w, cache[w]) /\ worker'.slices[w] = cache[w]
    BY <1>1, <1>3, <1>7, <1>10, Zenon DEF Version
  <2> QED
    BY <1>1, <1>10, <2>1, Zenon DEF Knows, Apart, store
<1>11. Covered'
  BY <1>7, <1>9, <1>10, Zenon DEF Covered
<1> QED
  BY <1>4, <1>5, <1>6, <1>11, Zenon DEF Knows, Found, Narrowing

(* A planned slice is created under an id that nobody knows. *)
LEMMA CreateKnows ==
    ASSUME Inv1, Knows, worker.pc = "apply", NEW s \in ToCreate, CreateSlice(s),
           UNCHANGED env, UNCHANGED <<cache, tracker>>, ~lost'
    PROVE  Knows'
<1> DEFINE x == NewSlice(s)
<1>1. UNCHANGED <<svc, lastUid>>
  BY Zenon DEF env
<1>2. PICK u : u = NewId
  OBVIOUS
<1>3. /\ u \in FreshIds /\ api' = With(api, u, x) /\ stream' = Append(stream, [id |-> u, slice |-> x])
      /\ GoesOn
      /\ worker'.plan.create = worker.plan.create \ {s} /\ worker'.plan.update = worker.plan.update
      /\ worker'.track.id = u
  BY <1>1, <1>2, CreateStep, Zenon DEF Emit
<1>4. /\ s \in worker.plan.create /\ x.type = s.type /\ x.eps = s.eps /\ x.ports = s.ports
  BY CreateFacts, Zenon
<1>5. PICK t \in AddressTypes \ worker.todo : PlanOf(t)
  BY Zenon DEF Inv1, PlanOK
<1>6. s.type \notin worker.todo
  BY <1>4, <1>5, Zenon DEF PlanOf, Item
<1>7. /\ u \notin DOMAIN api /\ u \notin DOMAIN cache /\ u \notin DOMAIN worker.slices
      /\ \A i \in DOMAIN stream : stream[i].id # u
  BY <1>3, Zenon DEF FreshIds
<1>8. worker.track = NoTrack
  BY Zenon DEF Inv1, WorkerOK
<1>9. TracksOnly(u) /\ Continues
  BY <1>3, <1>8, OnwardContinues, Zenon DEF TracksOnly, Onward
<1> HIDE DEF x
<1>10. DOMAIN api' = DOMAIN api \cup {u} /\ api'[u] = x /\ \A v \in DOMAIN api \ {u} : api'[v] = api[v]
  BY <1>3, Zenon DEF With
<1>11. \A i \in DOMAIN stream' : \/ i \in DOMAIN stream /\ stream'[i] = stream[i]
                                 \/ stream'[i].slice = x /\ \A j \in DOMAIN stream : ~(i <= j)
  BY <1>3, SentLast, Zenon
<1>12. ASSUME NEW v, Mine(v)', v # u PROVE FoundAt(v)' /\ NarrowsAt(v)' /\ Shrunk(v)
  <2>1. v \in DOMAIN api /\ api'[v] = api[v]
    BY <1>10, <1>12, Zenon DEF Mine
  <2>2. Mine(v)
    BY <1>1, <1>12, <2>1, Zenon DEF Mine
  <2>3. Still(v)
    BY <1>3, <1>9, <1>12, <2>1, OthersStill, Zenon
  <2> QED
    BY <2>2, <2>3, StillFollows, Zenon
<1>13. ASSUME NEW w, Version(u, w)' PROVE w = x
  <2>1. ~InCache(u, w)'
    BY <1>7, Zenon DEF InCache
  <2>2. ASSUME NEW i \in DOMAIN stream', stream'[i].id = u, stream'[i].slice = w PROVE w = x
    BY <1>7, <1>11, <2>2, Zenon
  <2>3. InStream(u, w)' => w = x
    BY <2>2, Zenon DEF InStream
  <2> QED
    BY <1>10, <1>13, <2>1, <2>3, Zenon DEF Version
<1>14. Even(u)
  BY <1>10, <1>13, NarrowerItself, Zenon DEF Even
<1>15. FoundAt(u)' /\ NarrowsAt(u)'
  BY <1>3, <1>14, EvenNarrows, Zenon DEF FoundAt
<1>16. u \notin DOMAIN worker.plan.update
  BY <1>5, <1>7, Zenon DEF PlanOf
<1>17. Alone(u, s)
  <2>1. \A v : Mine(v) /\ v # u /\ api[v].type = s.type => \A y : Version(v, y) => Disjoint(s, y)
    BY <1>4, Zenon DEF Knows, PlanApart
  <2>2. \A d \in worker'.plan.create : Disjoint(s, d)
    BY <1>3, <1>4, Zenon DEF Knows, PlanApart
  <2>3. \A v \in DOMAIN worker'.plan.update : Disjoint(s, worker'.plan.update[v])
    BY <1>3, <1>4, Zenon DEF Knows, PlanApart
  <2> QED
    BY <1>3, <1>6, <1>16, <2>1, <2>2, <2>3, Zenon DEF Alone
<1>18. Put(u, s)
  <2>1. Narrower(x, s)
    BY <1>4, Zenon DEF Narrower, Keys
  <2> QED
    BY <1>4, <1>10, <1>13, <1>17, <2>1, Zenon DEF Put
<1>19. \A v : Mine(v)' => FoundAt(v)' /\ NarrowsAt(v)' /\ Changed(v, u, s)
  BY <1>12, <1>15, <1>18, Zenon DEF Changed
<1> QED
  BY <1>9, <1>19, KnowsStep, Zenon

(* The API server takes over an update, or finds it equal to what it has. *)
LEMMA PutFacts ==
    ASSUME Inv1, worker.pc = "apply", NEW u \in ToUpdate, UpdateSlice(u)
    PROVE  \/ UNCHANGED <<api, stream>>
           \/ \E s : /\ api' = With(api, u, s) /\ stream' = Append(stream, [id |-> u, slice |-> s])
                     /\ Older(api[u], s) /\ IsSlice(s) /\ s.dying = api[u].dying
                     /\ s.eps = worker.plan.update[u].eps /\ s.ports = worker.plan.update[u].ports
                     /\ s.gen = api[u].gen => s.eps = api[u].eps /\ s.ports = api[u].ports
<1> DEFINE new == worker.plan.update[u]
           s == Stored(api[u], new)
<1>1. PutSlice(u, new)
  BY Zenon DEF UpdateSlice
<1>2. Proper(api[u], lastUid) /\ Rewrite(api[u], new)
  BY UpdateFacts, Zenon
<1>3. CASE UNCHANGED store
  BY <1>3, Zenon DEF store
<1>4. CASE api' = With(api, u, s) /\ Emit(u, api'[u])
  <2>1. stream' = Append(stream, [id |-> u, slice |-> s]) /\ api' = With(api, u, s)
    BY <1>4, Zenon DEF Emit, With
  <2>2. PICK y : y = s
    OBVIOUS
  <2>3. PICK old, m, n : old = api[u] /\ m = lastUid /\ n = new
    OBVIOUS
  <2>4. Proper(old, m) /\ Rewrite(old, n) /\ y = Stored(old, n)
    BY <1>2, <2>2, <2>3, Zenon
  <2>5. /\ Proper(y, m) /\ Older(old, y) /\ y.eps = n.eps /\ y.ports = n.ports
        /\ y.gen = old.gen => n.eps = old.eps /\ n.ports = old.ports
        /\ y.dying = old.dying
    BY <2>4, StoredFacts
  <2>6. stream' = Append(stream, [id |-> u, slice |-> y]) /\ api' = With(api, u, y)
    BY <2>1, <2>2, Zenon
  <2> HIDE DEF s, new
  <2>7. /\ Older(api[u], y) /\ IsSlice(y) /\ y.dying = api[u].dying
        /\ y.eps = new.eps /\ y.ports = new.ports
        /\ y.gen = api[u].gen => y.eps = api[u].eps /\ y.ports = api[u].ports
    BY <2>3, <2>5, Zenon DEF Proper
  <2> QED
    BY <2>6, <2>7, Zenon DEF new
<1> QED
  BY <1>1, <1>3, <1>4, Zenon DEF PutSlice

(* After an update of u only versions of the answered generation count, and they did before. *)
LEMMA AnswerFresh ==
    ASSUME Inv1, worker.track = NoTrack, NEW u \in DOMAIN api, UNCHANGED tracker,
           worker'.track.id = u, worker'.track.gen = api[u].gen, NEW w, IsSlice(w), Fresh(u, w)'
    PROVE  Fresh(u, w)
<1>1. api[u].gen <= w.gen /\ worker.track.id # u
  BY IdleFields, SliceIdAssumption, Zenon DEF Fresh, Inv1, SlicesOK, ProperIn
<1>2. IsSlice(api[u]) /\ (u \in DOMAIN tracker => tracker[u] \in 0 .. api[u].gen)
  BY Zenon DEF Inv1, SlicesOK, ProperIn, Proper, CopiesOK
<1>3. api[u].gen \in Nat /\ w.gen \in Nat
  BY <1>2, Zenon DEF IsSlice
<1>4. u \in DOMAIN tracker => tracker[u] <= w.gen
  BY <1>1, <1>2, <1>3
<1> QED
  BY <1>1, <1>4, Zenon DEF Fresh

(* An update is stored: the tracker learns of it, or the answer is lost. *)
LEMMA UpdateKnows ==
    ASSUME Inv1, Knows, worker.pc = "apply", NEW u \in ToUpdate, UpdateSlice(u),
           UNCHANGED env, UNCHANGED <<cache, tracker>>, ~lost'
    PROVE  Knows'
<1>1. UNCHANGED <<svc, lastUid>>
  BY Zenon DEF env
<1>2. PICK c : c = worker.plan.update[u]
  OBVIOUS
<1>3. /\ GoesOn /\ worker'.plan.create = worker.plan.create
      /\ DOMAIN worker'.plan.update = DOMAIN worker.plan.update \ {u}
      /\ worker'.track.id = u /\ worker'.track.gen = api'[u].gen
  BY <1>1, UpdateStep, Zenon
<1>4. /\ u \in DOMAIN api /\ u \in DOMAIN worker.plan.update /\ c.type = api[u].type
      /\ IsSlice(api[u])
  BY <1>2, UpdateFacts, Zenon DEF Rewrite, Proper
<1>5. PICK t \in AddressTypes \ worker.todo : PlanOf(t)
  BY Zenon DEF Inv1, PlanOK
<1>6. c.type \notin worker.todo
  BY <1>2, <1>4, <1>5, Zenon DEF PlanOf, Item
<1>7. worker.track = NoTrack
  BY Zenon DEF Inv1, WorkerOK
<1>8. TracksOnly(u) /\ Continues /\ FoundAt(u)'
  BY <1>3, <1>7, OnwardContinues, Zenon DEF TracksOnly, Onward, FoundAt
<1>9. \A i \in DOMAIN stream : stream[i].id = u => IsSlice(stream[i].slice)
  BY <1>4, Zenon DEF Inv1, CopiesOK, SlicesOK, Proper
<1>10. u \in DOMAIN cache => IsSlice(cache[u])
  BY Zenon DEF Inv1, SlicesOK, ProperIn, Proper
<1>11. CASE UNCHANGED <<api, stream>>
  <2>1. \A v : Mine(v)' => Mine(v)
    BY <1>1, <1>11, Zenon DEF Mine
  <2>2. ASSUME NEW v, Mine(v)', v # u PROVE FoundAt(v)' /\ NarrowsAt(v)' /\ Shrunk(v)
    <3>1. v # NoId
      BY <1>11, <2>2, SliceIdAssumption, Zenon DEF Mine, Inv1, SlicesOK, ProperIn
    <3>2. Still(v)
      BY <1>3, <1>7, <1>11, <2>2, <3>1, IdleFields, Zenon DEF Still
    <3> QED
      BY <2>1, <2>2, <3>2, StillFollows, Zenon
  <2>3. ASSUME NEW w, Version(u, w)', Fresh(u, w)' PROVE Fresh(u, w)
    <3>1. IsSlice(w)
      BY <1>4, <1>9, <1>10, <1>11, <2>3, Zenon DEF Version, InCache, InStream
    <3> QED
      BY <1>3, <1>4, <1>7, <1>11, <2>3, <3>1, AnswerFresh, Zenon
  <2>4. Mine(u)' => Follows(u)
    BY <1>11, <2>1, <2>3, NarrowerItself, Zenon DEF Follows
  <2>5. \A v : Mine(v)' => FoundAt(v)' /\ NarrowsAt(v)' /\ Shrunk(v)
    BY <1>8, <2>2, <2>4, FollowsShrunk, FollowsNarrows, Zenon
  <2> QED
    BY <1>8, <2>5, KnowsShrinks, Zenon
<1>12. ASSUME NEW s, api' = With(api, u, s), stream' = Append(stream, [id |-> u, slice |-> s]),
              Older(api[u], s), IsSlice(s), s.dying = api[u].dying,
              s.eps = c.eps, s.ports = c.ports,
              s.gen = api[u].gen => s.eps = api[u].eps /\ s.ports = api[u].ports
       PROVE  Knows'
  <2>1. DOMAIN api' = DOMAIN api /\ api'[u] = s /\ \A v \in DOMAIN api \ {u} : api'[v] = api[v]
    BY <1>4, <1>12, Zenon DEF With
  <2>2. \A i \in DOMAIN stream' : \/ i \in DOMAIN stream /\ stream'[i] = stream[i]
                                  \/ stream'[i].slice = s /\ \A j \in DOMAIN stream : ~(i <= j)
    BY <1>12, SentLast, Zenon
  <2>3. s.type = api[u].type /\ s.owner = api[u].owner
    BY <1>12, Zenon DEF Older
  <2>4. \A v : Mine(v)' => Mine(v)
    BY <1>1, <1>12, <2>1, <2>3, Zenon DEF Mine
  <2>5. ASSUME NEW v, Mine(v)', v # u PROVE FoundAt(v)' /\ NarrowsAt(v)' /\ Shrunk(v)
    <3>1. v \in DOMAIN api /\ api'[v] = api[v]
      BY <2>1, <2>5, Zenon DEF Mine
    <3>2. Still(v)
      BY <1>8, <1>12, <2>5, <3>1, OthersStill, Zenon
    <3> QED
      BY <2>4, <2>5, <3>2, StillFollows, Zenon
  <2>6. ASSUME Mine(u)' PROVE NarrowsAt(u)' /\ Changed(u, u, c)
    <3>1. CASE s.gen = api[u].gen
      <4>1. ASSUME NEW w, Version(u, w)', Fresh(u, w)' PROVE Fresh(u, w)
        <5>1. ASSUME NEW i \in DOMAIN stream', stream'[i].id = u PROVE IsSlice(stream'[i].slice)
          BY <1>9, <1>12, <2>2, <5>1, Zenon
        <5>2. IsSlice(w)
          BY <1>10, <1>12, <2>1, <4>1, <5>1, Zenon DEF Version, InCache, InStream
        <5> QED
          BY <1>3, <1>4, <1>7, <2>1, <3>1, <4>1, <5>2, AnswerFresh, Zenon
      <4>2. Narrower(s, api[u])
        BY <1>12, <3>1, Zenon DEF Narrower, Keys
      <4>3. Follows(u)
        BY <2>1, <2>2, <2>3, <2>4, <2>6, <4>1, <4>2, Zenon DEF Follows
      <4> QED
        BY <4>3, FollowsShrunk, FollowsNarrows, Zenon DEF Changed
    <3>2. CASE s.gen # api[u].gen
      <4>1. api[u].gen \in Nat /\ s.gen \in Nat /\ api[u].gen <= s.gen
        BY <1>4, <1>12, Zenon DEF IsSlice, Older
      <4>2. ASSUME NEW w, IsSlice(w), Older(w, api[u]) PROVE ~Fresh(u, w)'
        <5>1. w.gen \in Nat /\ w.gen <= api[u].gen
          BY <4>2, Zenon DEF IsSlice, Older
        <5>2. ~(s.gen <= w.gen)
          BY <3>2, <4>1, <5>1
        <5> QED
          BY <1>3, <2>1, <5>2, Zenon DEF Fresh
      <4>3. ASSUME NEW w, InCache(u, w)' PROVE FALSE
        <5>1. w = cache[u] /\ u \in DOMAIN cache /\ Fresh(u, w)'
          BY <4>3, Zenon DEF InCache
        <5>2. Older(w, api[u])
          BY <1>4, <5>1, Zenon DEF Inv1, CopiesOK
        <5> QED
          BY <1>10, <4>2, <5>1, <5>2, Zenon
      <4>4. ASSUME NEW w, InStream(u, w)' PROVE w = s
        <5>1. PICK i \in DOMAIN stream' : stream'[i].id = u /\ stream'[i].slice = w
          BY <4>4, Zenon DEF InStream
        <5>2. CASE i \in DOMAIN stream /\ stream'[i] = stream[i]
          <6>1. IsSlice(w) /\ Older(w, api[u])
            BY <1>4, <1>9, <5>1, <5>2, Zenon DEF Inv1, CopiesOK
          <6> QED
            BY <4>2, <4>4, <6>1, Zenon DEF InStream
        <5> QED
          BY <2>2, <5>1, <5>2, Zenon
      <4>5. \A w : Version(u, w)' => w = s
        BY <2>1, <4>3, <4>4, Zenon DEF Version
      <4>6. Even(u)
        BY <2>1, <4>5, NarrowerItself, Zenon DEF Even
      <4>7. Mine(u)
        BY <2>4, <2>6, Zenon
      <4>8. Alone(u, c)
        <5>1. \A v : Mine(v) /\ v # u /\ api[v].type = c.type => \A y : Version(v, y) => Disjoint(c, y)
          BY <1>2, <1>4, <4>7, Zenon DEF Knows, PlanApart
        <5>2. \A d \in worker'.plan.create : Disjoint(c, d)
          BY <1>2, <1>3, <1>4, DisjointSymmetric, Zenon DEF Knows, PlanApart
        <5>3. ASSUME NEW v \in DOMAIN worker'.plan.update, v # u, Mine(v)
              PROVE  Disjoint(c, worker'.plan.update[v])
          <6>1. worker'.plan.update[v] = worker.plan.update[v] /\ v \in DOMAIN worker.plan.update
            BY <1>3, <5>3, Zenon DEF GoesOn, Lesser
          <6> QED
            BY <1>2, <1>4, <4>7, <5>3, <6>1, Zenon DEF Knows, PlanApart
        <5> QED
          BY <1>3, <1>6, <5>1, <5>2, <5>3, Zenon DEF Alone
      <4>9. Narrower(s, c)
        BY <1>12, Zenon DEF Narrower, Keys
      <4>10. Put(u, c)
        BY <1>4, <2>1, <2>3, <4>5, <4>8, <4>9, Zenon DEF Put
      <4> QED
        BY <4>6, <4>10, EvenNarrows, Zenon DEF Changed
    <3> QED
      BY <3>1, <3>2, Zenon
  <2>7. \A v : Mine(v)' => FoundAt(v)' /\ NarrowsAt(v)' /\ Changed(v, u, c)
    <3>1. \A v : v # u /\ Mine(v)' => FoundAt(v)' /\ NarrowsAt(v)' /\ Changed(v, u, c)
      BY <2>5, Zenon DEF Changed
    <3> QED
      BY <1>8, <2>6, <3>1, Zenon
  <2> QED
    BY <1>8, <2>7, KnowsStep, Zenon
<1>13. \/ UNCHANGED <<api, stream>>
       \/ \E s : /\ api' = With(api, u, s) /\ stream' = Append(stream, [id |-> u, slice |-> s])
                 /\ Older(api[u], s) /\ IsSlice(s) /\ s.dying = api[u].dying
                 /\ s.eps = c.eps /\ s.ports = c.ports
                 /\ s.gen = api[u].gen => s.eps = api[u].eps /\ s.ports = api[u].ports
  BY <1>2, PutFacts, Zenon
<1> QED
  BY <1>11, <1>12, <1>13, Zenon
=============================================================================
