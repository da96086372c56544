-------------------------- MODULE EndpointSlicePlans ---------------------------
(***************************************************************************)
(* What the plans of the EndpointSlice reconciler have in common, whatever *)
(* order its maps are iterated in: every slice to write fits into          *)
(* maxEndpointsPerSlice and belongs to the Service, and no two of them     *)
(* share an endpoint that the slices of the cache did not share.           *)
(***************************************************************************)
EXTENDS EndpointSliceSoundness, FiniteSetTheorems, TLAPS

\* A set of desired endpoints: finite, and one endpoint for each key.
Desirable(D) ==
    /\ IsFiniteSet(D)
    /\ \A d \in D : IsEndpoint(d)
    /\ \A c, d \in D : hashEndpoint(c) = hashEndpoint(d) => c = d

\* The slices X of one port map, each a slice of the Service.
OwnSlices(sv, type, ports, X) ==
    \A u \in DOMAIN X : Item(sv, type, X[u]) /\ X[u].ports = ports

\* Endpoints that none of the slices X holds.
Unheld(R, X) == \A d \in R : \A u \in DOMAIN X : hashEndpoint(d) \notin Keys(X[u])

-----------------------------------------------------------------------------
(* Step 1 of reconcileByPortMapping.                                       *)

(* Every nonempty set of naturals has a least element. *)
LEMMA LeastNatural ==
    ASSUME NEW T, T \subseteq Nat, T # {}
    PROVE  \E x \in T : \A y \in T : x <= y
<1>1. PICK x \in T : \A y \in T : ~(<<y, x>> \in OpToRel(<, Nat))
  BY WFMin, NatLessThanWellFounded, Zenon
<1>2. \A y \in T : ~(y < x)
  BY <1>1, Zenon DEF OpToRel
<1> QED
  BY <1>2

(* The endpoints of the pods of one port map: one for each pod. *)
LEMMA DesiredDesirable ==
    ASSUME NEW pods, NEW nodes, NEW sv, NEW m, DOMAIN pods \subseteq Pod
    PROVE  Desirable(DesiredEndpoints(pods, nodes, sv, m))
<1> DEFINE P == {q \in Listed(pods) : /\ pods[q].ports = m /\ pods[q].addr # NoAddr
                                      /\ ~NodeMissing(pods[q], nodes, sv)}
           f == [p \in P |-> podToEndpoint(p, pods[p], nodes, sv)]
           D == DesiredEndpoints(pods, nodes, sv, m)
<1>1. IsFiniteSet(P)
  <2>1. P \subseteq Pod
    BY Zenon DEF Listed
  <2> QED
    BY <2>1, PodAssumption, FS_Subset, Zenon
<1>2. D = {f[p] : p \in P}
  BY Zenon DEF DesiredEndpoints
<1>3. f \in Surjection(P, D)
  BY <1>2, Zenon DEF Surjection
<1>4. IsFiniteSet(D)
  BY <1>1, <1>3, FS_Surjection, Zenon
<1>5. ASSUME NEW d \in D PROVE IsEndpoint(d) /\ d.pod \in P /\ d = f[d.pod]
  <2>1. PICK p \in P : d = podToEndpoint(p, pods[p], nodes, sv)
    BY <1>2, Zenon
  <2>2. d.pod = p /\ {"pod", "addr"} \subseteq DOMAIN d
    BY <2>1, Zenon DEF podToEndpoint
  <2> QED
    BY <2>1, <2>2, Zenon DEF IsEndpoint
<1>6. ASSUME NEW c \in D, NEW d \in D, hashEndpoint(c) = hashEndpoint(d) PROVE c = d
  <2>1. c.pod = d.pod
    BY <1>6, Zenon DEF hashEndpoint
  <2> HIDE DEF D, f
  <2> QED
    BY <1>5, <2>1, Zenon
<1> QED
  BY <1>4, <1>5, <1>6, Zenon DEF Desirable

(* What the slices keep is desired and was theirs, and what one of them holds is kept by *)
(* one of them: the first the loop visits.                                               *)
LEMMA KeepsKept ==
    ASSUME NEW X, NEW D, NEW kept \in Keeps(X, D)
    PROVE  /\ DOMAIN kept = DOMAIN X
           /\ \A u \in DOMAIN X : kept[u] \subseteq D /\ Hashes(kept[u]) \subseteq Keys(X[u])
           /\ \A d \in D : \A u \in DOMAIN X :
                hashEndpoint(d) \in Keys(X[u]) => \E v \in DOMAIN X : d \in kept[v]
<1> DEFINE C == Contested(X, D)
           First(pos, u, d) == \A v \in Holders(X, d) \ {u} : pos[u] < pos[v]
<1>1. PICK pos \in Injection(C, 1 .. Cardinality(C)) :
         kept = [u \in DOMAIN X |-> {d \in D : u \in Holders(X, d) /\ First(pos, u, d)}]
  BY Zenon DEF Keeps
<1>2. DOMAIN kept = DOMAIN X
  BY <1>1, Zenon
<1>3. ASSUME NEW u \in DOMAIN X
      PROVE  kept[u] \subseteq D /\ Hashes(kept[u]) \subseteq Keys(X[u])
  BY <1>1, Zenon DEF Holders, Holds, Hashes, Keys
<1>4. ASSUME NEW d \in D, NEW u \in DOMAIN X, hashEndpoint(d) \in Keys(X[u])
      PROVE  \E v \in DOMAIN X : d \in kept[v]
  <2>1. u \in Holders(X, d)
    BY <1>4, Zenon DEF Holders, Holds, Keys, Hashes
  <2>2. Holders(X, d) \subseteq DOMAIN X
    BY Zenon DEF Holders
  <2>3. CASE Holders(X, d) = {u}
    BY <2>1, <2>3, <1>1, Zenon
  <2>4. CASE Holders(X, d) # {u}
    <3>1. ASSUME NEW v \in Holders(X, d) PROVE v \in C
      BY <2>1, <2>2, <2>4, Zenon DEF Contested
    <3>2. ASSUME NEW v \in Holders(X, d) PROVE pos[v] \in Nat
      BY <3>1, <1>1 DEF Injection
    <3>3. ASSUME NEW v \in Holders(X, d), NEW w \in Holders(X, d), v # w PROVE pos[v] # pos[w]
      BY <3>1, <3>3, <1>1, Zenon DEF Injection, IsInjective
    <3> DEFINE T == {pos[v] : v \in Holders(X, d)}
    <3>4. PICK x \in T : \A y \in T : x <= y
      <4>1. T \subseteq Nat /\ T # {}
        BY <2>1, <3>2, Zenon
      <4> HIDE DEF T
      <4> QED
        BY <4>1, LeastNatural, Zenon
    <3>5. PICK v \in Holders(X, d) : x = pos[v]
      BY <3>4, Zenon
    <3>6. ASSUME NEW w \in Holders(X, d) \ {v} PROVE pos[v] < pos[w]
      <4>1. pos[v] <= pos[w]
        BY <3>4, <3>5, Zenon
      <4>2. pos[v] # pos[w] /\ pos[v] \in Nat /\ pos[w] \in Nat
        BY <3>2, <3>3, Zenon
      <4> QED
        BY <4>1, <4>2
    <3> QED
      BY <1>1, <2>2, <3>5, <3>6, Zenon
  <2> QED
    BY <2>3, <2>4, Zenon
<1> QED
  BY <1>2, <1>3, <1>4, Zenon

(* What a slice keeps is no more than it held. *)
LEMMA KeptFits ==
    ASSUME NEW D, Desirable(D), NEW s, Fits(s.eps), NEW K \in SUBSET D, Hashes(K) \subseteq Keys(s)
    PROVE  Fits(K)
<1> DEFINE f == [d \in K |-> CHOOSE e \in s.eps : hashEndpoint(e) = hashEndpoint(d)]
<1>1. ASSUME NEW d \in K PROVE f[d] \in s.eps /\ hashEndpoint(f[d]) = hashEndpoint(d)
  <2>1. \E e \in s.eps : hashEndpoint(e) = hashEndpoint(d)
    <3>1. hashEndpoint(d) \in Keys(s)
      BY Zenon DEF Hashes
    <3> QED
      BY <3>1, Zenon DEF Keys, Hashes
  <2> QED
    BY <2>1, Zenon
<1>2. f \in Injection(K, s.eps)
  BY <1>1 DEF Injection, IsInjective, Desirable
<1>3. IsFiniteSet(K) /\ Cardinality(K) <= Cardinality(s.eps)
  BY <1>2, FS_Injection, Zenon DEF Fits
<1> QED
  BY <1>3, FS_CardinalityType, MaxEndpointsAssumption DEF Fits

(* A copy of a slice with other endpoints. *)
LEMMA ItemWithEndpoints ==
    ASSUME NEW sv, NEW type, NEW x, Item(sv, type, x), NEW E, Fits(E), \A e \in E : IsEndpoint(e),
           NEW y, y = [x EXCEPT !.eps = E]
    PROVE  Item(sv, type, y) /\ y.ports = x.ports /\ y.eps = E
<1>1. /\ DOMAIN y = SliceFields /\ y.eps = E /\ y.owner = x.owner /\ y.type = x.type
      /\ y.dying = x.dying /\ y.ports = x.ports
  BY Zenon DEF Item, SliceFields
<1> QED
  BY <1>1, Zenon DEF Item

(* A new slice. *)
LEMMA ItemNew ==
    ASSUME NEW sv, NEW type, NEW ports, NEW E, Fits(E), \A e \in E : IsEndpoint(e),
           NEW y, y = newEndpointSlice(sv, ports, type, E)
    PROVE  Item(sv, type, y) /\ y.ports = ports /\ y.eps = E
<1>1. /\ DOMAIN y = SliceFields /\ y.eps = E /\ y.owner = sv.uid /\ y.type = type
      /\ y.dying = FALSE /\ y.ports = ports
  BY Zenon DEF newEndpointSlice, SliceFields
<1> QED
  BY <1>1, Zenon DEF Item

\* The slices after step 1: one that is updated holds nothing it did not hold before.
AfterStepOne(sv, type, ports, X, s) ==
    /\ s.delete \subseteq DOMAIN X /\ DOMAIN s.update \subseteq DOMAIN X \ s.delete
    /\ DOMAIN s.unchanged \subseteq DOMAIN X \ (DOMAIN s.update \cup s.delete)
    /\ \A u \in DOMAIN s.unchanged : s.unchanged[u] = X[u]
    /\ \A u \in DOMAIN s.update : /\ Item(sv, type, s.update[u]) /\ s.update[u].ports = ports
                                  /\ Keys(s.update[u]) \subseteq Keys(X[u])

(* What step 1 leaves: slices that fit, each with endpoints it kept. *)
LEMMA StepOneResult ==
    ASSUME NEW sv, NEW type, NEW ports, NEW X, OwnSlices(sv, type, ports, X),
           NEW D, Desirable(D), NEW kept \in Keeps(X, D)
    PROVE  AfterStepOne(sv, type, ports, X, StepOne(sv, X, kept))
<1> DEFINE changed == {u \in DOMAIN X : EndpointsChanged(X[u], kept[u])}
           delete  == {u \in changed : kept[u] = {}}
           relabel == {u \in DOMAIN X \ changed : setEndpointSliceLabels(X[u], sv)}
           eps(u)  == IF u \in changed THEN kept[u] ELSE X[u].eps
           s       == StepOne(sv, X, kept)
<1>1. /\ s.delete = delete
      /\ s.update = [u \in (changed \ delete) \cup relabel |->
                       [X[u] EXCEPT !.labels = sv.labels, !.eps = eps(u)]]
      /\ s.unchanged = Restrict(X, DOMAIN X \ (changed \cup relabel))
  BY Zenon DEF StepOne
<1>2. /\ s.delete \subseteq DOMAIN X /\ DOMAIN s.update \subseteq DOMAIN X \ s.delete
      /\ DOMAIN s.unchanged \subseteq DOMAIN X \ (DOMAIN s.update \cup s.delete)
      /\ \A u \in DOMAIN s.unchanged : s.unchanged[u] = X[u]
  BY <1>1, Zenon DEF Restrict
<1>3. ASSUME NEW u \in DOMAIN s.update
      PROVE  /\ Item(sv, type, s.update[u]) /\ s.update[u].ports = ports
             /\ Keys(s.update[u]) \subseteq Keys(X[u])
  <2>1. u \in DOMAIN X /\ Item(sv, type, X[u]) /\ X[u].ports = ports
    BY <1>2, Zenon DEF OwnSlices
  <2>2. kept[u] \in SUBSET D /\ Hashes(kept[u]) \subseteq Keys(X[u])
    BY <2>1, KeepsKept, Zenon
  <2>3. Fits(X[u].eps) /\ \A e \in X[u].eps : IsEndpoint(e)
    BY <2>1, Zenon DEF Item
  <2>4. Fits(kept[u]) /\ \A e \in kept[u] : IsEndpoint(e)
    <3>1. Fits(kept[u])
      BY <2>2, <2>3, KeptFits, Zenon
    <3> QED
      BY <3>1, <2>2, Zenon DEF Desirable
  <2> DEFINE E == eps(u)
             y == s.update[u]
  <2>5. Fits(E) /\ (\A e \in E : IsEndpoint(e)) /\ Hashes(E) \subseteq Keys(X[u])
    BY <2>2, <2>3, <2>4, Zenon DEF Keys
  <2>6. y = [X[u] EXCEPT !.labels = sv.labels, !.eps = E]
    BY <1>1, Zenon
  <2>7. Item(sv, type, y) /\ y.ports = X[u].ports /\ y.eps = E
    <3> HIDE DEF E, y
    <3>1. /\ DOMAIN y = SliceFields /\ y.eps = E /\ y.owner = X[u].owner /\ y.type = X[u].type
          /\ y.dying = X[u].dying /\ y.ports = X[u].ports
      BY <2>1, <2>6, Zenon DEF Item, SliceFields
    <3> QED
      BY <2>1, <2>5, <3>1, Zenon DEF Item
  <2>8. Keys(y) \subseteq Keys(X[u])
    <3> HIDE DEF E, y
    <3> QED
      BY <2>5, <2>7, Zenon DEF Keys
  <2> QED
    BY <2>1, <2>7, <2>8, Zenon
<1> QED
  BY <1>2, <1>3, Zenon DEF AfterStepOne

-----------------------------------------------------------------------------
(* Steps 2 and 3 of reconcileByPortMapping.                                *)

\* Where the endpoints R that no slice keeps go: A gives the part that each updated slice
\* gets, the new slices get the others, and nobody gets one twice.
Spread(sv, type, ports, X, R, create, update, A) ==
    /\ DOMAIN update \subseteq DOMAIN X
    /\ \A c \in create : Item(sv, type, c) /\ c.ports = ports /\ c.eps \subseteq R
    /\ \A c, d \in create : c # d => c.eps \cap d.eps = {}
    /\ \A u \in DOMAIN update :
         /\ Item(sv, type, update[u]) /\ update[u].ports = ports
         /\ A[u] \subseteq R /\ Keys(update[u]) \subseteq Keys(X[u]) \cup Hashes(A[u])
    /\ \A u, v \in DOMAIN update : u # v => A[u] \cap A[v] = {}
    /\ \A c \in create : \A u \in DOMAIN update : c.eps \cap A[u] = {}

(* Step 2 fills the updated slices, none of them past its limit. *)
LEMMA FilledResult ==
    ASSUME NEW sv, NEW type, NEW ports, NEW X, NEW s, AfterStepOne(sv, type, ports, X, s),
           NEW R, IsFiniteSet(R), \A d \in R : IsEndpoint(d),
           NEW a \in FillUpdated(R, s.update), NEW u \in DOMAIN s.update
    PROVE  LET y == Filled(s.update, a)[u]
           IN  /\ Item(sv, type, y) /\ y.ports = ports
               /\ Keys(y) \subseteq Keys(X[u]) \cup Hashes({d \in R : a[d] = u})
<1> DEFINE x == s.update[u]
           G == {d \in R : a[d] = u}
           y == Filled(s.update, a)[u]
<1>1. Item(sv, type, x) /\ x.ports = ports /\ Keys(x) \subseteq Keys(X[u])
  BY Zenon DEF AfterStepOne
<1>2. a \in [R -> DOMAIN s.update \cup {NoId}]
      /\ (Cardinality(G) <= MaxEndpoints - Cardinality(x.eps) \/ Cardinality(G) = 0)
  BY Zenon DEF FillUpdated
<1>3. y = [x EXCEPT !.eps = x.eps \cup G]
  BY <1>2, Zenon DEF Filled
<1>4. IsFiniteSet(x.eps) /\ Cardinality(x.eps) <= MaxEndpoints /\ IsFiniteSet(G)
  <2>1. G \in SUBSET R
    BY Zenon
  <2>2. IsFiniteSet(G)
    BY <2>1, FS_Subset, Zenon
  <2> QED
    BY <1>1, <2>2, Zenon DEF Item, Fits
<1>5. Fits(x.eps \cup G)
  <2>1. /\ IsFiniteSet(x.eps \cup G)
        /\ Cardinality(x.eps \cup G) = Cardinality(x.eps) + Cardinality(G) - Cardinality(x.eps \cap G)
    BY <1>4, FS_Union, Zenon
  <2>2. /\ Cardinality(x.eps) \in Nat /\ Cardinality(G) \in Nat
        /\ IsFiniteSet(x.eps \cap G) /\ Cardinality(x.eps \cap G) \in Nat
    BY <1>4, FS_CardinalityType, FS_Intersection, Zenon
  <2> QED
    BY <1>2, <1>4, <2>1, <2>2, MaxEndpointsAssumption DEF Fits
<1>6. \A e \in x.eps \cup G : IsEndpoint(e)
  BY <1>1, Zenon DEF Item
<1>7. Item(sv, type, y) /\ y.ports = x.ports /\ y.eps = x.eps \cup G
  <2> HIDE DEF x, G, y
  <2> QED
    BY <1>1, <1>3, <1>5, <1>6, ItemWithEndpoints
<1>8. Keys(y) \subseteq Keys(X[u]) \cup Hashes(G)
  <2> HIDE DEF y
  <2> QED
    BY <1>1, <1>7, Zenon DEF Keys, Hashes
<1> QED
  BY <1>1, <1>7, <1>8, Zenon

(* Step 3 cuts what is left into disjoint parts that fit into one slice each. *)
LEMMA CutsResult ==
    ASSUME NEW L, IsFiniteSet(L), NEW cut \in Cuts(L)
    PROVE  /\ cut.rest \subseteq L /\ IsFiniteSet(cut.rest) /\ Cardinality(cut.rest) < MaxEndpoints
           /\ \A E \in cut.full : E \subseteq L /\ Fits(E) /\ E \cap cut.rest = {}
           /\ \A E, F \in cut.full : E # F => E \cap F = {}
<1> DEFINE n == Cardinality(L) \div MaxEndpoints
           of(c, k) == {d \in L : c[d] = k}
<1>1. PICK c \in [L -> 0 .. n] :
         /\ cut = [full |-> {of(c, k) : k \in 1 .. n}, rest |-> of(c, 0)]
         /\ \A k \in 1 .. n : Cardinality(of(c, k)) = MaxEndpoints
         /\ Cardinality(of(c, 0)) < MaxEndpoints
  BY Zenon DEF Cuts
<1>2. cut.full = {of(c, k) : k \in 1 .. n} /\ cut.rest = of(c, 0)
  BY <1>1, Zenon
<1>3. ASSUME NEW k PROVE of(c, k) \subseteq L /\ IsFiniteSet(of(c, k))
  <2>1. of(c, k) \in SUBSET L
    BY Zenon
  <2> HIDE DEF of
  <2> QED
    BY <2>1, FS_Subset, Zenon
<1>4. n \in Nat
  BY FS_CardinalityType, MaxEndpointsAssumption
<1>5. cut.rest \subseteq L /\ IsFiniteSet(cut.rest) /\ Cardinality(cut.rest) < MaxEndpoints
  BY <1>1, <1>2, <1>3, Zenon
<1>6. ASSUME NEW E \in cut.full PROVE \E k \in 1 .. n : E = of(c, k)
  BY <1>2, Zenon
<1> HIDE DEF n
<1>7. ASSUME NEW E \in cut.full PROVE E \subseteq L /\ Fits(E) /\ E \cap cut.rest = {}
  <2>1. PICK k \in 1 .. n : E = of(c, k)
    BY <1>6, Zenon
  <2>2. E \subseteq L /\ IsFiniteSet(E) /\ Cardinality(E) = MaxEndpoints
    BY <1>1, <1>3, <2>1, Zenon
  <2>3. E \cap of(c, 0) = {}
    <3>1. k # 0
      BY <1>4
    <3> QED
      BY <2>1, <3>1, Zenon
  <2> QED
    BY <1>2, <2>2, <2>3, MaxEndpointsAssumption DEF Fits
<1>8. ASSUME NEW E \in cut.full, NEW F \in cut.full, E # F PROVE E \cap F = {}
  <2>1. PICK k \in 1 .. n : E = of(c, k)
    BY <1>6, Zenon
  <2>2. PICK j \in 1 .. n : F = of(c, j)
    BY <1>6, Zenon
  <2>3. k # j
    BY <1>8, <2>1, <2>2, Zenon
  <2> QED
    BY <2>1, <2>2, <2>3, Zenon
<1> QED
  BY <1>5, <1>7, <1>8, Zenon

(* The part of the endpoints that each updated slice gets. *)
Share(R, a, update) == [u \in DOMAIN update |-> {d \in R : a[d] = u}]

(* The parts of the endpoints left over that go to new slices. *)
LEMMA SpreadToNew ==
    ASSUME NEW sv, NEW type, NEW ports, NEW X, NoId \notin DOMAIN X,
           NEW s, AfterStepOne(sv, type, ports, X, s),
           NEW R, IsFiniteSet(R), \A d \in R : IsEndpoint(d),
           NEW a \in FillUpdated(R, s.update), NEW cut \in Cuts({d \in R : a[d] = NoId}),
           NEW create,
           create \subseteq {newEndpointSlice(sv, ports, type, E) : E \in cut.full \cup {cut.rest}}
    PROVE  Spread(sv, type, ports, X, R, create, Filled(s.update, a), Share(R, a, s.update))
<1> DEFINE L == {d \in R : a[d] = NoId}
           P == cut.full \cup {cut.rest}
           A == Share(R, a, s.update)
           F == Filled(s.update, a)
<1>1. L \subseteq R /\ IsFiniteSet(L)
  <2>1. L \in SUBSET R
    BY Zenon
  <2> QED
    BY <2>1, FS_Subset, Zenon
<1>2. /\ cut.rest \subseteq L /\ IsFiniteSet(cut.rest) /\ Cardinality(cut.rest) < MaxEndpoints
      /\ \A E \in cut.full : E \subseteq L /\ Fits(E) /\ E \cap cut.rest = {}
      /\ \A E, G \in cut.full : E # G => E \cap G = {}
  BY <1>1, CutsResult
<1>3. ASSUME NEW E \in P PROVE E \subseteq L /\ Fits(E) /\ \A e \in E : IsEndpoint(e)
  <2>1. Fits(cut.rest)
    BY <1>2, FS_CardinalityType, MaxEndpointsAssumption DEF Fits
  <2> QED
    BY <1>1, <1>2, <2>1, Zenon
<1>4. ASSUME NEW E \in P, NEW G \in P, E # G PROVE E \cap G = {}
  BY <1>2, <1>4, Zenon
<1>5. ASSUME NEW c \in create PROVE \E E \in P : c = newEndpointSlice(sv, ports, type, E)
  BY Zenon
<1>6. ASSUME NEW c \in create PROVE Item(sv, type, c) /\ c.ports = ports /\ c.eps \in P
  <2>1. PICK E \in P : c = newEndpointSlice(sv, ports, type, E)
    BY <1>5, Zenon
  <2>2. Fits(E) /\ \A e \in E : IsEndpoint(e)
    BY <1>3, Zenon
  <2>3. Item(sv, type, c) /\ c.ports = ports /\ c.eps = E
    BY <2>1, <2>2, ItemNew
  <2> QED
    BY <2>3, Zenon
<1>7. ASSUME NEW c \in create, NEW d \in create, c # d PROVE c.eps \cap d.eps = {}
  <2>1. PICK E \in P : c = newEndpointSlice(sv, ports, type, E)
    BY <1>5, Zenon
  <2>2. PICK G \in P : d = newEndpointSlice(sv, ports, type, G)
    BY <1>5, Zenon
  <2>3. c.eps = E /\ d.eps = G
    BY <2>1, <2>2, Zenon DEF newEndpointSlice
  <2>4. E # G
    BY <1>7, <2>1, <2>2, Zenon
  <2> QED
    BY <1>4, <2>3, <2>4, Zenon
<1>8. DOMAIN F = DOMAIN s.update /\ DOMAIN s.update \subseteq DOMAIN X
  BY Zenon DEF Filled, AfterStepOne
<1>9. ASSUME NEW u \in DOMAIN F
      PROVE  /\ Item(sv, type, F[u]) /\ F[u].ports = ports
             /\ A[u] = {d \in R : a[d] = u} /\ Keys(F[u]) \subseteq Keys(X[u]) \cup Hashes(A[u])
  <2>1. u \in DOMAIN s.update
    BY <1>8, Zenon
  <2>2. A[u] = {d \in R : a[d] = u}
    BY <2>1, Zenon DEF Share
  <2> QED
    BY <2>1, <2>2, FilledResult
<1>10. ASSUME NEW u \in DOMAIN F, NEW v \in DOMAIN F, u # v PROVE A[u] \cap A[v] = {}
  BY <1>9, <1>10
<1>11. ASSUME NEW c \in create, NEW u \in DOMAIN F PROVE c.eps \cap A[u] = {}
  <2>1. c.eps \subseteq L
    BY <1>3, <1>6, Zenon
  <2>2. u # NoId
    BY <1>8, Zenon
  <2> QED
    BY <2>1, <2>2, <1>9
<1>12. ASSUME NEW c \in create PROVE c.eps \subseteq R
  BY <1>1, <1>3, <1>6, Zenon
<1> HIDE DEF A, F
<1>13. \A u \in DOMAIN F : A[u] \subseteq R
  BY <1>9, Zenon
<1> QED
  BY <1>6, <1>7, <1>8, <1>9, <1>10, <1>11, <1>12, <1>13, Zenon DEF Spread, A, F

(* The remainder that goes to an unchanged slice with room for it. *)
LEMMA SpreadToOld ==
    ASSUME NEW sv, NEW type, NEW ports, NEW X, OwnSlices(sv, type, ports, X), NoId \notin DOMAIN X,
           NEW s, AfterStepOne(sv, type, ports, X, s),
           NEW R, IsFiniteSet(R), \A d \in R : IsEndpoint(d),
           NEW a \in FillUpdated(R, s.update), NEW cut \in Cuts({d \in R : a[d] = NoId}),
           NEW t \in getSliceToFill(s.unchanged, Cardinality(cut.rest)),
           NEW create, create = {newEndpointSlice(sv, ports, type, E) : E \in cut.full},
           NEW y, y = [s.unchanged[t] EXCEPT !.eps = @ \cup cut.rest],
           NEW update, update = With(Filled(s.update, a), t, y)
    PROVE  \E A : Spread(sv, type, ports, X, R, create, update, A)
<1> DEFINE L == {d \in R : a[d] = NoId}
           F == Filled(s.update, a)
           B == Share(R, a, s.update)
           A == [u \in DOMAIN F \cup {t} |-> IF u = t THEN cut.rest ELSE B[u]]
           x == X[t]
<1>1. L \subseteq R /\ IsFiniteSet(L)
  <2>1. L \in SUBSET R
    BY Zenon
  <2> QED
    BY <2>1, FS_Subset, Zenon
<1>2. /\ cut.rest \subseteq L /\ IsFiniteSet(cut.rest)
      /\ \A E \in cut.full : E \cap cut.rest = {}
  BY <1>1, CutsResult, Zenon
<1>3. Spread(sv, type, ports, X, R, create, F, B)
  BY SpreadToNew, Zenon
<1>4. /\ DOMAIN F = DOMAIN s.update
      /\ t \in DOMAIN X /\ t \notin DOMAIN F /\ s.unchanged[t] = x
  BY Zenon DEF Filled, AfterStepOne, getSliceToFill
<1>5. Item(sv, type, x) /\ x.ports = ports
  BY <1>4, Zenon DEF OwnSlices
<1>6. Fits(x.eps \cup cut.rest)
  <2>1. IsFiniteSet(x.eps)
    BY <1>5, Zenon DEF Item, Fits
  <2>2. Cardinality(x.eps) + Cardinality(cut.rest) <= MaxEndpoints
    BY <1>4, Zenon DEF getSliceToFill
  <2>3. /\ IsFiniteSet(x.eps \cup cut.rest)
        /\ Cardinality(x.eps \cup cut.rest) =
             Cardinality(x.eps) + Cardinality(cut.rest) - Cardinality(x.eps \cap cut.rest)
    BY <1>2, <2>1, FS_Union, Zenon
  <2>4. /\ Cardinality(x.eps) \in Nat /\ Cardinality(cut.rest) \in Nat
        /\ IsFiniteSet(x.eps \cap cut.rest) /\ Cardinality(x.eps \cap cut.rest) \in Nat
    BY <1>2, <2>1, FS_CardinalityType, FS_Intersection, Zenon
  <2> QED
    BY <2>2, <2>3, <2>4, MaxEndpointsAssumption DEF Fits
<1>7. \A e \in x.eps \cup cut.rest : IsEndpoint(e)
  <2>1. \A e \in x.eps : IsEndpoint(e)
    BY <1>5, Zenon DEF Item
  <2> QED
    BY <1>1, <1>2, <2>1, Zenon
<1>8. y = [x EXCEPT !.eps = x.eps \cup cut.rest]
  BY <1>4, Zenon
<1>9. Item(sv, type, y) /\ y.ports = x.ports /\ y.eps = x.eps \cup cut.rest
  <2> DEFINE E == x.eps \cup cut.rest
  <2>1. Fits(E) /\ (\A e \in E : IsEndpoint(e)) /\ y = [x EXCEPT !.eps = E]
    BY <1>6, <1>7, <1>8, Zenon
  <2> HIDE DEF E, x
  <2>2. Item(sv, type, y) /\ y.ports = x.ports /\ y.eps = E
    <3>1. /\ DOMAIN y = SliceFields /\ y.eps = E /\ y.owner = x.owner /\ y.type = x.type
          /\ y.dying = x.dying /\ y.ports = x.ports
      BY <1>5, <2>1, Zenon DEF Item, SliceFields
    <3> QED
      BY <1>5, <2>1, <3>1, Zenon DEF Item
  <2> QED
    BY <2>2, Zenon DEF E
<1>10. Keys(y) \subseteq Keys(X[t]) \cup Hashes(cut.rest)
  BY <1>9, Zenon DEF Keys, Hashes
<1>11. DOMAIN update = DOMAIN F \cup {t} /\ update[t] = y /\ \A u \in DOMAIN F : update[u] = F[u] /\ A[u] = B[u]
  BY <1>4, Zenon DEF With
<1>12. A[t] = cut.rest /\ cut.rest \subseteq R
  BY <1>1, <1>2, Zenon
<1>13. ASSUME NEW c \in create PROVE c.eps \cap cut.rest = {}
  <2>1. PICK E \in cut.full : c = newEndpointSlice(sv, ports, type, E)
    BY Zenon
  <2>2. c.eps = E
    BY <2>1, Zenon DEF newEndpointSlice
  <2> QED
    BY <1>2, <2>2, Zenon
<1>14. ASSUME NEW u \in DOMAIN F PROVE B[u] \cap cut.rest = {}
  <2>1. B[u] = {d \in R : a[d] = u}
    BY <1>4, Zenon DEF Share
  <2>2. u # NoId
    BY <1>4, Zenon DEF AfterStepOne
  <2> QED
    BY <1>2, <2>1, <2>2, Zenon
<1> HIDE DEF A, B, F, x
<1>15. ASSUME NEW u \in DOMAIN update
       PROVE  /\ u \in DOMAIN X /\ Item(sv, type, update[u]) /\ update[u].ports = ports
              /\ A[u] \subseteq R /\ Keys(update[u]) \subseteq Keys(X[u]) \cup Hashes(A[u])
  <2>1. CASE u = t
    BY <2>1, <1>4, <1>5, <1>9, <1>10, <1>11, <1>12, Zenon
  <2>2. CASE u \in DOMAIN F
    <3>1. update[u] = F[u] /\ A[u] = B[u]
      BY <2>2, <1>11, Zenon
    <3> QED
      BY <2>2, <1>3, <3>1, Zenon DEF Spread
  <2> QED
    BY <2>1, <2>2, <1>11, Zenon
<1>16. ASSUME NEW u \in DOMAIN update, NEW v \in DOMAIN update, u # v PROVE A[u] \cap A[v] = {}
  <2>1. CASE u = t
    BY <2>1, <1>11, <1>12, <1>14, <1>16, Zenon
  <2>2. CASE v = t
    BY <2>2, <1>11, <1>12, <1>14, <1>16, Zenon
  <2>3. CASE u \in DOMAIN F /\ v \in DOMAIN F
    <3>1. B[u] \cap B[v] = {}
      BY <2>3, <1>3, <1>16, Zenon DEF Spread
    <3> QED
      BY <2>3, <1>11, <3>1, Zenon
  <2> QED
    BY <2>1, <2>2, <2>3, <1>11, Zenon
<1>17. ASSUME NEW c \in create, NEW u \in DOMAIN update PROVE c.eps \cap A[u] = {}
  <2>1. CASE u = t
    BY <2>1, <1>12, <1>13, Zenon
  <2>2. CASE u \in DOMAIN F
    <3>1. c.eps \cap B[u] = {}
      BY <2>2, <1>3, Zenon DEF Spread
    <3> QED
      BY <2>2, <1>11, <3>1, Zenon
  <2> QED
    BY <2>1, <2>2, <1>11, Zenon
<1>18. /\ \A c \in create : Item(sv, type, c) /\ c.ports = ports /\ c.eps \subseteq R
       /\ \A c, d \in create : c # d => c.eps \cap d.eps = {}
  BY <1>3, Zenon DEF Spread
<1>19. Spread(sv, type, ports, X, R, create, update, A)
  BY <1>15, <1>16, <1>17, <1>18, Zenon DEF Spread
<1> QED
  BY <1>19, Zenon

(* Disjoint parts of the desired endpoints have no key in common. *)
LEMMA PartsApart ==
    ASSUME NEW R, \A c, d \in R : hashEndpoint(c) = hashEndpoint(d) => c = d,
           NEW P, NEW Q, P \subseteq R, Q \subseteq R, P \cap Q = {}
    PROVE  Hashes(P) \cap Hashes(Q) = {}
<1>1. ASSUME NEW h \in Hashes(P), h \in Hashes(Q) PROVE FALSE
  <2>1. PICK p \in P : h = hashEndpoint(p)
    BY Zenon DEF Hashes
  <2>2. PICK q \in Q : h = hashEndpoint(q)
    BY <1>1, Zenon DEF Hashes
  <2>3. p = q
    BY <2>1, <2>2, Zenon
  <2> QED
    BY <2>3, Zenon
<1> QED
  BY <1>1, Zenon

(* A part of the unheld endpoints has no key in common with the slices. *)
LEMMA PartUnheld ==
    ASSUME NEW R, NEW X, Unheld(R, X), NEW P, P \subseteq R, NEW u \in DOMAIN X
    PROVE  Hashes(P) \cap Keys(X[u]) = {}
<1>1. ASSUME NEW h \in Hashes(P) PROVE h \notin Keys(X[u])
  <2>1. PICK p \in P : h = hashEndpoint(p)
    BY Zenon DEF Hashes
  <2> QED
    BY <2>1, Zenon DEF Unheld
<1> QED
  BY <1>1, Zenon

(* What is spread over slices that did not hold it makes a sound plan. *)
LEMMA SpreadSound ==
    ASSUME NEW sv, NEW type, NEW ports, NEW X, OwnSlices(sv, type, ports, X),
           NEW R, Unheld(R, X), \A c, d \in R : hashEndpoint(c) = hashEndpoint(d) => c = d,
           NEW create, NEW update, NEW A, Spread(sv, type, ports, X, R, create, update, A)
    PROVE  Sound(sv, type, X, create, update)
<1>1. ASSUME NEW c \in create
      PROVE  Item(sv, type, c) /\ c.ports = ports /\ c.eps \subseteq R /\ Keys(c) = Hashes(c.eps)
  BY Zenon DEF Spread, Keys
<1>2. ASSUME NEW u \in DOMAIN update
      PROVE  /\ u \in DOMAIN X /\ Item(sv, type, update[u]) /\ update[u].ports = ports
             /\ A[u] \subseteq R /\ Keys(update[u]) \subseteq Keys(X[u]) \cup Hashes(A[u])
  BY Zenon DEF Spread
<1>3. ASSUME NEW u \in DOMAIN X PROVE ownedBy(X[u], sv) /\ X[u].ports = ports
  BY Zenon DEF OwnSlices, Item, ownedBy
<1>4. ASSUME NEW c \in create, NEW d \in create, c # d PROVE Keys(c) \cap Keys(d) = {}
  <2>1. c.eps \cap d.eps = {}
    BY <1>4, Zenon DEF Spread
  <2>2. Hashes(c.eps) \cap Hashes(d.eps) = {}
    BY <1>1, <2>1, PartsApart, Zenon
  <2> QED
    BY <1>1, <2>2, Zenon
<1>5. ASSUME NEW c \in create, NEW v \in DOMAIN X PROVE Keys(c) \cap Keys(X[v]) = {}
  <2>1. Hashes(c.eps) \cap Keys(X[v]) = {}
    BY <1>1, PartUnheld, Zenon
  <2> QED
    BY <1>1, <2>1, Zenon
<1>6. ASSUME NEW c \in create, NEW u \in DOMAIN update PROVE Keys(c) \cap Keys(update[u]) = {}
  <2>1. Hashes(c.eps) \cap Hashes(A[u]) = {}
    <3>1. c.eps \cap A[u] = {}
      BY Zenon DEF Spread
    <3> QED
      BY <1>1, <1>2, <3>1, PartsApart, Zenon
  <2> QED
    BY <1>1, <1>2, <1>5, <2>1
<1>7. ASSUME NEW u \in DOMAIN update, NEW v \in DOMAIN X, u # v, Disjoint(X[u], X[v])
      PROVE  Keys(update[u]) \cap Keys(X[v]) = {}
  <2>1. Hashes(A[u]) \cap Keys(X[v]) = {}
    BY <1>2, PartUnheld, Zenon
  <2>2. Keys(X[u]) \cap Keys(X[v]) = {}
    BY <1>2, <1>3, <1>7, Zenon DEF Disjoint
  <2> QED
    BY <1>2, <2>1, <2>2, Zenon
<1>8. ASSUME NEW u \in DOMAIN update, NEW v \in DOMAIN update, u # v, Disjoint(X[u], X[v])
      PROVE  Keys(update[u]) \cap Keys(update[v]) = {}
  <2>1. Hashes(A[u]) \cap Hashes(A[v]) = {}
    <3>1. A[u] \cap A[v] = {}
      BY <1>8, Zenon DEF Spread
    <3> QED
      BY <1>2, <3>1, PartsApart, Zenon
  <2>2. Hashes(A[v]) \cap Keys(X[u]) = {}
    BY <1>2, PartUnheld, Zenon
  <2>3. Keys(update[u]) \cap Keys(X[v]) = {}
    BY <1>2, <1>7, <1>8, Zenon
  <2>4. /\ Keys(update[u]) \subseteq Keys(X[u]) \cup Hashes(A[u])
        /\ Keys(update[v]) \subseteq Keys(X[v]) \cup Hashes(A[v])
    BY <1>2, Zenon
  <2> QED
    BY <2>1, <2>2, <2>3, <2>4, Zenon
<1> QED
  BY <1>1, <1>2, <1>3, <1>4, <1>5, <1>6, <1>7, <1>8, Zenon DEF Sound, Disjoint

(* reconcileByPortMapping: the plans for the slices of one port map. *)
LEMMA PortMappingSound ==
    ASSUME NEW sv, NEW type, NEW ports, NEW X, OwnSlices(sv, type, ports, X), NoId \notin DOMAIN X,
           NEW D, Desirable(D), NEW r \in reconcileByPortMapping(sv, type, ports, X, D)
    PROVE  /\ Sound(sv, type, X, r.create, r.update)
           /\ \A c \in r.create : c.ports = ports
           /\ \A u \in DOMAIN r.update : u \in DOMAIN X \ r.delete /\ r.update[u].ports = ports
           /\ r.delete \subseteq DOMAIN X
<1>1. PICK kept \in Keeps(X, D) :
         r \in Placements(sv, type, ports, StepOne(sv, X, kept), D \ UNION {kept[u] : u \in DOMAIN kept})
  BY Zenon DEF reconcileByPortMapping
<1> DEFINE s == StepOne(sv, X, kept)
           R == D \ UNION {kept[u] : u \in DOMAIN kept}
<1>2. AfterStepOne(sv, type, ports, X, s)
  BY StepOneResult, Zenon
<1>3. Unheld(R, X)
  BY KeepsKept DEF Unheld
<1>4. /\ IsFiniteSet(R) /\ \A d \in R : IsEndpoint(d)
      /\ \A c, d \in R : hashEndpoint(c) = hashEndpoint(d) => c = d
  <2>1. R \in SUBSET D
    BY Zenon
  <2>2. IsFiniteSet(R)
    BY <2>1, FS_Subset, Zenon DEF Desirable
  <2> QED
    BY <2>2, Zenon DEF Desirable
<1> HIDE DEF s, R
<1>a. PICK a \in FillUpdated(R, s.update) :
         \E cut \in Cuts({d \in R : a[d] = NoId}) :
            r \in StepThree(sv, type, ports, s, Filled(s.update, a), cut)
  <2>1. r \in Placements(sv, type, ports, s, R)
    BY <1>1, Zenon DEF s, R
  <2> QED
    BY <2>1 DEF Placements
<1>5. PICK cut \in Cuts({d \in R : a[d] = NoId}) :
         r \in StepThree(sv, type, ports, s, Filled(s.update, a), cut)
  BY <1>a, Zenon
<1> DEFINE new == {newEndpointSlice(sv, ports, type, E) : E \in cut.full}
           last == IF cut.rest = {} THEN {} ELSE {newEndpointSlice(sv, ports, type, cut.rest)}
           targets == IF cut.rest = {} THEN {} ELSE getSliceToFill(s.unchanged, Cardinality(cut.rest))
           F == Filled(s.update, a)
<1>6. /\ r.delete = s.delete /\ DOMAIN r.update \cap s.delete = {}
      /\ \E A : Spread(sv, type, ports, X, R, r.create, r.update, A)
  <2>1. CASE targets = {}
    <3>1. r = [create |-> new \cup last, update |-> F, delete |-> s.delete]
      BY <1>5, <2>1, Zenon DEF StepThree
    <3>2. r.create \subseteq {newEndpointSlice(sv, ports, type, E) : E \in cut.full \cup {cut.rest}}
      BY <3>1, Zenon
    <3>3. Spread(sv, type, ports, X, R, r.create, F, Share(R, a, s.update))
      BY <1>2, <1>4, <3>2, SpreadToNew, Zenon
    <3>4. DOMAIN F \cap s.delete = {}
      BY <1>2, Zenon DEF Filled, AfterStepOne
    <3> QED
      BY <3>1, <3>3, <3>4, Zenon
  <2>2. CASE targets # {}
    <3>1. PICK t \in targets :
             r = [create |-> new, delete |-> s.delete,
                  update |-> With(F, t, [s.unchanged[t] EXCEPT !.eps = @ \cup cut.rest])]
      BY <1>5, <2>2, Zenon DEF StepThree
    <3>2. /\ r.delete = s.delete /\ r.create = new
          /\ r.update = With(F, t, [s.unchanged[t] EXCEPT !.eps = @ \cup cut.rest])
      BY <3>1, Zenon
    <3>3. t \in getSliceToFill(s.unchanged, Cardinality(cut.rest))
      BY <2>2, Zenon
    <3>4. \E A : Spread(sv, type, ports, X, R, r.create, r.update, A)
      <4> DEFINE y == [s.unchanged[t] EXCEPT !.eps = @ \cup cut.rest]
                 create == r.create
                 update == r.update
      <4>1. create = {newEndpointSlice(sv, ports, type, E) : E \in cut.full}
        BY <3>2, Zenon
      <4>2. y = [s.unchanged[t] EXCEPT !.eps = @ \cup cut.rest] /\ update = With(Filled(s.update, a), t, y)
        BY <3>2, Zenon
      <4> HIDE DEF y, create, update
      <4>3. \E A : Spread(sv, type, ports, X, R, create, update, A)
        BY <1>2, <1>4, <3>3, <4>1, <4>2, SpreadToOld, Zenon
      <4> QED
        BY <4>3, Zenon DEF create, update
    <3>5. DOMAIN r.update \cap s.delete = {}
      BY <1>2, <3>2, <3>3, Zenon DEF With, Filled, AfterStepOne, getSliceToFill
    <3> QED
      BY <3>2, <3>4, <3>5, Zenon
  <2> QED
    BY <2>1, <2>2, Zenon
<1>7. PICK A : Spread(sv, type, ports, X, R, r.create, r.update, A)
  BY <1>6, Zenon
<1>8. Sound(sv, type, X, r.create, r.update)
  BY <1>3, <1>4, <1>7, SpreadSound, Zenon
<1>9. r.delete \subseteq DOMAIN X
  BY <1>2, <1>6, Zenon DEF AfterStepOne
<1>10. \A u \in DOMAIN r.update : u \in DOMAIN X \ r.delete
  BY <1>6, <1>7, Zenon DEF Spread
<1> QED
  BY <1>7, <1>8, <1>9, <1>10, Zenon DEF Spread

-----------------------------------------------------------------------------
(* reconcileByAddressType.                                                 *)

\* Slices of one address type, among them those of the Service.
SlicesOf(sv, type, Y) ==
    /\ NoId \notin DOMAIN Y
    /\ \A u \in DOMAIN Y : ownedBy(Y[u], sv) => Item(sv, type, Y[u])

(* The plans over all port maps: slices with other ports never meet, and a slice the *)
(* Service does not own is deleted.                                                  *)
LEMMA PortMappingsSound ==
    ASSUME NEW sv, NEW type, NEW pods, NEW nodes, NEW Y, SlicesOf(sv, type, Y), DOMAIN pods \subseteq Pod,
           NEW plan \in PortMappings(sv, type, pods, nodes, Y)
    PROVE  /\ Sound(sv, type, Y, plan.create, plan.update)
           /\ plan.delete \subseteq DOMAIN Y /\ DOMAIN plan.update \cap plan.delete = {}
           /\ \A u \in DOMAIN Y \ plan.delete : ownedBy(Y[u], sv)
<1> DEFINE owned == {u \in DOMAIN Y : ownedBy(Y[u], sv)}
           ports == DesiredPorts(pods)
           obsolete == {u \in DOMAIN Y : u \notin owned \/ Y[u].ports \notin ports}
           X(m) == Restrict(Y, {u \in owned : Y[u].ports = m})
           plans(m) == reconcileByPortMapping(sv, type, m, X(m), DesiredEndpoints(pods, nodes, sv, m))
<1>1. PICK r \in [ports -> UNION {plans(m) : m \in ports}] :
         /\ \A m \in ports : r[m] \in plans(m)
         /\ plan = [create |-> UNION {r[m].create : m \in ports},
                    update |-> [u \in UNION {DOMAIN r[m].update : m \in ports} |->
                                  r[Y[u].ports].update[u]],
                    delete |-> obsolete \cup UNION {r[m].delete : m \in ports}]
  BY Zenon DEF PortMappings
<1>2. /\ plan.create = UNION {r[m].create : m \in ports}
      /\ plan.update = [u \in UNION {DOMAIN r[m].update : m \in ports} |-> r[Y[u].ports].update[u]]
      /\ plan.delete = obsolete \cup UNION {r[m].delete : m \in ports}
  BY <1>1, Zenon
<1>3. ASSUME NEW m \in ports
      PROVE  /\ DOMAIN X(m) = {u \in owned : Y[u].ports = m}
             /\ \A u \in DOMAIN X(m) : X(m)[u] = Y[u]
  BY Zenon DEF Restrict
<1>4. ASSUME NEW m \in ports
      PROVE  /\ Sound(sv, type, X(m), r[m].create, r[m].update)
             /\ \A c \in r[m].create : c.ports = m
             /\ \A u \in DOMAIN r[m].update : u \in DOMAIN X(m) \ r[m].delete /\ r[m].update[u].ports = m
             /\ r[m].delete \subseteq DOMAIN X(m)
  <2> DEFINE Z == X(m)
             E == DesiredEndpoints(pods, nodes, sv, m)
             q == r[m]
  <2>1. OwnSlices(sv, type, m, Z) /\ NoId \notin DOMAIN Z
    BY <1>3 DEF OwnSlices, SlicesOf
  <2>2. Desirable(E)
    BY DesiredDesirable, Zenon
  <2>3. q \in reconcileByPortMapping(sv, type, m, Z, E)
    BY <1>1, Zenon
  <2> HIDE DEF Z, E, q
  <2>4. /\ Sound(sv, type, Z, q.create, q.update)
        /\ \A c \in q.create : c.ports = m
        /\ \A u \in DOMAIN q.update : u \in DOMAIN Z \ q.delete /\ q.update[u].ports = m
        /\ q.delete \subseteq DOMAIN Z
    BY <2>1, <2>2, <2>3, PortMappingSound, Zenon
  <2> QED
    BY <2>4, Zenon DEF Z, q
<1> HIDE DEF X, plans
<1>5. ASSUME NEW m \in ports, NEW u \in DOMAIN X(m)
      PROVE  u \in DOMAIN Y /\ ownedBy(Y[u], sv) /\ Y[u].ports = m /\ X(m)[u] = Y[u]
  BY <1>3, Zenon
<1>6. ASSUME NEW c \in plan.create PROVE c.ports \in ports /\ c \in r[c.ports].create
  <2>1. PICK m \in ports : c \in r[m].create
    BY <1>2
  <2>2. c.ports = m
    BY <1>4, <2>1, Zenon
  <2> QED
    BY <2>1, <2>2, Zenon
<1>7. ASSUME NEW u \in DOMAIN plan.update
      PROVE  LET m == Y[u].ports IN
             /\ m \in ports /\ u \in DOMAIN r[m].update /\ plan.update[u] = r[m].update[u]
             /\ u \in DOMAIN X(m) \ r[m].delete /\ plan.update[u].ports = m
             /\ u \in DOMAIN Y /\ ownedBy(Y[u], sv) /\ X(m)[u] = Y[u]
  <2>1. PICK m \in ports : u \in DOMAIN r[m].update
    BY <1>2
  <2>2. u \in DOMAIN X(m) \ r[m].delete /\ r[m].update[u].ports = m
    BY <1>4, <2>1, Zenon
  <2>3. u \in DOMAIN Y /\ ownedBy(Y[u], sv) /\ Y[u].ports = m /\ X(m)[u] = Y[u]
    BY <1>5, <2>2, Zenon
  <2>4. plan.update[u] = r[m].update[u]
    BY <1>2, <2>3, Zenon
  <2> QED
    BY <2>1, <2>2, <2>3, <2>4, Zenon
<1>8. ASSUME NEW v \in DOMAIN Y, ownedBy(Y[v], sv), Y[v].ports \in ports
      PROVE  v \in DOMAIN X(Y[v].ports) /\ X(Y[v].ports)[v] = Y[v]
  BY <1>3, <1>8, Zenon
<1>9. \A c \in plan.create : Item(sv, type, c)
  BY <1>4, <1>6, Zenon DEF Sound
<1>10. \A u \in DOMAIN plan.update : u \in DOMAIN Y /\ ownedBy(Y[u], sv) /\ Item(sv, type, plan.update[u])
  BY <1>4, <1>7, Zenon DEF Sound
<1>11. ASSUME NEW c \in plan.create, NEW d \in plan.create, c # d PROVE Disjoint(c, d)
  BY <1>4, <1>6, <1>11, Zenon DEF Sound, Disjoint
<1>12. ASSUME NEW c \in plan.create, NEW u \in DOMAIN plan.update PROVE Disjoint(c, plan.update[u])
  <2>1. CASE c.ports = Y[u].ports
    <3>1. c \in r[Y[u].ports].create
      BY <1>6, <2>1, Zenon
    <3> QED
      BY <1>4, <1>7, <3>1, Zenon DEF Sound
  <2>2. CASE c.ports # Y[u].ports
    BY <1>7, <2>2, Zenon DEF Disjoint
  <2> QED
    BY <2>1, <2>2, Zenon
<1>13. ASSUME NEW c \in plan.create, NEW v \in DOMAIN Y, ownedBy(Y[v], sv) PROVE Disjoint(c, Y[v])
  <2>1. CASE c.ports = Y[v].ports
    <3>1. Y[v].ports \in ports /\ c \in r[Y[v].ports].create
      BY <1>6, <2>1, Zenon
    <3>2. v \in DOMAIN X(Y[v].ports) /\ X(Y[v].ports)[v] = Y[v]
      BY <1>8, <1>13, <3>1, Zenon
    <3>3. ownedBy(X(Y[v].ports)[v], sv)
      BY <1>13, <3>2, Zenon
    <3>4. Disjoint(c, X(Y[v].ports)[v])
      BY <1>4, <3>1, <3>2, <3>3, Zenon DEF Sound
    <3> QED
      BY <3>2, <3>4, Zenon
  <2>2. CASE c.ports # Y[v].ports
    BY <2>2, Zenon DEF Disjoint
  <2> QED
    BY <2>1, <2>2, Zenon
<1>14. ASSUME NEW u \in DOMAIN plan.update, NEW v \in DOMAIN Y,
              u # v, ownedBy(Y[v], sv), Disjoint(Y[u], Y[v])
       PROVE  Disjoint(plan.update[u], Y[v])
  <2> DEFINE m == Y[u].ports
  <2>1. CASE Y[v].ports = m
    <3>1. m \in ports /\ u \in DOMAIN r[m].update /\ plan.update[u] = r[m].update[u] /\ X(m)[u] = Y[u]
      BY <1>7, Zenon
    <3>2. v \in DOMAIN X(m) /\ X(m)[v] = Y[v]
      BY <1>8, <1>14, <2>1, <3>1, Zenon
    <3>3. ownedBy(X(m)[v], sv) /\ Disjoint(X(m)[u], X(m)[v])
      BY <1>14, <3>1, <3>2, Zenon
    <3> HIDE DEF m
    <3>4. Disjoint(r[m].update[u], X(m)[v])
      BY <1>4, <1>14, <3>1, <3>2, <3>3, Zenon DEF Sound
    <3> QED
      BY <3>1, <3>2, <3>4, Zenon
  <2>2. CASE Y[v].ports # m
    BY <1>7, <2>2, Zenon DEF Disjoint
  <2> QED
    BY <2>1, <2>2, Zenon
<1>15. ASSUME NEW u \in DOMAIN plan.update, NEW v \in DOMAIN plan.update, u # v, Disjoint(Y[u], Y[v])
       PROVE  Disjoint(plan.update[u], plan.update[v])
  <2> DEFINE m == Y[u].ports
  <2>1. CASE Y[v].ports = m
    <3>1. /\ m \in ports /\ u \in DOMAIN r[m].update /\ plan.update[u] = r[m].update[u]
          /\ X(m)[u] = Y[u]
      BY <1>7, Zenon
    <3>2. v \in DOMAIN r[m].update /\ plan.update[v] = r[m].update[v] /\ X(m)[v] = Y[v]
      BY <1>7, <2>1, Zenon
    <3>3. Disjoint(X(m)[u], X(m)[v])
      BY <1>15, <3>1, <3>2, Zenon
    <3> HIDE DEF m
    <3>4. Disjoint(r[m].update[u], r[m].update[v])
      BY <1>4, <1>15, <3>1, <3>2, <3>3, Zenon DEF Sound
    <3> QED
      BY <3>1, <3>2, <3>4, Zenon
  <2>2. CASE Y[v].ports # m
    BY <1>7, <2>2, Zenon DEF Disjoint
  <2> QED
    BY <2>1, <2>2, Zenon
<1>16. Sound(sv, type, Y, plan.create, plan.update)
  BY <1>9, <1>10, <1>11, <1>12, <1>13, <1>14, <1>15, Zenon DEF Sound
<1>17. ASSUME NEW m \in ports, NEW u \in r[m].delete
       PROVE  u \in DOMAIN Y /\ ownedBy(Y[u], sv) /\ Y[u].ports = m
  <2>1. u \in DOMAIN X(m)
    BY <1>4, Zenon
  <2> QED
    BY <1>5, <2>1, Zenon
<1>18. plan.delete \subseteq DOMAIN Y
  BY <1>2, <1>17
<1>19. ASSUME NEW u \in DOMAIN plan.update PROVE u \notin plan.delete
  <2>1. u \notin obsolete
    BY <1>7, Zenon
  <2>2. ASSUME NEW m \in ports, u \in r[m].delete PROVE FALSE
    BY <1>7, <1>17, <2>2, Zenon
  <2> QED
    BY <1>2, <2>1, <2>2
<1>20. \A u \in DOMAIN Y \ plan.delete : ownedBy(Y[u], sv)
  BY <1>2, Zenon
<1> QED
  BY <1>16, <1>18, <1>19, <1>20, Zenon

(* The placeholder holds no endpoint, so it meets no other slice. When an empty slice is *)
(* left in its place, whoever owns it, nothing is written.                               *)
LEMMA PlaceholderSound ==
    ASSUME NEW sv, NEW type, NEW Y, NEW old, Sound(sv, type, Y, old.create, old.update),
           old.delete \subseteq DOMAIN Y, DOMAIN old.update \cap old.delete = {},
           \A u \in DOMAIN Y \ old.delete : ownedBy(Y[u], sv),
           DOMAIN old = {"create", "update", "delete"},
           NEW plan, plan = WithPlaceholder(sv, type, Y, old)
    PROVE  /\ Sound(sv, type, Y, plan.create, plan.update)
           /\ plan.delete \subseteq DOMAIN Y /\ DOMAIN plan.update \cap plan.delete = {}
           /\ \/ \A u \in DOMAIN Y \ plan.delete : ownedBy(Y[u], sv)
              \/ plan.create = {} /\ DOMAIN plan.update = {} /\ \A u \in DOMAIN Y : Y[u].eps = {}
<1> DEFINE P == newEndpointSlice(sv, NoPorts, type, {})
           Same == \A u \in old.delete : placeholderSliceCompare(Y[u], P)
<1>1. plan = IF old.create # {} \/ old.delete # DOMAIN Y THEN old
             ELSE IF Cardinality(old.delete) = 1 /\ Same
                  THEN [old EXCEPT !.delete = {}]
                  ELSE [old EXCEPT !.create = {P}]
  BY Zenon DEF WithPlaceholder
<1>2. CASE plan = old
  BY <1>2, Zenon
<1>3. CASE old.create = {} /\ old.delete = DOMAIN Y /\ Same /\ plan = [old EXCEPT !.delete = {}]
  <2>1. plan.create = old.create /\ plan.update = old.update /\ plan.delete = {}
    BY <1>3, Zenon
  <2>2. DOMAIN plan.update = {}
    <3>1. DOMAIN old.update \subseteq DOMAIN Y
      BY Zenon DEF Sound
    <3> QED
      BY <1>3, <2>1, <3>1, Zenon
  <2>3. ASSUME NEW u \in DOMAIN Y PROVE Y[u].eps = {}
    <3>1. Y[u]["eps"] = P["eps"]
      BY <1>3, Zenon DEF placeholderSliceCompare
    <3> QED
      BY <3>1, Zenon DEF newEndpointSlice
  <2> QED
    BY <1>3, <2>1, <2>2, <2>3, Zenon
<1>4. CASE old.create = {} /\ old.delete = DOMAIN Y /\ plan = [old EXCEPT !.create = {P}]
  <2>1. plan.create = {P} /\ plan.update = old.update /\ plan.delete = old.delete
    BY <1>4, Zenon
  <2>2. Item(sv, type, P) /\ P.eps = {}
    <3>1. Fits({})
      BY FS_EmptySet, MaxEndpointsAssumption DEF Fits
    <3> DEFINE E == {}
    <3>2. Fits(E) /\ \A e \in E : IsEndpoint(e)
      BY <3>1, Zenon
    <3> QED
      BY <3>1, ItemNew
  <2>3. \A y : Disjoint(P, y)
    BY <2>2, Zenon DEF Disjoint, Keys, Hashes
  <2> HIDE DEF P
  <2>4. Sound(sv, type, Y, plan.create, plan.update)
    BY <2>1, <2>2, <2>3, Zenon DEF Sound
  <2> QED
    BY <2>1, <2>4, Zenon
<1> QED
  BY <1>1, <1>2, <1>3, <1>4, Zenon

\* The slice y is x with other hints.
Like(sv, type, x, y) == Item(sv, type, y) /\ y.ports = x.ports /\ Keys(y) = Keys(x)

(* An image of a finite set under a function. *)
LEMMA ImageFits ==
    ASSUME NEW E, Fits(E), NEW f, DOMAIN f = E
    PROVE  Fits({f[e] : e \in E})
<1> DEFINE T == {f[e] : e \in E}
           g == [e \in E |-> f[e]]
<1>1. g \in Surjection(E, T)
  BY Zenon DEF Surjection
<1>2. IsFiniteSet(T) /\ Cardinality(T) <= Cardinality(E)
  BY <1>1, FS_Surjection, Zenon DEF Fits
<1> QED
  BY <1>2, FS_CardinalityType, MaxEndpointsAssumption DEF Fits

\* The endpoint g is e, or e with another hint.
Rehinted(e, g) == g = e \/ \E h : g = [e EXCEPT !.hint = h]

(* A slice whose endpoints are those of x, each with another hint or with its own. *)
LEMMA RehintedLike ==
    ASSUME NEW sv, NEW type, NEW x, Item(sv, type, x), NEW f, DOMAIN f = x.eps,
           \A e \in x.eps : Rehinted(e, f[e]),
           NEW E, E = {f[e] : e \in x.eps}, NEW y, y = [x EXCEPT !.eps = E]
    PROVE  Like(sv, type, x, y)
<1>1. ASSUME NEW e \in x.eps PROVE IsEndpoint(f[e]) /\ hashEndpoint(f[e]) = hashEndpoint(e)
  <2>1. IsEndpoint(e)
    BY Zenon DEF Item
  <2>2. CASE f[e] = e
    BY <2>1, <2>2, Zenon
  <2>3. ASSUME NEW h, f[e] = [e EXCEPT !.hint = h]
        PROVE  IsEndpoint(f[e]) /\ hashEndpoint(f[e]) = hashEndpoint(e)
    BY <2>1, <2>3, Zenon DEF IsEndpoint, hashEndpoint
  <2> QED
    BY <2>2, <2>3, Zenon DEF Rehinted
<1>2. Fits(E)
  <2>1. Fits(x.eps)
    BY Zenon DEF Item
  <2> QED
    BY <2>1, ImageFits, Zenon
<1>3. \A e \in E : IsEndpoint(e)
  BY <1>1, Zenon
<1>4. Item(sv, type, y) /\ y.ports = x.ports /\ y.eps = E
  BY <1>2, <1>3, ItemWithEndpoints
<1>5. Hashes(E) = Hashes(x.eps)
  BY <1>1 DEF Hashes
<1> QED
  BY <1>4, <1>5, Zenon DEF Like, Keys

(* RemoveHintsFromSlices and the hints of AddHints change the hints alone. *)
LEMMA NoHintsLike ==
    ASSUME NEW sv, NEW type, NEW x, Item(sv, type, x)
    PROVE  Like(sv, type, x, NoHints(x))
<1> DEFINE f == [e \in x.eps |-> [e EXCEPT !.hint = NoZone]]
           E == {f[e] : e \in x.eps}
           y == NoHints(x)
<1>1. DOMAIN f = x.eps /\ \A e \in x.eps : Rehinted(e, f[e])
  BY Zenon DEF Rehinted
<1>2. E = {[e EXCEPT !.hint = NoZone] : e \in x.eps}
  BY Zenon
<1>3. y = [x EXCEPT !.eps = E]
  BY <1>2, Zenon DEF NoHints
<1> HIDE DEF f, y
<1>4. E = {f[e] : e \in x.eps}
  BY Zenon
<1> HIDE DEF E
<1>5. Like(sv, type, x, y)
  BY <1>1, <1>3, <1>4, RehintedLike, Zenon
<1> QED
  BY <1>5, Zenon DEF y

(* A slice with new hints has the endpoints it had. *)
LEMMA WithHintsLike ==
    ASSUME NEW sv, NEW type, NEW x, Item(sv, type, x), NEW hints
    PROVE  Like(sv, type, x, WithHints(x, hints))
<1> DEFINE f == [e \in x.eps |-> IF e.ready THEN [e EXCEPT !.hint = hints[e]] ELSE e]
           E == {f[e] : e \in x.eps}
           y == WithHints(x, hints)
<1>1. ASSUME NEW e \in x.eps PROVE Rehinted(e, f[e])
  <2>1. CASE e.ready
    BY <2>1, Zenon DEF Rehinted
  <2>2. CASE ~e.ready
    BY <2>2, Zenon DEF Rehinted
  <2> QED
    BY <2>1, <2>2, Zenon
<1>2. E = {IF e.ready THEN [e EXCEPT !.hint = hints[e]] ELSE e : e \in x.eps}
  BY Zenon
<1>3. y = [x EXCEPT !.eps = E]
  BY <1>2, Zenon DEF WithHints
<1>4. DOMAIN f = x.eps
  BY Zenon
<1> HIDE DEF f, y
<1>5. E = {f[e] : e \in x.eps}
  BY Zenon
<1> HIDE DEF E
<1>6. Like(sv, type, x, y)
  BY <1>1, <1>3, <1>4, <1>5, RehintedLike, Zenon
<1> QED
  BY <1>6, Zenon DEF y

\* The slices C2 to create and U2 to update are those of C and U and some that were to
\* stay as they are, with other hints; g tells what became of those to create.
Relabelled(sv, type, Y, C, U, g, C2, U2) ==
    /\ \A c \in C2 : \E b \in C : c = g[b] /\ Like(sv, type, b, c)
    /\ DOMAIN U \subseteq DOMAIN U2
    /\ \A u \in DOMAIN U : Like(sv, type, U[u], U2[u])
    /\ \A u \in DOMAIN U2 \ DOMAIN U :
         u \in DOMAIN Y /\ ownedBy(Y[u], sv) /\ Like(sv, type, Y[u], U2[u])

(* Other hints meet no slice that did not meet before. *)
LEMMA LikeSound ==
    ASSUME NEW sv, NEW type, NEW Y, NEW C, NEW U, Sound(sv, type, Y, C, U),
           NEW g, NEW C2, NEW U2, Relabelled(sv, type, Y, C, U, g, C2, U2)
    PROVE  Sound(sv, type, Y, C2, U2)
<1> DEFINE W == DOMAIN U2 \ DOMAIN U
<1>1. \A c \in C2 : \E b \in C : c = g[b] /\ Like(sv, type, b, c)
  BY Zenon DEF Relabelled
<1>0. /\ DOMAIN U2 = DOMAIN U \cup W /\ \A u \in W : u \in DOMAIN Y /\ ownedBy(Y[u], sv)
      /\ \A u \in DOMAIN U : Like(sv, type, U[u], U2[u])
      /\ \A u \in W : Like(sv, type, Y[u], U2[u])
  BY Zenon DEF Relabelled
<1> HIDE DEF W
<1>2. ASSUME NEW x, NEW x2, Like(sv, type, x, x2), NEW y, Disjoint(x, y) PROVE Disjoint(x2, y)
  BY <1>2, Zenon DEF Like, Disjoint
<1>3. ASSUME NEW x, NEW y, Disjoint(x, y) PROVE Disjoint(y, x)
  BY <1>3, Zenon DEF Disjoint
<1>4. ASSUME NEW x, NEW x2, Like(sv, type, x, x2), NEW y, NEW y2, Like(sv, type, y, y2), Disjoint(x, y)
      PROVE  Disjoint(x2, y2)
  BY <1>2, <1>3, <1>4, Zenon
<1>5. \A c \in C2 : Item(sv, type, c)
  BY <1>1, Zenon DEF Like
<1>6. ASSUME NEW u \in DOMAIN U2
      PROVE  u \in DOMAIN Y /\ ownedBy(Y[u], sv) /\ Item(sv, type, U2[u])
  BY <1>0, Zenon DEF Like, Sound
<1>7. ASSUME NEW c \in C2, NEW d \in C2, c # d PROVE Disjoint(c, d)
  <2>1. PICK a \in C : c = g[a] /\ Like(sv, type, a, c)
    BY <1>1, Zenon
  <2>2. PICK b \in C : d = g[b] /\ Like(sv, type, b, d)
    BY <1>1, Zenon
  <2>3. Disjoint(a, b)
    BY <1>7, <2>1, <2>2, Zenon DEF Sound
  <2> QED
    BY <1>4, <2>1, <2>2, <2>3, Zenon
<1>8. ASSUME NEW c \in C2, NEW u \in DOMAIN U2 PROVE Disjoint(c, U2[u])
  <2>1. PICK a \in C : c = g[a] /\ Like(sv, type, a, c)
    BY <1>1, Zenon
  <2>2. CASE u \in DOMAIN U
    <3>1. Disjoint(a, U[u])
      BY <2>2, Zenon DEF Sound
    <3> QED
      BY <1>0, <1>4, <2>1, <2>2, <3>1, Zenon
  <2>3. CASE u \in W
    <3>1. Disjoint(a, Y[u])
      BY <1>0, <2>3, Zenon DEF Sound
    <3> QED
      BY <1>0, <1>4, <2>1, <2>3, <3>1, Zenon
  <2> QED
    BY <1>0, <2>2, <2>3, Zenon
<1>9. ASSUME NEW c \in C2, NEW v \in DOMAIN Y, ownedBy(Y[v], sv) PROVE Disjoint(c, Y[v])
  <2>1. PICK a \in C : c = g[a] /\ Like(sv, type, a, c)
    BY <1>1, Zenon
  <2>2. Disjoint(a, Y[v])
    BY <1>9, Zenon DEF Sound
  <2> QED
    BY <1>2, <2>1, <2>2, Zenon
<1>10. ASSUME NEW u \in DOMAIN U2, NEW v \in DOMAIN Y, u # v, ownedBy(Y[v], sv), Disjoint(Y[u], Y[v])
       PROVE  Disjoint(U2[u], Y[v])
  <2>1. CASE u \in DOMAIN U
    <3>1. Disjoint(U[u], Y[v])
      BY <1>10, <2>1, Zenon DEF Sound
    <3> QED
      BY <1>0, <1>2, <2>1, <3>1, Zenon
  <2>2. CASE u \in W
    BY <1>0, <1>2, <1>10, <2>2, Zenon
  <2> QED
    BY <1>0, <2>1, <2>2, Zenon
<1>11. ASSUME NEW u \in DOMAIN U2, NEW v \in DOMAIN U2, u # v, Disjoint(Y[u], Y[v])
       PROVE  Disjoint(U2[u], U2[v])
  <2>1. Disjoint(U2[u], Y[v])
    BY <1>6, <1>10, <1>11, Zenon
  <2>2. CASE v \in W
    BY <1>0, <1>2, <1>3, <2>1, <2>2, Zenon
  <2>3. CASE u \in W /\ v \in DOMAIN U
    <3>1. Disjoint(U[v], Y[u])
      BY <1>3, <1>6, <1>11, <2>3, Zenon DEF Sound
    <3> QED
      BY <1>0, <1>3, <1>4, <2>3, <3>1, Zenon
  <2>4. CASE u \in DOMAIN U /\ v \in DOMAIN U
    <3>1. Disjoint(U[u], U[v])
      BY <1>11, <2>4, Zenon DEF Sound
    <3> QED
      BY <1>0, <1>4, <2>4, <3>1, Zenon
  <2> QED
    BY <1>0, <2>2, <2>3, <2>4, Zenon
<1> QED
  BY <1>5, <1>6, <1>7, <1>8, <1>9, <1>10, <1>11, Zenon DEF Sound

\* The slices V that a plan for Y leaves alone, all of them of the Service.
Untouched(sv, Y, U, V) ==
    /\ DOMAIN V \subseteq DOMAIN Y \ DOMAIN U
    /\ \A u \in DOMAIN V : V[u] = Y[u] /\ ownedBy(Y[u], sv)

(* RemoveHintsFromSlices. *)
LEMMA RemoveHintsSound ==
    ASSUME NEW sv, NEW type, NEW Y, NEW C, NEW U, Sound(sv, type, Y, C, U), SlicesOf(sv, type, Y),
           NEW V, Untouched(sv, Y, U, V),
           NEW h, h = RemoveHintsFromSlices([create |-> C, update |-> U, unchanged |-> V])
    PROVE  Sound(sv, type, Y, h.create, h.update) /\ DOMAIN h.update \subseteq DOMAIN U \cup DOMAIN V
<1> DEFINE W == {u \in DOMAIN V : HasHints(V[u])}
           g == [c \in C |-> NoHints(c)]
           C2 == h.create
           U2 == h.update
<1>1. C2 = {NoHints(c) : c \in C}
  BY Zenon DEF RemoveHintsFromSlices
<1>2. U2 = [u \in DOMAIN U \cup W |-> NoHints(IF u \in W THEN V[u] ELSE U[u])]
  BY Zenon DEF RemoveHintsFromSlices
<1>4. \A u \in W : U2[u] = NoHints(Y[u]) /\ ownedBy(Y[u], sv) /\ u \in DOMAIN Y \ DOMAIN U
  BY <1>2, Zenon DEF Untouched
<1>5. \A u \in DOMAIN U : U2[u] = NoHints(U[u])
  BY <1>2, Zenon DEF Untouched
<1>6. ASSUME NEW c \in C2 PROVE \E b \in C : c = g[b] /\ Like(sv, type, b, c)
  <2>1. PICK b \in C : c = NoHints(b)
    BY <1>1, Zenon
  <2>2. Item(sv, type, b)
    BY Zenon DEF Sound
  <2> QED
    BY <2>1, <2>2, NoHintsLike, Zenon
<1>7. \A u \in DOMAIN U : Like(sv, type, U[u], U2[u])
  BY <1>5, NoHintsLike, Zenon DEF Sound
<1>8. W \subseteq DOMAIN V /\ DOMAIN U2 = DOMAIN U \cup W
  BY <1>2, Zenon
<1> HIDE DEF W, g, C2, U2
<1>9. ASSUME NEW u \in W PROVE Like(sv, type, Y[u], U2[u])
  <2>1. Item(sv, type, Y[u])
    BY <1>4, Zenon DEF SlicesOf
  <2> QED
    BY <1>4, <2>1, NoHintsLike, Zenon
<1>10. Relabelled(sv, type, Y, C, U, g, C2, U2)
  BY <1>4, <1>6, <1>7, <1>8, <1>9, Zenon DEF Relabelled
<1>11. Sound(sv, type, Y, C2, U2)
  BY <1>10, LikeSound, Zenon
<1> QED
  BY <1>8, <1>11, Zenon DEF C2, U2

(* The slices that lose their hints and those that get new ones. *)
LEMMA HintOutcomesSound ==
    ASSUME NEW sv, NEW type, NEW Y, NEW C, NEW U, Sound(sv, type, Y, C, U), SlicesOf(sv, type, Y),
           NEW V, Untouched(sv, Y, U, V), NEW kept, kept \subseteq DOMAIN V, NEW allocations, NEW total,
           NEW h \in HintOutcomes([create |-> C, update |-> U, unchanged |-> V], kept, allocations, total)
    PROVE  Sound(sv, type, Y, h.create, h.update) /\ DOMAIN h.update \subseteq DOMAIN U \cup DOMAIN V
<1> DEFINE si == [create |-> C, update |-> U, unchanged |-> V]
           R == Rewritten(si, kept)
           K == Restrict(V, kept)
           eps == ReadyIn(AllEndpoints(C \cup Range(R)))
           id == [c \in C |-> c]
<1>1. R = [u \in DOMAIN U \cup (DOMAIN V \ kept) |-> IF u \in DOMAIN U THEN U[u] ELSE V[u]]
  BY Zenon DEF Rewritten
<1>2. /\ DOMAIN R = DOMAIN U \cup (DOMAIN V \ kept)
      /\ \A u \in DOMAIN U : R[u] = U[u]
      /\ \A u \in DOMAIN R \ DOMAIN U : R[u] = Y[u] /\ u \in DOMAIN Y /\ ownedBy(Y[u], sv)
  BY <1>1, Zenon DEF Untouched
<1>3. \/ h = RemoveHintsFromSlices([create |-> C, update |-> R, unchanged |-> K])
      \/ \E x : h = [create |-> {WithHints(s, x) : s \in C},
                     update |-> [u \in DOMAIN R |-> WithHints(R[u], x)],
                     ezi    |-> HintsCounted(eps, x, V, kept, allocations)]
  <2>1. si.create = C /\ si.unchanged = V
    BY Zenon DEF si
  <2> HIDE DEF si
  <2>2. h \in HintOutcomes(si, kept, allocations, total)
    BY Zenon DEF si
  <2> QED
    BY <2>1, <2>2, Zenon DEF HintOutcomes
<1>4. Untouched(sv, Y, R, K)
  BY <1>2, Zenon DEF Untouched, Restrict
<1>5. DOMAIN K = kept
  BY Zenon DEF Restrict
<1> HIDE DEF si, R, K, eps
<1>6. ASSUME NEW x, Item(sv, type, x) PROVE Like(sv, type, x, x)
  BY <1>6, Zenon DEF Like
<1>7. Sound(sv, type, Y, C, R)
  <2>1. ASSUME NEW c \in C PROVE \E b \in C : c = id[b] /\ Like(sv, type, b, c)
    <3>1. Item(sv, type, c)
      BY Zenon DEF Sound
    <3> QED
      BY <1>6, <3>1, Zenon
  <2>2. ASSUME NEW u \in DOMAIN U PROVE Like(sv, type, U[u], R[u])
    <3>1. Item(sv, type, U[u])
      BY Zenon DEF Sound
    <3> QED
      BY <1>2, <1>6, <3>1, Zenon
  <2>3. ASSUME NEW u \in DOMAIN R \ DOMAIN U PROVE Like(sv, type, Y[u], R[u])
    <3>1. Item(sv, type, Y[u])
      BY <1>2, Zenon DEF SlicesOf
    <3> QED
      BY <1>2, <1>6, <3>1, Zenon
  <2> HIDE DEF id
  <2>4. Relabelled(sv, type, Y, C, U, id, C, R)
    BY <1>2, <2>1, <2>2, <2>3, Zenon DEF Relabelled
  <2> QED
    BY <2>4, LikeSound, Zenon
<1>8. CASE h = RemoveHintsFromSlices([create |-> C, update |-> R, unchanged |-> K])
  <2>1. Sound(sv, type, Y, h.create, h.update) /\ DOMAIN h.update \subseteq DOMAIN R \cup DOMAIN K
    BY <1>4, <1>7, <1>8, RemoveHintsSound
  <2> QED
    BY <1>2, <1>5, <2>1, Zenon
<1>9. ASSUME NEW x, h = [create |-> {WithHints(s, x) : s \in C},
                         update |-> [u \in DOMAIN R |-> WithHints(R[u], x)],
                         ezi    |-> HintsCounted(eps, x, V, kept, allocations)]
      PROVE  Sound(sv, type, Y, h.create, h.update) /\ DOMAIN h.update \subseteq DOMAIN U \cup DOMAIN V
  <2> DEFINE g == [c \in C |-> WithHints(c, x)]
             C2 == h.create
             U2 == h.update
  <2>1. C2 = {WithHints(s, x) : s \in C} /\ U2 = [u \in DOMAIN R |-> WithHints(R[u], x)]
    BY <1>9, Zenon
  <2>2. ASSUME NEW c \in C2 PROVE \E b \in C : c = g[b] /\ Like(sv, type, b, c)
    <3>1. PICK b \in C : c = WithHints(b, x)
      BY <2>1, Zenon
    <3>2. Item(sv, type, b)
      BY Zenon DEF Sound
    <3> QED
      BY <3>1, <3>2, WithHintsLike, Zenon
  <2>3. ASSUME NEW u \in DOMAIN R PROVE Like(sv, type, R[u], U2[u])
    <3>1. Item(sv, type, R[u])
      BY <1>7, Zenon DEF Sound
    <3>2. U2[u] = WithHints(R[u], x)
      BY <2>1, Zenon
    <3> QED
      BY <3>1, <3>2, WithHintsLike, Zenon
  <2>4. DOMAIN U2 = DOMAIN R
    BY <2>1, Zenon
  <2> HIDE DEF g, C2, U2
  <2>5. Relabelled(sv, type, Y, C, R, g, C2, U2)
    BY <2>2, <2>3, <2>4, Zenon DEF Relabelled
  <2>6. Sound(sv, type, Y, C2, U2)
    BY <1>7, <2>5, LikeSound, Zenon
  <2> QED
    BY <1>2, <2>4, <2>6, Zenon DEF C2, U2
<1> QED
  BY <1>3, <1>8, <1>9, Zenon

(* Without any endpoint there is nothing to allocate. *)
LEMMA NothingAllocated ==
    ASSUME NEW cpus, ZonesKnown(cpus)
    PROVE  getAllocations(cpus, 0) = << >>
<1>1. cpus = << >> \/ Cardinality(DOMAIN cpus) > 0
  BY DEF ZonesKnown
<1> QED
  BY <1>1, Zenon DEF getAllocations

(* Hints for a plan whose unchanged slices are all the Service's, and for the plan that  *)
(* leaves an empty slice in the place of the placeholder.                                *)
LEMMA HintedSound ==
    ASSUME NEW sv, NEW type, NEW Y, SlicesOf(sv, type, Y), NEW cpus, ZonesKnown(cpus),
           NEW old, Sound(sv, type, Y, old.create, old.update),
           old.delete \subseteq DOMAIN Y, DOMAIN old.update \cap old.delete = {},
           \/ \A u \in DOMAIN Y \ old.delete : ownedBy(Y[u], sv)
           \/ old.create = {} /\ DOMAIN old.update = {} /\ \A u \in DOMAIN Y : Y[u].eps = {},
           NEW plan \in Hinted(sv, Y, old, cpus)
    PROVE  /\ Sound(sv, type, Y, plan.create, plan.update)
           /\ plan.delete \subseteq DOMAIN Y /\ DOMAIN plan.update \cap plan.delete = {}
<1> DEFINE C == old.create
           U == old.update
           V == unchangedSlices(Y, old)
           si == [create |-> C, update |-> U, unchanged |-> V]
           all == C \cup Range(U) \cup Range(V)
           allocations == getAllocations(cpus, Cardinality(ReadyIn(AllEndpoints(all))))
<1>1. PICK h : /\ plan = [create |-> h.create, update |-> h.update, delete |-> old.delete, ezi |-> h.ezi]
               /\ h \in AddHints(si, cpus) \/ h = RemoveHintsFromSlices(si)
  <2>1. PICK x \in {si} :
          plan \in {[create |-> h.create, update |-> h.update, delete |-> old.delete, ezi |-> h.ezi] :
                     h \in IF hintsEnabled(sv) THEN AddHints(x, cpus) ELSE {RemoveHintsFromSlices(x)}}
    BY Zenon DEF Hinted
  <2>2. x = si
    BY Zenon
  <2> HIDE DEF si
  <2> QED
    BY <2>1, <2>2, Zenon
<1>2. plan.create = h.create /\ plan.update = h.update /\ plan.delete = old.delete
  BY <1>1, Zenon
<1>3. /\ DOMAIN V = DOMAIN Y \ (DOMAIN U \cup old.delete)
      /\ \A u \in DOMAIN V : V[u] = Y[u]
  BY Zenon DEF unchangedSlices, Restrict
<1>4. \/ h = RemoveHintsFromSlices(si)
      \/ allocations # << >> /\ \E kept \in SUBSET DOMAIN V :
                                  h \in HintOutcomes(si, kept, allocations, SumOf(cpus))
  <2>1. si.create = C /\ si.unchanged = V /\ si.update = U
    BY Zenon DEF si
  <2> HIDE DEF si, V, U, C
  <2>2. CASE h \in AddHints(si, cpus)
    <3>1. CASE allocations = << >>
      <4>1. h \in {RemoveHintsFromSlices(si)}
        BY <2>1, <2>2, <3>1, Zenon DEF AddHints
      <4> QED
        BY <4>1, Zenon
    <3>2. CASE allocations # << >>
      <4>1. h \in UNION {HintOutcomes(si, kept, allocations, SumOf(cpus)) :
                           kept \in getAllocatedHintsByZone(V, allocations)}
        BY <2>1, <2>2, <3>2, Zenon DEF AddHints
      <4> HIDE DEF allocations
      <4>2. PICK kept \in getAllocatedHintsByZone(V, allocations) :
                h \in HintOutcomes(si, kept, allocations, SumOf(cpus))
        BY <4>1, Zenon
      <4>3. kept \in SUBSET DOMAIN V
        BY <4>2, Zenon DEF getAllocatedHintsByZone
      <4> QED
        BY <3>2, <4>2, <4>3, Zenon
    <3> QED
      BY <3>1, <3>2, Zenon
  <2> QED
    BY <1>1, <2>2, Zenon
<1>5. CASE \A u \in DOMAIN Y \ old.delete : ownedBy(Y[u], sv)
  <2>1. Untouched(sv, Y, U, V)
    BY <1>3, <1>5, Zenon DEF Untouched
  <2> HIDE DEF V, allocations
  <2>2. Sound(sv, type, Y, h.create, h.update) /\ DOMAIN h.update \subseteq DOMAIN U \cup DOMAIN V
    <3>1. CASE h = RemoveHintsFromSlices(si)
      BY <2>1, <3>1, RemoveHintsSound
    <3>2. ASSUME NEW kept \in SUBSET DOMAIN V, h \in HintOutcomes(si, kept, allocations, SumOf(cpus))
          PROVE  Sound(sv, type, Y, h.create, h.update) /\ DOMAIN h.update \subseteq DOMAIN U \cup DOMAIN V
      <4> DEFINE total == SumOf(cpus)
      <4>1. h \in HintOutcomes(si, kept, allocations, total)
        BY <3>2, Zenon
      <4> HIDE DEF total
      <4> QED
        BY <2>1, <4>1, HintOutcomesSound
    <3> QED
      BY <1>4, <3>1, <3>2, Zenon
  <2>3. (DOMAIN U \cup DOMAIN V) \cap old.delete = {}
    BY <1>3, Zenon
  <2> QED
    BY <1>2, <2>2, <2>3, Zenon
<1>6. CASE C = {} /\ DOMAIN U = {} /\ \A u \in DOMAIN Y : Y[u].eps = {}
  <2>1. AllEndpoints(all) = {}
    BY <1>3, <1>6 DEF AllEndpoints, Range
  <2>2. allocations = << >>
    <3>1. Cardinality(ReadyIn(AllEndpoints(all))) = 0
      BY <2>1, FS_EmptySet, Zenon DEF ReadyIn
    <3> QED
      BY <3>1, NothingAllocated, Zenon
  <2>3. h = RemoveHintsFromSlices(si)
    BY <1>4, <2>2, Zenon
  <2>4. \A u \in DOMAIN V : ~HasHints(V[u])
    BY <1>3, <1>6, Zenon DEF HasHints
  <2> HIDE DEF V
  <2>5. h.create = {} /\ DOMAIN h.update = {}
    BY <1>6, <2>3, <2>4, Zenon DEF RemoveHintsFromSlices
  <2>6. Sound(sv, type, Y, h.create, h.update)
    BY <2>5, Zenon DEF Sound
  <2> QED
    BY <1>2, <2>5, <2>6, Zenon
<1> QED
  BY <1>5, <1>6, Zenon

(* A slice to create that takes the place of one to delete. *)
LEMMA ReuseSound ==
    ASSUME NEW sv, NEW type, NEW Y, NEW old, Sound(sv, type, Y, old.create, old.update),
           old.delete \subseteq DOMAIN Y, DOMAIN old.update \cap old.delete = {},
           NEW plan \in ReuseDeleted(sv, Y, old)
    PROVE  Sound(sv, type, Y, plan.create, plan.update) /\ plan.delete \subseteq DOMAIN Y
<1> DEFINE owned == {u \in old.delete : ownedBy(Y[u], sv)}
           k == Min({Cardinality(owned), Cardinality(old.create)})
           C == plan.create
           U == plan.update
<1>1. PICK f \in UNION {Injection(D, old.create) : D \in kSubset(k, owned)} :
        plan = [create |-> old.create \ Range(f), delete |-> old.delete \ DOMAIN f, ezi |-> old.ezi,
                update |-> [u \in DOMAIN old.update \cup DOMAIN f |->
                              IF u \in DOMAIN f THEN f[u] ELSE old.update[u]]]
  BY Zenon DEF ReuseDeleted
<1>2. PICK D \in kSubset(k, owned) : f \in Injection(D, old.create)
  BY <1>1, Zenon
<1>3. D \subseteq owned
  BY <1>2, Zenon DEF kSubset
<1>4. /\ DOMAIN f \subseteq owned /\ \A u \in DOMAIN f : f[u] \in old.create
      /\ \A u, v \in DOMAIN f : u # v => f[u] # f[v]
  BY <1>2, <1>3, Zenon DEF Injection, IsInjective
<1>5. C = old.create \ Range(f) /\ plan.delete = old.delete \ DOMAIN f
  BY <1>1, Zenon
<1>6. U = [u \in DOMAIN old.update \cup DOMAIN f |-> IF u \in DOMAIN f THEN f[u] ELSE old.update[u]]
  BY <1>1
<1>7. /\ DOMAIN U = DOMAIN old.update \cup DOMAIN f
      /\ \A u \in DOMAIN f : U[u] = f[u] /\ U[u] \in old.create /\ u \in DOMAIN Y /\ ownedBy(Y[u], sv)
      /\ \A u \in DOMAIN old.update : U[u] = old.update[u]
      /\ \A c \in C : c \in old.create /\ \A u \in DOMAIN f : c # U[u]
  <2>1. DOMAIN U = DOMAIN old.update \cup DOMAIN f
    BY <1>6, Zenon
  <2>2. \A u \in DOMAIN f : U[u] = f[u]
    BY <1>6, Zenon
  <2>3. \A u \in DOMAIN old.update : U[u] = old.update[u]
    BY <1>4, <1>6, Zenon
  <2>4. \A c \in C : c \in old.create /\ \A u \in DOMAIN f : c # U[u]
    BY <1>5, <2>2, Zenon DEF Range
  <2> QED
    BY <1>4, <2>1, <2>2, <2>3, <2>4, Zenon
<1>8. \A u, v \in DOMAIN f : u # v => U[u] # U[v]
  BY <1>4, <1>7, Zenon
<1> HIDE DEF C, U
<1>9. \A x, y : Disjoint(x, y) => Disjoint(y, x)
  BY Zenon DEF Disjoint
<1>10. /\ \A c \in C : Item(sv, type, c)
       /\ \A u \in DOMAIN U : u \in DOMAIN Y /\ ownedBy(Y[u], sv) /\ Item(sv, type, U[u])
       /\ \A c, d \in C : c # d => Disjoint(c, d)
       /\ \A c \in C : \A v \in DOMAIN Y : ownedBy(Y[v], sv) => Disjoint(c, Y[v])
  BY <1>7, Zenon DEF Sound
<1>11. ASSUME NEW c \in C, NEW u \in DOMAIN U PROVE Disjoint(c, U[u])
  BY <1>7, Zenon DEF Sound
<1>12. ASSUME NEW u \in DOMAIN U, NEW v \in DOMAIN Y, u # v, ownedBy(Y[v], sv), Disjoint(Y[u], Y[v])
       PROVE  Disjoint(U[u], Y[v])
  BY <1>7, <1>12, Zenon DEF Sound
<1>13. ASSUME NEW u \in DOMAIN U, NEW v \in DOMAIN U, u # v, Disjoint(Y[u], Y[v])
       PROVE  Disjoint(U[u], U[v])
  <2>1. CASE u \in DOMAIN f /\ v \in DOMAIN f
    BY <1>7, <1>8, <1>13, <2>1, Zenon DEF Sound
  <2>2. CASE u \in DOMAIN f /\ v \in DOMAIN old.update
    BY <1>7, <2>2, Zenon DEF Sound
  <2>3. CASE u \in DOMAIN old.update /\ v \in DOMAIN f
    BY <1>7, <1>9, <2>3, Zenon DEF Sound
  <2>4. CASE u \in DOMAIN old.update /\ v \in DOMAIN old.update
    BY <1>7, <1>13, <2>4, Zenon DEF Sound
  <2> QED
    BY <1>7, <2>1, <2>2, <2>3, <2>4, Zenon
<1>14. Sound(sv, type, Y, C, U)
  BY <1>10, <1>11, <1>12, <1>13, Zenon DEF Sound
<1> QED
  BY <1>5, <1>14, Zenon DEF C, U

(* Whatever order the maps are iterated in, the plan of reconcileByAddressType writes    *)
(* slices of the Service that fit, and puts no endpoint into two slices that no two of   *)
(* the slices it started from shared.                                                    *)
THEOREM PlanSound ==
    ASSUME NEW sv, NEW type, NEW pods, DOMAIN pods \subseteq Pod, NEW nodes,
           NEW Y, SlicesOf(sv, type, Y), NEW cpus, ZonesKnown(cpus),
           NEW plan \in reconcileByAddressType(sv, type, pods, nodes, Y, cpus)
    PROVE  Sound(sv, type, Y, plan.create, plan.update) /\ plan.delete \subseteq DOMAIN Y
<1> DEFINE mapped == PortMappings(sv, type, pods, nodes, Y)
           placed == {WithPlaceholder(sv, type, Y, p) : p \in mapped}
           hinted == UNION {Hinted(sv, Y, p, cpus) : p \in placed}
<1>1. plan \in UNION {ReuseDeleted(sv, Y, p) : p \in hinted}
  BY Zenon DEF reconcileByAddressType
<1>2. PICK r \in hinted : plan \in ReuseDeleted(sv, Y, r)
  BY <1>1, Zenon
<1>3. PICK q \in placed : r \in Hinted(sv, Y, q, cpus)
  BY <1>2, Zenon
<1>4. PICK p \in mapped : q = WithPlaceholder(sv, type, Y, p)
  BY <1>3, Zenon
<1>5. /\ Sound(sv, type, Y, p.create, p.update)
      /\ p.delete \subseteq DOMAIN Y /\ DOMAIN p.update \cap p.delete = {}
      /\ \A u \in DOMAIN Y \ p.delete : ownedBy(Y[u], sv)
  BY PortMappingsSound, Zenon
<1>6. DOMAIN p = {"create", "update", "delete"}
  <2>1. \E a, b, c : p = [create |-> a, update |-> b, delete |-> c]
    BY Zenon DEF PortMappings
  <2> QED
    BY <2>1, Zenon
<1> HIDE DEF mapped, placed, hinted
<1>7. /\ Sound(sv, type, Y, q.create, q.update)
      /\ q.delete \subseteq DOMAIN Y /\ DOMAIN q.update \cap q.delete = {}
      /\ \/ \A u \in DOMAIN Y \ q.delete : ownedBy(Y[u], sv)
         \/ q.create = {} /\ DOMAIN q.update = {} /\ \A u \in DOMAIN Y : Y[u].eps = {}
  BY <1>4, <1>5, <1>6, PlaceholderSound
<1>8. /\ Sound(sv, type, Y, r.create, r.update)
      /\ r.delete \subseteq DOMAIN Y /\ DOMAIN r.update \cap r.delete = {}
  BY <1>3, <1>7, HintedSound, Zenon
<1> QED
  BY <1>2, <1>8, ReuseSound, Zenon
=============================================================================
