----------------------------- MODULE TopologyCache -----------------------------
(***************************************************************************)
(* The topology cache of the EndpointSlice controller, as operators: from  *)
(* the CPU of the ready nodes of each zone it decides which zone every     *)
(* ready endpoint is offered to (its hint).                                *)
(*                                                                         *)
(* A slice is a record whose field eps is a set of endpoints; an endpoint  *)
(* has at least the fields zone, ready and hint. The float ratios of the   *)
(* code are integers here, scaled by the total CPU: where the code         *)
(* compares ratio * n, the model compares cpu * n with a multiple of the   *)
(* total. Go maps are iterated in any order, so what depends on the order  *)
(* is a set of outcomes.                                                   *)
(***************************************************************************)
EXTENDS Integers, FiniteSets, FiniteSetsExt, Functions

CONSTANT
    NoZone    \* a node without zone label; an endpoint without zone or without hint

SumOf(f) == FoldFunction(+, 0, f)

\* Ceil(x / y) for positive y, the math.Ceil of the code.
CeilDiv(x, y) == (x + y - 1) \div y

ReadyIn(eps) == {e \in eps : e.ready}

AllEndpoints(slices) == UNION {s.eps : s \in slices}

-----------------------------------------------------------------------------
(* SetNodes: the CPU per zone, or the empty function when the nodes do not *)
(* say enough. A node is a record with fields ready, control, zone, cpu.   *)

SetNodes(nodes) ==
    LET counted   == {n \in DOMAIN nodes : nodes[n].ready /\ ~nodes[n].control}
        zones     == {nodes[n].zone : n \in counted}
        cpu(z)    == MapThenSumSet(LAMBDA n : nodes[n].cpu, {n \in counted : nodes[n].zone = z})
        sufficient == \A n \in counted : nodes[n].zone # NoZone /\ nodes[n].cpu > 0
    IN  IF sufficient /\ Cardinality(zones) >= 2
        THEN [z \in zones |-> cpu(z)]
        ELSE << >>

\* The minimum a zone needs of n endpoints: its share over 1 + overloadThreshold, 6/5.
MinimumOf(cpus, z, n) == CeilDiv(5 * cpus[z] * n, 6 * SumOf(cpus))

\* The allocation per zone, or the empty function where the code returns an event.
getAllocations(cpus, n) ==
    LET total    == SumOf(cpus)
        minimum  == [z \in DOMAIN cpus |-> MinimumOf(cpus, z, n)]
        minTotal == SumOf(minimum)
    IN  IF cpus = << >> \/ Cardinality(DOMAIN cpus) > n \/ minTotal > n
        THEN << >>
        ELSE [z \in DOMAIN cpus |->
                [minimum |-> minimum[z],
                 maximum |-> minimum[z] + n - minTotal,
                 desired |-> Max({cpus[z] * n, minimum[z] * total})]]

\* Whether the hints counted in ezi leave some zone with less than its minimum.
serviceOverloaded(ezi, cpus) ==
    /\ ezi # << >>
    /\ \/ cpus = << >>
       \/ \E z \in DOMAIN cpus :
            \/ z \notin DOMAIN ezi
            \/ ezi[z] < MinimumOf(cpus, z, SumOf(ezi))

-----------------------------------------------------------------------------
(* AddHints, step by step.                                                 *)

HintsTo(eps, z) == Cardinality({e \in ReadyIn(eps) : e.hint = z})

\* getHintsByZone does not return nil: what the slice hints fits what is allocated.
HintsFit(slice, allocated, allocations) ==
    /\ \A e \in ReadyIn(slice.eps) : e.hint \in DOMAIN allocations
    /\ \A z \in DOMAIN allocations :
         HintsTo(slice.eps, z) > 0 =>
            HintsTo(slice.eps, z) + allocated[z] <= allocations[z].maximum

\* The hints to zone z in those of the unchanged slices that keep them.
KeptTo(unchanged, kept, z) == MapThenSumSet(LAMBDA u : HintsTo(unchanged[u].eps, z), kept)

\* The unchanged slices (a function from their ids) that may keep their hints. The code
\* takes them one by one, so a slice is refused when it does not fit what was kept before.
getAllocatedHintsByZone(unchanged, allocations) ==
    LET count(kept) == [z \in DOMAIN allocations |-> KeptTo(unchanged, kept, z)]
        round[k \in 0 .. Cardinality(DOMAIN unchanged)] ==
            IF k = 0 THEN {[seen |-> {}, kept |-> {}]}
            ELSE UNION {{[seen |-> s.seen \cup {u},
                          kept |-> IF HintsFit(unchanged[u], count(s.kept), allocations)
                                   THEN s.kept \cup {u} ELSE s.kept] :
                            u \in DOMAIN unchanged \ s.seen} : s \in round[k-1]}
        done == round[Cardinality(DOMAIN unchanged)]
    IN  {kept \in SUBSET DOMAIN unchanged : \E s \in done : s.kept = kept}

\* getMost: the zones with the greatest positive number.
getMost(zones) == {z \in DOMAIN zones : zones[z] > 0 /\ \A y \in DOMAIN zones : zones[y] <= zones[z]}

\* How many endpoints each zone gives away and receives. Numbers are scaled by total.
getGivingAndReceivingZones(allocations, allocated, total) ==
    LET over(z)  == allocated[z] * total - allocations[z].desired
        zero     == [z \in DOMAIN allocations |-> 0]
        start    == [give |-> zero, receive |-> zero]
        left(s)  == [z \in DOMAIN zero |-> over(z) - s.give[z] * total]
        need(s)  == [z \in DOMAIN zero |-> -over(z) - s.receive[z] * total]
        moves(s) == {gr \in getMost([z \in {y \in DOMAIN zero : over(y) > 0} |-> left(s)[z]])
                            \X getMost([z \in {y \in DOMAIN zero : over(y) < 0} |-> need(s)[z]]) :
                        LET g == left(s)[gr[1]]
                            r == need(s)[gr[2]]
                        IN  (g >= total \/ r >= total) /\ 2 * g >= total /\ 2 * r >= total}
        after(s) == IF moves(s) = {} THEN {s}
                    ELSE {[give    |-> [s.give EXCEPT ![gr[1]] = @ + 1],
                           receive |-> [s.receive EXCEPT ![gr[2]] = @ + 1]] : gr \in moves(s)}
        round[k \in 0 .. SumOf(allocated)] ==
            IF k = 0 THEN {start} ELSE UNION {after(s) : s \in round[k-1]}
    IN  round[SumOf(allocated)]

\* The hints the endpoints of the changed slices may end with: their own zone's, except
\* for those a giving zone hands to a receiving one.
redistributeHints(eps, plan) ==
    LET own(z)  == {e \in eps : e.zone = z}
        zones   == DOMAIN plan.give
        gives(h, z)    == Cardinality({e \in own(z) : h[e] # z})
        receives(h, z) == Cardinality({e \in eps : h[e] = z /\ e.zone # z})
    IN  {h \in [eps -> zones \cup {e.zone : e \in eps}] :
            /\ \A e \in eps : e.zone \notin zones => h[e] = e.zone
            /\ \A z \in zones :
                 /\ gives(h, z) = Min({plan.give[z], Cardinality(own(z))})
                 /\ receives(h, z) <= plan.receive[z]}

WithHints(slice, hints) ==
    [slice EXCEPT !.eps = {IF e.ready THEN [e EXCEPT !.hint = hints[e]] ELSE e : e \in slice.eps}]

-----------------------------------------------------------------------------
(* A reconciliation in progress: the slices to create (a set), to update   *)
(* and left unchanged (functions from slice ids).                          *)

NoHints(slice) == [slice EXCEPT !.eps = {[e EXCEPT !.hint = NoZone] : e \in slice.eps}]

HasHints(slice) == \E e \in slice.eps : e.hint # NoZone

RemoveHintsFromSlices(si) ==
    LET hinted == {u \in DOMAIN si.unchanged : HasHints(si.unchanged[u])}
    IN  [create    |-> {NoHints(s) : s \in si.create},
         update    |-> [u \in DOMAIN si.update \cup hinted |->
                          NoHints(IF u \in hinted THEN si.unchanged[u] ELSE si.update[u])],
         ezi       |-> << >>]

\* The slices AddHints writes: those to update, and the unchanged ones whose hints it
\* does not keep.
Rewritten(si, kept) ==
    [u \in DOMAIN si.update \cup (DOMAIN si.unchanged \ kept) |->
        IF u \in DOMAIN si.update THEN si.update[u] ELSE si.unchanged[u]]

\* The hints the ready endpoints eps of these slices may get.
HintChoices(eps, unchanged, kept, allocations, total) ==
    LET before == [z \in DOMAIN allocations |->
                     KeptTo(unchanged, kept, z) + Cardinality({e \in eps : e.zone = z})]
    IN  UNION {redistributeHints(eps, plan) :
                 plan \in getGivingAndReceivingZones(allocations, before, total)}

\* The hints counted per zone.
HintsCounted(eps, hints, unchanged, kept, allocations) ==
    [z \in DOMAIN allocations \cup {e.zone : e \in eps} |->
        KeptTo(unchanged, kept, z) + Cardinality({e \in eps : hints[e] = z})]

HintOutcomes(si, kept, allocations, total) ==
    LET update == Rewritten(si, kept)
        eps    == ReadyIn(AllEndpoints(si.create \cup Range(update)))
    IN  IF \E e \in eps : e.zone = NoZone
        THEN {RemoveHintsFromSlices([create |-> si.create, update |-> update,
                                     unchanged |-> Restrict(si.unchanged, kept)])}
        ELSE {[create |-> {WithHints(s, h) : s \in si.create},
               update |-> [u \in DOMAIN update |-> WithHints(update[u], h)],
               ezi    |-> HintsCounted(eps, h, si.unchanged, kept, allocations)] :
                h \in HintChoices(eps, si.unchanged, kept, allocations, total)}

\* The outcomes of AddHints: the slices to create and update, and the hints counted per
\* zone, empty when the cache forgets the Service.
AddHints(si, cpus) ==
    LET all         == si.create \cup Range(si.update) \cup Range(si.unchanged)
        allocations == getAllocations(cpus, Cardinality(ReadyIn(AllEndpoints(all))))
    IN  IF allocations = << >> THEN {RemoveHintsFromSlices(si)}
        ELSE UNION {HintOutcomes(si, kept, allocations, SumOf(cpus)) :
                      kept \in getAllocatedHintsByZone(si.unchanged, allocations)}
=============================================================================
