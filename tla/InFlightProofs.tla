---------------------------- MODULE InFlightProofs ----------------------------
(***************************************************************************)
(* Proofs about InFlight, for any number of requests and places, any lease *)
(* time and any calls: the limit on concurrent requests holds, a request   *)
(* occupies one place, and callers have what they were told.               *)
(***************************************************************************)
EXTENDS InFlight, FiniteSetTheorems, TLAPS

\* What the stored record is like between two calls. A record is in one format
\* only, and no lease outlives a full lease time from now.
StoreInv ==
    /\ legacy = {} \/ leases = {}
    /\ IsFiniteSet(legacy) /\ Cardinality(legacy) =< MaxInFlight
    /\ IsFiniteSet(leases) /\ Cardinality(leases) =< MaxInFlight
    /\ \A l, m \in leases : l.req = m.req => l = m
    /\ \A l \in leases : l.gen < nextGeneration /\ l.exp =< now + LeaseTTL

\* The inductive invariant: what callers were told has not run out, and holds.
LeaseInv ==
    /\ LeaseTypeOK
    /\ StoreInv
    /\ \A t \in told : t.exp > now
    /\ LeaseHeldUntilExpiry

\* A set of leases that may be written: it fits, and has one lease per request.
Storable(S) ==
    /\ S \in SUBSET LeaseIn(Requests)
    /\ IsFiniteSet(S) /\ Cardinality(S) =< MaxInFlight
    /\ \A l, m \in S : l.req = m.req => l = m
    /\ \A l \in S : l.exp =< now + LeaseTTL

-----------------------------------------------------------------------------
\* normalizeInFlightState turns a record in either format into leases that may
\* be written, with generations that were handed out before.
LEMMA NormalizedStorable ==
  ASSUME LeaseTypeOK, StoreInv
  PROVE  Storable(Normalized) /\ \A l \in Normalized : l.gen < nextGeneration
<1> USE LeaseTTLAssumption, MaxInFlightAssumption
<1> DEFINE migrated == {NewLease(r, LegacyGeneration) : r \in legacy}
           f == [r \in legacy |-> NewLease(r, LegacyGeneration)]
<1>1. migrated \in SUBSET LeaseIn(Requests)
  BY DEF LeaseTypeOK, LeaseIn, NewLease, LegacyGeneration
<1>2. f \in Surjection(legacy, migrated)
  BY DEF Surjection
<1>3. IsFiniteSet(migrated) /\ Cardinality(migrated) =< Cardinality(legacy)
  <2> HIDE DEF f, migrated
  <2> QED BY <1>2, FS_Surjection DEF StoreInv
<1>4. Cardinality(migrated) \in Nat /\ Cardinality(legacy) \in Nat
  <2> HIDE DEF migrated
  <2> QED BY <1>3, FS_CardinalityType DEF StoreInv
<1>5. \A l, m \in migrated : l.req = m.req => l = m
  BY DEF NewLease
<1>6. \A l \in migrated : l.gen < nextGeneration /\ l.exp =< now + LeaseTTL
  BY DEF NewLease, LegacyGeneration, LeaseTypeOK
<1>7. CASE leases = {}
  <2>1. Normalized = migrated
    BY <1>7 DEF Normalized
  <2> HIDE DEF migrated
  <2> QED BY <1>1, <1>3, <1>4, <1>5, <1>6, <2>1 DEF Storable, StoreInv
<1>8. CASE legacy = {}
  <2>1. Normalized = leases
    BY <1>8 DEF Normalized
  <2> QED BY <2>1 DEF Storable, StoreInv, LeaseTypeOK
<1> QED BY <1>7, <1>8 DEF StoreInv

\* What remains of a set of leases when some are dropped may be written.
LEMMA StorableSubset ==
  ASSUME NEW S, Storable(S), NEW T \in SUBSET S
  PROVE  Storable(T)
<1>1. IsFiniteSet(T) /\ Cardinality(T) =< Cardinality(S)
  BY FS_Subset DEF Storable
<1>2. Cardinality(T) \in Nat /\ Cardinality(S) \in Nat
  BY <1>1, FS_CardinalityType DEF Storable
<1> QED BY <1>1, <1>2, MaxInFlightAssumption DEF Storable

\* Writing such a set back, with generations already handed out, keeps the
\* record in order.
LEMMA SaveKeepsStore ==
  ASSUME NEW S, Storable(S), SaveInFlight(S), now' = now,
         \A l \in S : l.gen < nextGeneration'
  PROVE  StoreInv'
<1>1. IsFiniteSet(legacy') /\ Cardinality(legacy') = 0
  BY FS_EmptySet DEF SaveInFlight
<1> QED BY <1>1, MaxInFlightAssumption DEF Storable, SaveInFlight, StoreInv

\* The active leases are among the normalized ones; a lease a caller was told
\* of, unless migrated, is one of them.
LEMMA ActiveFacts ==
  ASSUME LeaseInv
  PROVE  /\ Storable(Active)
         /\ \A l \in Active : l.gen < nextGeneration /\ l.exp > now
         /\ \A h \in {t \in told : t.gen # LegacyGeneration} :
               \E l \in Active : l.req = h.req /\ l.gen = h.gen /\ l.exp >= h.exp
<1>1. Storable(Normalized) /\ \A l \in Normalized : l.gen < nextGeneration
  BY NormalizedStorable DEF LeaseInv
<1>2. Active \in SUBSET Normalized /\ \A l \in Active : l.exp > now
  BY DEF Active, WithoutExpired
<1>3. ASSUME NEW h \in {t \in told : t.gen # LegacyGeneration}
      PROVE  \E l \in Active : l.req = h.req /\ l.gen = h.gen /\ l.exp >= h.exp
  <2>1. PICK l \in leases : l.req = h.req /\ l.gen = h.gen /\ l.exp >= h.exp
    BY <1>3 DEF LeaseInv, LeaseHeldUntilExpiry
  <2>2. h.exp > now /\ now \in Nat /\ h.exp \in Nat /\ l.exp \in Nat
    BY <1>3 DEF LeaseInv, LeaseTypeOK, LeaseIn
  <2>3. l \in Active
    BY <2>1, <2>2 DEF Active, WithoutExpired, Normalized
  <2> QED BY <2>1, <2>3
<1> QED BY <1>1, <1>2, <1>3, StorableSubset

-----------------------------------------------------------------------------
(* One lemma per operation.                                                *)

\* acquireInFlight keeps the invariant: it adds a lease only where there is room
\* and none of the request.
LEMMA AcquireKeeps ==
  ASSUME LeaseInv, NEW r \in Requests, AcquireInFlight(r)
  PROVE  LeaseInv'
<1> USE LeaseTTLAssumption, MaxInFlightAssumption
<1> DEFINE new == NewLease(r, nextGeneration)
<1>1. /\ Storable(Active)
      /\ \A l \in Active : l.gen < nextGeneration /\ l.exp > now
  BY ActiveFacts
<1>2. /\ LeaseTypeOK /\ now \in Nat /\ nextGeneration \in Nat \ {0}
      /\ Active \in SUBSET LeaseIn(Requests)
  BY <1>1 DEF LeaseInv, LeaseTypeOK, Storable
<1>3. CASE PruneOnly
  <2>1. SaveInFlight(Active) /\ now' = now /\ nextGeneration' = nextGeneration
    BY <1>3 DEF PruneOnly
  <2>2. StoreInv'
    BY <1>1, <2>1, SaveKeepsStore
  <2>3. told' = told \cup {l \in Active : l.req = r} /\ leases' = Active /\ legacy' = {}
    BY <2>1 DEF AcquireInFlight, SaveInFlight
  <2>4. LeaseTypeOK'
    BY <1>2, <2>1, <2>3 DEF LeaseTypeOK
  <2>5. \A t \in told' : t.exp > now'
    BY <1>1, <2>1, <2>3 DEF LeaseInv
  <2>6. LeaseHeldUntilExpiry'
    <3>1. \A l \in Active : l.exp >= l.exp
      BY <1>2 DEF LeaseIn
    <3> QED BY <2>3, <3>1, ActiveFacts DEF LeaseHeldUntilExpiry
  <2> QED BY <2>2, <2>4, <2>5, <2>6 DEF LeaseInv
<1>4. CASE ActiveOf(r) = {} /\ HasRoom /\ AppendLease(r)
  <2>1. /\ SaveInFlight(Active \cup {new}) /\ now' = now
        /\ nextGeneration' = nextGeneration + 1
    BY <1>4 DEF AppendLease
  <2>2. new \in LeaseIn(Requests) /\ new.req = r /\ new.gen = nextGeneration /\ new.exp = now + LeaseTTL
    BY <1>2 DEF NewLease, LeaseIn
  <2>3. \A l \in Active : l.req # r
    BY <1>4 DEF ActiveOf
  <2> HIDE DEF new
  <2>4. /\ IsFiniteSet(Active \cup {new})
        /\ Cardinality(Active \cup {new}) =< Cardinality(Active) + 1
    <3>1. IsFiniteSet(Active) /\ Cardinality(Active) \in Nat
      BY <1>1, FS_CardinalityType DEF Storable
    <3>2. /\ IsFiniteSet(Active \cup {new})
          /\ Cardinality(Active \cup {new}) =
                IF new \in Active THEN Cardinality(Active) ELSE Cardinality(Active) + 1
      BY <3>1, FS_AddElement, Zenon
    <3> QED BY <3>1, <3>2
  <2>5. Cardinality(Active \cup {new}) =< MaxInFlight
    <3>1. Cardinality(Active) \in Nat /\ Cardinality(Active \cup {new}) \in Nat
      BY <1>1, <2>4, FS_CardinalityType DEF Storable
    <3> QED BY <1>4, <2>4, <3>1 DEF HasRoom
  <2>6. Storable(Active \cup {new})
    BY <1>1, <1>2, <2>2, <2>3, <2>4, <2>5 DEF Storable
  <2>7. \A l \in Active \cup {new} : l.gen < nextGeneration' /\ l.exp > now
    BY <1>1, <1>2, <2>1, <2>2 DEF LeaseIn
  <2>8. StoreInv'
    BY <2>1, <2>6, <2>7, SaveKeepsStore
  <2>9. /\ told' = told \cup {l \in Active \cup {new} : l.req = r}
        /\ leases' = Active \cup {new} /\ legacy' = {}
    BY <2>1 DEF AcquireInFlight, SaveInFlight
  <2>10. LeaseTypeOK'
    BY <1>2, <2>1, <2>2, <2>9 DEF LeaseTypeOK
  <2>11. \A t \in told' : t.exp > now'
    BY <2>1, <2>7, <2>9 DEF LeaseInv
  <2>12. LeaseHeldUntilExpiry'
    <3>1. \A l \in Active \cup {new} : l.exp >= l.exp
      BY <1>2, <2>2 DEF LeaseIn
    <3> QED BY <2>9, <3>1, ActiveFacts DEF LeaseHeldUntilExpiry
  <2> QED BY <2>8, <2>10, <2>11, <2>12 DEF LeaseInv
<1> QED BY <1>3, <1>4 DEF AcquireInFlight, AcquireLease

\* Extending one lease of the record to a full lease time leaves a record that
\* may be written.
LEMMA ExtendedStorable ==
  ASSUME LeaseTypeOK, Storable(Active), NEW l \in Active
  PROVE  Storable((Active \ {l}) \cup {[l EXCEPT !.exp = now + LeaseTTL]})
<1> USE LeaseTTLAssumption, MaxInFlightAssumption
<1> DEFINE e == [l EXCEPT !.exp = now + LeaseTTL]
           rest == Active \ {l}
<1>1. l \in LeaseIn(Requests) /\ now \in Nat
  BY DEF Storable, LeaseTypeOK
<1>2. e \in LeaseIn(Requests) /\ e.req = l.req /\ e.gen = l.gen /\ e.exp = now + LeaseTTL
  BY <1>1 DEF LeaseIn
<1>3. Storable(rest) /\ \A m \in rest : m.req # l.req
  <2>1. rest \in SUBSET Active /\ \A m \in rest : m.req # l.req
    BY DEF Storable
  <2> QED BY <2>1, StorableSubset
<1>4. IsFiniteSet(Active) /\ Cardinality(Active) \in Nat /\ Cardinality(Active) =< MaxInFlight
  BY FS_CardinalityType DEF Storable
<1>5. IsFiniteSet(rest) /\ Cardinality(rest) = Cardinality(Active) - 1
  BY <1>4, FS_RemoveElement
<1> HIDE DEF e, rest
<1>6. /\ IsFiniteSet(rest \cup {e})
      /\ Cardinality(rest \cup {e}) =
            IF e \in rest THEN Cardinality(rest) ELSE Cardinality(rest) + 1
  BY <1>5, FS_AddElement, Zenon
<1>7. Cardinality(rest \cup {e}) =< MaxInFlight
  BY <1>4, <1>5, <1>6
<1>8. rest \cup {e} \in SUBSET LeaseIn(Requests)
  BY <1>2, <1>3 DEF Storable
<1>9. \A m \in rest \cup {e} : m.exp =< now + LeaseTTL
  BY <1>1, <1>2, <1>3 DEF Storable
<1>10. \A m, n \in rest \cup {e} : m.req = n.req => m = n
  BY <1>2, <1>3 DEF Storable
<1>11. Storable(rest \cup {e})
  BY <1>6, <1>7, <1>8, <1>9, <1>10 DEF Storable
<1> QED BY <1>11 DEF e, rest

\* renewInFlight keeps the invariant: it extends the one lease of its
\* generation, or none.
LEMMA RenewKeeps ==
  ASSUME LeaseInv, NEW r \in Requests, NEW g \in Nat, RenewInFlight(r, g)
  PROVE  LeaseInv'
<1> USE LeaseTTLAssumption, MaxInFlightAssumption
<1> DEFINE mine == {l \in ActiveOf(r) : l.gen = g}
           kept == Extended(mine)
<1>1. /\ Storable(Active)
      /\ \A l \in Active : l.gen < nextGeneration /\ l.exp > now
  BY ActiveFacts
<1>2. LeaseTypeOK /\ now \in Nat /\ Active \in SUBSET LeaseIn(Requests)
  BY <1>1 DEF LeaseInv, LeaseTypeOK, Storable
<1>3. SaveInFlight(kept) /\ now' = now /\ nextGeneration' = nextGeneration
  BY DEF RenewInFlight, RenewLease
<1>4. /\ Storable(kept)
      /\ \A l \in kept : l.gen < nextGeneration /\ l.exp > now
      /\ \A l \in Active : \E m \in kept : m.req = l.req /\ m.gen = l.gen /\ m.exp >= l.exp
  <2>1. CASE mine = {}
    <3>1. kept = Active
      BY <2>1 DEF Extended
    <3>2. \A l \in Active : l.exp >= l.exp
      BY <1>2 DEF LeaseIn
    <3> QED BY <1>1, <3>1, <3>2
  <2>2. CASE mine # {}
    <3>1. PICK l \in mine : TRUE
      BY <2>2
    <3>2. l \in Active /\ mine = {l}
      BY <1>1, <3>1 DEF ActiveOf, Storable
    <3> DEFINE e == [l EXCEPT !.exp = now + LeaseTTL]
    <3>3. kept = (Active \ {l}) \cup {e}
      BY <3>2 DEF Extended
    <3>4. Storable(kept)
      BY <1>1, <1>2, <3>2, <3>3, ExtendedStorable
    <3>5. e.req = l.req /\ e.gen = l.gen /\ e.exp = now + LeaseTTL
      BY <1>2, <3>2 DEF LeaseIn
    <3>6. l.exp =< now + LeaseTTL /\ l.exp \in Nat /\ l.gen < nextGeneration
      BY <1>1, <1>2, <3>2 DEF Storable, LeaseIn
    <3> HIDE DEF e, mine, kept
    <3>7. \A m \in kept : m.gen < nextGeneration /\ m.exp > now
      BY <1>1, <1>2, <3>3, <3>5, <3>6
    <3>8. ASSUME NEW a \in Active
          PROVE  \E m \in kept : m.req = a.req /\ m.gen = a.gen /\ m.exp >= a.exp
      <4>1. CASE a = l
        BY <3>3, <3>5, <3>6, <4>1
      <4>2. CASE a # l
        <5>1. a.exp >= a.exp
          BY <1>2 DEF LeaseIn
        <5> QED BY <3>3, <4>2, <5>1
      <4> QED BY <4>1, <4>2
    <3> QED BY <3>4, <3>7, <3>8
  <2> QED BY <2>1, <2>2
<1> HIDE DEF kept, mine
<1>5. StoreInv'
  BY <1>3, <1>4, SaveKeepsStore
<1>6. /\ leases' = kept /\ legacy' = {} /\ kept \in SUBSET LeaseIn(Requests)
      /\ told' = told \cup {l \in kept : l.req = r /\ l.gen = g}
  BY <1>3, <1>4 DEF RenewInFlight, SaveInFlight, Storable
<1>7. LeaseTypeOK'
  BY <1>2, <1>3, <1>6 DEF LeaseTypeOK
<1>8. \A t \in told' : t.exp > now'
  BY <1>3, <1>4, <1>6 DEF LeaseInv
<1>9. LeaseHeldUntilExpiry'
  <2>1. ASSUME NEW h \in told', h.gen # LegacyGeneration
        PROVE  \E l \in kept : l.req = h.req /\ l.gen = h.gen /\ l.exp >= h.exp
    <3>1. CASE h \in kept
      <4>1. h.exp >= h.exp
        BY <1>6, <3>1 DEF LeaseIn
      <4> QED BY <3>1, <4>1
    <3>2. CASE h \in told
      <4>1. PICK l \in Active : l.req = h.req /\ l.gen = h.gen /\ l.exp >= h.exp
        BY <2>1, <3>2, ActiveFacts
      <4>2. PICK m \in kept : m.req = l.req /\ m.gen = l.gen /\ m.exp >= l.exp
        BY <1>4
      <4>3. h.exp \in Nat /\ l.exp \in Nat /\ m.exp \in Nat
        BY <1>2, <1>6, <3>2 DEF LeaseTypeOK, LeaseIn
      <4> QED BY <4>1, <4>2, <4>3
    <3> QED BY <1>6, <3>1, <3>2
  <2> QED BY <1>6, <2>1 DEF LeaseHeldUntilExpiry
<1> QED BY <1>5, <1>7, <1>8, <1>9 DEF LeaseInv

\* releaseInFlight keeps the invariant: it takes away only what its caller gave
\* back, or a migrated lease.
LEMMA ReleaseKeeps ==
  ASSUME LeaseInv, NEW r \in Requests, NEW g \in Nat \cup {NoGeneration}, ReleaseInFlight(r, g)
  PROVE  LeaseInv'
<1> DEFINE kept == {l \in Active : ~Releasable(l, r, g)}
<1>1. /\ Storable(Active)
      /\ \A l \in Active : l.gen < nextGeneration /\ l.exp > now
  BY ActiveFacts
<1>2. SaveInFlight(kept) /\ now' = now /\ nextGeneration' = nextGeneration
  BY DEF ReleaseInFlight, ReleaseLease
<1>3. Storable(kept) /\ \A l \in kept : l.gen < nextGeneration
  <2>1. kept \in SUBSET Active
    OBVIOUS
  <2> QED BY <1>1, <2>1, StorableSubset
<1>4. StoreInv'
  BY <1>2, <1>3, SaveKeepsStore
<1>5. /\ leases' = kept /\ legacy' = {} /\ kept \in SUBSET LeaseIn(Requests)
      /\ told' = {t \in told : ~(t.req = r /\ t.gen = g)}
  BY <1>2, <1>3 DEF ReleaseInFlight, SaveInFlight, Storable
<1>6. LeaseTypeOK'
  BY <1>2, <1>5 DEF LeaseInv, LeaseTypeOK
<1>7. \A t \in told' : t.exp > now'
  BY <1>2, <1>5 DEF LeaseInv
<1>8. LeaseHeldUntilExpiry'
  <2>1. ASSUME NEW h \in told', h.gen # LegacyGeneration
        PROVE  \E l \in kept : l.req = h.req /\ l.gen = h.gen /\ l.exp >= h.exp
    <3>1. h \in told /\ ~(h.req = r /\ h.gen = g)
      BY <1>5
    <3>2. PICK l \in Active : l.req = h.req /\ l.gen = h.gen /\ l.exp >= h.exp
      BY <2>1, <3>1, ActiveFacts
    <3>3. ~Releasable(l, r, g)
      BY <2>1, <3>1, <3>2 DEF Releasable
    <3> QED BY <3>2, <3>3
  <2> QED BY <1>5, <2>1 DEF LeaseHeldUntilExpiry
<1> QED BY <1>4, <1>6, <1>7, <1>8 DEF LeaseInv

\* Time takes nothing from a caller that it was not told would run out.
LEMMA TickKeeps ==
  ASSUME LeaseInv, Tick
  PROVE  LeaseInv'
<1> USE LeaseTTLAssumption
<1>1. /\ legacy' = legacy /\ leases' = leases /\ nextGeneration' = nextGeneration
      /\ now \in Nat /\ now' = now + 1 /\ told' = {l \in told : l.exp > now + 1}
  BY DEF Tick, LeaseInv, LeaseTypeOK
<1>2. LeaseTypeOK'
  BY <1>1 DEF LeaseInv, LeaseTypeOK
<1>3. StoreInv'
  <2>1. \A l \in leases : l.exp \in Nat
    BY DEF LeaseInv, LeaseTypeOK, LeaseIn
  <2> QED BY <1>1, <2>1 DEF LeaseInv, StoreInv
<1>4. \A t \in told' : t.exp > now'
  BY <1>1
<1>5. LeaseHeldUntilExpiry'
  BY <1>1 DEF LeaseInv, LeaseHeldUntilExpiry
<1> QED BY <1>2, <1>3, <1>4, <1>5 DEF LeaseInv

-----------------------------------------------------------------------------
\* The invariant holds of any legacy record that fits the limit.
LEMMA LeaseInit ==
  ASSUME InFlightInit
  PROVE  LeaseInv
<1>1. IsFiniteSet(legacy) /\ legacy \in SUBSET Requests /\ Cardinality(legacy) =< MaxInFlight
  BY InFlightAssumption, FS_Subset DEF InFlightInit
<1>2. IsFiniteSet(leases) /\ Cardinality(leases) = 0
  BY FS_EmptySet DEF InFlightInit
<1> QED BY <1>1, <1>2, MaxInFlightAssumption
        DEF InFlightInit, LeaseInv, LeaseTypeOK, StoreInv, LeaseHeldUntilExpiry

\* Every call, and the passing of time, keeps the invariant.
LEMMA LeaseStep ==
  ASSUME LeaseInv, [InFlightNext]_inFlightVars
  PROVE  LeaseInv'
<1>1. CASE UNCHANGED inFlightVars
  BY <1>1 DEF inFlightVars, leaseVars, LeaseInv, LeaseTypeOK, StoreInv, LeaseHeldUntilExpiry
<1>2. ASSUME NEW r \in Requests, AcquireInFlight(r)
      PROVE  LeaseInv'
  BY <1>2, AcquireKeeps
<1>3. ASSUME NEW r \in Requests, NEW g \in 0..(nextGeneration - 1), RenewInFlight(r, g)
      PROVE  LeaseInv'
  <2>1. g \in Nat
    BY DEF LeaseInv, LeaseTypeOK
  <2> QED BY <1>3, <2>1, RenewKeeps
<1>4. ASSUME NEW r \in Requests, NEW g \in {NoGeneration} \cup 0..(nextGeneration - 1),
             ReleaseInFlight(r, g)
      PROVE  LeaseInv'
  <2>1. g \in Nat \cup {NoGeneration}
    BY DEF LeaseInv, LeaseTypeOK
  <2> QED BY <1>4, <2>1, ReleaseKeeps
<1>5. CASE Tick
  BY <1>5, TickKeeps
<1> QED BY <1>1, <1>2, <1>3, <1>4, <1>5 DEF InFlightNext

\* The record of leases is always in order.
LEMMA LeaseInvariant == InFlightSpec => []LeaseInv
<1> QED BY LeaseInit, LeaseStep, PTL DEF InFlightSpec

\* MAX_IN_FLIGHT_REQUESTS is never exceeded, by stored or by active leases,
\* however many callers race, whatever expires and whatever the record an older
\* version left.
THEOREM InFlightAlwaysBounded == InFlightSpec => []InFlightBounded
<1>1. ASSUME LeaseInv
      PROVE  InFlightBounded
  <2>1. Storable(Active)
    BY <1>1, ActiveFacts
  <2> QED BY <1>1, <2>1 DEF LeaseInv, StoreInv, Storable, InFlightBounded
<1> QED BY <1>1, LeaseInvariant, PTL

\* A request never occupies two places, migrated leases included.
THEOREM LeasesAreUnique == InFlightSpec => []OneLeasePerRequest
<1>1. ASSUME LeaseInv
      PROVE  OneLeasePerRequest
  BY <1>1, NormalizedStorable DEF LeaseInv, Storable, OneLeasePerRequest
<1> QED BY <1>1, LeaseInvariant, PTL

\* A caller has the lease it was told of until that runs out or it gives it back:
\* no stale renewal or release of anyone takes it away.
THEOREM LeasesAreKept == InFlightSpec => []LeaseHeldUntilExpiry
<1> QED BY LeaseInvariant, PTL DEF LeaseInv

\* No call brings back a lease that ran out.
THEOREM ExpiryIsFinal == InFlightSpec => ExpiredStaysExpired
<1> USE LeaseTTLAssumption
<1>1. ASSUME LeaseInv, [InFlightNext]_inFlightVars,
             NEW l \in Normalized, NEW m \in leases',
             l.req = m.req, l.gen = m.gen, l.exp =< now
      PROVE  m.exp =< now'
  <2>1. /\ Storable(Normalized) /\ l.gen < nextGeneration
        /\ now \in Nat /\ nextGeneration \in Nat /\ l \in LeaseIn(Requests)
    BY <1>1, NormalizedStorable DEF LeaseInv, LeaseTypeOK, Storable
  <2>2. \A a \in Active : a.req # l.req
    <3>1. SUFFICES ASSUME NEW a \in Active, a.req = l.req
                   PROVE  FALSE
      OBVIOUS
    <3>2. a \in Normalized /\ a.exp > now
      BY DEF Active, WithoutExpired
    <3>3. a = l
      BY <2>1, <3>1, <3>2 DEF Storable
    <3> QED BY <1>1, <2>1, <3>2, <3>3 DEF LeaseIn
  <2>3. CASE UNCHANGED leases /\ (now' = now \/ now' = now + 1)
    <3>1. m \in Normalized
      BY <2>3 DEF Normalized
    <3>2. m = l
      BY <1>1, <2>1, <3>1 DEF Storable
    <3> QED BY <1>1, <2>1, <2>3, <3>2 DEF LeaseIn
  <2>4. ASSUME NEW r \in Requests, AcquireInFlight(r)
        PROVE  FALSE
    <3>1. m \in Active \/ (m = NewLease(r, nextGeneration) /\ m.gen = nextGeneration)
      BY <2>4 DEF AcquireInFlight, AcquireLease, PruneOnly, AppendLease, SaveInFlight, NewLease
    <3> QED BY <1>1, <2>1, <2>2, <3>1 DEF LeaseIn
  <2>5. ASSUME NEW r \in Requests, NEW g, RenewInFlight(r, g)
        PROVE  FALSE
    <3> DEFINE mine == {a \in ActiveOf(r) : a.gen = g}
    <3>1. m \in (Active \ mine) \cup {[a EXCEPT !.exp = now + LeaseTTL] : a \in mine}
      BY <2>5 DEF RenewInFlight, RenewLease, SaveInFlight, Extended
    <3>2. mine \subseteq Active /\ Active \in SUBSET LeaseIn(Requests)
      BY <2>1 DEF ActiveOf, Active, WithoutExpired, Storable
    <3>3. \E a \in Active : a.req = m.req
      BY <3>1, <3>2 DEF LeaseIn
    <3> QED BY <1>1, <2>2, <3>3
  <2>6. ASSUME NEW r \in Requests, NEW g, ReleaseInFlight(r, g)
        PROVE  FALSE
    <3>1. m \in Active
      BY <2>6 DEF ReleaseInFlight, ReleaseLease, SaveInFlight
    <3> QED BY <1>1, <2>2, <3>1
  <2>7. CASE UNCHANGED inFlightVars
    BY <2>3, <2>7 DEF inFlightVars, leaseVars
  <2>8. CASE Tick
    BY <2>3, <2>8 DEF Tick
  <2> QED BY <1>1, <2>4, <2>5, <2>6, <2>7, <2>8 DEF InFlightNext
<1>2. ASSUME LeaseInv, [InFlightNext]_inFlightVars
      PROVE  [\A l \in Normalized, m \in leases' :
                 l.req = m.req /\ l.gen = m.gen /\ l.exp =< now => m.exp =< now']_inFlightVars
  BY <1>1, <1>2
<1> QED BY <1>2, LeaseInvariant, PTL DEF InFlightSpec, ExpiredStaysExpired
=============================================================================
