-------------------------- MODULE QuotaLedgerProofs --------------------------
(* Proofs about QuotaLedger for every finite set of requests and every     *)
(* choice of keys, limits, sizes and usages.                               *)
EXTENDS QuotaLedger, FiniteSetTheorems, TLAPS

(***************************************************************************)
(* Sums.                                                                   *)
(***************************************************************************)

\* The units a single request contributes to a sum are as many as its amount.
LEMMA UnitsOfOne ==
  ASSUME NEW r, NEW n \in Nat
  PROVE  /\ IsFiniteSet({r} \X (1..n))
         /\ Cardinality({r} \X (1..n)) = n
<1>1. IsFiniteSet({r}) /\ Cardinality({r}) = 1
  BY FS_Singleton
<1>2. IsFiniteSet(1..n) /\ Cardinality(1..n) = n
  BY FS_Interval
<1>3. IsFiniteSet({r} \X (1..n)) /\ Cardinality({r} \X (1..n)) = Cardinality({r}) * Cardinality(1..n)
  BY <1>1, <1>2, FS_Product
<1>4. 1 * n = n
  OBVIOUS
<1> QED BY <1>1, <1>2, <1>3, <1>4

\* Finitely many amounts have finitely many units, so their sum is a number.
LEMMA UnitsFinite ==
  ASSUME NEW S, IsFiniteSet(S), NEW f, \A r \in S : f[r] \in Nat
  PROVE  IsFiniteSet(Units(S, f))
<1> DEFINE T == {{r} \X (1..f[r]) : r \in S}
           g == [r \in S |-> {r} \X (1..f[r])]
<1>1. g \in Surjection(S, T)
  BY DEF Surjection
<1>2. IsFiniteSet(T)
  BY <1>1, FS_Surjection
<1>3. \A U \in T : IsFiniteSet(U)
  <2> SUFFICES ASSUME NEW q \in S PROVE IsFiniteSet({q} \X (1..f[q]))
    OBVIOUS
  <2> QED BY UnitsOfOne
<1>4. IsFiniteSet(UNION T)
  <2> HIDE DEF T
  <2> QED BY <1>2, <1>3, FS_UNION
<1> QED BY <1>4 DEF Units

\* A sum of finitely many natural amounts is natural.
LEMMA TotalType ==
  ASSUME NEW S, IsFiniteSet(S), NEW f, \A r \in S : f[r] \in Nat
  PROVE  Total(S, f) \in Nat
BY UnitsFinite, FS_CardinalityType DEF Total

\* The sum over no request is zero.
LEMMA TotalEmpty == ASSUME NEW f PROVE Total({}, f) = 0
<1>1. Units({}, f) = {}
  BY DEF Units
<1> QED BY <1>1, FS_EmptySet DEF Total

\* Only the values on S matter.
LEMMA TotalSame ==
  ASSUME NEW S, NEW f, NEW g, \A r \in S : f[r] = g[r]
  PROVE  Total(S, f) = Total(S, g)
<1>1. Units(S, f) = Units(S, g)
  BY DEF Units
<1> QED BY <1>1 DEF Total

\* A request joining the set adds its amount to the sum.
LEMMA TotalAdd ==
  ASSUME NEW S, IsFiniteSet(S), NEW f, NEW r, r \notin S,
         \A q \in S \cup {r} : f[q] \in Nat
  PROVE  Total(S \cup {r}, f) = Total(S, f) + f[r]
<1> DEFINE A == Units(S, f)
           B == {r} \X (1..f[r])
<1>1. IsFiniteSet(A) /\ IsFiniteSet(B) /\ Cardinality(B) = f[r]
  BY UnitsFinite, UnitsOfOne
<1>2. Units(S \cup {r}, f) = A \cup B
  BY DEF Units
<1>3. A \cap B = {}
  BY DEF Units
<1>4. Cardinality(A) \in Nat
  BY <1>1, FS_CardinalityType
<1>5. Cardinality(A \cup B) = Cardinality(A) + Cardinality(B) - Cardinality(A \cap B)
  <2> HIDE DEF A, B
  <2> QED BY <1>1, FS_Union
<1>6. Cardinality(A \cap B) = 0
  BY <1>3, FS_EmptySet
<1> HIDE DEF A, B
<1>7. Cardinality(A \cup B) = Cardinality(A) + f[r]
  BY <1>1, <1>4, <1>5, <1>6
<1> QED BY <1>2, <1>7 DEF Total, A

\* A request leaving the set takes its amount off the sum, which held it.
LEMMA TotalRemove ==
  ASSUME NEW S, IsFiniteSet(S), NEW f, NEW r \in S,
         \A q \in S : f[q] \in Nat
  PROVE  /\ Total(S \ {r}, f) = Total(S, f) - f[r]
         /\ Total(S, f) >= f[r]
<1>1. IsFiniteSet(S \ {r})
  BY FS_RemoveElement
<1>2. (S \ {r}) \cup {r} = S
  OBVIOUS
<1>3. Total((S \ {r}) \cup {r}, f) = Total(S \ {r}, f) + f[r]
  BY <1>1, <1>2, TotalAdd
<1>4. Total(S \ {r}, f) \in Nat
  BY <1>1, TotalType
<1>5. Total(S, f) = Total(S \ {r}, f) + f[r]
  BY <1>2, <1>3, Zenon
<1>6. f[r] \in Nat
  OBVIOUS
<1> HIDE DEF Total
<1> QED BY <1>4, <1>5, <1>6

\* The total after the membership or the value of one request changed.
LEMMA TotalChange ==
  ASSUME NEW S, NEW T, IsFiniteSet(S), IsFiniteSet(T), NEW f, NEW g, NEW r,
         S \ {r} = T \ {r}, \A q \in S \ {r} : f[q] = g[q],
         \A q \in S : f[q] \in Nat, \A q \in T : g[q] \in Nat
  PROVE  /\ Total(S, f) \in Nat
         /\ r \in S => Total(S, f) >= f[r]
         /\ Total(T, g) = Total(S, f) - (IF r \in S THEN f[r] ELSE 0)
                                      + (IF r \in T THEN g[r] ELSE 0)
<1> DEFINE m == Total(S \ {r}, f)
<1>1. Total(S, f) \in Nat /\ Total(T, g) \in Nat
  BY TotalType
<1>2. r \in S => m = Total(S, f) - f[r] /\ Total(S, f) >= f[r]
  BY TotalRemove
<1>3. r \notin S => m = Total(S, f)
  <2>1. r \notin S => S \ {r} = S
    OBVIOUS
  <2> QED BY <2>1
<1>4. Total(T \ {r}, g) = m
  <2>1. Total(S \ {r}, f) = Total(S \ {r}, g)
    BY TotalSame
  <2> QED BY <2>1
<1>5. r \in T => m = Total(T, g) - g[r]
  <2>1. r \in T => Total(T \ {r}, g) = Total(T, g) - g[r]
    BY TotalRemove
  <2> QED BY <1>4, <2>1
<1>6. r \notin T => m = Total(T, g)
  <2>1. r \notin T => T \ {r} = T
    OBVIOUS
  <2> QED BY <1>4, <2>1
<1>7. (r \in S => f[r] \in Nat) /\ (r \in T => g[r] \in Nat)
  OBVIOUS
<1> HIDE DEF m
<1> QED BY <1>1, <1>2, <1>3, <1>5, <1>6, <1>7

\* Two sets that agree outside r differ in size by r's membership.
LEMMA CardinalityChange ==
  ASSUME NEW S, NEW T, IsFiniteSet(S), IsFiniteSet(T), NEW r,
         S \ {r} = T \ {r}
  PROVE  /\ Cardinality(S) \in Nat
         /\ r \in S => Cardinality(S) >= 1
         /\ Cardinality(T) = Cardinality(S) - (IF r \in S THEN 1 ELSE 0)
                                            + (IF r \in T THEN 1 ELSE 0)
<1>1. Cardinality(S) \in Nat /\ Cardinality(T) \in Nat
  BY FS_CardinalityType
<1>2. Cardinality(S \ {r}) = IF r \in S THEN Cardinality(S) - 1 ELSE Cardinality(S)
  BY FS_RemoveElement
<1>3. Cardinality(T \ {r}) = IF r \in T THEN Cardinality(T) - 1 ELSE Cardinality(T)
  BY FS_RemoveElement
<1>4. IsFiniteSet(S \ {r}) /\ Cardinality(S \ {r}) \in Nat
  BY FS_RemoveElement, FS_CardinalityType
<1> QED BY <1>1, <1>2, <1>3, <1>4

(***************************************************************************)
(* Types.                                                                  *)
(***************************************************************************)

\* vacate floors the counters it lowers, so a pool stays a pool.
LEMMA VacateType ==
  ASSUME NEW p \in PoolState, NEW e \in Entry
  PROVE  Vacate(p, e) \in PoolState
BY DEF Vacate, PoolState, Entry, NonNegative

\* resolveCounters floors the counters it lowers likewise.
LEMMA ResolveType ==
  ASSUME NEW u \in UnresolvedState, NEW e \in Entry
  PROVE  Resolve(u, e) \in UnresolvedState
BY DEF Resolve, UnresolvedState, NonNegative

\* loadPoolState answers a pool, stored or new.
LEMMA LoadPoolType ==
  ASSUME LedgerTypeOK, NEW limit \in Limits
  PROVE  LoadPool(limit) \in PoolState
BY LimitsAssumption DEF LoadPool, LedgerTypeOK, PoolState, EmptyPool

\* The absence of an entry has an entry's type in this model.
LEMMA NoEntryType == NoEntry \in Entry
BY DEF NoEntry, Entry, Origin

\* An operation that moves an entry and saves its answer keeps its type.
LEMMA EntryMoveType ==
  ASSUME NEW f \in [Requests -> Entry], NEW r \in Requests,
         NEW s \in RequestState, NEW op \in Operation
  PROVE  [f EXCEPT ![r].state = s, ![r].saved = @ \cup {op}] \in [Requests -> Entry]
BY DEF Entry

\* One step of the ledger keeps the types; stated for the action itself so that
\* compositions with the ledger can use it.
LEMMA LedgerTypeStep ==
  ASSUME LedgerTypeOK, [LedgerNext]_ledgerVars
  PROVE  LedgerTypeOK'
<1> USE DEF LedgerTypeOK
<1>1. ASSUME NEW r \in Requests, NEW size \in Sizes, NEW k \in Keys \cup {NoKey},
             NEW limit \in Limits, Reserve(r, size, k, limit)
      PROVE  LedgerTypeOK'
  <2>1. size.tokens \in Nat /\ size.upper \in Nat
    BY SizesAssumption
  <2> DEFINE p == LoadPool(limit)
  <2>2. pool' \in PoolState
    <3>1. p \in PoolState
      BY LoadPoolType
    <3>2. p.reserved + size.tokens \in Nat /\ p.requestCount + 1 \in Nat
      BY <2>1, <3>1 DEF PoolState
    <3>3. PICK m \in Nat, n \in Nat : pool' = [p EXCEPT !.reserved = m, !.requestCount = n]
      BY <1>1, <3>2 DEF Reserve, PutReservation
    <3> HIDE DEF p
    <3> QED BY <3>1, <3>3 DEF PoolState
  <2>3. entries' \in [Requests -> Entry]
    BY <1>1, <2>1, NoEntryType DEF Reserve, PutReservation, Entry, RequestState
  <2>4. unresolved' \in UnresolvedState
    BY <1>1 DEF Reserve, PutReservation, UnresolvedState
  <2>5. idem' \in [Keys -> Requests \cup {NoRequest}]
    BY <1>1 DEF Reserve, PutReservation
  <2> QED BY <1>1, <2>2, <2>3, <2>4, <2>5 DEF Reserve, PutReservation
<1>2. ASSUME NEW r \in Requests, NEW n \in Actuals, Settle(r, n)
      PROVE  LedgerTypeOK'
  <2>1. n \in Nat
    BY ActualsAssumption
  <2>2. Vacate(pool, entries[r]) \in PoolState /\ Resolve(unresolved, entries[r]) \in UnresolvedState
    BY VacateType, ResolveType
  <2>3. pool' \in PoolState
    BY <1>2, <2>1, <2>2 DEF Settle, RecordOnly, PoolState
  <2>4. entries' \in [Requests -> Entry]
    BY <1>2, <2>1 DEF Settle, RecordOnly, Entry, RequestState, Operation
  <2> QED BY <1>2, <2>2, <2>3, <2>4 DEF Settle, RecordOnly
<1>3. ASSUME NEW r \in Requests, MarkUncertain(r) \/ MarkReserveOutcomeUnknown(r)
      PROVE  LedgerTypeOK'
  <2>2. Vacate(pool, entries[r]) \in PoolState /\ Resolve(unresolved, entries[r]) \in UnresolvedState
    BY VacateType, ResolveType
  <2>1. entries[r].tokens \in Nat
    BY DEF Entry
  <2>3. pool' \in PoolState
    BY <1>3, <2>1, <2>2 DEF MarkUncertain, MarkReserveOutcomeUnknown, BecomeUncertain,
                            RecordOnly, PoolState
  <2>4. entries' \in [Requests -> Entry]
    BY <1>3 DEF MarkUncertain, MarkReserveOutcomeUnknown, BecomeUncertain,
                RecordOnly, Entry, RequestState, Operation, Origin
  <2>5. unresolved' \in UnresolvedState
    BY <1>3, <2>2 DEF MarkUncertain, MarkReserveOutcomeUnknown, BecomeUncertain,
                      RecordOnly, UnresolvedState
  <2> QED BY <1>3, <2>3, <2>4, <2>5 DEF MarkUncertain, MarkReserveOutcomeUnknown
<1>4. ASSUME NEW r \in Requests, Release(r)
      PROVE  LedgerTypeOK'
  <2>2. Vacate(pool, entries[r]) \in PoolState /\ Resolve(unresolved, entries[r]) \in UnresolvedState
    BY VacateType, ResolveType
  <2>4. entries' \in [Requests -> Entry]
    BY <1>4 DEF Release, RecordOnly, Entry, RequestState, Operation
  <2> QED BY <1>4, <2>2, <2>4 DEF Release, RecordOnly
<1>5. ASSUME NEW r \in Requests, NEW d \in Disposition, ReconcileRequest(r, d)
      PROVE  LedgerTypeOK'
  <2>2. Vacate(pool, entries[r]) \in PoolState /\ Resolve(unresolved, entries[r]) \in UnresolvedState
    BY VacateType, ResolveType
  <2>3. pool' \in PoolState
    BY <1>5, <2>2 DEF ReconcileRequest, PoolState, Entry
  <2>4. entries' \in [Requests -> Entry]
    <3>1. PICK s \in RequestState :
             entries' = [entries EXCEPT ![r].state = s, ![r].saved = @ \cup {"reconcile"}]
      BY <1>5 DEF ReconcileRequest, RequestState
    <3> QED BY <3>1, EntryMoveType DEF Operation
  <2> QED BY <1>5, <2>2, <2>3, <2>4 DEF ReconcileRequest
<1>6. CASE FinalizeDay
  BY <1>6 DEF FinalizeDay
<1>7. CASE DeleteAll
  BY <1>7, NoEntryType DEF DeleteAll, EmptyPool, PoolState, UnresolvedState
<1>8. CASE DeleteAllLost
  BY <1>8 DEF DeleteAllLost
<1>9. CASE UNCHANGED ledgerVars
  BY <1>9 DEF ledgerVars
<1> QED BY <1>1, <1>2, <1>3, <1>4, <1>5, <1>6, <1>7, <1>8, <1>9
        DEF LedgerNext, RequestStep

\* The stored records keep the types of shared/types.ts through every sequence
\* of reserve, settle, markUncertain, release, reconcile and finalizeDay calls.
THEOREM LedgerTypeCorrect == LedgerSpec => []LedgerTypeOK
<1>1. LedgerInit => LedgerTypeOK
  <2>1. EmptyPool \in PoolState /\ [reserved |-> 0, uncertain |-> 0] \in UnresolvedState
    BY DEF EmptyPool, PoolState, UnresolvedState
  <2> QED BY <2>1, NoEntryType DEF LedgerInit, LedgerTypeOK
<1>2. LedgerTypeOK /\ [LedgerNext]_ledgerVars => LedgerTypeOK'
  BY LedgerTypeStep
<1> QED BY <1>1, <1>2, PTL DEF LedgerSpec

(***************************************************************************)
(* The counters are the sums they cache.                                   *)
(***************************************************************************)

\* What entry e contributes to the sum of n over the entries in state s.
Share(s, e, n) == IF e.state = s THEN n ELSE 0

\* The requests in a state are finitely many, before and after a step.
LEMMA InStateFinite == ASSUME NEW s PROVE IsFiniteSet(InState(s)) /\ IsFiniteSet(InState(s)')
<1>1. InState(s) \in SUBSET Requests /\ InState(s)' \in SUBSET Requests
  BY DEF InState
<1> QED BY <1>1, RequestsAssumption, FS_Subset

\* What a request holds, spent and overspent are natural numbers.
LEMMA AmountTypes ==
  ASSUME LedgerTypeOK
  PROVE  \A r \in Requests : Held[r] \in Nat /\ Spent[r] \in Nat /\ Excess[r] \in Nat
BY DEF LedgerTypeOK, Entry, Held, Spent, Excess, NonNegative

\* When only the entry of r changed, each sum and each count changed by what r
\* contributed before and contributes after.
LEMMA SumsChange ==
  ASSUME LedgerTypeOK, LedgerTypeOK', NEW r \in Requests, NEW s,
         \A q \in Requests \ {r} : entries'[q] = entries[q]
  PROVE  LET e == entries[r]
             d == entries'[r]
         IN  /\ Total(InState(s), Held) \in Nat
             /\ Total(InState(s), Spent) \in Nat
             /\ Total(InState(s), Excess) \in Nat
             /\ Cardinality(InState(s)) \in Nat
             /\ e.state = s => Total(InState(s), Held) >= e.tokens
             /\ e.state = s => Cardinality(InState(s)) >= 1
             /\ Total(InState(s), Held)' = Total(InState(s), Held)
                   - Share(s, e, e.tokens) + Share(s, d, d.tokens)
             /\ Total(InState(s), Spent)' = Total(InState(s), Spent)
                   - Share(s, e, e.actual) + Share(s, d, d.actual)
             /\ Total(InState(s), Excess)' = Total(InState(s), Excess)
                   - Share(s, e, NonNegative(e.actual - e.tokens))
                   + Share(s, d, NonNegative(d.actual - d.tokens))
             /\ Cardinality(InState(s))' = Cardinality(InState(s))
                   - Share(s, e, 1) + Share(s, d, 1)
<1> DEFINE S == InState(s)
           T == InState(s)'
<1>1. S \ {r} = T \ {r} /\ (r \in S <=> entries[r].state = s)
                     /\ (r \in T <=> entries'[r].state = s)
  BY DEF InState
<1>2. S \subseteq Requests /\ T \subseteq Requests
  BY DEF InState
<1>3. IsFiniteSet(S) /\ IsFiniteSet(T)
  BY InStateFinite
<1>4. \A q \in Requests : Held[q] \in Nat /\ Spent[q] \in Nat /\ Excess[q] \in Nat
  BY AmountTypes
<1>5. \A q \in Requests : Held'[q] \in Nat /\ Spent'[q] \in Nat /\ Excess'[q] \in Nat
  <2>1. LedgerTypeOK' => \A q \in Requests :
          Held'[q] \in Nat /\ Spent'[q] \in Nat /\ Excess'[q] \in Nat
    BY DEF LedgerTypeOK, Entry, Held, Spent, Excess, NonNegative
  <2> QED BY <2>1
<1>6. \A q \in S \ {r} : Held[q] = Held'[q] /\ Spent[q] = Spent'[q] /\ Excess[q] = Excess'[q]
  BY <1>2 DEF Held, Spent, Excess
<1>7. /\ Held[r] = entries[r].tokens
      /\ Spent[r] = entries[r].actual
      /\ Excess[r] = NonNegative(entries[r].actual - entries[r].tokens)
      /\ Held'[r] = entries'[r].tokens
      /\ Spent'[r] = entries'[r].actual
      /\ Excess'[r] = NonNegative(entries'[r].actual - entries'[r].tokens)
  BY DEF Held, Spent, Excess
<1> HIDE DEF S, T
<1>8. /\ Total(S, Held) \in Nat
      /\ r \in S => Total(S, Held) >= Held[r]
      /\ Total(T, Held') = Total(S, Held) - (IF r \in S THEN Held[r] ELSE 0)
                                         + (IF r \in T THEN Held'[r] ELSE 0)
  <2> DEFINE f == Held
             g == Held'
  <2>1. (\A q \in S : f[q] \in Nat) /\ (\A q \in T : g[q] \in Nat)
    BY <1>2, <1>4, <1>5
  <2>2. \A q \in S \ {r} : f[q] = g[q]
    BY <1>6
  <2>3. S \ {r} = T \ {r}
    BY <1>1
  <2> HIDE DEF f, g
  <2>4. /\ Total(S, f) \in Nat
        /\ r \in S => Total(S, f) >= f[r]
        /\ Total(T, g) = Total(S, f) - (IF r \in S THEN f[r] ELSE 0)
                                     + (IF r \in T THEN g[r] ELSE 0)
    BY <1>3, <2>1, <2>2, <2>3, TotalChange
  <2> QED BY <2>4 DEF f, g
<1>9. /\ Total(S, Spent) \in Nat
      /\ Total(T, Spent') = Total(S, Spent) - (IF r \in S THEN Spent[r] ELSE 0)
                                           + (IF r \in T THEN Spent'[r] ELSE 0)
  <2> DEFINE f == Spent
             g == Spent'
  <2>1. (\A q \in S : f[q] \in Nat) /\ (\A q \in T : g[q] \in Nat)
    BY <1>2, <1>4, <1>5
  <2>2. \A q \in S \ {r} : f[q] = g[q]
    BY <1>6
  <2>3. S \ {r} = T \ {r}
    BY <1>1
  <2> HIDE DEF f, g
  <2>4. /\ Total(S, f) \in Nat
        /\ r \in S => Total(S, f) >= f[r]
        /\ Total(T, g) = Total(S, f) - (IF r \in S THEN f[r] ELSE 0)
                                     + (IF r \in T THEN g[r] ELSE 0)
    BY <1>3, <2>1, <2>2, <2>3, TotalChange
  <2> QED BY <2>4 DEF f, g
<1>10. /\ Total(S, Excess) \in Nat
       /\ Total(T, Excess') = Total(S, Excess) - (IF r \in S THEN Excess[r] ELSE 0)
                                              + (IF r \in T THEN Excess'[r] ELSE 0)
  <2> DEFINE f == Excess
             g == Excess'
  <2>1. (\A q \in S : f[q] \in Nat) /\ (\A q \in T : g[q] \in Nat)
    BY <1>2, <1>4, <1>5
  <2>2. \A q \in S \ {r} : f[q] = g[q]
    BY <1>6
  <2>3. S \ {r} = T \ {r}
    BY <1>1
  <2> HIDE DEF f, g
  <2>4. /\ Total(S, f) \in Nat
        /\ r \in S => Total(S, f) >= f[r]
        /\ Total(T, g) = Total(S, f) - (IF r \in S THEN f[r] ELSE 0)
                                     + (IF r \in T THEN g[r] ELSE 0)
    BY <1>3, <2>1, <2>2, <2>3, TotalChange
  <2> QED BY <2>4 DEF f, g
<1>11. /\ Cardinality(S) \in Nat
       /\ r \in S => Cardinality(S) >= 1
       /\ Cardinality(T) = Cardinality(S) - (IF r \in S THEN 1 ELSE 0)
                                          + (IF r \in T THEN 1 ELSE 0)
  BY <1>1, <1>3, CardinalityChange
<1>12. /\ Total(InState(s), Held)' = Total(T, Held')
       /\ Total(InState(s), Spent)' = Total(T, Spent')
       /\ Total(InState(s), Excess)' = Total(T, Excess')
       /\ Cardinality(InState(s))' = Cardinality(T)
  BY DEF T, Total, Units
<1> QED BY <1>1, <1>7, <1>8, <1>9, <1>10, <1>11, <1>12 DEF S, Share

\* The counters moved by exactly what the entry of r stopped and started to
\* contribute, and no other entry changed.
Accounted(r) ==
  LET e == entries[r]
      d == entries'[r]
  IN  /\ \A q \in Requests \ {r} : entries'[q] = entries[q]
      /\ pool'.reserved = pool.reserved - Share("reserved", e, e.tokens)
                                        + Share("reserved", d, d.tokens)
      /\ pool'.uncertain = pool.uncertain - Share("uncertain", e, e.tokens)
                                          + Share("uncertain", d, d.tokens)
      /\ pool'.confirmed = pool.confirmed
            - Share("settled", e, e.actual) - Share("reconciled", e, e.tokens)
            + Share("settled", d, d.actual) + Share("reconciled", d, d.tokens)
      /\ pool'.requestCount = pool.requestCount + Share("absent", e, 1)
                                                - Share("absent", d, 1)
      /\ unresolved'.reserved = unresolved.reserved - Share("reserved", e, 1)
                                                    + Share("reserved", d, 1)
      /\ unresolved'.uncertain = unresolved.uncertain - Share("uncertain", e, 1)
                                                      + Share("uncertain", d, 1)

\* The stored entries and the absent ones together are all the requests.
LEMMA PresentCount ==
  /\ Cardinality(Requests) \in Nat
  /\ Cardinality(Requests \ InState("absent"))
       = Cardinality(Requests) - Cardinality(InState("absent"))
  /\ Cardinality(Requests \ InState("absent")')
       = Cardinality(Requests) - Cardinality(InState("absent")')
<1>1. Requests \cap InState("absent") = InState("absent")
      /\ Requests \cap InState("absent")' = InState("absent")'
  BY DEF InState
<1> QED BY <1>1, RequestsAssumption, FS_Difference, FS_CardinalityType

\* A step that moves the counters by r's change of share keeps the balance.
LEMMA AccountedKeepsBalance ==
  ASSUME LedgerTypeOK, LedgerTypeOK', LedgerBalanced, NEW r \in Requests, Accounted(r)
  PROVE  LedgerBalanced'
<1> DEFINE e == entries[r]
           d == entries'[r]
<1>1. \A q \in Requests \ {r} : entries'[q] = entries[q]
  BY DEF Accounted
<1>2. /\ e.tokens \in Nat /\ e.actual \in Nat
      /\ d.tokens \in Nat /\ d.actual \in Nat
  BY DEF LedgerTypeOK, Entry
<1>3. pool'.reserved = Total(InState("reserved"), Held)'
  BY <1>1, <1>2, SumsChange DEF Accounted, LedgerBalanced, Share
<1>4. pool'.uncertain = Total(InState("uncertain"), Held)'
  BY <1>1, <1>2, SumsChange DEF Accounted, LedgerBalanced, Share
<1>5. pool'.confirmed = Total(InState("settled"), Spent)' + Total(InState("reconciled"), Held)'
  BY <1>1, <1>2, SumsChange DEF Accounted, LedgerBalanced, Share
<1>6. pool'.requestCount = Cardinality(Requests \ InState("absent")')
  BY <1>1, <1>2, SumsChange, PresentCount DEF Accounted, LedgerBalanced, Share
<1>7. unresolved'.reserved = Cardinality(InState("reserved"))'
  BY <1>1, <1>2, SumsChange DEF Accounted, LedgerBalanced, Share
<1>8. unresolved'.uncertain = Cardinality(InState("uncertain"))'
  BY <1>1, <1>2, SumsChange DEF Accounted, LedgerBalanced, Share
<1> QED BY <1>3, <1>4, <1>5, <1>6, <1>7, <1>8 DEF LedgerBalanced

\* A balanced pool covers every open entry, so the clamps at zero are inert.
LEMMA OpenEntriesCovered ==
  ASSUME LedgerTypeOK, LedgerBalanced, NEW r \in Requests
  PROVE  /\ entries[r].state = "reserved" =>
              pool.reserved >= entries[r].tokens /\ unresolved.reserved >= 1
         /\ entries[r].state = "uncertain" =>
              pool.uncertain >= entries[r].tokens /\ unresolved.uncertain >= 1
<1>1. ASSUME NEW s, entries[r].state = s
      PROVE  Total(InState(s), Held) >= entries[r].tokens /\ Cardinality(InState(s)) >= 1
  <2>1. r \in InState(s) /\ Held[r] = entries[r].tokens
    BY <1>1 DEF InState, Held
  <2>2. IsFiniteSet(InState(s)) /\ InState(s) \subseteq Requests
    BY InStateFinite DEF InState
  <2>3. \A q \in InState(s) : Held[q] \in Nat
    BY <2>2, AmountTypes
  <2>4. Total(InState(s), Held) >= Held[r]
    BY <2>1, <2>2, <2>3, TotalRemove
  <2>5. Cardinality(InState(s)) >= 1
    BY <2>1, <2>2, CardinalityChange
  <2> QED BY <2>1, <2>4, <2>5
<1> QED BY <1>1 DEF LedgerBalanced

\* The counters after the tokens of an open entry were vacated.
LEMMA VacateExact ==
  ASSUME LedgerTypeOK, LedgerBalanced, NEW r \in Requests, entries[r].state \in Open
  PROVE  LET e == entries[r]
             p == Vacate(pool, e)
             u == Resolve(unresolved, e)
         IN  /\ p.reserved = pool.reserved - Share("reserved", e, e.tokens)
             /\ p.uncertain = pool.uncertain - Share("uncertain", e, e.tokens)
             /\ p.confirmed = pool.confirmed
             /\ p.requestCount = pool.requestCount
             /\ p.limit = pool.limit
             /\ u.reserved = unresolved.reserved - Share("reserved", e, 1)
             /\ u.uncertain = unresolved.uncertain - Share("uncertain", e, 1)
             /\ p \in PoolState /\ u \in UnresolvedState
<1>1. /\ pool \in PoolState /\ unresolved \in UnresolvedState
      /\ entries[r] \in Entry /\ entries[r].tokens \in Nat
  BY DEF LedgerTypeOK, Entry
<1>2. /\ entries[r].state = "reserved" =>
           pool.reserved >= entries[r].tokens /\ unresolved.reserved >= 1
      /\ entries[r].state = "uncertain" =>
           pool.uncertain >= entries[r].tokens /\ unresolved.uncertain >= 1
  BY OpenEntriesCovered
<1>3. CASE entries[r].state = "reserved"
  BY <1>1, <1>2, <1>3, VacateType, ResolveType
  DEF Vacate, Resolve, Share, NonNegative, PoolState, UnresolvedState
<1>4. CASE entries[r].state = "uncertain"
  BY <1>1, <1>2, <1>4, VacateType, ResolveType
  DEF Vacate, Resolve, Share, NonNegative, PoolState, UnresolvedState
<1> QED BY <1>3, <1>4 DEF Open

\* An operation that only saves its answer is accounted for: nothing moves.
LEMMA RecordOnlyAccounted ==
  ASSUME LedgerTypeOK, NEW r \in Requests, NEW op, RecordOnly(r, op)
  PROVE  Accounted(r)
<1>1. /\ pool' = pool /\ unresolved' = unresolved
      /\ \A q \in Requests \ {r} : entries'[q] = entries[q]
      /\ entries'[r].state = entries[r].state
      /\ entries'[r].tokens = entries[r].tokens
      /\ entries'[r].actual = entries[r].actual
  BY DEF RecordOnly, LedgerTypeOK, Entry
<1>2. /\ pool \in PoolState /\ unresolved \in UnresolvedState
      /\ entries[r].tokens \in Nat /\ entries[r].actual \in Nat
  BY DEF LedgerTypeOK, Entry
<1> QED BY <1>1, <1>2 DEF Accounted, Share, PoolState, UnresolvedState

\* A reservation raises the counters by exactly what its new entry holds.
LEMMA ReserveAccounted ==
  ASSUME LedgerTypeOK, LedgerBalanced, NEW r \in Requests, NEW size \in Sizes,
         NEW k \in Keys \cup {NoKey}, NEW limit \in Limits, entries[r].state = "absent",
         PutReservation(r, size, k, limit)
  PROVE  Accounted(r)
<1>1. size.tokens \in Nat
  BY SizesAssumption
<1>2. /\ LoadPool(limit).reserved = pool.reserved
      /\ LoadPool(limit).uncertain = pool.uncertain
      /\ LoadPool(limit).confirmed = pool.confirmed
      /\ LoadPool(limit).requestCount = pool.requestCount
  <2>1. CASE pool.requestCount > 0
    BY <2>1 DEF LoadPool
  <2>2. CASE ~(pool.requestCount > 0)
    <3>1. Requests \ InState("absent") = {}
      <4>1. Cardinality(Requests \ InState("absent")) = 0
        BY <2>2 DEF LedgerBalanced, LedgerTypeOK, PoolState
      <4>2. IsFiniteSet(Requests \ InState("absent"))
        BY RequestsAssumption, FS_Difference
      <4> QED BY <4>1, <4>2, FS_EmptySet
    <3>2. InState("reserved") = {} /\ InState("uncertain") = {}
          /\ InState("settled") = {} /\ InState("reconciled") = {}
      BY <3>1 DEF InState
    <3>3. pool.reserved = 0 /\ pool.uncertain = 0 /\ pool.confirmed = 0
      BY <3>2, TotalEmpty DEF LedgerBalanced
    <3> QED BY <2>2, <3>3 DEF LoadPool, EmptyPool, LedgerTypeOK, PoolState
  <2> QED BY <2>1, <2>2
<1>3. /\ entries'[r].state = "reserved" /\ entries'[r].tokens = size.tokens
      /\ \A q \in Requests \ {r} : entries'[q] = entries[q]
  BY DEF PutReservation, LedgerTypeOK, NoEntry
<1>4. /\ pool'.reserved = pool.reserved + size.tokens
      /\ pool'.uncertain = pool.uncertain
      /\ pool'.confirmed = pool.confirmed
      /\ pool'.requestCount = pool.requestCount + 1
  <2>1. LoadPool(limit) \in PoolState
    BY LoadPoolType
  <2> QED BY <1>1, <1>2, <2>1 DEF PutReservation, PoolState
<1>5. unresolved'.reserved = unresolved.reserved + 1 /\ unresolved'.uncertain = unresolved.uncertain
  BY DEF PutReservation, LedgerTypeOK, UnresolvedState
<1>6. pool \in PoolState /\ unresolved \in UnresolvedState
  BY DEF LedgerTypeOK
<1> QED BY <1>1, <1>3, <1>4, <1>5, <1>6 DEF Accounted, Share, PoolState, UnresolvedState

(***************************************************************************)
(* The inductive invariant.                                                *)
(***************************************************************************)

\* A mapped key leads to an entry, and a live or accounted entry with a key is
\* the one its key leads to. Without it reserve could overwrite an entry.
KeysMapped ==
  /\ \A k \in Keys : idem[k] # NoRequest => entries[idem[k]].state # "absent"
  /\ \A r \in Requests :
        entries[r].key # NoKey /\ entries[r].state \notin {"absent", "released"}
        => idem[entries[r].key] = r

LedgerInv ==
  /\ LedgerTypeOK
  /\ LedgerBalanced
  /\ OvercommitOnlyByExcess
  /\ KeysMapped
  /\ FinalizedMeansResolved
  /\ finalizing => finalized

\* reserve writes only where there was no entry.
LEMMA ReserveFresh ==
  ASSUME LedgerTypeOK, KeysMapped, NEW r \in Requests, NEW size \in Sizes,
         NEW k \in Keys \cup {NoKey}, NEW limit \in Limits, Reserve(r, size, k, limit)
  PROVE  /\ entries[r].state = "absent"
         /\ ~finalized
         /\ Fits(LoadPool(limit), size)
         /\ k # NoKey => idem[k] = NoRequest \/ entries[idem[k]].state = "released"
<1>1. ReserveOutcome(r, size, k, limit) = "reserved"
  BY DEF Reserve
<1> DEFINE e == entries[EntryRequest(r, k)]
<1>2. e.state = "absent"
  <2>1. e.state # "absent" => ReserveOutcome(r, size, k, limit) \in {"duplicate", "mismatch", "saved"}
    BY DEF ReserveOutcome
  <2> QED BY <1>1, <2>1
<1>3. ~finalized /\ Fits(LoadPool(limit), size)
  <2>1. finalized => ReserveOutcome(r, size, k, limit) = "finalized"
    BY <1>2 DEF ReserveOutcome
  <2>2. ~finalized /\ ~Fits(LoadPool(limit), size)
        => ReserveOutcome(r, size, k, limit) = "insufficient"
    BY <1>2 DEF ReserveOutcome
  <2> QED BY <1>1, <2>1, <2>2
<1>4. MappedRequest(k) = NoRequest \/ entries[MappedRequest(k)].state \notin {"absent"}
  BY KeysAssumption DEF MappedRequest, KeysMapped
<1>5. EntryRequest(r, k) = r
  BY <1>2, <1>4 DEF EntryRequest
<1>6. MappedRequest(k) = NoRequest \/ entries[MappedRequest(k)].state = "released"
  BY <1>2, <1>4, <1>5 DEF EntryRequest
<1> QED BY <1>2, <1>3, <1>5, <1>6 DEF MappedRequest

\* Every step that concerns one request is accounted for.
LEMMA RequestStepAccounted ==
  ASSUME LedgerTypeOK, LedgerBalanced, KeysMapped, NEW r \in Requests, RequestStep(r)
  PROVE  Accounted(r)
<1> DEFINE e == entries[r]
           v == Vacate(pool, e)
           w == Resolve(unresolved, e)
<1>1. /\ entries \in [Requests -> Entry] /\ pool \in PoolState
      /\ unresolved \in UnresolvedState
      /\ e \in Entry /\ e.tokens \in Nat /\ e.actual \in Nat
  BY DEF LedgerTypeOK, Entry
<1>2. ASSUME NEW size \in Sizes, NEW k \in Keys \cup {NoKey}, NEW limit \in Limits,
             Reserve(r, size, k, limit)
      PROVE  Accounted(r)
  BY <1>2, ReserveFresh, ReserveAccounted DEF Reserve
<1>3. ASSUME NEW n \in Actuals, Settle(r, n)
      PROVE  Accounted(r)
  <2>1. CASE e.state \in Open
    <3>1. /\ pool' = [v EXCEPT !.confirmed = @ + n]
          /\ unresolved' = w
          /\ entries' = [entries EXCEPT ![r].state = "settled", ![r].actual = n,
                                        ![r].saved = @ \cup {"settle"}]
      BY <1>3, <2>1 DEF Settle
    <3>2. /\ \A q \in Requests \ {r} : entries'[q] = entries[q]
          /\ entries'[r].state = "settled" /\ entries'[r].actual = n
          /\ entries'[r].tokens = e.tokens
      BY <1>1, <3>1 DEF Entry
    <3>3. n \in Nat
      BY ActualsAssumption
    <3>4. /\ pool'.reserved = pool.reserved - Share("reserved", e, e.tokens)
          /\ pool'.uncertain = pool.uncertain - Share("uncertain", e, e.tokens)
          /\ pool'.confirmed = pool.confirmed + n
          /\ pool'.requestCount = pool.requestCount
          /\ unresolved'.reserved = unresolved.reserved - Share("reserved", e, 1)
          /\ unresolved'.uncertain = unresolved.uncertain - Share("uncertain", e, 1)
      <4> HIDE DEF v, w
      <4>1. v \in PoolState
        BY <2>1, VacateExact DEF v
      <4>2. /\ pool'.reserved = v.reserved /\ pool'.uncertain = v.uncertain
            /\ pool'.confirmed = v.confirmed + n /\ pool'.requestCount = v.requestCount
        BY <3>1, <4>1 DEF PoolState
      <4> QED BY <2>1, <3>1, <4>2, VacateExact DEF v, w
    <3> HIDE DEF v, w
    <3> QED BY <1>1, <2>1, <3>2, <3>3, <3>4 DEF Accounted, Share, Open, PoolState, UnresolvedState
  <2> QED BY <1>3, <2>1, RecordOnlyAccounted DEF Settle
<1>4. ASSUME NEW op, NEW origin, e.state = "reserved", BecomeUncertain(r, op, origin)
      PROVE  Accounted(r)
  <2>1. /\ \A q \in Requests \ {r} : entries'[q] = entries[q]
        /\ entries'[r].state = "uncertain" /\ entries'[r].actual = e.actual
        /\ entries'[r].tokens = e.tokens
    BY <1>1, <1>4 DEF BecomeUncertain, Entry
  <2>2. /\ v \in PoolState /\ w \in UnresolvedState
        /\ v.reserved = pool.reserved - e.tokens /\ v.uncertain = pool.uncertain
        /\ v.confirmed = pool.confirmed /\ v.requestCount = pool.requestCount
        /\ w.reserved = unresolved.reserved - 1 /\ w.uncertain = unresolved.uncertain
    BY <1>1, <1>4, VacateExact DEF Open, Share, PoolState, UnresolvedState
  <2>3. /\ pool' = [v EXCEPT !.uncertain = @ + e.tokens]
        /\ unresolved' = [w EXCEPT !.uncertain = @ + 1]
    BY <1>4 DEF BecomeUncertain
  <2> HIDE DEF v, w
  <2>4. /\ pool'.reserved = pool.reserved - e.tokens /\ pool'.uncertain = pool.uncertain + e.tokens
        /\ pool'.confirmed = pool.confirmed /\ pool'.requestCount = pool.requestCount
        /\ unresolved'.reserved = unresolved.reserved - 1
        /\ unresolved'.uncertain = unresolved.uncertain + 1
    BY <1>1, <2>2, <2>3 DEF PoolState, UnresolvedState
  <2> QED BY <1>1, <1>4, <2>1, <2>4 DEF Accounted, Share, PoolState, UnresolvedState
<1>5. ASSUME MarkUncertain(r) \/ MarkReserveOutcomeUnknown(r)
      PROVE  Accounted(r)
  BY <1>4, <1>5, RecordOnlyAccounted DEF MarkUncertain, MarkReserveOutcomeUnknown
<1>6. ASSUME Release(r)
      PROVE  Accounted(r)
  <2>1. CASE e.state = "reserved"
    <3>1. /\ pool' = v /\ unresolved' = w
          /\ entries' = [entries EXCEPT ![r].state = "released", ![r].saved = @ \cup {"release"}]
      BY <1>6, <2>1 DEF Release
    <3>2. /\ \A q \in Requests \ {r} : entries'[q] = entries[q]
          /\ entries'[r].state = "released" /\ entries'[r].tokens = e.tokens
      BY <1>1, <3>1 DEF Entry
    <3> QED BY <1>1, <2>1, <3>1, <3>2, VacateExact DEF Accounted, Share, Open, PoolState, UnresolvedState
  <2> QED BY <1>6, <2>1, RecordOnlyAccounted DEF Release
<1>7. ASSUME NEW d \in Disposition, ReconcileRequest(r, d)
      PROVE  Accounted(r)
  <2>1. e.state \in Open /\ unresolved' = w
    BY <1>7 DEF ReconcileRequest
  <2>2. /\ \A q \in Requests \ {r} : entries'[q] = entries[q]
        /\ entries'[r].state = IF d = "consumed" THEN "reconciled" ELSE "released"
        /\ entries'[r].tokens = e.tokens
    BY <1>1, <1>7 DEF Entry, ReconcileRequest
  <2>3. v \in PoolState
    BY <2>1, VacateExact
  <2>4. pool' = IF d = "consumed" THEN [v EXCEPT !.confirmed = @ + e.tokens] ELSE v
    BY <1>7 DEF ReconcileRequest
  <2> HIDE DEF v
  <2>5. /\ pool'.reserved = v.reserved /\ pool'.uncertain = v.uncertain
        /\ pool'.confirmed = v.confirmed + (IF d = "consumed" THEN e.tokens ELSE 0)
        /\ pool'.requestCount = v.requestCount
    BY <1>1, <2>3, <2>4 DEF PoolState
  <2>6. /\ v.reserved = pool.reserved - Share("reserved", e, e.tokens)
        /\ v.uncertain = pool.uncertain - Share("uncertain", e, e.tokens)
        /\ v.confirmed = pool.confirmed
        /\ v.requestCount = pool.requestCount
        /\ unresolved'.reserved = unresolved.reserved - Share("reserved", e, 1)
        /\ unresolved'.uncertain = unresolved.uncertain - Share("uncertain", e, 1)
    BY <2>1, VacateExact DEF v
  <2> QED BY <1>1, <2>1, <2>2, <2>5, <2>6 DEF Accounted, Share, Open, PoolState, UnresolvedState
<1> QED BY <1>2, <1>3, <1>5, <1>6, <1>7 DEF RequestStep

\* What each request step does to the entry of its request and to the pool,
\* as far as overcommitment, keys and finalization can tell.
LEMMA RequestStepShape ==
  ASSUME LedgerTypeOK, LedgerBalanced, KeysMapped, NEW r \in Requests, RequestStep(r)
  PROVE  LET e == entries[r]
             d == entries'[r]
         IN  /\ finalized' = finalized /\ finalizing' = finalizing
             /\ \/ /\ e.state = "absent" /\ d.state = "reserved" /\ ~finalized
                   /\ d.actual = 0 /\ d.tokens =< d.upper
                   /\ pool'.confirmed + pool'.reserved + pool'.uncertain =< pool'.limit
                   /\ pool'.limit = 0
                      \/ 20 * (RemainingOf(pool') + d.tokens) =< pool'.limit
                      => d.upper - d.tokens =< RemainingOf(pool')
                   /\ \/ d.key = NoKey /\ idem' = idem
                      \/ /\ d.key \in Keys
                         /\ idem[d.key] = NoRequest \/ entries[idem[d.key]].state = "released"
                         /\ idem' = [idem EXCEPT ![d.key] = r]
                \/ /\ e.state \in Open /\ d.state \in RequestState
                   /\ d.state = "uncertain" => e.state = "reserved"
                   /\ d.state # "reserved"
                   /\ d.tokens = e.tokens /\ d.key = e.key
                   /\ pool'.limit = pool.limit /\ idem' = idem
                \/ /\ e.state # "absent" /\ d.state = e.state /\ d.tokens = e.tokens
                   /\ d.actual = e.actual /\ d.key = e.key
                   /\ pool' = pool /\ idem' = idem
<1> DEFINE e == entries[r]
           d == entries'[r]
<1>1. /\ entries \in [Requests -> Entry] /\ pool \in PoolState
      /\ e \in Entry /\ e.tokens \in Nat
  BY DEF LedgerTypeOK, Entry
<1>2. ASSUME NEW size \in Sizes, NEW k \in Keys \cup {NoKey}, NEW limit \in Limits,
             Reserve(r, size, k, limit)
      PROVE  /\ finalized' = finalized /\ finalizing' = finalizing
             /\ e.state = "absent" /\ d.state = "reserved" /\ ~finalized
             /\ d.actual = 0 /\ d.tokens =< d.upper
             /\ pool'.confirmed + pool'.reserved + pool'.uncertain =< pool'.limit
             /\ pool'.limit = 0
                \/ 20 * (RemainingOf(pool') + d.tokens) =< pool'.limit
                => d.upper - d.tokens =< RemainingOf(pool')
             /\ \/ d.key = NoKey /\ idem' = idem
                \/ /\ d.key \in Keys
                   /\ idem[d.key] = NoRequest \/ entries[idem[d.key]].state = "released"
                   /\ idem' = [idem EXCEPT ![d.key] = r]
  <2> DEFINE p == LoadPool(limit)
  <2>1. PutReservation(r, size, k, limit)
    BY <1>2 DEF Reserve
  <2>2. /\ e.state = "absent" /\ ~finalized /\ Fits(p, size)
        /\ k # NoKey => idem[k] = NoRequest \/ entries[idem[k]].state = "released"
    BY <1>2, ReserveFresh
  <2>3. size.tokens \in Nat /\ size.upper \in Nat /\ size.tokens =< size.upper
    BY SizesAssumption
  <2>4. /\ d.state = "reserved" /\ d.actual = 0 /\ d.key = k
        /\ d.tokens = size.tokens /\ d.upper = size.upper
    BY <1>1, <2>1 DEF PutReservation, NoEntry
  <2>5. p \in PoolState
    BY LoadPoolType
  <2>6. pool' = [p EXCEPT !.reserved = @ + size.tokens, !.requestCount = @ + 1]
    BY <2>1 DEF PutReservation
  <2> HIDE DEF p
  <2>7. /\ pool'.confirmed = p.confirmed /\ pool'.reserved = p.reserved + size.tokens
        /\ pool'.uncertain = p.uncertain /\ pool'.limit = p.limit
    BY <2>5, <2>6 DEF PoolState
  <2>8. RemainingOf(pool') = RemainingOf(p) - size.tokens /\ RemainingOf(p) \in Int
    BY <2>3, <2>5, <2>7 DEF RemainingOf, PoolState
  <2>9. pool'.confirmed + pool'.reserved + pool'.uncertain =< pool'.limit
    BY <2>2, <2>3, <2>5, <2>7 DEF Fits, RemainingOf, PoolState
  <2>10. pool'.limit = 0 \/ 20 * (RemainingOf(pool') + d.tokens) =< pool'.limit
         => d.upper - d.tokens =< RemainingOf(pool')
    BY <2>2, <2>3, <2>4, <2>7, <2>8 DEF Fits, IsStrict
  <2> QED BY <2>1, <2>2, <2>3, <2>4, <2>9, <2>10 DEF PutReservation
<1>4. ASSUME NEW op, RecordOnly(r, op), e.state # "absent"
      PROVE  /\ e.state # "absent" /\ d.state = e.state /\ d.tokens = e.tokens
             /\ d.actual = e.actual /\ d.key = e.key
             /\ pool' = pool
  BY <1>1, <1>4 DEF RecordOnly, Entry
<1>5. ASSUME e.state \in Open
      PROVE  Vacate(pool, e).limit = pool.limit /\ Vacate(pool, e) \in PoolState
  BY <1>5, VacateExact
<1>6. ASSUME NEW n \in Actuals, Settle(r, n), e.state \in Open
      PROVE  d.state = "settled" /\ d.tokens = e.tokens /\ d.key = e.key /\ pool'.limit = pool.limit
  BY <1>1, <1>5, <1>6 DEF Settle, PoolState, Entry
<1>7. ASSUME NEW op, NEW origin, e.state = "reserved", BecomeUncertain(r, op, origin)
      PROVE  d.state = "uncertain" /\ d.tokens = e.tokens /\ d.key = e.key /\ pool'.limit = pool.limit
  BY <1>1, <1>5, <1>7 DEF BecomeUncertain, PoolState, Entry, Open
<1>8. ASSUME Release(r), e.state = "reserved"
      PROVE  d.state = "released" /\ d.tokens = e.tokens /\ d.key = e.key /\ pool'.limit = pool.limit
  BY <1>1, <1>5, <1>8 DEF Release, PoolState, Entry, Open
<1>9. ASSUME NEW x \in Disposition, ReconcileRequest(r, x)
      PROVE  d.state \in {"reconciled", "released"} /\ d.tokens = e.tokens /\ d.key = e.key
             /\ pool'.limit = pool.limit
  BY <1>1, <1>5, <1>9 DEF ReconcileRequest, PoolState, Entry
<1> HIDE DEF e, d
<1>10. CASE \E n \in Actuals : Settle(r, n)
  BY <1>4, <1>6, <1>10 DEF Settle, FirstCall, RequestState, e, d
<1>11. CASE MarkUncertain(r) \/ MarkReserveOutcomeUnknown(r)
  BY <1>4, <1>7, <1>11 DEF MarkUncertain, MarkReserveOutcomeUnknown, FirstCall,
                           RequestState, Open, e, d
<1>12. CASE Release(r)
  BY <1>4, <1>8, <1>12 DEF Release, FirstCall, RequestState, Open, e, d
<1>13. CASE \E x \in Disposition : ReconcileRequest(r, x)
  BY <1>9, <1>13 DEF ReconcileRequest, RequestState, e, d
<1> QED BY <1>2, <1>10, <1>11, <1>12, <1>13 DEF RequestStep, e, d

\* Every operation on a request keeps the inductive invariant.
LEMMA RequestStepInv ==
  ASSUME LedgerInv, NEW r \in Requests, RequestStep(r)
  PROVE  LedgerInv'
<1> DEFINE e == entries[r]
           d == entries'[r]
<1>1. LedgerTypeOK /\ LedgerBalanced /\ KeysMapped
  BY DEF LedgerInv
<1>2. LedgerTypeOK'
  BY <1>1, LedgerTypeStep DEF LedgerNext
<1>3. Accounted(r)
  BY <1>1, RequestStepAccounted
<1>4. LedgerBalanced'
  BY <1>1, <1>2, <1>3, AccountedKeepsBalance
<1>5. \A q \in Requests \ {r} : entries'[q] = entries[q]
  BY <1>3 DEF Accounted
<1>6. /\ e.tokens \in Nat /\ e.actual \in Nat /\ d.tokens \in Nat /\ d.actual \in Nat
      /\ e.state \in RequestState \cup {"absent"} /\ d.state \in RequestState \cup {"absent"}
      /\ e.key \in Keys \cup {NoKey} /\ d.key \in Keys \cup {NoKey}
  BY <1>1, <1>2 DEF LedgerTypeOK, Entry
<1>7. OvercommitOnlyByExcess'
  <2> DEFINE x == Total(InState("settled"), Excess)
  <2>1. x \in Nat /\ x' = x - Share("settled", e, NonNegative(e.actual - e.tokens))
                          + Share("settled", d, NonNegative(d.actual - d.tokens))
    BY <1>1, <1>2, <1>5, SumsChange
  <2>2. /\ pool \in PoolState /\ pool' \in PoolState
        /\ pool.confirmed + pool.reserved + pool.uncertain =< pool.limit + x
    BY <1>1, <1>2 DEF LedgerTypeOK, LedgerInv, OvercommitOnlyByExcess
  <2> DEFINE used == pool.confirmed + pool.reserved + pool.uncertain
  <2> SUFFICES used' =< pool'.limit + x'
    BY DEF OvercommitOnlyByExcess
  <2>3. CASE e.state = "absent"
    <3>1. used' =< pool'.limit /\ d.state = "reserved"
      BY <1>1, <2>3, RequestStepShape DEF Open
    <3>2. x' = x
      BY <2>1, <2>3, <3>1 DEF Share
    <3> HIDE DEF x
    <3> QED BY <2>1, <2>2, <3>1, <3>2 DEF PoolState
  <2>4. CASE e.state \in Open /\ d.state # e.state
    <3>1. /\ pool'.limit = pool.limit /\ d.tokens = e.tokens /\ d.state # "absent"
          /\ d.state = "uncertain" => e.state = "reserved"
          /\ d.state # "reserved"
      BY <1>1, <2>4, RequestStepShape DEF Open, RequestState
    <3>2. /\ d.state = "settled" => used' = used - e.tokens + d.actual
          /\ d.state \in {"uncertain", "reconciled"} => used' = used
          /\ d.state = "released" => used' = used - e.tokens
      BY <1>3, <1>6, <2>2, <2>4, <3>1 DEF Accounted, Share, Open, PoolState
    <3>3. /\ d.state = "settled" => x' = x + NonNegative(d.actual - e.tokens)
          /\ d.state # "settled" => x' = x
      BY <1>6, <2>1, <2>4, <3>1 DEF Share, Open, NonNegative
    <3>4. used \in Nat /\ used =< pool.limit + x /\ pool.limit \in Nat
      BY <2>2 DEF PoolState
    <3> HIDE DEF x, used
    <3> QED BY <1>6, <2>1, <3>1, <3>2, <3>3, <3>4 DEF NonNegative, RequestState
  <2>5. CASE e.state # "absent" /\ d.state = e.state
    <3>1. pool' = pool /\ d.tokens = e.tokens /\ d.actual = e.actual
      BY <1>1, <2>5, RequestStepShape DEF Open
    <3>2. used' = used
      BY <3>1
    <3>3. x' = x
      <4>1. Share("settled", d, NonNegative(d.actual - d.tokens))
              = Share("settled", e, NonNegative(e.actual - e.tokens))
        BY <2>5, <3>1 DEF Share
      <4>2. Share("settled", e, NonNegative(e.actual - e.tokens)) \in Nat
        BY <1>6 DEF Share, NonNegative
      <4> HIDE DEF x
      <4> QED BY <2>1, <4>1, <4>2
    <3> HIDE DEF x, used
    <3> QED BY <2>2, <3>1, <3>2, <3>3 DEF used
  <2> QED BY <1>1, <2>3, <2>4, <2>5, RequestStepShape
<1>8. KeysMapped'
  <2>1. \A k \in Keys : idem'[k] # NoRequest => entries'[idem'[k]].state # "absent"
    <3> SUFFICES ASSUME NEW k \in Keys, idem'[k] # NoRequest
                 PROVE  entries'[idem'[k]].state # "absent"
      OBVIOUS
    <3>1. d.state # "absent"
      BY <1>1, <1>6, RequestStepShape DEF RequestState
    <3>2. idem'[k] = r \/ idem'[k] = idem[k]
      BY <1>1, RequestStepShape DEF LedgerTypeOK
    <3>3. idem[k] \in Requests \cup {NoRequest}
      BY <1>1 DEF LedgerTypeOK
    <3> QED BY <1>1, <1>5, <3>1, <3>2, <3>3 DEF KeysMapped
  <2>2. ASSUME NEW q \in Requests, entries'[q].key # NoKey,
               entries'[q].state \notin {"absent", "released"}
        PROVE  idem'[entries'[q].key] = q
    <3>1. CASE q # r
      <4>1. entries'[q] = entries[q] /\ entries[q].key \in Keys
        BY <1>1, <1>5, <2>2, <3>1 DEF LedgerTypeOK, Entry
      <4>2. idem[entries[q].key] = q
        BY <1>1, <2>2, <4>1 DEF KeysMapped
      <4>3. idem' # idem => /\ d.key \in Keys /\ idem' = [idem EXCEPT ![d.key] = r]
                            /\ (idem[d.key] = NoRequest \/ entries[idem[d.key]].state = "released")
        BY <1>1, RequestStepShape
      <4>4. entries[q].key = d.key => idem' = idem
        BY <2>2, <4>1, <4>2, <4>3, RequestsAssumption
      <4> QED BY <1>1, <4>1, <4>2, <4>3, <4>4 DEF LedgerTypeOK
    <3>2. CASE q = r /\ e.state = "absent"
      BY <1>1, <2>2, <3>2, RequestStepShape DEF LedgerTypeOK, Open
    <3>3. CASE q = r /\ e.state # "absent"
      <4>1. d.key = e.key /\ idem' = idem
        BY <1>1, <3>3, RequestStepShape
      <4>2. e.state \notin {"absent", "released"}
        BY <1>1, <2>2, <3>3, RequestStepShape DEF Open
      <4> QED BY <1>1, <2>2, <3>3, <4>1, <4>2 DEF KeysMapped
    <3> QED BY <3>1, <3>2, <3>3
  <2> QED BY <2>1, <2>2 DEF KeysMapped
<1>9. FinalizedMeansResolved' /\ (finalizing => finalized)'
  <2>1. finalized' = finalized /\ finalizing' = finalizing /\ (finalizing => finalized)
    BY <1>1, RequestStepShape DEF LedgerInv
  <2>2. ASSUME finalized
        PROVE  InState("reserved")' \cup InState("uncertain")' = {}
    <3>1. InState("reserved") \cup InState("uncertain") = {}
      BY <2>2 DEF LedgerInv, FinalizedMeansResolved
    <3>2. e.state \notin Open
      BY <3>1 DEF InState, Open
    <3>3. d.state \notin Open
      BY <1>1, <2>2, <3>2, RequestStepShape
    <3> QED BY <1>5, <3>1, <3>3 DEF InState, Open
  <2> QED BY <2>1, <2>2 DEF FinalizedMeansResolved
<1> QED BY <1>2, <1>4, <1>7, <1>8, <1>9 DEF LedgerInv

\* A fresh object, the first one of a day or one that was wiped.
LEMMA FreshLedger == LedgerInit => LedgerInv
<1> SUFFICES ASSUME LedgerInit PROVE LedgerInv
  OBVIOUS
<1>1. /\ pool = EmptyPool /\ entries = [r \in Requests |-> NoEntry]
      /\ unresolved = [reserved |-> 0, uncertain |-> 0]
      /\ idem = [k \in Keys |-> NoRequest]
      /\ finalized = FALSE /\ finalizing = FALSE
  BY DEF LedgerInit
<1>2. LedgerTypeOK
  <2>1. EmptyPool \in PoolState /\ [reserved |-> 0, uncertain |-> 0] \in UnresolvedState
    BY DEF EmptyPool, PoolState, UnresolvedState
  <2> QED BY <1>1, <2>1, NoEntryType DEF LedgerTypeOK
<1>3. /\ \A s \in RequestState : InState(s) = {}
      /\ InState("absent") = Requests
  BY <1>1 DEF InState, NoEntry, RequestState
<1>4. LedgerBalanced
  <2>1. \A s \in RequestState : InState(s) = {}
    BY <1>3
  <2>2. Cardinality({}) = 0
    BY FS_EmptySet
  <2>3. Requests \ InState("absent") = {}
    BY <1>3
  <2> QED BY <1>1, <2>1, <2>2, <2>3, TotalEmpty DEF LedgerBalanced, EmptyPool, RequestState
<1>5. OvercommitOnlyByExcess
  BY <1>1, <1>3, TotalEmpty DEF OvercommitOnlyByExcess, EmptyPool, RequestState
<1>6. KeysMapped
  BY <1>1 DEF KeysMapped, NoEntry
<1>7. FinalizedMeansResolved
  BY <1>1 DEF FinalizedMeansResolved
<1> QED BY <1>1, <1>2, <1>4, <1>5, <1>6, <1>7 DEF LedgerInv

\* The invariant survives a day's life cycle: the mark, the wipe, the lost wipe.
LEMMA LedgerInvStep ==
  ASSUME LedgerInv, [LedgerNext]_ledgerVars
  PROVE  LedgerInv'
<1>1. LedgerTypeOK'
  BY LedgerTypeStep DEF LedgerInv
<1>2. CASE \E r \in Requests : RequestStep(r)
  BY <1>2, RequestStepInv
<1>3. CASE FinalizeDay
  <2>1. UNCHANGED <<pool, entries, unresolved, idem>> /\ finalized' = TRUE
    BY <1>3 DEF FinalizeDay
  <2>2. LedgerBalanced' /\ OvercommitOnlyByExcess' /\ KeysMapped'
    BY <2>1 DEF LedgerInv, LedgerBalanced, OvercommitOnlyByExcess, KeysMapped,
                InState, Total, Units, Held, Spent, Excess
  <2>3. Cardinality(InState("reserved")) = 0 /\ Cardinality(InState("uncertain")) = 0
    BY <1>3 DEF FinalizeDay, LedgerInv, LedgerBalanced
  <2>4. InState("reserved") = {} /\ InState("uncertain") = {}
    BY <2>3, InStateFinite, FS_EmptySet
  <2>5. FinalizedMeansResolved'
    BY <2>1, <2>4 DEF FinalizedMeansResolved, InState
  <2> QED BY <1>1, <2>1, <2>2, <2>5 DEF LedgerInv
<1>4. CASE DeleteAll
  <2>1. LedgerInit'
    BY <1>4 DEF DeleteAll, LedgerInit
  <2>2. LedgerInit' => LedgerInv'
    BY FreshLedger, PTL
  <2> QED BY <2>1, <2>2
<1>5. CASE DeleteAllLost
  <2>1. UNCHANGED <<pool, entries, unresolved, idem, finalized>> /\ finalizing /\ finalizing' = FALSE
    BY <1>5 DEF DeleteAllLost
  <2> QED BY <1>1, <2>1 DEF LedgerInv, LedgerBalanced, OvercommitOnlyByExcess, KeysMapped,
                InState, Total, Units, Held, Spent, Excess, FinalizedMeansResolved
<1>6. CASE UNCHANGED ledgerVars
  BY <1>1, <1>6 DEF ledgerVars, LedgerInv, LedgerBalanced, OvercommitOnlyByExcess, KeysMapped,
                InState, Total, Units, Held, Spent, Excess, FinalizedMeansResolved
<1> QED BY <1>2, <1>3, <1>4, <1>5, <1>6 DEF LedgerNext

\* The inductive invariant of the ledger.
THEOREM LedgerInvariant == LedgerSpec => []LedgerInv
<1>1. LedgerInv /\ [LedgerNext]_ledgerVars => LedgerInv'
  BY LedgerInvStep
<1> QED BY <1>1, FreshLedger, PTL DEF LedgerSpec

\* Whatever the number of requests, keys and sizes, every counter of the pool
\* and of the unresolved record is exactly the sum over the entries it caches.
THEOREM LedgerAlwaysBalanced == LedgerSpec => []LedgerBalanced
<1>1. LedgerInv => LedgerBalanced
  BY DEF LedgerInv
<1> QED BY <1>1, LedgerInvariant, PTL

\* Admission never passes the pool's limit: any overcommitment is usage that
\* settlements reported beyond their own reservations.
THEOREM LedgerOvercommit == LedgerSpec => []OvercommitOnlyByExcess
<1>1. LedgerInv => OvercommitOnlyByExcess
  BY DEF LedgerInv
<1> QED BY <1>1, LedgerInvariant, PTL

\* An Idempotency-Key is never held by two requests that are live or accounted.
THEOREM LedgerIdempotent == LedgerSpec => []IdempotencyExclusive
<1>1. LedgerInv => IdempotencyExclusive
  <2> SUFFICES ASSUME LedgerInv, NEW r1 \in Requests, NEW r2 \in Requests,
                      entries[r1].key = entries[r2].key, entries[r1].key # NoKey,
                      entries[r1].state \notin {"absent", "released"},
                      entries[r2].state \notin {"absent", "released"}
               PROVE  r1 = r2
    BY DEF IdempotencyExclusive
  <2> QED BY DEF LedgerInv, KeysMapped
<1> QED BY <1>1, LedgerInvariant, PTL

\* A day marked final holds no open reservation, before and after a lost wipe.
THEOREM LedgerFinalization == LedgerSpec => []FinalizedMeansResolved
<1>1. LedgerInv => FinalizedMeansResolved
  BY DEF LedgerInv
<1> QED BY <1>1, LedgerInvariant, PTL

\* What RequestStepAccounted leaves of the confirmed counter.
LEMMA ConfirmedGrows ==
  ASSUME LedgerTypeOK, LedgerBalanced, KeysMapped, NEW r \in Requests, RequestStep(r)
  PROVE  pool'.confirmed >= pool.confirmed
<1> DEFINE e == entries[r]
           d == entries'[r]
<1>1. LedgerTypeOK'
  BY LedgerTypeStep DEF LedgerNext
<1>2. /\ e.tokens \in Nat /\ e.actual \in Nat /\ d.tokens \in Nat /\ d.actual \in Nat
      /\ pool.confirmed \in Nat
  BY <1>1 DEF LedgerTypeOK, Entry, PoolState
<1>3. Accounted(r)
  BY RequestStepAccounted
<1>4. \/ e.state \in Open \cup {"absent"}
      \/ d.state = e.state /\ d.tokens = e.tokens /\ d.actual = e.actual
  BY RequestStepShape
<1> QED BY <1>2, <1>3, <1>4 DEF Accounted, Share, Open

\* No call rewrites an accounted outcome or lowers the confirmed usage; only
\* the wipe of a finalized day forgets them.
THEOREM LedgerOutcomesFinal == LedgerSpec => OutcomesAreFinal
<1>1. ASSUME LedgerInv, [LedgerNext]_ledgerVars
      PROVE  [OutcomeFinal]_ledgerVars
  <2>1. LedgerTypeOK /\ LedgerBalanced /\ KeysMapped /\ pool.confirmed \in Nat
    BY <1>1 DEF LedgerInv, LedgerTypeOK, PoolState
  <2>2. CASE \E r \in Requests : RequestStep(r)
    <3>1. PICK r \in Requests : RequestStep(r)
      BY <2>2
    <3>2. pool'.confirmed >= pool.confirmed
      BY <2>1, <3>1, ConfirmedGrows
    <3>3. \A q \in Requests \ {r} : entries'[q] = entries[q]
      BY <2>1, <3>1, RequestStepAccounted DEF Accounted
    <3>4. entries[r].state \in {"settled", "reconciled", "released"} =>
             /\ entries'[r].state = entries[r].state
             /\ entries'[r].actual = entries[r].actual
             /\ entries'[r].tokens = entries[r].tokens
      BY <2>1, <3>1, RequestStepShape DEF Open
    <3> QED BY <3>2, <3>3, <3>4 DEF OutcomeFinal
  <2>3. CASE FinalizeDay \/ DeleteAllLost
    <3>1. pool' = pool /\ entries' = entries
      BY <2>3 DEF FinalizeDay, DeleteAllLost
    <3> QED BY <2>1, <3>1 DEF OutcomeFinal
  <2>4. CASE DeleteAll
    <3>1. finalized
      BY <1>1, <2>4 DEF LedgerInv, DeleteAll
    <3>2. pool' = EmptyPool /\ \A q \in Requests : entries'[q] = NoEntry
      BY <2>4 DEF DeleteAll
    <3> QED BY <3>1, <3>2 DEF OutcomeFinal
  <2> QED BY <1>1, <2>2, <2>3, <2>4 DEF LedgerNext
<1> QED BY <1>1, LedgerInvariant, PTL DEF LedgerSpec, OutcomesAreFinal

\* In the last 5% of the limit a reservation is accepted only when its whole
\* upper bound still fits, whatever the limit and the sizes are.
THEOREM LedgerStrictAdmission == LedgerSpec => StrictAdmissionCovered
<1> DEFINE Covered ==
      \A r \in Requests :
          /\ entries[r].state = "absent"
          /\ entries'[r].state = "reserved"
          /\ pool'.limit = 0 \/ 20 * (RemainingOf(pool') + entries'[r].tokens) =< pool'.limit
          => entries'[r].upper - entries'[r].tokens =< RemainingOf(pool')
<1>1. ASSUME LedgerInv, [LedgerNext]_ledgerVars
      PROVE  [Covered]_ledgerVars
  <2>1. LedgerTypeOK /\ LedgerBalanced /\ KeysMapped
    BY <1>1 DEF LedgerInv
  <2>2. CASE \E r \in Requests : RequestStep(r)
    <3>1. PICK r \in Requests : RequestStep(r)
      BY <2>2
    <3>2. \A q \in Requests \ {r} : entries'[q] = entries[q]
      BY <2>1, <3>1, RequestStepAccounted DEF Accounted
    <3>3. /\ entries[r].state = "absent"
          /\ pool'.limit = 0 \/ 20 * (RemainingOf(pool') + entries'[r].tokens) =< pool'.limit
          => entries'[r].upper - entries'[r].tokens =< RemainingOf(pool')
      BY <2>1, <3>1, RequestStepShape DEF Open
    <3> QED BY <3>2, <3>3
  <2>3. CASE FinalizeDay \/ DeleteAllLost
    BY <2>3 DEF FinalizeDay, DeleteAllLost
  <2>4. CASE DeleteAll
    BY <2>4 DEF DeleteAll, NoEntry
  <2> QED BY <1>1, <2>2, <2>3, <2>4 DEF LedgerNext
<1> QED BY <1>1, LedgerInvariant, PTL DEF LedgerSpec, StrictAdmissionCovered
=============================================================================
