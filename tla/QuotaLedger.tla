----------------------------- MODULE QuotaLedger -----------------------------
(***************************************************************************)
(* The accounting state of one QuotaController Durable Object, the one for *)
(* a (pool, UTC day): the pool counters, one entry per request, the        *)
(* unresolved counters, the idempotency map and the finalization mark.     *)
(* Every RPC is one storage transaction, hence one action; finalizeDay is  *)
(* a transaction followed by a deleteAll that can fail on its own.         *)
(*                                                                         *)
(* An RPC that answers without writing (unknown request, saved result,     *)
(* duplicate key, refused reservation) is a stuttering step.               *)
(***************************************************************************)
EXTENDS Integers, FiniteSets

CONSTANTS
    Requests,    \* request ids
    Keys,        \* idempotency keys, each already scoped by its client id
    NoKey,       \* a request without Idempotency-Key
    NoRequest,   \* a key that maps to no request
    Limits,      \* values QUOTA_LIMIT_<pool> may take, it can change by redeployment
    Sizes,       \* the (tokens, upperBoundTokens) pairs a reservation may ask for
    Actuals      \* the usages a settlement may report

ASSUME RequestsAssumption == IsFiniteSet(Requests) /\ NoRequest \notin Requests
ASSUME KeysAssumption == NoKey \notin Keys
ASSUME LimitsAssumption == Limits \subseteq Nat
ASSUME SizesAssumption ==
    Sizes \subseteq {s \in [tokens : Nat, upper : Nat] : s.tokens =< s.upper}
ASSUME ActualsAssumption == Actuals \subseteq Nat

VARIABLES
    pool,        \* PoolState; EmptyPool until the first savePool
    entries,     \* RequestEntry per request; state "absent" when there is none
    unresolved,  \* UnresolvedState: how many entries are reserved, uncertain
    idem,        \* idempotency key |-> request id
    finalized,   \* the FINALIZE_KEY mark
    finalizing   \* a finalizeDay call is between its transaction and deleteAll

ledgerVars == <<pool, entries, unresolved, idem, finalized, finalizing>>

RequestState == {"reserved", "settled", "uncertain", "reconciled", "released"}
\* Fault: a late settle or reconcile also takes a released entry.
FaultOpenReleased == {"reserved", "uncertain", "released"}
\* The states settle and reconcile apply to.
Open == {"reserved", "uncertain"}
Origin == {"none", "upstream_uncertain", "reserve_unknown"}
Disposition == {"consumed", "unused"}
Operation == {"settle", "markUncertain", "markReserveOutcomeUnknown",
              "release", "reconcile"}

\* RequestEntry. reservedTokens is written once, equal to tokens, so one field
\* stands for both; "saved" names the operations with a recorded result.
Entry == [state : RequestState \cup {"absent"}, tokens : Nat, upper : Nat,
          key : Keys \cup {NoKey}, origin : Origin, actual : Nat,
          saved : SUBSET Operation]

NoEntry == [state |-> "absent", tokens |-> 0, upper |-> 0, key |-> NoKey,
            origin |-> "none", actual |-> 0, saved |-> {}]

PoolState == [limit : Nat, confirmed : Nat, reserved : Nat,
              uncertain : Nat, requestCount : Nat]

EmptyPool == [limit |-> 0, confirmed |-> 0, reserved |-> 0,
              uncertain |-> 0, requestCount |-> 0]

UnresolvedState == [reserved : Nat, uncertain : Nat]

LedgerInit ==
    /\ pool = EmptyPool
    /\ entries = [r \in Requests |-> NoEntry]
    /\ unresolved = [reserved |-> 0, uncertain |-> 0]
    /\ idem = [k \in Keys |-> NoRequest]
    /\ finalized = FALSE
    /\ finalizing = FALSE

-----------------------------------------------------------------------------
(* Helpers on the stored records.                                          *)

\* Math.max(0, n)
NonNegative(n) == IF n < 0 THEN 0 ELSE n

\* loadPool: the stored pool, or a fresh one with the configured limit. The
\* first save is that of the first reservation, so a stored pool counts one.
LoadPool(limit) ==
    IF pool.requestCount > 0 THEN pool ELSE [EmptyPool EXCEPT !.limit = limit]

RemainingOf(p) == p.limit - p.confirmed - p.reserved - p.uncertain

\* tierOf = "STRICT": no limit, or at most 5% of it left.
IsStrict(p) == p.limit = 0 \/ 20 * RemainingOf(p) =< p.limit

\* Faults: uncertain tokens count as free; the STRICT tier is not enforced.
FaultFitsUncertainFree(p, size) ==
    size.tokens =< p.limit - p.confirmed - p.reserved
FaultFitsNoStrict(p, size) == size.tokens =< RemainingOf(p)

\* The capacity test shared by reserve and admitRelay.
Fits(p, size) ==
    /\ size.tokens =< RemainingOf(p)
    /\ IsStrict(p) => size.upper =< RemainingOf(p)

\* Fault: the tokens are always taken from the reserved counter.
FaultVacateReserved(p, e) == [p EXCEPT !.reserved = NonNegative(@ - e.tokens)]

\* The pool and the unresolved counters once entry e no longer holds its tokens.
Vacate(p, e) ==
    IF e.state = "reserved"
    THEN [p EXCEPT !.reserved = NonNegative(@ - e.tokens)]
    ELSE [p EXCEPT !.uncertain = NonNegative(@ - e.tokens)]

Resolve(u, e) ==
    IF e.state = "reserved"
    THEN [u EXCEPT !.reserved = NonNegative(@ - 1)]
    ELSE [u EXCEPT !.uncertain = NonNegative(@ - 1)]

MappedRequest(k) == IF k = NoKey THEN NoRequest ELSE idem[k]

\* Fault: any closed request, not only a released one, frees its key.
FaultEntryRequestClosed(r, k) ==
    LET m == MappedRequest(k) IN
    IF m = NoRequest \/ entries[m].state \notin Open THEN r ELSE m

\* The entry a reserve call of request r with key k is about: the mapped
\* request's, unless that one was released and the key is free again.
EntryRequest(r, k) ==
    LET m == MappedRequest(k) IN
    IF m = NoRequest \/ entries[m].state = "released" THEN r ELSE m

-----------------------------------------------------------------------------
(* The RPCs.                                                               *)

\* What reserve answers. "mismatch" is the TypeError for other parameters,
\* "saved" the recorded result of the first call.
ReserveOutcome(r, size, k, limit) ==
    LET e == entries[EntryRequest(r, k)]
        m == MappedRequest(k)
    IN  IF e.state \notin {"absent", "released"} /\ m \notin {NoRequest, r}
        THEN "duplicate"
        ELSE IF e.state # "absent"
        THEN IF e.tokens = size.tokens /\ e.upper = size.upper THEN "saved" ELSE "mismatch"
        ELSE IF finalized THEN "finalized"
        ELSE IF Fits(LoadPool(limit), size) THEN "reserved" ELSE "insufficient"

\* The writes of an accepted reservation.
PutReservation(r, size, k, limit) ==
    /\ pool' = [LoadPool(limit) EXCEPT !.reserved = @ + size.tokens,
                                       !.requestCount = @ + 1]
    /\ entries' = [entries EXCEPT ![r] =
                     [NoEntry EXCEPT !.state = "reserved", !.tokens = size.tokens,
                                     !.upper = size.upper, !.key = k]]
    /\ unresolved' = [unresolved EXCEPT !.reserved = @ + 1]
    /\ idem' = IF k = NoKey THEN idem ELSE [idem EXCEPT ![k] = r]
    /\ UNCHANGED <<finalized, finalizing>>

Reserve(r, size, k, limit) ==
    /\ ReserveOutcome(r, size, k, limit) = "reserved"
    /\ PutReservation(r, size, k, limit)

\* An operation that finds the entry in a state it does not apply to records
\* its result and changes nothing else.
RecordOnly(r, op) ==
    /\ entries' = [entries EXCEPT ![r].saved = @ \cup {op}]
    /\ UNCHANGED <<pool, unresolved>>

\* The guard common to the operations that save a result.
FirstCall(r, op) == entries[r].state # "absent" /\ op \notin entries[r].saved

Settle(r, n) ==
    /\ FirstCall(r, "settle")
    /\ \/ /\ entries[r].state \in Open
          /\ pool' = [Vacate(pool, entries[r]) EXCEPT !.confirmed = @ + n]
          /\ unresolved' = Resolve(unresolved, entries[r])
          /\ entries' = [entries EXCEPT ![r].state = "settled", ![r].actual = n,
                                        ![r].saved = @ \cup {"settle"}]
       \/ /\ entries[r].state \notin Open
          /\ RecordOnly(r, "settle")
    /\ UNCHANGED <<idem, finalized, finalizing>>

\* reserved -> uncertain, shared by the two operations below.
BecomeUncertain(r, op, origin) ==
    /\ pool' = [Vacate(pool, entries[r]) EXCEPT !.uncertain = @ + entries[r].tokens]
    /\ unresolved' = [Resolve(unresolved, entries[r]) EXCEPT !.uncertain = @ + 1]
    /\ entries' = [entries EXCEPT ![r].state = "uncertain", ![r].origin = origin,
                                  ![r].saved = @ \cup {op}]

MarkUncertain(r) ==
    /\ FirstCall(r, "markUncertain")
    /\ \/ /\ entries[r].state = "reserved"
          /\ BecomeUncertain(r, "markUncertain",
                 IF entries[r].origin = "none" THEN "upstream_uncertain"
                                               ELSE entries[r].origin)
       \/ /\ entries[r].state # "reserved"
          /\ RecordOnly(r, "markUncertain")
    /\ UNCHANGED <<idem, finalized, finalizing>>

MarkReserveOutcomeUnknown(r) ==
    /\ FirstCall(r, "markReserveOutcomeUnknown")
    /\ \/ /\ entries[r].state = "reserved"
          /\ BecomeUncertain(r, "markReserveOutcomeUnknown", "reserve_unknown")
       \/ /\ entries[r].state # "reserved"
          /\ RecordOnly(r, "markReserveOutcomeUnknown")
    /\ UNCHANGED <<idem, finalized, finalizing>>

Release(r) ==
    /\ FirstCall(r, "release")
    /\ \/ /\ entries[r].state = "reserved"
          /\ pool' = Vacate(pool, entries[r])
          /\ unresolved' = Resolve(unresolved, entries[r])
          /\ entries' = [entries EXCEPT ![r].state = "released",
                                        ![r].saved = @ \cup {"release"}]
       \/ /\ entries[r].state # "reserved"
          /\ RecordOnly(r, "release")
    /\ UNCHANGED <<idem, finalized, finalizing>>

\* reconcile records nothing when it does not apply.
ReconcileRequest(r, d) ==
    /\ FirstCall(r, "reconcile")
    /\ entries[r].state \in Open
    /\ pool' = IF d = "consumed"
               THEN [Vacate(pool, entries[r]) EXCEPT !.confirmed = @ + entries[r].tokens]
               ELSE Vacate(pool, entries[r])
    /\ unresolved' = Resolve(unresolved, entries[r])
    /\ entries' = [entries EXCEPT
                     ![r].state = IF d = "consumed" THEN "reconciled" ELSE "released",
                     ![r].saved = @ \cup {"reconcile"}]
    /\ UNCHANGED <<idem, finalized, finalizing>>

\* Fault: reservations without a known outcome do not hold the day open.
FaultFinalizeReserved ==
    /\ unresolved.uncertain = 0
    /\ finalized' = TRUE
    /\ finalizing' = TRUE
    /\ UNCHANGED <<pool, entries, unresolved, idem>>

\* finalizeDay's transaction: refuse while anything is unresolved, else mark.
FinalizeDay ==
    /\ unresolved.uncertain = 0 /\ unresolved.reserved = 0
    /\ finalized' = TRUE
    /\ finalizing' = TRUE
    /\ UNCHANGED <<pool, entries, unresolved, idem>>

\* Its deleteAll wipes the object, the mark included ...
DeleteAll ==
    /\ finalizing
    /\ pool' = EmptyPool
    /\ entries' = [r \in Requests |-> NoEntry]
    /\ unresolved' = [reserved |-> 0, uncertain |-> 0]
    /\ idem' = [k \in Keys |-> NoRequest]
    /\ finalized' = FALSE
    /\ finalizing' = FALSE

\* ... or never happens: the call dies and only the mark is left behind.
DeleteAllLost ==
    /\ finalizing
    /\ finalizing' = FALSE
    /\ UNCHANGED <<pool, entries, unresolved, idem, finalized>>

RequestStep(r) ==
    \/ \E size \in Sizes, k \in Keys \cup {NoKey}, limit \in Limits :
          Reserve(r, size, k, limit)
    \/ \E n \in Actuals : Settle(r, n)
    \/ MarkUncertain(r)
    \/ MarkReserveOutcomeUnknown(r)
    \/ Release(r)
    \/ \E d \in Disposition : ReconcileRequest(r, d)

LedgerNext ==
    \/ \E r \in Requests : RequestStep(r)
    \/ FinalizeDay
    \/ DeleteAll
    \/ DeleteAllLost

LedgerSpec == LedgerInit /\ [][LedgerNext]_ledgerVars
-----------------------------------------------------------------------------
(* Sums over entries, as cardinalities: a request that counts for n tokens *)
(* contributes n units.                                                    *)

Units(S, f) == UNION {{r} \X (1..f[r]) : r \in S}
Total(S, f) == Cardinality(Units(S, f))

InState(s) == {r \in Requests : entries[r].state = s}
Held == [r \in Requests |-> entries[r].tokens]
Spent == [r \in Requests |-> entries[r].actual]
\* What a settlement took beyond its reservation.
Excess == [r \in Requests |-> NonNegative(entries[r].actual - entries[r].tokens)]

-----------------------------------------------------------------------------
(* Properties.                                                             *)

\* The stored records have the types of shared/types.ts: in particular no
\* counter is ever negative, whatever the order of the calls.
LedgerTypeOK ==
    /\ pool \in PoolState
    /\ entries \in [Requests -> Entry]
    /\ unresolved \in UnresolvedState
    /\ idem \in [Keys -> Requests \cup {NoRequest}]
    /\ finalized \in BOOLEAN
    /\ finalizing \in BOOLEAN

\* Every counter is exactly the sum it caches: reserved and uncertain tokens
\* are those of the entries in that state, confirmed tokens are the usage of
\* the settled entries plus the reservations reconciled as consumed, and the
\* unresolved and request counts count entries. Late, repeated and crossing
\* settle, markUncertain, release and reconcile calls neither lose nor
\* double-count a token, and the Math.max(0, ..) guards never hide a drift.
LedgerBalanced ==
    /\ pool.reserved = Total(InState("reserved"), Held)
    /\ pool.uncertain = Total(InState("uncertain"), Held)
    /\ pool.confirmed = Total(InState("settled"), Spent)
                         + Total(InState("reconciled"), Held)
    /\ pool.requestCount = Cardinality(Requests \ InState("absent"))
    /\ unresolved.reserved = Cardinality(InState("reserved"))
    /\ unresolved.uncertain = Cardinality(InState("uncertain"))

\* The pool is overcommitted by at most what settlements reported beyond
\* their reservation: admission itself never goes past the limit, also when
\* uncertain tokens are later settled, reconciled or given back.
OvercommitOnlyByExcess ==
    pool.confirmed + pool.reserved + pool.uncertain
        =< pool.limit + Total(InState("settled"), Excess)

\* Two requests with the same client-scoped Idempotency-Key are never both
\* live or accounted for: a key is reused only after the request that held
\* it was released, whichever of them retries.
IdempotencyExclusive ==
    \A r1, r2 \in Requests :
        /\ entries[r1].key = entries[r2].key
        /\ entries[r1].key # NoKey
        /\ entries[r1].state \notin {"absent", "released"}
        /\ entries[r2].state \notin {"absent", "released"}
        => r1 = r2

\* Once the day is marked final nothing is open, also when the deleteAll that
\* follows the mark was lost and requests kept arriving: the wipe never
\* discards a reservation whose outcome is still owed.
FinalizedMeansResolved ==
    (finalized \/ finalizing) => InState("reserved") \cup InState("uncertain") = {}

\* In the last 5% of the pool a request is admitted only if it could spend its
\* whole upper bound: the step leaves room for the rest of that bound after
\* the reservation itself, counting everything still reserved or uncertain.
StrictAdmissionCovered ==
    [][\A r \in Requests :
          /\ entries[r].state = "absent"
          /\ entries'[r].state = "reserved"
          /\ pool'.limit = 0 \/ 20 * (RemainingOf(pool') + entries'[r].tokens) =< pool'.limit
          => entries'[r].upper - entries'[r].tokens =< RemainingOf(pool')]_ledgerVars

\* An accounted outcome is final: no later call reopens or rewrites a settled,
\* reconciled or released entry, and confirmed tokens never shrink. Only the
\* wipe of a finalized day removes them.
OutcomeFinal ==
    /\ \/ pool'.confirmed >= pool.confirmed
       \/ finalized /\ pool' = EmptyPool
    /\ \A r \in Requests :
          entries[r].state \in {"settled", "reconciled", "released"} =>
              \/ /\ entries'[r].state = entries[r].state
                 /\ entries'[r].actual = entries[r].actual
                 /\ entries'[r].tokens = entries[r].tokens
              \/ finalized /\ entries'[r] = NoEntry

OutcomesAreFinal == [][OutcomeFinal]_ledgerVars
=============================================================================
