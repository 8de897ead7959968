------------------------------- MODULE InFlight -------------------------------
(***************************************************************************)
(* acquireInFlight, renewInFlight and releaseInFlight of one               *)
(* QuotaController, called by the workers that proxy a request. Calls are  *)
(* delayed, repeated and overtaken: a renewal or a release may carry any   *)
(* generation that was ever handed out to its request.                     *)
(***************************************************************************)
EXTENDS LeaseStore

CONSTANTS
    Requests,
    MaxTime,         \* bound on the clock
    MaxGeneration    \* bound on the leases ever created

ASSUME InFlightAssumption == IsFiniteSet(Requests) /\ MaxGeneration \in Nat

VARIABLES
    told             \* the leases a caller was told of, until it gave them back

inFlightVars == <<leaseVars, told>>

\* The old format, when the object has it, was filled under the same limit.
InFlightInit ==
    /\ legacy \in {S \in SUBSET Requests : Cardinality(S) =< MaxInFlight}
    /\ leases = {}
    /\ nextGeneration = 1
    /\ now = 0
    /\ told = {}

AcquireInFlight(r) ==
    /\ nextGeneration =< MaxGeneration
    /\ AcquireLease(r)
    /\ told' = told \cup {l \in leases' : l.req = r}

RenewInFlight(r, g) ==
    /\ RenewLease(r, g)
    /\ told' = told \cup {l \in leases' : l.req = r /\ l.gen = g}

ReleaseInFlight(r, g) ==
    /\ ReleaseLease(r, g)
    /\ told' = {l \in told : ~(l.req = r /\ l.gen = g)}

\* The clock; what a caller was told about a lease that ran out is void.
Tick ==
    /\ now < MaxTime
    /\ now' = now + 1
    /\ told' = {l \in told : l.exp > now + 1}
    /\ UNCHANGED <<legacy, leases, nextGeneration>>

InFlightNext ==
    \/ \E r \in Requests :
          \/ AcquireInFlight(r)
          \/ \E g \in 0..(nextGeneration - 1) : RenewInFlight(r, g)
          \/ \E g \in {NoGeneration} \cup 0..(nextGeneration - 1) : ReleaseInFlight(r, g)
    \/ Tick

InFlightSpec == InFlightInit /\ [][InFlightNext]_inFlightVars
-----------------------------------------------------------------------------
(* Properties.                                                             *)

\* The stored leases have their types, and generations start at one.
LeaseTypeOK ==
    /\ legacy \in SUBSET Requests
    /\ leases \in SUBSET LeaseIn(Requests)
    /\ nextGeneration \in Nat \ {0}
    /\ now \in Nat
    /\ told \in SUBSET LeaseIn(Requests)

\* MAX_IN_FLIGHT_REQUESTS is never exceeded, not even by the leases stored
\* while legacy ids are migrated, leases expire and callers race.
InFlightBounded ==
    /\ Cardinality(leases) =< MaxInFlight
    /\ Cardinality(Active) =< MaxInFlight

\* A request occupies one place: acquireInFlightLease, whose find looks at the
\* first lease of the request, never leaves a second one behind.
OneLeasePerRequest ==
    \A l, m \in Normalized : l.req = m.req => l = m

\* A caller that was told of a lease has it until the announced expiry or its
\* own release: no stale, repeated or overtaken renewal or release of an
\* earlier generation, and no release without one, takes or shortens it. Only
\* a migrated legacy lease is still at the mercy of a release without one.
LeaseHeldUntilExpiry ==
    \A h \in {t \in told : t.gen # LegacyGeneration} :
        \E l \in leases : l.req = h.req /\ l.gen = h.gen /\ l.exp >= h.exp

\* A lease that ran out is gone: a late renewal does not bring it back.
ExpiredStaysExpired ==
    [][\A l \in Normalized, m \in leases' :
          l.req = m.req /\ l.gen = m.gen /\ l.exp =< now => m.exp =< now']_inFlightVars
=============================================================================
