------------------------------ MODULE LeaseStore ------------------------------
(***************************************************************************)
(* The in_flight record of a QuotaController: the leases that count        *)
(* against MAX_IN_FLIGHT_REQUESTS. A lease has a generation, a fresh UUID  *)
(* in the code and a fresh number here, so that a caller that lost its     *)
(* lease cannot touch its successor. Objects written by an older version   *)
(* hold a bare list of request ids, which is normalized on first use.      *)
(*                                                                         *)
(* Every operation reads the normalized record, drops what has expired and *)
(* writes the result back when it differs.                                 *)
(***************************************************************************)
EXTENDS Integers, FiniteSets

CONSTANTS
    MaxInFlight,     \* MAX_IN_FLIGHT_REQUESTS
    LeaseTTL         \* DEFAULT_IN_FLIGHT_LEASE_TTL_MS

ASSUME MaxInFlightAssumption == MaxInFlight \in Nat \ {0}
ASSUME LeaseTTLAssumption == LeaseTTL \in Nat \ {0}

VARIABLES
    legacy,          \* the request ids of an old-format record not yet migrated
    leases,          \* the leases of a version 1 record
    nextGeneration,  \* the next fresh generation
    now              \* Date.now()

leaseVars == <<legacy, leases, nextGeneration, now>>

LegacyGeneration == 0   \* stands for "legacy:<request id>"
NoGeneration == -1      \* releaseInFlight without a generation

NewLease(r, g) == [req |-> r, gen |-> g, exp |-> now + LeaseTTL]

\* normalizeInFlightState: a legacy record becomes leases that start to age now.
Normalized == leases \cup {NewLease(r, LegacyGeneration) : r \in legacy}

WithoutExpired(S) == {l \in S : l.exp > now}

Active == WithoutExpired(Normalized)
ActiveOf(r) == {l \in Active : l.req = r}

\* saveInFlight, which always writes the new format.
SaveInFlight(S) == leases' = S /\ legacy' = {}

\* The end of an operation that found nothing to do but prune.
PruneOnly == SaveInFlight(Active) /\ UNCHANGED <<nextGeneration, now>>

\* Fault: the limit is passed by one.
FaultHasRoom == Cardinality(Active) =< MaxInFlight

HasRoom == Cardinality(Active) < MaxInFlight

AppendLease(r) ==
    /\ SaveInFlight(Active \cup {NewLease(r, nextGeneration)})
    /\ nextGeneration' = nextGeneration + 1
    /\ UNCHANGED now

\* acquireInFlightLease: a repeated call finds the lease it already has.
AcquireLease(r) ==
    \/ ActiveOf(r) # {} /\ PruneOnly
    \/ ActiveOf(r) = {} /\ HasRoom /\ AppendLease(r)
    \/ ActiveOf(r) = {} /\ ~HasRoom /\ PruneOnly

\* The leases after those of S were extended to a full TTL.
Extended(S) == (Active \ S) \cup {[l EXCEPT !.exp = now + LeaseTTL] : l \in S}

\* Fault: a renewal also takes a lease that ran out.
FaultRenewExpired(r, g) ==
    LET mine == {l \in Normalized : l.req = r /\ l.gen = g} IN
    /\ SaveInFlight(Extended(mine))
    /\ UNCHANGED <<nextGeneration, now>>

\* renewInFlightLease: only the generation that is in force is extended.
RenewLease(r, g) ==
    LET mine == {l \in ActiveOf(r) : l.gen = g} IN
    /\ SaveInFlight(Extended(mine))
    /\ UNCHANGED <<nextGeneration, now>>

\* Fault: the generation of a release is not compared.
FaultReleasable(l, r, g) == l.req = r

\* What a release of request r with generation g may remove: without a
\* generation only a migrated legacy lease.
Releasable(l, r, g) ==
    /\ l.req = r
    /\ l.gen = IF g = NoGeneration THEN LegacyGeneration ELSE g

\* releaseInFlightLease
ReleaseLease(r, g) ==
    /\ SaveInFlight({l \in Active : ~Releasable(l, r, g)})
    /\ UNCHANGED <<nextGeneration, now>>

LeaseIn(S) == [req : S, gen : Nat, exp : Nat]
=============================================================================
