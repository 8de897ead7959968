------------------------------ MODULE RelayGrants ------------------------------
(***************************************************************************)
(* Relayed requests on one QuotaController: admitRelay, activateRelay,     *)
(* renewRelay, finishRelay and the reconciliation hook, composed with the  *)
(* quota ledger and the lease record they share with directly proxied      *)
(* requests. Each RPC is one storage transaction, hence one action.        *)
(*                                                                         *)
(* A credential is a signed copy of a grant's bindings. Callbacks arrive   *)
(* late, repeated and after the grant they name was wiped: they carry any  *)
(* credential that was ever signed for their request. A denial that writes *)
(* nothing is a stuttering step.                                           *)
(***************************************************************************)
EXTENDS QuotaLedger, LeaseStore

CONSTANTS
    Relayed,         \* the requests that take the relay route
    AuthTTL,         \* RELAY_GRANT_AUTHORIZATION_TTL_MS
    CredTTL,         \* RELAY_GRANT_CREDENTIAL_TTL_MS
    DayEnd,          \* midnight: the reconciliation of the day comes after it
    AdmitUntil,      \* no admission of the day, sent before midnight, arrives later
    FinalizeFrom,    \* from when on the scheduled job may finalize the day
    MaxTime,         \* bound on the clock
    MaxGeneration    \* bound on the leases ever created

ASSUME RelayAssumption ==
    /\ Relayed \subseteq Requests
    /\ AuthTTL \in Nat \ {0} /\ CredTTL \in Nat /\ AuthTTL =< CredTTL
    /\ DayEnd \in Nat /\ AdmitUntil \in Nat /\ FinalizeFrom \in Nat
    /\ DayEnd =< AdmitUntil /\ AdmitUntil + CredTTL =< FinalizeFrom
    /\ MaxTime \in Nat /\ MaxGeneration \in Nat

VARIABLES
    grants,          \* RelayGrant per request; state "none" when there is none
    fenced,          \* requests with a CPU-gate fence
    credentials,     \* <<request, generation>> pairs signed so far
    activations      \* per request, how often an activation was confirmed

relayVars == <<grants, fenced, credentials, activations>>
vars == <<ledgerVars, leaseVars, relayVars>>

GrantState == {"authorized", "attempted", "settled", "released", "uncertain",
               "reconciled_consumed", "reconciled_unused"}
TerminalGrantStates == {"settled", "released", "reconciled_consumed", "reconciled_unused"}

\* A terminal report; its fingerprint identifies it. tokens is null unless the
\* outcome is settle.
Report == [outcome : {"settle"}, tokens : Actuals]
            \cup [outcome : {"uncertain", "release"}, tokens : {0}]
NoReport == [outcome |-> "none", tokens |-> 0]

\* grantId and leaseGeneration are created together, so gen stands for both.
NoGrant == [state |-> "none", gen |-> NoGeneration, auth |-> 0, cred |-> 0,
            report |-> NoReport]

RelayInit ==
    /\ LedgerInit
    /\ legacy = {}
    /\ leases = {}
    /\ nextGeneration = 1
    /\ now = 0
    /\ grants = [r \in Requests |-> NoGrant]
    /\ fenced = {}
    /\ credentials = {}
    /\ activations = [r \in Requests |-> 0]

-----------------------------------------------------------------------------
(* Admission.                                                              *)

\* Faults: the fence is not looked at; the key of another request is taken over.
FaultAdmitFenced(r, size, k, limit) ==
    /\ MappedRequest(k) \notin {NoRequest, r} => entries[MappedRequest(k)].state = "released"
    /\ entries[r].state = "absent" /\ ~finalized /\ Fits(LoadPool(limit), size)
FaultAdmitAnyKey(r, size, k, limit) ==
    /\ r \notin fenced
    /\ entries[r].state = "absent" /\ ~finalized /\ Fits(LoadPool(limit), size)

\* admitRelayInTransaction up to the capacity test: no fence, the key free or
\* its request released, no entry yet, the day open, enough quota.
Admissible(r, size, k, limit) ==
    /\ r \notin fenced
    /\ MappedRequest(k) \notin {NoRequest, r} => entries[MappedRequest(k)].state = "released"
    /\ entries[r].state = "absent"
    /\ ~finalized
    /\ Fits(LoadPool(limit), size)

\* The decision controller asks the object of the current UTC day. An exact
\* repetition finds the entry and is answered from the grant. A request without
\* a place prunes the leases and writes nothing else.
AdmitRelay(r, size, k, limit) ==
    /\ now =< AdmitUntil
    /\ Admissible(r, size, k, limit)
    /\ \/ /\ HasRoom
          /\ nextGeneration =< MaxGeneration
          /\ PutReservation(r, size, k, limit)
          /\ AppendLease(r)
          /\ grants' = [grants EXCEPT ![r] =
                          [state |-> "authorized", gen |-> nextGeneration,
                           auth |-> now + AuthTTL, cred |-> now + CredTTL,
                           report |-> NoReport]]
          /\ credentials' = credentials \cup {<<r, nextGeneration>>}
       \/ /\ ~HasRoom
          /\ PruneOnly
          /\ UNCHANGED <<ledgerVars, grants, credentials>>
    /\ UNCHANGED <<fenced, activations>>

\* fenceRelayCpuGateSetup: a request that left no trace is barred for good.
FenceSetup(r) ==
    /\ grants[r].state = "none" /\ entries[r].state = "absent"
    /\ fenced' = fenced \cup {r}
    /\ UNCHANGED <<ledgerVars, leaseVars, grants, credentials, activations>>

-----------------------------------------------------------------------------
(* Callbacks.                                                              *)

\* The grant exists and the credential of generation g is the one for it.
Binds(r, g) == grants[r].state # "none" /\ grants[r].gen = g

\* Fault: an expired credential is still accepted.
FaultUnexpired(r) == TRUE

Unexpired(r) == now < grants[r].cred

\* Fault: the place of the request is not given back.
FaultReleaseGrantLease(r) == PruneOnly

\* releaseGrantLease
ReleaseGrantLease(r) == ReleaseLease(r, grants[r].gen)

GrantLease(r) == {l \in ActiveOf(r) : l.gen = grants[r].gen}

OperationOf == [settle |-> "settle", uncertain |-> "markUncertain", release |-> "release"]

\* applyQuotaLifecycleTransition inside a relay transaction: a call whose result
\* is already saved succeeds and leaves the ledger alone.
Applies(r, report) ==
    \/ report.outcome = "settle" /\ Settle(r, report.tokens)
    \/ report.outcome = "uncertain" /\ MarkUncertain(r)
    \/ report.outcome = "release" /\ Release(r)
    \/ ~FirstCall(r, OperationOf[report.outcome]) /\ UNCHANGED ledgerVars

UncertainReport == [outcome |-> "uncertain", tokens |-> 0]
ReleaseReport == [outcome |-> "release", tokens |-> 0]

\* expireAttemptedGrant: the outcome becomes uncertain, only the place is freed.
ExpireAttempted(r) ==
    /\ Applies(r, UncertainReport)
    /\ ReleaseGrantLease(r)
    /\ grants' = [grants EXCEPT ![r].state = "uncertain"]

Activatable(r) == grants[r].state = "authorized"

\* activateRelayInTransaction: an authorized grant starts its one attempt, or
\* gives everything back when its authorization ran out.
ActivateRelay(r, g) ==
    /\ Binds(r, g)
    /\ Unexpired(r)
    /\ Activatable(r)
    /\ \/ /\ now >= grants[r].auth
          /\ Applies(r, ReleaseReport)
          /\ ReleaseGrantLease(r)
          /\ grants' = [grants EXCEPT ![r].state = "released"]
          /\ UNCHANGED activations
       \/ /\ now < grants[r].auth
          /\ entries[r].state = "reserved" /\ GrantLease(r) # {}
          /\ grants' = [grants EXCEPT ![r].state = "attempted"]
          /\ activations' = [activations EXCEPT ![r] = @ + 1]
          /\ UNCHANGED <<ledgerVars, leaseVars>>
    /\ UNCHANGED <<fenced, credentials>>

\* renewRelayInTransaction: past the authorization the attempt is uncertain,
\* with its lease in force it is extended, otherwise (lease_lost) pruned.
RenewRelay(r, g) ==
    /\ Binds(r, g)
    /\ Unexpired(r)
    /\ grants[r].state = "attempted"
    /\ \/ now >= grants[r].auth /\ ExpireAttempted(r)
       \/ /\ now < grants[r].auth /\ entries[r].state = "reserved"
          /\ SaveInFlight(Extended(GrantLease(r)))
          /\ UNCHANGED <<ledgerVars, nextGeneration, now, grants>>
    /\ UNCHANGED <<fenced, credentials, activations>>

\* Fault: a release is accepted after an attempt.
FaultLegal(state, outcome) == outcome = "settle" => state # "authorized"

\* Release is legal only before an activation, settlement only after one.
Legal(state, outcome) ==
    /\ outcome = "release" => state = "authorized"
    /\ outcome = "settle" => state # "authorized"

GrantStateAfter == [settle |-> "settled", uncertain |-> "uncertain", release |-> "released"]

\* finishRelayInTransaction
FinishRelay(r, g, report) ==
    /\ Binds(r, g)
    /\ Unexpired(r)
    /\ grants[r].state \notin TerminalGrantStates
    /\ \/ /\ Legal(grants[r].state, report.outcome)
          /\ entries[r].state # "absent"
          /\ Applies(r, report)
          /\ ReleaseGrantLease(r)
          /\ grants' = [grants EXCEPT ![r].state = GrantStateAfter[report.outcome],
                                      ![r].report = report]
       \/ /\ report.outcome = "release"
          /\ grants[r].state = "attempted" /\ now >= grants[r].auth
          /\ ExpireAttempted(r)
    /\ UNCHANGED <<fenced, credentials, activations>>

-----------------------------------------------------------------------------
(* Reconciliation, finalization and the requests of the direct route.      *)

\* Fault: the grant is left alone.
FaultTerminalize(r, d) == UNCHANGED <<leaseVars, grants>>

\* terminalizeGrantOnReconcile
Terminalize(r, d) ==
    \/ /\ grants[r].state \in {"none"} \cup TerminalGrantStates
       /\ UNCHANGED <<leaseVars, grants>>
    \/ /\ grants[r].state \notin {"none"} \cup TerminalGrantStates
       /\ ReleaseGrantLease(r)
       /\ grants' = [grants EXCEPT
                       ![r].state = IF d = "consumed" THEN "reconciled_consumed"
                                                      ELSE "reconciled_unused",
                       ![r].report = NoReport]

\* reconcileRequest on a relayed request, from the job that closes yesterday.
ReconcileRelayed(r, d) ==
    /\ now >= DayEnd
    /\ ReconcileRequest(r, d)
    /\ Terminalize(r, d)
    /\ UNCHANGED <<fenced, credentials, activations>>

Finalize ==
    /\ now >= FinalizeFrom
    /\ FinalizeDay
    /\ UNCHANGED <<leaseVars, relayVars>>

\* deleteAll also takes the leases, the grants and the fences.
Wipe ==
    /\ DeleteAll
    /\ leases' = {} /\ legacy' = {}
    /\ grants' = [r \in Requests |-> NoGrant]
    /\ fenced' = {}
    /\ UNCHANGED <<nextGeneration, now, credentials, activations>>

WipeLost == DeleteAllLost /\ UNCHANGED <<leaseVars, relayVars>>

\* A directly proxied request uses the ledger and the leases by itself.
DirectStep(r) ==
    \/ RequestStep(r) /\ UNCHANGED leaseVars
    \/ /\ nextGeneration =< MaxGeneration
       /\ AcquireLease(r)
       /\ UNCHANGED ledgerVars
    \/ /\ \E l \in leases : l.req = r /\ (RenewLease(r, l.gen) \/ ReleaseLease(r, l.gen))
       /\ UNCHANGED ledgerVars

Tick ==
    /\ now < MaxTime
    /\ now' = now + 1
    /\ UNCHANGED <<ledgerVars, legacy, leases, nextGeneration, relayVars>>

Callback(r, g) ==
    \/ ActivateRelay(r, g)
    \/ RenewRelay(r, g)
    \/ \E report \in Report : FinishRelay(r, g, report)

RelayNext ==
    \/ \E r \in Relayed :
          \/ \E size \in Sizes, k \in Keys \cup {NoKey}, limit \in Limits :
                AdmitRelay(r, size, k, limit)
          \/ FenceSetup(r)
          \/ \E g \in 1..MaxGeneration : <<r, g>> \in credentials /\ Callback(r, g)
          \/ \E d \in Disposition : ReconcileRelayed(r, d)
    \/ \E r \in Requests \ Relayed : DirectStep(r) /\ UNCHANGED relayVars
    \/ Finalize
    \/ Wipe
    \/ WipeLost
    \/ Tick

RelaySpec == RelayInit /\ [][RelayNext]_vars
-----------------------------------------------------------------------------
(* Properties.                                                             *)

RelayGrant == [state : GrantState \cup {"none"}, gen : Nat \cup {NoGeneration},
               auth : Nat, cred : Nat, report : Report \cup {NoReport}]

\* The records the relay adds to the object have their types.
RelayTypeOK ==
    /\ LedgerTypeOK
    /\ legacy \in SUBSET Requests
    /\ leases \in SUBSET LeaseIn(Requests)
    /\ nextGeneration \in Nat /\ now \in Nat
    /\ grants \in [Requests -> RelayGrant]
    /\ fenced \in SUBSET Relayed
    /\ credentials \in SUBSET (Relayed \X Nat)
    /\ activations \in [Requests -> Nat]

\* The state of the request entry that goes with a grant state.
EntryStateOf ==
    [none |-> "absent", authorized |-> "reserved", attempted |-> "reserved",
     uncertain |-> "uncertain", settled |-> "settled", released |-> "released",
     reconciled_consumed |-> "reconciled", reconciled_unused |-> "released"]

\* Grant and request entry tell the same story, after every sequence of
\* activation, renewal, terminal report, expiry and reconciliation, and a
\* settled request is charged what the accepted report says.
GrantMatchesEntry ==
    \A r \in Relayed :
        /\ entries[r].state = EntryStateOf[grants[r].state]
        /\ grants[r].state = "settled" =>
              /\ grants[r].report.outcome = "settle"
              /\ entries[r].actual = grants[r].report.tokens

\* A relayed request occupies a place only while its grant is authorized or
\* attempted, and then under that grant's generation: a report, an expiry or a
\* reconciliation always frees the place, a late renewal never takes it again.
LeaseOnlyForLiveGrant ==
    \A l \in leases : l.req \in Relayed =>
        /\ grants[l.req].state \in {"authorized", "attempted"}
        /\ l.gen = grants[l.req].gen

\* A fenced setup request stays without grant, reservation and lease, however
\* late its admission arrives.
FenceHolds ==
    \A r \in fenced : entries[r].state = "absent" /\ grants[r].state = "none"

\* After the credential expired no callback changes the grant: only the
\* reconciliation or the wipe of a finalized day does.
ExpiredCredentialInert ==
    [][\A r \in Relayed :
          grants[r].state # "none" /\ now >= grants[r].cred /\ grants'[r] # grants[r]
          => \/ grants'[r].state \in {"reconciled_consumed", "reconciled_unused"}
             \/ finalized /\ grants'[r] = NoGrant]_vars

\* Every step of the relay is a step the ledger allows, or leaves it alone:
\* admitRelay reserves only where reserve would.
ImplementsLedger == LedgerSpec
=============================================================================
