----------------------------- MODULE ProxyRequest -----------------------------
(***************************************************************************)
(* handleProxy and proxyStream of the gateway worker: the life of a        *)
(* directly proxied request between its reservation and its settlement,    *)
(* against the QuotaController of the day.                                 *)
(*                                                                         *)
(* Every RPC is a step of its own. It is answered, or it throws at the     *)
(* caller, and then the controller has executed it or not; a stub delivers *)
(* the calls of its handler in order. The invocation can be killed between *)
(* any two steps. Authentication, parsing, model selection and             *)
(* tokenization write nothing: a request they reject never starts here.    *)
(***************************************************************************)
EXTENDS QuotaLedger, LeaseStore
LOCAL INSTANCE Functions

CONSTANTS
    Kinds,           \* requests by their path through handleProxy and the
                     \* answer they ask for
    MaxFaults,       \* RPCs that may throw, of all handlers together
    MaxTime,         \* bound on the clock, counted in renewal periods
    MaxGeneration    \* bound on the leases ever created

\* resolveInFlightLeaseTtlMs and resolveInFlightLeaseRenewalMs keep a lease at
\* four renewal periods or more.
ASSUME ProxyAssumption ==
    /\ LeaseTTL >= 4
    /\ Kinds \subseteq [route : {"legacy", "prepare"}, mode : {"json", "stream"}]
    /\ MaxFaults \in Nat /\ MaxTime \in Nat /\ MaxGeneration \in Nat

VARIABLES
    h,               \* the local variables of each request's handler
    sent,            \* requests whose upstream fetch was issued
    row              \* the audit row of each request in D1

proxyVars == <<h, sent, row>>
vars == <<ledgerVars, leaseVars, proxyVars>>

NoUsage == -1

\* "done": answered and finished; "escaped": an exception left handleProxy;
\* "dead": the invocation was killed.
Ended == {"done", "escaped", "dead"}

\* Where a handler is. The c steps are those of handleCompletedUpstream, the f
\* steps those of finalize and finalizeUncertain in proxyStream.
Location ==
    {"idle", "reserve", "retry", "markUnknown", "acquire", "abortLease", "abort",
     "refuse", "freeFailed", "call", "waiting", "mark", "freeUncertain",
     "cSettle", "cMissing", "cFree", "cMark", "cFreeLast",
     "streaming", "fSettle", "fMark", "fFree", "fUncertain", "fLast",
     "catch", "catchLease"} \cup Ended

\* route and mode select the path through the code, size and key are the
\* arguments of reserve. resv is reservationState, phase upstreamAttempted, gen
\* the held lease, usage the total_tokens seen upstream. due = 1: the handler
\* took no step since the current renewal period began.
Handler == [pc : Location, route : {k.route : k \in Kinds}, mode : {k.mode : k \in Kinds},
            size : Sizes, key : Keys \cup {NoKey},
            resv : {"none", "resolved", "unknown"}, phase : {"before", "attempted"},
            gen : Nat \cup {NoGeneration}, usage : Nat \cup {NoUsage},
            faults : Nat, due : 0..1]

NewHandler(kind, size, key) ==
    [pc |-> "idle", route |-> kind.route, mode |-> kind.mode, size |-> size, key |-> key,
     resv |-> "none", phase |-> "before", gen |-> NoGeneration, usage |-> NoUsage,
     faults |-> 0, due |-> 0]

RowStatus == {"none", "in_flight", "completed", "failed", "uncertain", "orphaned"}

ProxyInit ==
    /\ LedgerInit
    /\ legacy = {} /\ leases = {} /\ nextGeneration = 1 /\ now = 0
    /\ h \in [Requests -> {NewHandler(kind, size, key) :
                 kind \in Kinds, size \in Sizes, key \in Keys \cup {NoKey}}]
    /\ sent = {}
    /\ row = [r \in Requests |-> [status |-> "none", tokens |-> 0]]

-----------------------------------------------------------------------------
(* Steps and calls.                                                        *)

At(r, location) == h[r].pc = location

MayThrow == SumFunction([r \in Requests |-> h[r].faults]) < MaxFaults

\* The handler goes on at a location; an RPC threw and it goes on at another.
Goto(r, location) == h' = [h EXCEPT ![r].pc = location, ![r].due = 0]
Throws(r, location) ==
    /\ MayThrow
    /\ h' = [h EXCEPT ![r].pc = location, ![r].due = 0, ![r].faults = @ + 1]

\* A call that is best effort: whether or not it throws, the handler goes on.
\* The call itself is the conjunct before, unchanged state when not executed.
GoesOn(r, location) == Goto(r, location) \/ Throws(r, location)

\* Lifecycle RPCs: a repeated call is answered from its saved result, a call
\* for an unknown request is refused.
CallSettle(r, n) ==
    \/ Settle(r, n)
    \/ ~FirstCall(r, "settle") /\ UNCHANGED ledgerVars
CallMarkUncertain(r) ==
    \/ MarkUncertain(r)
    \/ ~FirstCall(r, "markUncertain") /\ UNCHANGED ledgerVars
CallRelease(r) ==
    \/ Release(r)
    \/ ~FirstCall(r, "release") /\ UNCHANGED ledgerVars
CallMarkUnknown(r) ==
    \/ MarkReserveOutcomeUnknown(r)
    \/ ~FirstCall(r, "markReserveOutcomeUnknown") /\ UNCHANGED ledgerVars

ReleaseHeld(r) == ReleaseLease(r, h[r].gen)

\* completeRequestAuditBestEffort: a final row is not touched, and an insert or
\* update that fails leaves the row as it is.
Audit(r, status, tokens) ==
    \/ UNCHANGED row
    \/ /\ row[r].status \in {"in_flight", "uncertain"}
       /\ row' = [row EXCEPT ![r] = [status |-> status, tokens |-> tokens]]

AuditNothing == UNCHANGED row

-----------------------------------------------------------------------------
(* Before the upstream call.                                               *)

\* The audit row is inserted; the request is rejected for its budget, or goes
\* on to its reservation.
Start(r) ==
    /\ At(r, "idle")
    /\ \/ /\ Goto(r, "reserve")
          /\ \/ UNCHANGED row
             \/ row' = [row EXCEPT ![r].status = "in_flight"]
       \/ /\ Goto(r, "done")
          /\ row' = [row EXCEPT ![r].status = "failed"]
    /\ UNCHANGED <<ledgerVars, leaseVars, sent>>

\* reserveFailClosed: the two attempts use the same arguments.
Outcome(r, limit) == ReserveOutcome(r, h[r].size, h[r].key, limit)
CallReserve(r, limit) ==
    \/ Outcome(r, limit) = "reserved" /\ PutReservation(r, h[r].size, h[r].key, limit)
    \/ Outcome(r, limit) # "reserved" /\ UNCHANGED ledgerVars

\* A prepared body may have timed out by now: the reservation is given back.
AfterReserve(r) == IF h[r].route = "prepare" THEN {"acquire", "abort"} ELSE {"acquire"}

ReserveAnswered(r) ==
    /\ At(r, "reserve") \/ At(r, "retry")
    /\ \E limit \in Limits :
          /\ CallReserve(r, limit)
          /\ \/ /\ Outcome(r, limit) \in {"reserved", "saved"}
                /\ \E next \in AfterReserve(r) :
                      h' = [h EXCEPT ![r].pc = next, ![r].resv = "resolved"]
                /\ AuditNothing
             \/ /\ Outcome(r, limit) \notin {"reserved", "saved"}
                /\ Goto(r, "done")
                /\ Audit(r, "failed", 0)
    /\ UNCHANGED <<leaseVars, sent>>

ReserveThrows(r) ==
    /\ \E limit \in Limits : CallReserve(r, limit) \/ UNCHANGED ledgerVars
    /\ \/ At(r, "reserve") /\ Throws(r, "retry")
       \/ /\ At(r, "retry")
          /\ MayThrow
          /\ h' = [h EXCEPT ![r].pc = "markUnknown", ![r].resv = "unknown",
                            ![r].faults = @ + 1]
    /\ UNCHANGED <<leaseVars, sent, row>>

\* rejectUnknownReservation
MarkUnknown(r) ==
    /\ At(r, "markUnknown")
    /\ \/ CallMarkUnknown(r) /\ GoesOn(r, "done")
       \/ UNCHANGED ledgerVars /\ Throws(r, "done")
    /\ Audit(r, "failed", 0)
    /\ UNCHANGED <<leaseVars, sent>>

\* By the time of the lease the prepared body may have timed out.
AfterAcquire(r) == IF h[r].route = "prepare" THEN {"call", "abortLease"} ELSE {"call"}
AfterRefusal(r) == IF h[r].route = "prepare" THEN {"refuse", "abort"} ELSE {"refuse"}

AcquireAnswered(r) ==
    /\ At(r, "acquire")
    /\ nextGeneration =< MaxGeneration
    /\ AcquireLease(r)
    /\ \/ \E l \in leases', next \in AfterAcquire(r) :
             /\ l.req = r
             /\ h' = [h EXCEPT ![r].pc = next, ![r].gen = l.gen]
       \/ /\ \A l \in leases' : l.req # r
          /\ \E next \in AfterRefusal(r) : Goto(r, next)
    /\ UNCHANGED <<ledgerVars, sent, row>>

AcquireThrows(r) ==
    /\ At(r, "acquire")
    /\ \/ nextGeneration =< MaxGeneration /\ AcquireLease(r)
       \/ UNCHANGED leaseVars
    /\ Throws(r, "catch")
    /\ UNCHANGED <<ledgerVars, sent, row>>

\* rejectPrepareTimeout: lease and reservation are given back, best effort.
AbortLease(r) ==
    /\ At(r, "abortLease")
    /\ \/ ReleaseHeld(r) /\ GoesOn(r, "abort")
       \/ UNCHANGED leaseVars /\ Throws(r, "abort")
    /\ UNCHANGED <<ledgerVars, sent, row>>

Abort(r) ==
    /\ At(r, "abort")
    /\ \/ CallRelease(r) /\ GoesOn(r, "done")
       \/ UNCHANGED ledgerVars /\ Throws(r, "done")
    /\ Audit(r, "failed", 0)
    /\ UNCHANGED <<leaseVars, sent>>

\* Faults: the reservation of a refused request is kept.
FaultRefuse(r) ==
    /\ At(r, "refuse")
    /\ UNCHANGED ledgerVars
    /\ h' = [h EXCEPT ![r].pc = IF h[r].gen = NoGeneration THEN "done" ELSE "freeFailed",
                      ![r].resv = "none", ![r].due = 0]
    /\ UNCHANGED <<row, leaseVars, sent>>

\* A known failure before upstream (no free place, invalid prepared prefix,
\* upstream configuration): the reservation is released, then the lease.
Refuse(r) ==
    /\ At(r, "refuse")
    /\ \/ /\ CallRelease(r)
          /\ h' = [h EXCEPT ![r].pc = IF h[r].gen = NoGeneration THEN "done" ELSE "freeFailed",
                            ![r].resv = "none", ![r].due = 0]
          /\ IF h[r].gen = NoGeneration THEN Audit(r, "failed", 0) ELSE AuditNothing
       \/ /\ CallRelease(r) \/ UNCHANGED ledgerVars
          /\ Throws(r, "catch")
          /\ AuditNothing
    /\ UNCHANGED <<leaseVars, sent>>

-----------------------------------------------------------------------------
(* The upstream call and a complete answer.                                *)

\* The preflight of a prepared body finds it invalid or throws when it cannot be
\* read; callUpstream rejects the configuration before the fetch, or issues the
\* fetch. The legacy path sets upstreamAttempted before the configuration is
\* looked at.
Call(r) ==
    /\ At(r, "call")
    /\ \/ /\ \/ Goto(r, "refuse")
             \/ h[r].route = "prepare" /\ Goto(r, "catch")
             \/ /\ h[r].route = "legacy"
                /\ h' = [h EXCEPT ![r].pc = "refuse", ![r].phase = "attempted", ![r].due = 0]
          /\ UNCHANGED sent
       \/ /\ h' = [h EXCEPT ![r].pc = "waiting", ![r].phase = "attempted", ![r].due = 0]
          /\ sent' = sent \cup {r}
    /\ UNCHANGED <<ledgerVars, leaseVars, row>>

\* The fetch throws, or the response is an error, unreadable, without usage,
\* with usage, or a stream.
Respond(r) ==
    /\ At(r, "waiting")
    /\ \/ Goto(r, "mark")
       \/ Goto(r, "cMark")
       \/ h[r].mode = "stream" /\ Goto(r, "streaming")
       \/ h[r].mode = "json" /\ Goto(r, "cMissing")
       \/ /\ h[r].mode = "json"
          /\ \E n \in Actuals :
                h' = [h EXCEPT ![r].pc = "cSettle", ![r].usage = n, ![r].due = 0]
    /\ UNCHANGED <<ledgerVars, leaseVars, sent, row>>

\* The upstream outcome is uncertain; an exception reaches the catch block.
Mark(r) ==
    /\ At(r, "mark")
    /\ \/ /\ CallMarkUncertain(r)
          /\ h' = [h EXCEPT ![r].pc = "freeUncertain", ![r].resv = "none", ![r].due = 0]
       \/ /\ CallMarkUncertain(r) \/ UNCHANGED ledgerVars
          /\ Throws(r, "catch")
    /\ UNCHANGED <<leaseVars, sent, row>>

\* The lease goes after the reservation was released or marked.
Free(r) ==
    /\ At(r, "freeFailed") \/ At(r, "freeUncertain")
    /\ \/ /\ ReleaseHeld(r)
          /\ Goto(r, "done")
          /\ Audit(r, IF At(r, "freeFailed") THEN "failed" ELSE "uncertain", 0)
       \/ /\ ReleaseHeld(r) \/ UNCHANGED leaseVars
          /\ Throws(r, "catch")
          /\ AuditNothing
    /\ UNCHANGED <<ledgerVars, sent>>

\* handleCompletedUpstream. Its promise is returned without being awaited, so
\* what it throws does not reach handleProxy's catch block.
CompletedSettle(r) ==
    /\ At(r, "cSettle")
    /\ \/ CallSettle(r, h[r].usage) /\ Goto(r, "cFree") /\ Audit(r, "completed", h[r].usage)
       \/ /\ CallSettle(r, h[r].usage) \/ UNCHANGED ledgerVars
          /\ Throws(r, "escaped")
          /\ AuditNothing
    /\ UNCHANGED <<leaseVars, sent>>

CompletedMark(r) ==
    /\ At(r, "cMissing") \/ At(r, "cMark")
    /\ \/ /\ CallMarkUncertain(r)
          /\ \/ At(r, "cMissing") /\ Goto(r, "cFree") /\ Audit(r, "uncertain", 0)
             \/ At(r, "cMark") /\ Goto(r, "cFreeLast") /\ AuditNothing
       \/ /\ CallMarkUncertain(r) \/ UNCHANGED ledgerVars
          /\ Throws(r, "escaped")
          /\ AuditNothing
    /\ UNCHANGED <<leaseVars, sent>>

CompletedFree(r) ==
    /\ At(r, "cFree") \/ At(r, "cFreeLast")
    /\ \/ /\ ReleaseHeld(r)
          /\ Goto(r, "done")
          /\ IF At(r, "cFreeLast") THEN Audit(r, "uncertain", 0) ELSE AuditNothing
       \/ /\ ReleaseHeld(r) \/ UNCHANGED leaseVars
          /\ Throws(r, "escaped")
          /\ AuditNothing
    /\ UNCHANGED <<ledgerVars, sent>>

-----------------------------------------------------------------------------
(* Streaming.                                                              *)

\* Fault: the timer fires but renews nothing.
FaultRenew(r) ==
    /\ At(r, "streaming") /\ h[r].due = 1
    /\ Goto(r, "streaming")
    /\ UNCHANGED <<leaseVars, ledgerVars, sent, row>>

\* renewLease, once per period: when the lease is gone or the call throws the
\* stream is aborted and finalized as uncertain.
Renew(r) ==
    /\ At(r, "streaming") /\ h[r].due = 1
    /\ \/ /\ RenewLease(r, h[r].gen)
          /\ \/ (\E l \in ActiveOf(r) : l.gen = h[r].gen) /\ Goto(r, "streaming")
             \/ (\A l \in ActiveOf(r) : l.gen # h[r].gen) /\ Goto(r, "fUncertain")
       \/ /\ RenewLease(r, h[r].gen) \/ UNCHANGED leaseVars
          /\ Throws(r, "fUncertain")
    /\ UNCHANGED <<ledgerVars, sent, row>>

\* The stream ends, with or without usage, or breaks off on either side.
StreamEnds(r) ==
    /\ At(r, "streaming")
    /\ \/ \E n \in Actuals :
             h' = [h EXCEPT ![r].pc = "fSettle", ![r].usage = n, ![r].due = 0]
       \/ Goto(r, "fMark")
       \/ Goto(r, "fUncertain")
    /\ UNCHANGED <<ledgerVars, leaseVars, sent, row>>

\* finalize: an exception is answered by finalizeUncertain.
FinalizeOutcome(r) ==
    /\ \/ /\ At(r, "fSettle")
          /\ \/ CallSettle(r, h[r].usage) /\ Goto(r, "fFree") /\ Audit(r, "completed", h[r].usage)
             \/ /\ CallSettle(r, h[r].usage) \/ UNCHANGED ledgerVars
                /\ Throws(r, "fUncertain") /\ AuditNothing
       \/ /\ At(r, "fMark")
          /\ \/ CallMarkUncertain(r) /\ Goto(r, "fFree") /\ Audit(r, "uncertain", 0)
             \/ /\ CallMarkUncertain(r) \/ UNCHANGED ledgerVars
                /\ Throws(r, "fUncertain") /\ AuditNothing
    /\ UNCHANGED <<leaseVars, sent>>

FinalizeLease(r) ==
    /\ At(r, "fFree")
    /\ \/ ReleaseHeld(r) /\ Goto(r, "done")
       \/ (ReleaseHeld(r) \/ UNCHANGED leaseVars) /\ Throws(r, "fUncertain")
    /\ UNCHANGED <<ledgerVars, sent, row>>

\* finalizeUncertain: every call is made, whatever the one before it did.
FinalizeUncertain(r) ==
    \/ /\ At(r, "fUncertain")
       /\ \/ CallMarkUncertain(r) /\ GoesOn(r, "fLast")
          \/ UNCHANGED ledgerVars /\ Throws(r, "fLast")
       /\ Audit(r, "uncertain", 0)
       /\ UNCHANGED <<leaseVars, sent>>
    \/ /\ At(r, "fLast")
       /\ \/ ReleaseHeld(r) /\ GoesOn(r, "done")
          \/ UNCHANGED leaseVars /\ Throws(r, "done")
       /\ UNCHANGED <<ledgerVars, sent, row>>

-----------------------------------------------------------------------------
(* The catch block of handleProxy.                                         *)

\* Fault: every exception is taken for one before upstream.
FaultCatchStatus(r) == "failed"

CatchStatus(r) == IF h[r].phase = "attempted" THEN "uncertain" ELSE "failed"

\* Faults: the reservation is released after an attempt too; or left alone.
FaultCatchReleases(r) == CallRelease(r)
FaultCatchNothing(r) == UNCHANGED ledgerVars

\* What a reservation whose request may have reached upstream becomes.
CatchQuota(r) ==
    \/ h[r].resv = "resolved" /\ h[r].phase = "attempted" /\ CallMarkUncertain(r)
    \/ h[r].resv = "resolved" /\ h[r].phase = "before" /\ CallRelease(r)
    \/ h[r].resv = "none" /\ UNCHANGED ledgerVars

AfterCatch(r) == IF h[r].gen = NoGeneration THEN "done" ELSE "catchLease"

\* An unknown reservation is answered before anything can throw.
Catch(r) ==
    /\ At(r, "catch")
    /\ \/ CatchQuota(r) /\ GoesOn(r, AfterCatch(r))
       \/ h[r].resv = "resolved" /\ UNCHANGED ledgerVars /\ Throws(r, AfterCatch(r))
    /\ IF AfterCatch(r) = "done" THEN Audit(r, CatchStatus(r), 0) ELSE AuditNothing
    /\ UNCHANGED <<leaseVars, sent>>

CatchLease(r) ==
    /\ At(r, "catchLease") /\ h[r].gen # NoGeneration
    /\ \/ ReleaseHeld(r) /\ GoesOn(r, "done")
       \/ UNCHANGED leaseVars /\ Throws(r, "done")
    /\ Audit(r, CatchStatus(r), 0)
    /\ UNCHANGED <<ledgerVars, sent>>

-----------------------------------------------------------------------------
(* The specification.                                                      *)

\* A started handler's own step.
HandlerStep(r) ==
    \/ ReserveAnswered(r) \/ ReserveThrows(r) \/ MarkUnknown(r)
    \/ AcquireAnswered(r) \/ AcquireThrows(r) \/ AbortLease(r) \/ Abort(r) \/ Refuse(r)
    \/ Call(r) \/ Respond(r) \/ Mark(r) \/ Free(r)
    \/ CompletedSettle(r) \/ CompletedMark(r) \/ CompletedFree(r)
    \/ StreamEnds(r) \/ FinalizeOutcome(r) \/ FinalizeLease(r) \/ FinalizeUncertain(r)
    \/ Catch(r) \/ CatchLease(r)

\* The invocation is killed: nothing more happens on its behalf.
Killed(r) ==
    /\ h[r].pc \notin Ended \cup {"idle"}
    /\ Goto(r, "dead")
    /\ UNCHANGED <<ledgerVars, leaseVars, sent, row>>

\* One renewal period (30 s). A handler with a lease takes a step within every
\* period: the renewal timer fires, the upstream timeout (25 s) is shorter.
Tick ==
    /\ now < MaxTime
    /\ \A r \in Requests : h[r].due = 0
    /\ now' = now + 1
    /\ h' = [r \in Requests |->
               IF h[r].gen # NoGeneration /\ h[r].pc \notin Ended
               THEN [h[r] EXCEPT !.due = 1] ELSE h[r]]
    /\ UNCHANGED <<ledgerVars, legacy, leases, nextGeneration, sent, row>>

ProxyNext ==
    \/ \E r \in Requests : Start(r) \/ HandlerStep(r) \/ Renew(r) \/ Killed(r)
    \/ Tick

\* No fairness: how long upstream takes and streams is not for the handler to
\* decide.
ProxySpec == ProxyInit /\ [][ProxyNext]_vars
-----------------------------------------------------------------------------
(* Properties.                                                             *)

\* The ledger, the leases, the handlers and the audit rows have their types;
\* no legacy id is ever stored by the current code.
ProxyTypeOK ==
    /\ LedgerTypeOK
    /\ legacy = {} /\ leases \in SUBSET LeaseIn(Requests)
    /\ nextGeneration \in Nat /\ now \in Nat
    /\ h \in [Requests -> Handler]
    /\ sent \in SUBSET Requests
    /\ row \in [Requests -> [status : RowStatus, tokens : Nat]]

\* What the contract sees of a request.
AccountOf(r) ==
    CASE entries[r].state = "absent" -> "none"
      [] entries[r].state = "reserved" -> "held"
      [] entries[r].state = "settled" -> "charged"
      [] entries[r].state = "released" -> "free"
      [] OTHER -> "doubt"

Contract == INSTANCE AccountedRequest
              WITH account <- [r \in Requests |-> AccountOf(r)]

\* The direct route keeps the contract, however many RPCs throw: nothing is sent
\* without tokens held for it, tokens are given back only if the upstream fetch
\* was never issued, and usage is charged once.
ImplementsContract == Contract!ContractSpec

\* No more upstream calls run at a time than MAX_IN_FLIGHT_REQUESTS allows: a
\* lease that cannot be kept ends its stream before the place is given away.
UpstreamConcurrencyBounded ==
    Cardinality({r \in Requests : h[r].pc \in {"waiting", "streaming"}}) =< MaxInFlight

\* A handler whose RPCs all succeeded leaves nothing behind: no open
\* reservation, no lease, and usage that upstream reported is confirmed.
CleanExit ==
    \A r \in Requests :
        At(r, "done") /\ h[r].faults = 0 =>
            /\ entries[r].state # "reserved"
            /\ \A l \in leases : l.req # r
            /\ h[r].usage # NoUsage =>
                  entries[r].state = "settled" /\ entries[r].actual = h[r].usage

\* The outcome of a non-streaming request that was sent upstream is settled or
\* uncertain when its handler has answered, also when one RPC threw.
OutcomeKnown(r) == entries[r].state \in {"settled", "uncertain"}
AnsweredIsAccounted ==
    \A r \in sent : At(r, "done") /\ h[r].mode = "json" /\ h[r].faults =< 1 => OutcomeKnown(r)

\* SPEC.md: "An outcome that may have reached the upstream but cannot be
\* accounted exactly transitions to uncertain." The same for handlers that end
\* by an exception.
OutcomeBecomesUncertain ==
    \A r \in sent :
        h[r].pc \in {"done", "escaped"} /\ h[r].mode = "json" /\ h[r].faults =< 1 => OutcomeKnown(r)

\* The audit row does not contradict the ledger: completed rows carry the
\* settled tokens, and a failed row, which nothing overwrites and the
\* reconciliation counts as zero, is never that of a request sent upstream.
AuditTellsOutcome ==
    \A r \in Requests :
        /\ row[r].status = "completed" =>
              entries[r].state = "settled" /\ entries[r].actual = row[r].tokens
        /\ row[r].status = "failed" => r \notin sent
=============================================================================
