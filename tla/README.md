# octg: a TLA+ development

octg is a gateway between API clients and OpenAI that keeps every client within
daily token pools. The modules here model the part of it that must not go wrong:
the accounting of tokens per pool and day, the places for concurrent requests,
the three routes of a request to upstream (direct, prepared by Deno, relayed by
Deno), what happens to its body and its usage on the way, how a day's books are
closed, and the gate that measures the relay in production. TLC checks the modules
on small instances; TLAPS proves the central results for every value of the
constants. `PROJECT.json` lists components, runs, mutants, hazards and theorems,
and maps each definition to the lines it models.

    tlc -workers 2 -config MCQuotaLedger.cfg MCQuotaLedger     # one run
    tlapm QuotaLedgerProofs.tla                                # one set of proofs

## 1. The system

| Part | State it keeps | Operations |
|---|---|---|
| **QuotaController**, a Durable Object per (pool, UTC day): `durable-objects/quota-controller` | pool counters, one entry per request, unresolved counters, idempotency map, finalize mark, in-flight leases, relay grants, CPU-gate fences | `reserve`, `settle`, `markUncertain`, `markReserveOutcomeUnknown`, `release`, `reconcileRequest`, `finalizeDay`; acquire, renew, release of a lease; `admitRelay`, `activateRelay`, `renewRelay`, `finishRelay`; fence and inspection |
| **CPU-gate slot**, one object: `relay-cpu-gate-slot.ts` | owner, generation, idle/held/closing | claim, close in two transactions |
| **Gateway worker**: `apps/gateway-worker` | the local variables of its handlers, caches of policies and of the model registry per isolate | proxying (`proxy.ts`, `stream.ts`), the prepare call and its body, reservation with retry, relay ingress, decision and callbacks, CPU-gate routes, admin API, cron |
| **Deno service**: `apps/deno-tokenizer` | one invocation per relayed request | `/tokenize`, `/prepare`, `/relay`: decide, activate, fetch, forward, renew, report |
| **Tokenizer object**: `durable-objects/tokenizer-controller` | a lazily built encoder | token counts, or an estimate from bytes |
| **Shared code**: `packages/shared` | none | normalization, budget, usage extraction, JSON and error rules |
| **D1** | audit rows of requests, registry, policies, `reconciliations`, `daily_usage` | SQL from the gateway |
| **CPU-gate runner**: `scripts/run-relay-cpu-gate.mjs`, `relay-cpu-operation.mjs` | a journal on disk, per host | set up, measure, terminalize, close and recover fixtures |

Interactions. The gateway calls the controller by RPC. Each RPC is one storage
transaction, hence one action of the models; `finalizeDay` and the close of the
slot alone are a transaction followed by separate steps. A direct request goes
reserve, acquire a lease, call upstream (renewing the lease while it streams),
then settle, mark uncertain or release, then write its audit row. On the prepare
route Deno has normalized the body before, and its response stays open until the
gateway passes it on, with the granted output limit in the place of a marker. A
relayed request is handed to Deno, which asks the gateway for a decision
(reservation, lease and grant in one transaction), then calls back with a signed
credential to activate, renew and report. The cron of 00:05 UTC reconciles
yesterday against OpenAI's Usage API and finalizes days up to the day before
yesterday; an operator can start the same reconciliation and resolve
`reserve_unknown` requests by hand. The CPU-gate runner drives the relay's
callbacks for fixtures of zero tokens through routes of their own.

What is hard. RPCs and callbacks whose answer is lost although they were executed;
invocations killed between two of them; handlers, callbacks, cron, operators and
runners acting on one request in any order; leases, credentials, prepare timers and
cache entries that expire under their user; state read before a slow call and used
after it; a wipe that fails after its commit; bodies and streams that arrive cut
at any byte. The full list, each at its line, is `hazards` in `PROJECT.json`.

What makes the parts correct:

- *ledger*: counters equal what the entries say; the pool is overcommitted only by
  what settlements exceed their reservations; an outcome once accounted is final;
  one live request per idempotency key; a final day has no open reservation;
- *leases*: never more than the limit; a holder keeps its place until it expires
  or is given back; an expired lease does not come back;
- *relay*: grant and entry agree; a request is fetched at most once, after a
  confirmed activation; an attempt's tokens are not given back by a report; an
  expired credential changes nothing; an exchange holds its lease and ends;
- *gateway*: one contract on every route (section 2, `AccountedRequest`); an
  answered request is accounted for; a request answered without upstream has given
  up its prepared body; one whose prepare timer fired is not sent; the audit row
  tells what the ledger says; no row of policy or registry is used longer than its
  TTL after an edit;
- *data path*: the same verdict on every route, upstream gets what was counted, the
  grant covers it, the prepared bytes are exact, both readers find the same usage;
- *closing a day*: a done day has nothing pending; an operator's verdict stands; no
  verdict gives back tokens that may have been spent; a done day is deleted;
- *CPU gate*: one fixture at a time; the slot always comes free again.

## 2. Modules

| Module | Extends | Proofs |
|---|---|---|
| `QuotaLedger` | | `QuotaLedgerProofs` |
| `LeaseStore` | | |
| `InFlight` | `LeaseStore` | `InFlightProofs` |
| `RelayGrants` | `QuotaLedger`, `LeaseStore` | `RelayGrantsProofs` |
| `Reconciliation` | `QuotaLedger` | `ReconciliationProofs` |
| `AccountedRequest` | | |
| `ProxyRequest` | `QuotaLedger`, `LeaseStore` | in `GatewayProofs` |
| `PolicyCache` | | |
| `Gateway` | `ProxyRequest`, `PolicyCache` | `GatewayProofs` |
| `TokenBudget` | | in `DataPathProofs` |
| `RelayExchange` | `RelayGrants`, `TokenBudget` | `RelayExchangeProofs` |
| `CpuGate` | `RelayGrants` | `CpuGateProofs` |
| `Normalize`, `Tokenization`, `Ingress` | each the one before | in `DataPathProofs` |
| `PreparedBody`, `UsageReaders` | | in `DataPathProofs` |
| `DataPath` | `Ingress`, `TokenBudget`, `PreparedBody`, `UsageReaders` | `DataPathProofs` |

`QuotaLedger` and `LeaseStore` are the two records of the Durable Object; the
modules that extend them use their operations unchanged. `MC*` modules only define
sizes, inputs and symmetry. Definitions named `Fault...` are plausible bugs of the
definition that follows; no specification uses them: the mutants put them in to
show that a property depends on the code.

**Refinements.** `RelayGrants` implements `QuotaLedger` (`ImplementsLedger`, checked
and proved); `Reconciliation`, `ProxyRequest` and `Gateway` do too, and
`RelayExchange` implements `RelayGrants` (proved). `AccountedRequest` is the abstract specification
of a request: tokens are held before anything is sent, it is sent at most once,
charged only if sent, never given back if it may have been sent, and a closed
account stays closed. `ProxyRequest`, `Gateway` and `RelayExchange` implement it
(`ImplementsContract`, checked for the first and the last, proved for all three),
each under its own mapping of ledger states to accounts.

**QuotaLedger** (`quota-controller.ts`, `quota-lifecycle.ts`, `store.ts`).
`pool`, `entries`, `unresolved`, `idem`, `finalized` are the stored records;
`finalizing` says that a `finalizeDay` is between its transaction and `deleteAll`.
Each lifecycle operation keeps its saved answer in the entry (`saved`), so a
repeated call is a stuttering step, as in the code. `Fits` is the admission test
with the change to the upper bound at 5 % of the pool. `Vacate` and `Resolve` keep
the code's `Math.max(0, ..)`: that it never hides anything is a result, not an
assumption.

**LeaseStore, InFlight** (`store.ts`). Leases with generation and expiry, and
the legacy list of ids that is migrated on first touch. In `InFlight` every call
may be stale or repeated; `told` remembers what callers were promised.

**RelayGrants** (`relay-admission.ts`, `relay-grant.ts`,
`relay-grant-lifecycle.ts`). Admission, activation, renewal, terminal reports, the
fence and the reconciliation hook. Callbacks carry any credential ever signed for
the request, so loss, delay and repetition of messages are all there. `DirectStep`
lets directly proxied requests share pool, key and places.

**RelayExchange** (`relay-client.ts`, `relay-decision-controller.ts`,
`relay-callback.ts`, Deno's `relay.ts` and `relay-usage.ts`). `call` is an
invocation of `handleRelay`; `posted` holds the callbacks that were sent and not
executed. A sender waits or gives up, and either way the callback is executed now,
later or never. The ingress may reach Deno twice. A decision reads the remaining
quota, computes a budget with `TokenBudget` and admits in a later step. `Period` is
a renewal period, in which a running exchange renews or is cut off.

**ProxyRequest** (`proxy.ts`, `stream.ts`, `quota-reservation.ts`, `db.ts`). One
step per RPC or upstream event of `handleProxy` and `proxyStream`. Every RPC is
answered or throws, and when it throws it was executed or not. `Killed` ends an
invocation between any two steps. `h[r].pc` names the place in the code, `sent`
records the upstream fetches issued.

**PolicyCache, Gateway** (`policy.ts`, `models.ts`, `admin.ts`,
`deno-prepare-client.ts`, the first half of `proxy.ts`). A cache entry is filled
in a later step than its query was answered; an edit empties the caches of one
isolate only. `Gateway` puts everything before the reservation in front of
`ProxyRequest`: route selection, the prepare call and its timer, which may fire
during any await, the loads, the budget, and the prepared body, which is open,
given up or handed to upstream.

**CpuGate** (`relay-cpu-gate.ts`, `relay-cpu-gate-slot.ts`,
`run-relay-cpu-gate.mjs`, `relay-cpu-operation.mjs`). Setup and close routes are
processes of their own, one step per RPC, that outlive the runner's interest in
them. A runner follows the scripts' functions: recovery of whoever owns the slot,
then of its journal; a series of setup, proof of ownership, measurement, terminal
report and close. Lost answers, failing calls and crashes are counted by
`disturbances`. A series that keeps its fixture to the end has one attempt less to
close it; here it has them all, or crashes before the last. The daily wipe that
would also remove a fence is not a step of the gate.

**Normalize, Tokenization, Ingress** (`normalize.ts`, `estimator.ts`,
`tokenization-routing.ts`, `deno-tokenizer-client.ts`, Deno's `http.ts`,
`request-body.ts`, `relay-json.ts`, `prepare-contract.ts`). Pure functions, as
operators: which bodies are accepted, what of them is counted, which tokenizer or
fallback counts it, and how each service's answer becomes a public error. A text is
its length and its exact number of tokens.

**PreparedBody, UsageReaders** (`prepared-body.ts`, `stream.ts`, `usage.ts`,
`relay-usage.ts`). Two small machines over chunked bytes: the replacement of the
marker at the beginning of the prepared body, and the two readers of usage, one per
event, one in a ring of the most recent bytes that wraps.

**DataPath** composes them: one request takes any of the routes, is judged,
tokenized, granted, rewritten, sent and read.

**Reconciliation** (`reconcile.ts`, `scheduled.ts`, the two ledger routes of
`admin.ts`). Every read and write of the controller or D1 is a step of
`runReconciliation`, of an operator call or of the scheduled finalization, and
any invocation may be lost between two. The Usage API answers any number of
`Usages`. Handlers of late requests are those of `ProxyRequest` reduced to what
they do to the entry and the row.

## 3. Runs

| Run | Instance | States | Shows |
|---|---|---|---|
| `ledger` | 2 requests, 1 key, limits 20 and 21, sizes (19,20) and (1,2), usage 0 or 20 | 495 k | All orders of the quota RPCs, late, repeated and around a failing wipe, keep `LedgerBalanced`, `OvercommitOnlyByExcess`, `IdempotencyExclusive`, `FinalizedMeansResolved`, `OutcomesAreFinal`, `StrictAdmissionCovered` |
| `in_flight` | 3 requests, 2 places, TTL 2, 4 ticks, 4 generations | 6 k | `InFlightBounded`, `LeaseHeldUntilExpiry`, `ExpiredStaysExpired` from every legacy record |
| `relay` | 1 relayed and 1 direct request, 1 key, 1 place, TTLs 2, 3, 4 | 993 k | `GrantMatchesEntry`, `LeaseOnlyForLiveGrant`, `FenceHolds`, `ExpiredCredentialInert`, `ImplementsLedger` |
| `exchange` | 1 request whose ingress reaches Deno twice, 1 place, 2 limits, lease of 3 periods | 767 k | `FetchedOnce`, `ReportedOnce`, `ExchangeHoldsLease`, `ImplementsContract`, `ExchangeEnds` (liveness) |
| `proxy` | 2 requests (legacy JSON, prepared stream), 1 place, lease of 4 periods, 2 faults | 2.8 M | `UpstreamConcurrencyBounded`, `CleanExit`, `AnsweredIsAccounted`, `AuditTellsOutcome`, `ImplementsContract` |
| `gateway` | 1 request, JSON or streaming, on either route, 2 isolates, 1 other loader, edits, 2 disturbances | 926 k | `BodyClosedBeforeAnswer`, `TimedOutNeverSent`, `SentUnderRecentRows` |
| `data_path` | requests of every shape, 4 amounts left, all chunkings of short bodies and streams | 479 k | `RoutesAgree`, `UpstreamFormCounted`, `GrantCovered`, `PreparedBytesExact`, `SameUsage` |
| `reconcile` | 1 request, 1 run, 2 operators, usage 0 to 2 | 118 k | `CompletedIsCharged`, `GivenBackNeverUsed`, `OperatorVerdictsHold`, `ClosedDayIsEmpty`, `DoneDayIsDeleted` (liveness) |
| `gate` | 1 host, 2 operations, 2 disturbances | 443 k | `LiveFixtureOwnsSlot`, `SlotComesFree` (liveness) |
| `proxy_escape` | 1 request, 1 fault | violation | see the findings |
| `reconcile_early` | 1 request, 1 run, 1 operator, runs in the grace period too | violation | see the findings |
| `gate_close` | 2 hosts, 2 operations, nothing fails | violation | see the findings |

Deadlock is checked except where every handler, run, operator call or exchange may
have ended and the system may really stop: `proxy`, `gateway`, `exchange`,
`data_path` and the reconcile runs.

**Why the bounds are enough.** The operations of the ledger look at one entry, at
the entry its key leads to, and at the counters, so two requests and one key show
every interaction of a pair; the proofs extend the result to any number. The
limits and sizes sit on both sides of the 5 % boundary, where 19 of 20 and 19 of
21 reserved tokens fall into different tiers, and usage 20 exceeds a reservation.
Three requests for two places let one of them take a place another lost. The clock
runs past both relay expiries and the finalization, or past a lease that was not
renewed. Time only matters by order, so small numbers keep the code's relations:
authorization (3,600,000 ms) before credential (3,900,000 ms) before finalization
(`FinalizeFrom >= AdmitUntil + CredTTL`, since the cron finalizes only the day
before yesterday), lease = 4 renewal periods (120,000 and 30,000 ms), upstream
timeout (25 s) shorter than a renewal period. In `exchange` the two limits give a
repeated decision another budget than the first; its safety was also checked with
setups that straddle two periods and longer leases and credentials (`SetupPeriods` 2,
`LeaseTTL` and `AuthTTL` 4, `CredTTL` 5; 1.8 M states), and the theorems hold for any.
In `proxy` the two faults fall on one handler, which is what an unknown reservation
takes, or on both; the other two combinations of route and mode are part of
`gateway`, with two faults as well. In
`data_path` the lengths lie on both sides of every threshold (bytes at which Deno
is asked, work limit, prefix, ring), and the bodies include each branch of the two
normalizations, alone and followed by a second item. `reconcile` has two operators
because their verdicts may conflict; with two runs and one operator it was also
checked (415 k states), and for any number of runs `ClosedDayIsEmpty` is proved.
In `gate` one host is enough for liveness against its own calls left behind; safety
holds with two hosts as well (7.4 M states) and is proved for any number.
`MaxFaults`, `MaxDisturbances`, `MaxTime`, `MaxGeneration`, `MaxRest`, `MaxEvents`
bound what the code leaves unbounded and appear in guards only.

**Fairness.** The safety results use none.

- `ProxySpec`, `GatewaySpec`: none, and no liveness is claimed. A handler's end
  depends on upstream: nothing in the worker limits how long a direct stream lasts.
- `ExchangeSpec`: weak fairness of an invocation's own steps (the event loop runs
  it, and its callbacks are answered or time out), and of the renewal period, whose
  timer fires. An upstream that never ends its stream is allowed: it
  is the renewal that cuts it off. No callback has to be executed.
- `ReconSpec`: weak fairness of the phases of the day (time passes), of a started
  run's steps and of the daily selection; strong fairness of the steps of the
  finalization: the job is repeated every day and may be lost at any step, but not
  every day at the same one.
- `FairCpuGateSpec`: weak fairness of setups and closes that arrived, of a runner's
  next step and of its restart. Every mode of the runner begins with the shared
  recovery and `recover-operation` does nothing else, so a slot left behind is what
  the next start is for; that somebody starts it is assumed. Nobody has to begin a
  series.

**Assumptions.** A stub delivers the calls of one handler in order, and a call
that threw was executed before or never. In the passing reconcile run a run
starts in the phase `closing` (`RunPhases = {"closing"}`): the cron starts five
minutes after midnight, when no request of the old day still reserves. `POST
/admin/reconcile` has no such guard. A run that an operator starts in the minutes
before is outside these results: TLC then violates `CompletedIsCharged`,
`OperatorVerdictsHold`, `ClosedDayIsEmpty` and `DoneDayIsDeleted`, as one expects of
requests that still settle and mark behind the run's snapshot. `GivenBackNeverUsed`
does not depend on it (240 k states with runs in both phases, and proved without the
hypothesis), nor do the ledger's results. The encoder never gives more
tokens than bytes (`EncoderAssumption`, an external fact `GrantCovered` rests on).
A fixture's usage is zero.

The constants keep relations of the code that the proofs need and TLC evaluates.
`ProxyAssumption`: a lease is at least 4 renewal periods. `ExchangeAssumption`:
getting from the decision to a running exchange takes `SetupPeriods`, at most 45 s of
30 s periods, so it leaves more than one period of the lease and ends before the
credential does. `BudgetsAssumption`: `Sizes` has every budget a decision can
compute for the modelled request; `MCRelayExchange` defines `Sizes` from them.
`RelayAssumption`: the order of expiries given above.

### Findings

- `proxy_escape`: `handleProxy` returns `handleCompletedUpstream(..)` without
  `await`, so an RPC that throws in it bypasses the catch block that would mark the
  request uncertain. The reservation stays `reserved` until reconciliation;
  SPEC.md:449 says that such an outcome "transitions to `uncertain`".
- `reconcile_early`: `runReconciliation` filters `reserve_unknown` requests out of a
  snapshot, then awaits the Usage API and reconciles without looking again. Started
  by hand just after midnight, it can consume a request that was marked
  `reserve_unknown` meanwhile; SPEC.md:592 and 602 exclude these from automatic
  inference.
- `gate_close`: `closeOwnedOperation` reads the slot, finds its own operation, and
  lets `recoverSharedOperation` read the slot again and recover whoever owns it
  then. If another host's recovery frees the slot in between and claims it, that
  host's operation is fenced, reconciled and closed, although the comment above
  (relay-cpu-operation.mjs:56) says "a concurrently claimed different owner is
  untouched". One fixture at a time still holds.

### Observations

Met while modelling; no document contradicts them, and the properties say exactly
how far they go.

- *Relay.* A repeated ingress that is told `grant_replayed` reports the request as
  uncertain and frees the lease of the first invocation; a late repeated decision
  takes over an ageing lease. Hence `ExchangeHoldsLease` is about requests that
  reached Deno once. A repeated decision recomputes its budget from what its own
  admission left, so it may be denied instead of being answered from the saved
  admission (relay-decision-controller.ts:160-183).
- *Verdicts.* The relay's strict parser refuses bodies `JSON.parse` accepts
  (a key twice, invalid UTF-8), with the same status. A body with a property named
  like an array index gets 500 on `/prepare`; an over-long unknown model name gets
  500 on both Deno routes instead of 403. The work limit of the tokenizer object
  refuses (413) requests that the Deno routes accept. `RoutesAgree` names these.
- *Prepared body.* A second marker is noticed only within the same chunk.
- *Usage.* A usage event larger than the relay's tail ends uncertain on the relay
  and is found on the direct route; with several usage events the reported one can
  depend on the chunking. `SameUsage` is for one event that fits the tail.

## 4. Proofs

All are for any finite set of requests, any keys, limits, sizes and usages, from
the named assumptions of the modules.

**QuotaLedgerProofs.** The seven ledger properties. Sums are cardinalities of sets
of units (`Total`), so the theorems on finite sets apply instead of an induction:
`TotalAdd` and `TotalRemove` say what a request contributes, `SumsChange` what a
step that touches one entry does to all sums. `Accounted(r)` is the core of the
argument: the step changes only r's entry, and every counter by r's share before
and after. Each operation is shown to be accounted, and
`AccountedKeepsBalance` does the rest. `LedgerInv` is the inductive invariant: the
types, the balance, the overcommitment bound and finalization, plus `KeysMapped`
(a live entry with a key is the one its key leads to) without which `reserve` could
overwrite an entry, and `finalizing => finalized` without which a wipe could hit an
open day. `OutcomesAreFinal` and `StrictAdmissionCovered` are action properties
from the same invariant.

**InFlightProofs.** `InFlightAlwaysBounded`, `LeasesAreUnique`, `LeasesAreKept`,
`ExpiryIsFinal`, for any number of requests, places and generations and from any
legacy record. The inductive invariant `LeaseInv` adds to the types that every
generation is below the next one, that a request has one lease, that legacy record
and leases each fit the limit and are never both there, and that what callers were
told has not expired; if a generation could be given out again, a stale release
could hit a later lease.

**RelayGrantsProofs.** `RelayRefinesLedger`: the relay specification implements the
ledger's, since what `admitRelay` checks implies what `reserve` checks and every
transition inside a relay transaction is a ledger operation. `RelayKeepsBooks`
carries the ledger's results over. `GrantsMatchEntries`, `LeasesFollowGrants` and
`FencesHold` follow from `RelayInv`, which is inductive above `LedgerInv`. Its core is
`Paired(r)`: the entry has the state that the grant's state stands for, a settled
grant was reported with the usage that is charged, and a live grant's entry has no
saved answer. Without the last part a report could find an old answer of its
operation in the entry, change the grant and leave the entry as it was.
`ExpiredCredentialsInert` is the action property from the same invariant.
`HistoryInv` ties grants to what happened before: a grant's generation was signed,
and one that is authorized or was released has not been activated; `ActivatedOnce`
follows.

**RelayExchangeProofs.** The relay route end to end, for any number of requests, of
invocations per request and of callbacks under way: `ExchangeRefinesRelay`, so what
is proved of `QuotaLedger` and `RelayGrants` holds here (`ExchangeKeepsBooks`,
`ExchangeKeepsGrants`), `FetchesAreOnce`, `ReportsAreOnce`, `ExchangesHoldLeases` and
`ExchangeImplementsContract`. `ExchangeInv` adds to the relay's invariant:
`CallInv` (what an invocation has fetched, posted and reported at each of its
locations); `LaunchInv` (of the invocations of a request at most one has fetched or
may still fetch, and it needs a confirmed activation: `FetchedOnce` itself does not
say that the second one cannot come); and `HoldInv` (an invocation that is alone has
a lease for as many more periods as it may run without renewing it, counted from
its age while it sets up). For the contract a grant's state tells the account
(`AccountFor`), so each step is looked at by what it does to one grant. What the
contract says of the records themselves is `ExchangeSpendsWhatItSends`: a grant that
a report gave back was never fetched, and only what was fetched is charged.

**GatewayProofs**, its first half about `ProxyRequest`: `ProxyUsesLedger` and with it
`ProxyKeepsBooks`, `ExitsAreClean`, `AnswersAreAccounted`, `AuditRowsAgree`,
`UpstreamIsBounded` and `ProxyImplementsContract`, for any number of handlers and of
failing RPCs. `ProxyInv` is the ledger's invariant, the types
and two facts per request. `RequestInv` says what the entry, the local variables
and the row are at each location: `EntryInv` (what may have become of the
reservation), `LocalInv` (what the handler knows of it), `CatchInv` (what is left for
the catch block after which failures) and `ExitInv` (what is there when it is done).
`PlaceInv` is about the lease: a handler on its way to or at upstream has one of its
own generation, whose remaining time is at least the TTL less the periods since it
was renewed. Each of these running calls has its own lease in the record, and the
record is within the limit. For the contract the step of a handler is one of the
account's moves (`Allowed`).

The second half is the same from the first line of `handleProxy`
(`GatewayKeepsProxy`, `GatewayUsesLedger`, `GatewayImplementsContract` and, from it,
`GatewaySpendsWhatItSends`), and `BodiesAreGivenUp`,
`TimeoutsStopRequests` and `RowsAreRecent`, for any number of isolates, loaders and
edits. `GatewayInv` is `ProxyInv` with `CacheInv`, `LoadInv`, `BodyInv` and
`RecentInv`. `CacheInv` bounds the end of a cache entry by the time its table last
held the entry's value, for queries that are answered and not yet cached as well:
a load that is answered before an edit and cached after it is the case that breaks
a weaker statement. `BodyInv` says where a prepared body is given up, and that a
handler whose timer fired is not at the call. `RecentInv` carries what a load found
to the moment the request is sent. A step is one of the front, of `ProxyRequest`
or of the cache, and each part of the invariant is about one of them.

**CpuGateProofs.** `OneFixtureAtATime` (`LiveFixtureOwnsSlot`) for any number of
hosts and operations. `GateInv` says that an operation that `Holds` (a live fixture,
or a setup past its claim that no fence stops) owns a slot that is not idle, that a
setup which has not been admitted left no grant, and that a close about to free the
slot has seen its operation `Over`: no fixture, and no way to get one, because it is
fenced or its grant is terminal. Except for the admission every step `Settles` the
grants: only a live grant moves and none disappears, so what is over stays over.
`SettlingStep` turns this into preservation for every step of runners, setups and
closes; the admission itself (`AdmitStep`) is allowed because an inspected setup
without a fence already held the slot. The property alone is not inductive: it says
nothing of setups between claim and inspection, nor of closes between their
inspection and their second transaction.

**ReconciliationProofs.** `ReconTypeCorrect`; `ReconRefinesLedger` and
`ReconKeepsBooks`, as above, with any number of runs and operators; and
`ReconClosedDay` (`ClosedDayIsEmpty`) under `RunPhases \subseteq {"closing"}`. Its
argument: after the grace period no entry appears and none is reopened
(`ReconShrinks`), so an empty second snapshot stays true while the run recounts and
writes its report. `ClosingInv` adds that fact for each run (`clear`), and what the
finalization knows between wipe and mark. Under the same hypothesis
`ReconCompletedIsCharged` and `ReconVerdictsHold`, with any
number of runs, operators and lost invocations. `VerdictInv` (`ReconVerdicts`) is
what they need: what a verdict that was confirmed, or that an operator is about to
confirm, has made of the entry (`RulingInv`); what a completed row, or a handler about
to write one, says was charged (`RowInv`); and that operators only hold
`reserve_unknown` requests, runs only others, whatever they read before (`OriginInv`). The
hypothesis is needed, as said above, and it holds of the cron only.

`ReconGivesBackUnused` (`GivenBackNeverUsed`) has no such hypothesis. A run only ever
consumes and a handler releases only what it did not send, so what matters is the
operator. `GivenBackInv` says that an entry which may become `released`, now or by a
call an operator has under way (`Returnable`), belongs to a request whose handler is
past every use: a mark of `reserve_unknown` is only made by a handler that then ends
without calling upstream. So a look, however old, that saw
that origin still tells the truth when the verdict arrives.

**DataPathProofs.** The five properties of `DataPath`, for any set of texts and
requests, any limits, ring size and bounds `MaxRest`, `MaxEvents`, and every cut into
chunks; and `BudgetCovered`: a resolved budget reserves input, granted output and a
margin of at least 256, within what is left of the pool and within the upper bound,
`REJECT` never shortens the output and an asked token is granted. They use
`TextsAssumption` (a text has bytes and tokens) and `EncoderAssumption` (not more
tokens than bytes); the rest is arithmetic and sequences.

*Induction.* An induction theorem with a predicate for a parameter cannot be used, but
its first-order form can: a set of numbers with 0 and every successor is all of them
(`Induction`, from the well-foundedness of `<`). Each inductive fact is stated as
such a set. So it is shown that the recursive sum `Total` and the library's
`FlattenSeq` are defined and what they are (`TotalDefined`, `FlattenDefined`,
`FlattenFacts`).

*Verdicts and grant.* `IngressInv` says of each stage what is known: after a
refusal, that it is the verdict or one of the named differences; on the way to the
budget, that the request was accepted, normalizes to a counted request
(`NormalizedType`) and is estimated at no less than its tokens
(`TokenizationFacts`, for encoder, fallbacks and clamps). `RoutesAgreeAlways` and
`GrantAlwaysCovered` follow, the second with `BudgetCovered`. `UpstreamFormAlwaysCounted`
compares two walks over a body, as it came and as it is sent: a part renamed from
`text` to `input_text` is walked the same way (`RenamedWalk`), item by item.

*Prepared bytes.* `BodyInv`: what was passed on and what is still to come together are
the replaced body, and what is retained is a proper beginning of the opening, read
so far. A chunk may end within the opening, the marker or the rest; `PreflightChunk` is
that case distinction, by which bytes the chunk completes.

*Usage.* `UsageAt(text, k)` says of a whole text what the readers compute of single
events: at k stands usage, and the quotes since the last blank line are paired.
`UsageShift` moves it between a text and a part of it that begins where an event does, and
`TailUsage`, `ClosedUsage` and `EventUsage` say what the three searches find. The
direct reader (`DirectSees`) has found usage exactly when a closed event of what it
has read has it, and before that holds the beginning of the last event. The ring
(`RingHolds`) has at k places before its write index the k-th last byte read, for all k
it has room for, also after a write that wraps or is longer than the ring; so
`getTail` returns the end of what was read (`TailFacts`). That the relay finds nothing
that was not sent needs more than the tail: a tail that begins within an event may
pair quotes wrongly. It holds because an object with usage begins in a stream only
as part of usage (`StreamFacts`), which is how upstream's streams are modelled.

The proof corrected the model in one place: `UpstreamFormCounted` said that no item of
a rewritten `/responses` body has a part of type `text`, which is wrong of an item of
type `function_call` that carries content: `normalizeInputItem` passes it through and
the content is not counted either. The requests of the run had no such item.

**Only model-checked.** Liveness (`ExchangeEnds`, `SlotComesFree`,
`DoneDayIsDeleted`), which is out of the prover's reach. Every invariant and every
action property of a passing run is proved. That the counters named `Max...` are never
reached is not claimed: they appear in guards, and the proofs use of them only that
they are numbers.

## 5. What is not modelled, and the plan

Left out for good: authentication, cryptography, header formats and the byte-level
JSON grammar (pure functions over strings; a refusal there writes nothing);
configuration and environment variables; the admin UI; deployment, canary and
evidence scripts, and the measurements and statistics of the CPU gate; listings of
the admin API; logging and observations; the `daily_usage` table, which no code
reads back; `replaceOneQuotedMarker` and `replaceOutputMarker` of
`prepared-body.ts` and the ring buffer of `stream.ts`, which the modelled paths do
not use. A day left `open` is not revisited by the cron, as SPEC.md:598 documents,
so nothing is claimed of it.

The plan is carried out: every component above that keeps state and decides about
tokens, places or bytes has its module, its run and its proofs. Worth doing next, were
the code to change there: several usage events in one stream, of which the reported
one can depend on the chunking, and the `daily_usage` table once it is read back.
