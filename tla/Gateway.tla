------------------------------ MODULE Gateway ------------------------------
(***************************************************************************)
(* handleProxy from the first line: authentication, route selection, the   *)
(* prepare call to Deno with its timer, the cached registry and policy,    *)
(* tokenization and the budget, in front of the steps of ProxyRequest. The *)
(* prepared body is an open HTTP response that belongs to the handler: it  *)
(* has to be given up on every path that does not send it upstream, and    *)
(* its timer can fire during any await.                                    *)
(***************************************************************************)
EXTENDS ProxyRequest, PolicyCache

CONSTANT MaxDisturbances   \* bound on failing RPCs, edits and loads of others together

ASSUME GatewayAssumption == Requests \subseteq Loaders /\ MaxDisturbances \in Nat

VARIABLES
    front,           \* where each request is in front of its reservation
    body             \* its prepared body

allVars == <<vars, cacheVars, front, body>>

\* tools: the request uses tools; asked: the clock when each table was asked for.
Front == [pc : {"start", "prepare", "read", "registry", "policy", "tools",
                "state", "tokenize", "through"},
          tools : BOOLEAN, asked : [Tables -> Nat]]

\* cut: the prepare timer fired while the handler still looks at it, that is
\* before it reads the prefix; closed: cancelled, read to its end or broken off.
Body == {"none", "open", "cut", "closed"}

GatewayInit ==
    /\ ProxyInit /\ CacheInit
    /\ front \in [Requests -> [pc : {"start"}, tools : BOOLEAN,
                               asked : {[t \in Tables |-> 0]}]]
    /\ body = [r \in Requests |-> "none"]

-----------------------------------------------------------------------------
(* The prepared body.                                                      *)

\* cancelPreparedBeforeUpstream: cancelling twice does nothing more.
Cancelled(r) == [body EXCEPT ![r] = IF @ = "open" THEN "closed" ELSE @]

TimedOut(r) == body[r] = "cut"

\* The handler has read the prefix, or is about to: it no longer asks whether
\* the timer fired.
PastChecks(r) == h[r].pc = "call" \/ h[r].phase = "attempted"

\* The timer of prepareWithDeno: cancelled with the body, cleared at its end.
PrepareTimeout(r) ==
    /\ body[r] = "open" /\ h[r].pc # "dead"
    /\ body' = [body EXCEPT ![r] = IF PastChecks(r) THEN "closed" ELSE "cut"]
    /\ UNCHANGED <<vars, cacheVars, front>>

\* The preflight or the upstream fetch reads to the end of the body, the fetch
\* cancels it, or the connection to Deno breaks.
BodyEnds(r) ==
    /\ body[r] = "open" /\ h[r].pc # "dead" /\ PastChecks(r)
    /\ body' = [body EXCEPT ![r] = "closed"]
    /\ UNCHANGED <<vars, cacheVars, front>>

-----------------------------------------------------------------------------
(* In front of the reservation.                                            *)

InFront(r, location) == front[r].pc = location /\ At(r, "idle")
Advance(r, location) == front' = [front EXCEPT ![r].pc = location]
Rests == UNCHANGED <<ledgerVars, leaseVars, sent>>

\* An early return, with the prepared body given up.
TurnsDown(r) == Advance(r, "through") /\ Goto(r, "done") /\ body' = Cancelled(r)

\* An exception reaches the catch block, which gives up the body as well.
FrontThrows(r) == Advance(r, "through") /\ Throws(r, "catch") /\ body' = Cancelled(r)

Passes(r, location) == Advance(r, location) /\ UNCHANGED <<h, body>>

\* Authentication, the idempotency key, the relay and Deno configuration and the
\* declared length: the request is refused, or takes one of the two routes.
Route(r) ==
    /\ InFront(r, "start")
    /\ \/ TurnsDown(r) \/ FrontThrows(r)
       \/ h[r].route = "prepare" /\ Passes(r, "prepare")
       \/ h[r].route = "legacy" /\ Passes(r, "read")
    /\ Rests /\ UNCHANGED <<row, cacheVars>>

\* prepareWithDeno: rejected or unavailable, its timeout included, or resolved
\* with metadata and an open body.
PrepareAnswered(r) ==
    /\ InFront(r, "prepare")
    /\ \/ TurnsDown(r)
       \/ Advance(r, "registry") /\ body' = [body EXCEPT ![r] = "open"] /\ UNCHANGED h
    /\ Rests /\ UNCHANGED <<row, cacheVars>>

\* readJsonBody and the normalization, on the legacy route.
BodyRead(r) ==
    /\ InFront(r, "read")
    /\ TurnsDown(r) \/ FrontThrows(r) \/ Passes(r, "registry")
    /\ Rests /\ UNCHANGED <<row, cacheVars>>

\* loadRegistry or loadPolicy is called, its query answered, or thrown.
Asks(r) ==
    /\ \E t \in Tables : InFront(r, t) /\ LoadMiss(r, t, now)
    /\ UNCHANGED activity
    /\ UNCHANGED <<vars, front, body>>
Answers(r) ==
    /\ RowRead(r)
    /\ UNCHANGED <<vars, front, body>>
QueryThrows(r) ==
    /\ LoadThrows(r) /\ FrontThrows(r)
    /\ Rests /\ UNCHANGED row

AskedAt(r) == IF load[r].stage = "none" THEN now ELSE load[r].start
Learns(r, t, location) ==
    /\ front' = [front EXCEPT ![r].pc = location, ![r].asked[t] = AskedAt(r)]
    /\ UNCHANGED <<h, body>>

\* classifyModel: the model has no pool, the body timed out, or the policy is next.
Classify(r) ==
    /\ InFront(r, "registry")
    /\ \E v \in Value :
          /\ Loaded(r, "registry", v, now)
          /\ \/ (TimedOut(r) \/ v = "deny") /\ TurnsDown(r)
             \/ ~TimedOut(r) /\ v = "allow" /\ Learns(r, "registry", "policy")
    /\ Rests /\ UNCHANGED row

\* The policy is known. Tool use it does not allow leads to the refusal; every
\* other request gets its audit row, best effort.
ApplyPolicy(r) ==
    /\ InFront(r, "policy")
    /\ \E v \in Value :
          /\ Loaded(r, "policy", v, now)
          /\ \/ TimedOut(r) /\ TurnsDown(r) /\ UNCHANGED row
             \/ /\ ~TimedOut(r) /\ front[r].tools /\ v = "deny"
                /\ Learns(r, "policy", "tools") /\ UNCHANGED row
             \/ /\ ~TimedOut(r) /\ (front[r].tools => v = "allow")
                /\ Learns(r, "policy", "state")
                /\ row' \in {row, [row EXCEPT ![r].status = "in_flight"]}
    /\ Rests

\* getState for the headers of the refusal.
RefuseTools(r) ==
    /\ InFront(r, "tools")
    /\ TurnsDown(r) \/ FrontThrows(r)
    /\ Rests /\ UNCHANGED <<row, cacheVars>>

\* getState before the budget.
LearnState(r) ==
    /\ InFront(r, "state")
    /\ \/ TimedOut(r) /\ TurnsDown(r) /\ Audit(r, "failed", 0)
       \/ ~TimedOut(r) /\ Passes(r, "tokenize") /\ UNCHANGED row
       \/ FrontThrows(r) /\ UNCHANGED row
    /\ Rests /\ UNCHANGED cacheVars

\* routeTokenization on the legacy route, then resolveTokenBudget: the estimate
\* is not to be had or the budget refuses, or the request goes to its reservation.
ResolveBudget(r) ==
    /\ InFront(r, "tokenize")
    /\ \/ TurnsDown(r) /\ Audit(r, "failed", 0)
       \/ Advance(r, "through") /\ Goto(r, "reserve") /\ UNCHANGED <<body, row>>
    /\ Rests /\ UNCHANGED cacheVars

FrontStep(r) ==
    \/ Route(r) \/ PrepareAnswered(r) \/ BodyRead(r)
    \/ Asks(r) \/ Answers(r) \/ QueryThrows(r) \/ Classify(r) \/ ApplyPolicy(r)
    \/ RefuseTools(r) \/ LearnState(r) \/ ResolveBudget(r)

-----------------------------------------------------------------------------
(* From the reservation on.                                                *)

\* Fault: the lease arrives and the body is not looked at again.
FaultLooksAtTimer(r) == At(r, "reserve") \/ At(r, "retry")

\* prepareTimedOut is looked at when the reservation and the lease are answered.
LooksAtTimer(r) == At(r, "reserve") \/ At(r, "retry") \/ At(r, "acquire")

\* Fault: a request whose reservation is rejected forgets its body.
FaultGivesUpAt == {"abort", "abortLease", "refuse", "markUnknown", "catch"}

\* Where a handler that has not called upstream has given up its body.
GivesUpAt == {"abort", "abortLease", "refuse", "markUnknown", "catch", "done"}

HandlesRest(r) ==
    /\ HandlerStep(r) \/ Renew(r)
    /\ LET next == h'[r].pc IN
       /\ LooksAtTimer(r) /\ TimedOut(r) => next \notin {"acquire", "call", "refuse"}
       /\ ~TimedOut(r) /\ At(r, "acquire") => next # "abortLease"
       /\ ~TimedOut(r) => next # "abort"
       /\ body' = IF next \in GivesUpAt /\ h'[r].phase = "before" THEN Cancelled(r) ELSE body
    /\ UNCHANGED <<cacheVars, front>>

Dies(r) == Killed(r) /\ UNCHANGED <<cacheVars, front, body>>

-----------------------------------------------------------------------------
(* Everyone else.                                                          *)

\* Another request, the model list or a relay decision loads a row.
OtherLoads(c) ==
    /\ \/ (\E t \in Edited : LoadMiss(c, t, now)) /\ activity' = activity + 1
       \/ RowRead(c) \/ LoadThrows(c)
       \/ \E t \in Edited, v \in Value : LoadFill(c, t, v, now)
    /\ UNCHANGED <<vars, front, body>>

Edits ==
    /\ \/ \E i \in Isolates, t \in Edited, v \in Value : AdminWrites(i, t, v, now)
       \/ AdminInvalidates
    /\ UNCHANGED <<vars, front, body>>

Passing == Tick /\ UNCHANGED <<cacheVars, front, body>>

\* Loads, edits and time that no request in front can notice any more are left
\* out: what follows the reservation is timed in ProxyRequest.
Noticed == \E r \in Requests : front[r].pc \in {"start", "prepare", "read", "registry", "policy"}

Bounded(r) == h[r].faults + activity =< MaxDisturbances

ProxyStep(r) ==
    FrontStep(r) \/ HandlesRest(r) \/ Dies(r) \/ PrepareTimeout(r) \/ BodyEnds(r)

GatewayNext ==
    /\ \/ \E r \in Requests : ProxyStep(r)
       \/ Noticed /\ (Passing \/ Edits \/ \E c \in Loaders \ Requests : OtherLoads(c))
    /\ \A r \in Requests : Bounded(r)'

GatewaySpec == GatewayInit /\ [][GatewayNext]_allVars
-----------------------------------------------------------------------------
(* Properties.                                                             *)

\* A request that is answered without having called upstream has given up its
\* prepared body, on whichever of the early returns and exceptions it left.
BodyClosedBeforeAnswer ==
    \A r \in Requests :
        h[r].pc \in {"done", "escaped"} /\ h[r].phase = "before" => body[r] # "open"

\* A request whose prepare timer fired before its lease was answered is never
\* sent, and when none of its RPCs threw it leaves no tokens held.
TimedOutNeverSent ==
    \A r \in Requests :
        TimedOut(r) => /\ r \notin sent
                       /\ At(r, "done") /\ h[r].faults = 0 => entries[r].state # "reserved"

\* A request is sent only if, less than CacheTTL before it asked, its model had
\* a pool and, for tool use, its policy allowed tools: neither an edit in
\* another isolate nor a query that overtakes an edit keeps a row alive longer.
SentUnderRecentRows ==
    \A r \in sent, t \in Tables :
        t = "registry" \/ front[r].tools =>
            front[r].asked[t] < LastHeld(t, "allow", now) + CacheTTL
=============================================================================
