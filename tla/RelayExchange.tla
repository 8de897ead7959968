---------------------------- MODULE RelayExchange ----------------------------
(***************************************************************************)
(* The relay route end to end: the ingress call of the gateway worker, the *)
(* invocation of handleRelay in the Deno service, its decision, activation,*)
(* renewal and terminal callbacks, and the upstream exchange, composed with*)
(* the QuotaController's side in RelayGrants.                              *)
(*                                                                         *)
(* A callback is an HTTP request. Its sender waits for the answer or gives *)
(* up, and either way the gateway may execute it now, after other          *)
(* callbacks, or never: what is never executed, or answered to nobody, is  *)
(* lost. An ingress request can reach Deno more than once.                 *)
(***************************************************************************)
EXTENDS RelayGrants, TokenBudget

CONSTANTS
    Calls,           \* invocations of handleRelay: <<request, number>> pairs
    KeyOf,           \* the Idempotency-Key of each request
    Demand,          \* what a request asks for: estimated input and output tokens
    Mode,            \* the policy's outputLimitMode
    SetupPeriods     \* renewal periods that may begin before upstream answers

ASSUME ExchangeAssumption ==
    /\ Calls \subseteq Relayed \X Nat
    /\ KeyOf \in [Relayed -> Keys \cup {NoKey}]
    /\ Demand \in [input : Nat, output : Nat]
    /\ Mode \in OutputLimitMode
    /\ SetupPeriods \in Nat
    \* A lease is 4 periods and a credential 130; two callbacks and upstream
    \* take at most 45 s of 30 s periods.
    /\ SetupPeriods + 1 < LeaseTTL /\ SetupPeriods < CredTTL

\* The budgets of the request, whatever its pool has left. Sizes is what a
\* reservation may ask for, so it has those that are resolved.
Budgets ==
    UNION {{ResolveTokenBudget(Demand.input, Demand.output, n, limit, Mode) : n \in 0..limit}
             : limit \in Limits}
SizeOf(b) == [tokens |-> b.tokens, upper |-> b.upper]
ASSUME BudgetsAssumption == \A b \in Budgets : b.kind = "resolved" => SizeOf(b) \in Sizes

VARIABLES
    call,            \* each invocation of handleRelay
    decision,        \* RelayDecisionController's work on each decision callback
    posted,          \* callbacks with a grant credential that may yet be executed
    admission,       \* grant.admission of each request: the admitted budget
    fetched          \* the invocations that issued the upstream fetch

exchangeVars == <<call, decision, posted, admission, fetched>>
allVars == <<vars, exchangeVars>>

Of(c) == c[1]

CallEnded == {"done", "dead"}
\* The steps whose duration the callback and upstream timeouts bound.
SettingUp == {"deciding", "activating", "sending", "waiting"}
Forwarding == {"streaming", "reading"}

\* gen is the grant reference held, report the terminal report sent, renewal the
\* state of the renewal timer, age the periods begun since the decision.
Call == [pc : {"idle", "reporting"} \cup SettingUp \cup Forwarding \cup CallEnded,
         gen : Nat \cup {NoGeneration}, report : Report \cup {NoReport},
         renewal : {"none", "due", "sent"}, age : 0..SetupPeriods]

NewCall == [pc |-> "idle", gen |-> NoGeneration, report |-> NoReport,
            renewal |-> "none", age |-> 0]

NoDecision == [stage |-> "none", budget |-> NoBudget("none")]

ExchangeInit ==
    /\ RelayInit
    /\ call = [c \in Calls |-> NewCall]
    /\ decision = [c \in Calls |-> NoDecision]
    /\ posted = {}
    /\ admission = [r \in Relayed |-> NoBudget("none")]
    /\ fetched = {}

-----------------------------------------------------------------------------
(* Steps of an invocation.                                                 *)

InCall(c, location) == call[c].pc = location

Goes(c, location) == [call[c] EXCEPT !.pc = location, !.renewal = "none"]

\* sendTerminalReport, best effort. The answer of the invocation waits for it,
\* the end of a stream does not.
Reports(c, report) == [Goes(c, "reporting") EXCEPT !.report = report]

\* The invocation becomes next after the callbacks of S were executed; entering
\* a step that calls back posts that callback.
Becomes(c, next, S) ==
    /\ call' = [call EXCEPT ![c] = next]
    /\ posted' = (posted \ S)
         \cup (IF next.pc = "activating" THEN {<<c, "activation">>} ELSE {})
         \cup (IF next.pc = "reporting" THEN {<<c, "terminal">>} ELSE {})

\* The checks of handleRelay that need no callback end the request or not.
Ingress(c) ==
    /\ InCall(c, "idle")
    /\ \/ /\ Becomes(c, Goes(c, "deciding"), {})
          /\ decision' = [decision EXCEPT ![c].stage = "asked"]
       \/ Becomes(c, Goes(c, "done"), {}) /\ UNCHANGED decision
    /\ UNCHANGED <<vars, admission, fetched>>

-----------------------------------------------------------------------------
(* RelayDecisionController.decide reads the pool and asks for the admission*)
(* in two calls; other requests come between.                              *)

\* The decision is made. Its answer is lost, or reaches an invocation that still
\* waits: with a grant it activates, or reports a release when the context
\* cannot be decoded; without one it ends.
Decides(c, g) ==
    /\ decision' = [decision EXCEPT ![c] = NoDecision]
    /\ \/ UNCHANGED <<call, posted>>
       \/ /\ InCall(c, "deciding")
          /\ \/ g = NoGeneration /\ Becomes(c, Goes(c, "done"), {})
             \/ /\ g # NoGeneration
                /\ \/ Becomes(c, [Goes(c, "activating") EXCEPT !.gen = g], {})
                   \/ Becomes(c, [Reports(c, ReleaseReport) EXCEPT !.gen = g], {})

\* The context is verified, a minute after it was signed it has expired.
\* Registry and policy may reject; the budget comes from getState.
Budget(c) ==
    /\ decision[c].stage = "asked"
    /\ now =< AdmitUntil
    /\ \/ Decides(c, NoGeneration)
       \/ \E limit \in Limits :
             LET p == LoadPool(limit)
                 b == ResolveTokenBudget(Demand.input, Demand.output, RemainingOf(p), p.limit, Mode)
             IN  \/ b.kind # "resolved" /\ Decides(c, NoGeneration)
                 \/ /\ b.kind = "resolved"
                    /\ decision' = [decision EXCEPT ![c] = [stage |-> "budgeted", budget |-> b]]
                    /\ UNCHANGED <<call, posted>>
    /\ UNCHANGED <<vars, admission, fetched>>

\* matchesRelayAdmission: the repetition of an admission that is still authorized.
Saved(c) ==
    /\ entries[Of(c)].state # "absent"
    /\ admission[Of(c)] = decision[c].budget
    /\ grants[Of(c)].state = "authorized"

\* admitRelay, which without a free place changes nothing; then the credential is
\* signed. When that fails nobody has seen it and the reservation is given back.
Admit(c) ==
    LET r == Of(c)
        b == decision[c].budget
    IN
    /\ decision[c].stage = "budgeted"
    /\ \E limit \in Limits :
          \/ /\ AdmitRelay(r, SizeOf(b), KeyOf[r], limit)
             /\ IF entries'[r].state = "absent" THEN Decides(c, NoGeneration) /\ UNCHANGED admission
                ELSE /\ admission' = [admission EXCEPT ![r] = b]
                     /\ \/ Decides(c, grants'[r].gen)
                        \/ /\ decision' = [decision EXCEPT ![c].stage = "unsigned"]
                           /\ UNCHANGED <<call, posted>>
          \/ /\ ~Admissible(r, SizeOf(b), KeyOf[r], limit)
             /\ Decides(c, IF Saved(c) THEN grants[r].gen ELSE NoGeneration)
             /\ UNCHANGED <<vars, admission>>
    /\ UNCHANGED fetched

\* The release of an unsigned grant is executed, or the decision fails without.
ReleaseUnsigned(c) ==
    /\ decision[c].stage = "unsigned"
    /\ FinishRelay(Of(c), grants[Of(c)].gen, ReleaseReport) \/ UNCHANGED vars
    /\ Decides(c, NoGeneration)
    /\ UNCHANGED <<admission, fetched>>

\* A decision callback that comes too late or fails on its way.
DecisionLost(c) ==
    /\ decision[c].stage # "none"
    /\ decision' = [decision EXCEPT ![c] = NoDecision]
    /\ UNCHANGED <<vars, call, posted, admission, fetched>>

-----------------------------------------------------------------------------
(* The gateway executes a callback that carries a grant credential.        *)

\* What activateRelay answers; a credential that has expired does not get that far.
ActivationAnswer(r, g) ==
    IF ~Binds(r, g) THEN "grant_not_found"
    ELSE IF ~Unexpired(r) THEN "unknown"
    ELSE IF grants[r].state \in TerminalGrantStates THEN "grant_terminalized"
    ELSE IF grants[r].state \in {"attempted", "uncertain"} THEN "grant_replayed"
    ELSE IF now >= grants[r].auth THEN "grant_expired"
    ELSE IF entries[r].state # "reserved" THEN "grant_not_found"
    ELSE IF GrantLease(r) = {} THEN "lease_lost" ELSE "activated"

\* Fault: an activation without a usable answer is taken for a confirmed one.
FaultAfterActivation(c, answer) ==
    CASE answer \in {"activated", "unknown"} -> Goes(c, "sending")
      [] answer = "lease_lost" -> Reports(c, ReleaseReport)
      [] answer = "grant_replayed" -> Reports(c, UncertainReport)
      [] OTHER -> Goes(c, "done")

\* What handleRelay does next: only a confirmed activation goes upstream, an
\* unknown one is reported as uncertain, denials by terminalOutcomeForDenial.
AfterActivation(c, answer) ==
    CASE answer = "activated" -> Goes(c, "sending")
      [] answer = "lease_lost" -> Reports(c, ReleaseReport)
      [] answer \in {"grant_replayed", "unknown"} -> Reports(c, UncertainReport)
      [] OTHER -> Goes(c, "done")

ExecuteActivation(c) ==
    LET r == Of(c)
        g == call[c].gen
        answer == ActivationAnswer(r, g)
        executed == {<<c, "activation">>}
    IN
    /\ executed \subseteq posted
    /\ \/ answer \in {"activated", "grant_expired"} /\ ActivateRelay(r, g)
       \/ answer \notin {"activated", "grant_expired"} /\ UNCHANGED vars
    /\ \/ posted' = posted \ executed /\ UNCHANGED call
       \/ InCall(c, "activating") /\ Becomes(c, AfterActivation(c, answer), executed)
    /\ UNCHANGED <<decision, admission, fetched>>

Renewable(r, g) == Binds(r, g) /\ Unexpired(r) /\ grants[r].state = "attempted"

\* Fault: the answer to a renewal is not looked at.
FaultAfterRenewal(c, renewed) == [call[c] EXCEPT !.renewal = "none"]

\* A confirmed renewal keeps the exchange going, anything else cuts it off.
AfterRenewal(c, renewed) ==
    IF renewed THEN [call[c] EXCEPT !.renewal = "none"] ELSE Reports(c, UncertainReport)

ExecuteRenewal(c) ==
    LET r == Of(c)
        g == call[c].gen
        renewed == /\ Renewable(r, g) /\ now < grants[r].auth
                   /\ entries[r].state = "reserved" /\ GrantLease(r) # {}
        executed == {<<c, "renewal">>}
    IN
    /\ executed \subseteq posted
    /\ \/ Renewable(r, g) /\ RenewRelay(r, g)
       \/ ~Renewable(r, g) /\ UNCHANGED vars
    /\ \/ posted' = posted \ executed /\ UNCHANGED call
       \/ call[c].renewal = "sent" /\ Becomes(c, AfterRenewal(c, renewed), executed)
    /\ UNCHANGED <<decision, admission, fetched>>

\* The report settles the grant or is refused; nobody looks at the answer.
ExecuteReport(c) ==
    /\ <<c, "terminal">> \in posted
    /\ \/ FinishRelay(Of(c), call[c].gen, call[c].report)
       \/ UNCHANGED vars
    /\ posted' = posted \ {<<c, "terminal">>}
    /\ \/ UNCHANGED call
       \/ InCall(c, "reporting") /\ call' = [call EXCEPT ![c].pc = "done"]
    /\ UNCHANGED <<decision, admission, fetched>>

-----------------------------------------------------------------------------
(* The upstream exchange.                                                  *)

Send(c) ==
    /\ InCall(c, "sending")
    /\ Becomes(c, Goes(c, "waiting"), {})
    /\ fetched' = fetched \cup {c}
    /\ UNCHANGED <<vars, decision, admission>>

\* The fetch throws, the answer is an error, empty or its metadata too large;
\* or an event stream or a body follows.
Respond(c) ==
    /\ InCall(c, "waiting")
    /\ \/ Becomes(c, Reports(c, UncertainReport), {})
       \/ \E next \in Forwarding : Becomes(c, Goes(c, next), {})
    /\ UNCHANGED <<vars, decision, admission, fetched>>

\* Fault: an end without usage is reported as a release.
FaultForwardEnds(c) ==
    /\ call[c].pc \in Forwarding
    /\ \/ \E n \in Actuals : Becomes(c, Reports(c, [outcome |-> "settle", tokens |-> n]), {})
       \/ Becomes(c, Reports(c, ReleaseReport), {})
    /\ UNCHANGED <<vars, decision, admission, fetched>>

\* Upstream is done, with or without usage, breaks off or exceeds the bound.
ForwardEnds(c) ==
    /\ call[c].pc \in Forwarding
    /\ \/ \E n \in Actuals : Becomes(c, Reports(c, [outcome |-> "settle", tokens |-> n]), {})
       \/ Becomes(c, Reports(c, UncertainReport), {})
    /\ UNCHANGED <<vars, decision, admission, fetched>>

\* The client disconnects, or the worker refuses the response metadata.
Cancelled(c) ==
    /\ InCall(c, "streaming")
    /\ Becomes(c, Reports(c, UncertainReport), {})
    /\ UNCHANGED <<vars, decision, admission, fetched>>

\* createLeaseRenewal: the timer fires once per period, one renewal at a time.
\* One that fires while a body's report is under way is like one sent before.
RenewalFires(c) ==
    /\ call[c].pc \in Forwarding /\ call[c].renewal = "due"
    /\ call' = [call EXCEPT ![c].renewal = "sent"]
    /\ posted' = posted \cup {<<c, "renewal">>}
    /\ UNCHANGED <<vars, decision, admission, fetched>>

\* Fault: a renewal callback has no timeout.
FaultGiveUp(c) ==
    /\ \/ InCall(c, "deciding") /\ Becomes(c, Goes(c, "done"), {})
       \/ InCall(c, "activating") /\ Becomes(c, AfterActivation(c, "unknown"), {})
       \/ InCall(c, "reporting") /\ call' = [call EXCEPT ![c].pc = "done"] /\ UNCHANGED posted
    /\ UNCHANGED <<vars, decision, admission, fetched>>

\* The callback timeout, or an answer that cannot be used.
GiveUp(c) ==
    /\ \/ InCall(c, "deciding") /\ Becomes(c, Goes(c, "done"), {})
       \/ InCall(c, "activating") /\ Becomes(c, AfterActivation(c, "unknown"), {})
       \/ call[c].renewal = "sent" /\ Becomes(c, AfterRenewal(c, FALSE), {})
       \/ InCall(c, "reporting") /\ call' = [call EXCEPT ![c].pc = "done"] /\ UNCHANGED posted
    /\ UNCHANGED <<vars, decision, admission, fetched>>

\* The Deno isolate goes away; what it posted may still be executed.
Dies(c) ==
    /\ call[c].pc \notin CallEnded \cup {"idle"}
    /\ call' = [call EXCEPT ![c].pc = "dead", ![c].renewal = "none"]
    /\ UNCHANGED <<vars, decision, posted, admission, fetched>>

-----------------------------------------------------------------------------
(* The specification.                                                      *)

\* One renewal period. Callbacks time out within a period (10 s of 30 s) and
\* upstream answers within one (25 s), so an exchange is set up in SetupPeriods.
Period ==
    /\ Tick
    /\ \A c \in Calls :
          /\ call[c].renewal = "none"
          /\ call[c].pc \in SettingUp => call[c].age < SetupPeriods
    /\ call' = [c \in Calls |->
                  IF call[c].pc \in SettingUp THEN [call[c] EXCEPT !.age = @ + 1]
                  ELSE IF call[c].pc \in Forwarding THEN [call[c] EXCEPT !.renewal = "due"]
                  ELSE call[c]]
    /\ UNCHANGED <<decision, posted, admission, fetched>>

DayStep ==
    /\ \/ \E r \in Relayed, d \in Disposition : ReconcileRelayed(r, d)
       \/ Finalize \/ Wipe \/ WipeLost
    /\ UNCHANGED exchangeVars

GatewayStep(c) ==
    \/ Budget(c) \/ Admit(c) \/ ReleaseUnsigned(c) \/ DecisionLost(c)
    \/ ExecuteActivation(c) \/ ExecuteRenewal(c) \/ ExecuteReport(c)

\* What the invocation's own timers and code make happen.
OwnStep(c) == Send(c) \/ Respond(c) \/ RenewalFires(c) \/ GiveUp(c)

ExchangeNext ==
    \/ \E c \in Calls :
          Ingress(c) \/ GatewayStep(c) \/ OwnStep(c) \/ ForwardEnds(c) \/ Cancelled(c) \/ Dies(c)
    \/ DayStep
    \/ Period

\* The event loop and the timers of an invocation run, upstream answers or is
\* timed out by Gateway B, and time passes. No fairness for the gateway, the
\* network, the client or the end of an upstream stream.
ExchangeSpec ==
    /\ ExchangeInit /\ [][ExchangeNext]_allVars
    /\ \A c \in Calls : WF_allVars(OwnStep(c))
    /\ WF_allVars(Period)
-----------------------------------------------------------------------------
(* Properties.                                                             *)

\* The invocations, decisions and callbacks have their types.
ExchangeTypeOK ==
    /\ RelayTypeOK
    /\ call \in [Calls -> Call]
    /\ posted \subseteq Calls \X {"activation", "renewal", "terminal"}
    /\ fetched \subseteq Calls

\* However often the ingress call is repeated, and whichever callbacks are late,
\* lost or answered to nobody, a request is fetched upstream at most once and
\* only after the controller has confirmed its activation.
FetchedOnce ==
    \A r \in Relayed :
        LET mine == {c \in fetched : Of(c) = r} IN
        Cardinality(mine) =< 1 /\ Cardinality(mine) =< activations[r]

\* An exchange that ended after its fetch without being killed sent exactly one
\* report, which is never a release, and charges only what it reported.
ReportedOnce ==
    \A c \in fetched :
        /\ call[c].pc \in {"reporting", "done"} => call[c].report.outcome \in {"settle", "uncertain"}
        /\ entries[Of(c)].state = "settled" =>
              call[c].report = [outcome |-> "settle", tokens |-> entries[Of(c)].actual]

\* While the exchange of a request that reached Deno once runs and its grant is
\* open, its lease is in force, so that its place is not given away: a renewal
\* that is not confirmed cuts the exchange off before the lease can run out.
ExchangeHoldsLease ==
    \A c \in Calls :
        /\ call[c].pc \in {"waiting"} \cup Forwarding
        /\ grants[Of(c)].state = "attempted"
        /\ \A d \in Calls \ {c} : Of(d) = Of(c) => InCall(d, "idle")
        => GrantLease(Of(c)) # {}

\* What the contract sees of a request.
AccountOf(r) ==
    CASE entries[r].state = "absent" -> "none"
      [] entries[r].state = "reserved" -> "held"
      [] entries[r].state = "uncertain" -> "doubt"
      [] entries[r].state = "settled" -> "charged"
      [] grants[r].state = "released" -> "free"
      [] OTHER -> "resolved"

Contract == INSTANCE AccountedRequest
              WITH Requests <- Relayed,
                   account <- [r \in Relayed |-> AccountOf(r)],
                   sent <- {Of(c) : c \in fetched}

\* The relay route keeps the contract: nothing is sent without tokens held for
\* it, nothing that may have been sent is given back, and usage is charged once.
ImplementsContract == Contract!ContractSpec

\* No exchange outlives its authorization: a stream that upstream never ends is
\* cut off by the first renewal that is not confirmed.
ExchangeEnds == \A c \in Calls : InCall(c, "deciding") ~> call[c].pc \in CallEnded
=============================================================================
