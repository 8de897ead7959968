-------------------------- MODULE RelayExchangeProofs --------------------------
(***************************************************************************)
(* Proofs about RelayExchange: the route end to end only does what the     *)
(* controller's relay operations allow, a request is fetched and reported  *)
(* at most once, its exchange never runs without its lease, and the route  *)
(* keeps the contract of AccountedRequest.                                 *)
(***************************************************************************)
EXTENDS RelayExchange, RelayGrantsProofs

(***************************************************************************)
(* The inductive invariant.                                                *)
(***************************************************************************)

Location == {"idle", "reporting"} \cup SettingUp \cup Forwarding \cup CallEnded
Stage == {"none", "asked", "budgeted", "unsigned"}

DecisionOK == decision \in [Calls -> [stage : Stage, budget : {NoBudget("none")} \cup Budgets]]

\* Where an invocation is, what it has fetched, reported and posted, and how long
\* the day has been over.
CallInv(c) ==
    LET k == call[c] IN
    /\ k.pc = "idle" => k.age = 0
    /\ k.renewal # "none" => k.pc \in Forwarding
    /\ k.pc \in {"waiting"} \cup Forwarding => c \in fetched
    /\ c \in fetched => k.pc \in {"waiting", "reporting"} \cup Forwarding \cup CallEnded
    /\ k.report # NoReport => k.pc \in {"reporting"} \cup CallEnded
    /\ k.report.outcome = "settle" => c \in fetched
    /\ c \in fetched /\ k.pc \in {"reporting", "done"} => k.report.outcome \in {"settle", "uncertain"}
    /\ k.pc = "reporting" \/ <<c, "terminal">> \in posted => k.report \in Report
    /\ \A kind \in {"activation", "renewal", "terminal"} : <<c, kind>> \in posted => k.pc # "idle"
    /\ decision[c].stage # "none" => k.pc \in {"deciding"} \cup CallEnded
    /\ decision[c].stage = "budgeted" => SizeOf(decision[c].budget) \in Sizes
    /\ \/ k.pc \in {"activating", "sending", "waiting"}
       \/ k.pc = "deciding" /\ decision[c].stage = "budgeted"
       => now =< AdmitUntil + k.age

\* The invocations that will fetch, or have fetched, request r.
Launched(r) == {c \in Calls : Of(c) = r /\ (c \in fetched \/ call[c].pc = "sending")}

LaunchInv(r) ==
    /\ \A c, d \in Launched(r) : c = d
    /\ Launched(r) # {} => activations[r] >= 1
    /\ grants[r].state = "settled" =>
          \E c \in fetched : Of(c) = r /\ call[c].report = grants[r].report
    /\ grants[r].state # "none" => \E c \in Calls : Of(c) = r /\ call[c].pc # "idle"

\* How much of its time the lease of an invocation that is alone has left.
Left(k) ==
    IF k.pc \in SettingUp THEN LeaseTTL - k.age
    ELSE IF k.renewal = "none" THEN LeaseTTL - SetupPeriods
    ELSE LeaseTTL - SetupPeriods - 1

Alone(c) == \A d \in Calls \ {c} : Of(d) = Of(c) => call[d].pc = "idle"

HoldInv(c) ==
    /\ call[c].pc \in SettingUp \cup Forwarding /\ Alone(c)
    /\ grants[Of(c)].state \in {"authorized", "attempted"}
    => \E l \in leases : /\ l.req = Of(c) /\ l.gen = grants[Of(c)].gen
                         /\ l.exp >= now + Left(call[c])

\* The inductive invariant: that of the relay operations, the types, and what
\* ties the invocations to the grants.
ExchangeInv ==
    /\ LedgerInv /\ RelayInv /\ HistoryInv
    /\ ExchangeTypeOK /\ DecisionOK
    /\ \A c \in Calls : CallInv(c) /\ HoldInv(c)
    /\ \A r \in Relayed : LaunchInv(r)

\* An invocation belongs to a relayed request.
LEMMA OfRelayed == \A c \in Calls : Of(c) \in Relayed /\ Of(c) \in Requests
BY ExchangeAssumption, RelayAssumption DEF Of

(***************************************************************************)
(* The exchange is made of relay operations.                               *)
(***************************************************************************)

\* A callback that finds its grant carries a credential that was signed.
LEMMA CallbackIsRelayStep ==
  ASSUME HistoryInv, NEW r \in Relayed, NEW g, Callback(r, g)
  PROVE  RelayNext
<1>1. grants[r].state # "none" /\ g = grants[r].gen
  BY DEF Callback, ActivateRelay, RenewRelay, FinishRelay, Binds
<1>2. g \in 1..MaxGeneration /\ <<r, g>> \in credentials
  BY <1>1 DEF HistoryInv, History
<1> QED BY <1>2 DEF RelayNext

\* For the controller a step of the exchange is one of its operations or none.
LEMMA ExchangeStepIsRelayStep ==
  ASSUME HistoryInv, \A c \in Calls : CallInv(c), [ExchangeNext]_allVars
  PROVE  [RelayNext]_vars
<1>1. ASSUME NEW c \in Calls, Admit(c)
      PROVE  [RelayNext]_vars
  <2>1. Of(c) \in Relayed /\ KeyOf[Of(c)] \in Keys \cup {NoKey} /\ SizeOf(decision[c].budget) \in Sizes
    BY <1>1, OfRelayed, ExchangeAssumption DEF Admit, CallInv
  <2>2. \/ \E limit \in Limits : AdmitRelay(Of(c), SizeOf(decision[c].budget), KeyOf[Of(c)], limit)
        \/ UNCHANGED vars
    BY <1>1 DEF Admit
  <2> QED BY <2>1, <2>2 DEF RelayNext
<1>2. ReleaseReport \in Report
  BY DEF ReleaseReport, Report
<1>3. ASSUME NEW c \in Calls, GatewayStep(c)
      PROVE  [RelayNext]_vars
  <2>1. CASE ReleaseUnsigned(c)
    <3>1. FinishRelay(Of(c), grants[Of(c)].gen, ReleaseReport) \/ UNCHANGED vars
      BY <2>1 DEF ReleaseUnsigned
    <3> QED BY <1>2, <3>1, OfRelayed, CallbackIsRelayStep DEF Callback
  <2>2. CASE ExecuteActivation(c)
    <3>1. ActivateRelay(Of(c), call[c].gen) \/ UNCHANGED vars
      BY <2>2 DEF ExecuteActivation
    <3> QED BY <3>1, OfRelayed, CallbackIsRelayStep DEF Callback
  <2>3. CASE ExecuteRenewal(c)
    <3>1. RenewRelay(Of(c), call[c].gen) \/ UNCHANGED vars
      BY <2>3 DEF ExecuteRenewal
    <3> QED BY <3>1, OfRelayed, CallbackIsRelayStep DEF Callback
  <2>4. CASE ExecuteReport(c)
    <3>1. call[c].report \in Report
      BY <2>4 DEF ExecuteReport, CallInv
    <3>2. FinishRelay(Of(c), call[c].gen, call[c].report) \/ UNCHANGED vars
      BY <2>4 DEF ExecuteReport
    <3> QED BY <3>1, <3>2, OfRelayed, CallbackIsRelayStep DEF Callback
  <2>5. CASE Budget(c) \/ DecisionLost(c)
    BY <2>5 DEF Budget, DecisionLost
  <2> QED BY <1>1, <1>3, <2>1, <2>2, <2>3, <2>4, <2>5 DEF GatewayStep
<1>4. ASSUME NEW c \in Calls, Ingress(c) \/ OwnStep(c) \/ ForwardEnds(c) \/ Cancelled(c) \/ Dies(c)
      PROVE  UNCHANGED vars
  BY <1>4 DEF Ingress, OwnStep, Send, Respond, RenewalFires, GiveUp, ForwardEnds, Cancelled, Dies
<1>5. CASE DayStep
  BY <1>5 DEF DayStep, RelayNext
<1>6. CASE Period
  BY <1>6 DEF Period, RelayNext
<1>7. CASE UNCHANGED allVars
  BY <1>7 DEF allVars
<1> QED BY <1>3, <1>4, <1>5, <1>6, <1>7 DEF ExchangeNext

(***************************************************************************)
(* The invocations.                                                        *)
(***************************************************************************)

\* The two ways to go on: to another step, or to the terminal report.
LEMMA CallRecords ==
  ASSUME call \in [Calls -> Call], NEW c \in Calls
  PROVE  /\ \A l \in Location :
               /\ Goes(c, l) \in Call /\ Goes(c, l).pc = l /\ Goes(c, l).renewal = "none"
               /\ Goes(c, l).gen = call[c].gen /\ Goes(c, l).report = call[c].report
               /\ Goes(c, l).age = call[c].age
         /\ \A rep \in Report :
               /\ Reports(c, rep) \in Call /\ Reports(c, rep).pc = "reporting"
               /\ Reports(c, rep).renewal = "none" /\ Reports(c, rep).gen = call[c].gen
               /\ Reports(c, rep).report = rep /\ Reports(c, rep).age = call[c].age
<1>0. call[c] \in Call
  OBVIOUS
<1>1. ASSUME NEW l \in Location
      PROVE  /\ Goes(c, l) \in Call /\ Goes(c, l).pc = l /\ Goes(c, l).renewal = "none"
             /\ Goes(c, l).gen = call[c].gen /\ Goes(c, l).report = call[c].report
             /\ Goes(c, l).age = call[c].age
  BY <1>0 DEF Goes, Call, Location
<1>2. ASSUME NEW rep \in Report
      PROVE  /\ Reports(c, rep) \in Call /\ Reports(c, rep).pc = "reporting"
             /\ Reports(c, rep).renewal = "none" /\ Reports(c, rep).gen = call[c].gen
             /\ Reports(c, rep).report = rep /\ Reports(c, rep).age = call[c].age
  <2> DEFINE k == Goes(c, "reporting")
  <2>1. /\ k \in Call /\ k.pc = "reporting" /\ k.renewal = "none" /\ k.gen = call[c].gen
        /\ k.age = call[c].age
    BY <1>1 DEF Location
  <2>2. Reports(c, rep) = [k EXCEPT !.report = rep]
    BY DEF Reports
  <2> HIDE DEF k
  <2> QED BY <2>1, <2>2 DEF Call
<1> QED BY <1>1, <1>2

\* How an invocation may go on from call[c] to k.
MoveOf(c, k) ==
    LET h == call[c] IN
    /\ k.age = h.age
    /\ \/ h.pc \in Forwarding /\ k.pc = h.pc /\ k.report = h.report
       \/ /\ k.renewal = "none" /\ k.report = h.report
          /\ \/ k.pc = "done" /\ h.pc \in {"idle", "deciding", "activating", "reporting"}
             \/ k.pc = "dead" /\ h.pc # "idle"
             \/ h.pc = "idle" /\ k.pc = "deciding"
             \/ h.pc = "deciding" /\ k.pc = "activating"
             \/ h.pc = "activating" /\ k.pc = "sending"
             \/ h.pc = "sending" /\ k.pc = "waiting"
             \/ h.pc = "waiting" /\ k.pc \in Forwarding
       \/ /\ k.pc = "reporting" /\ k.renewal = "none" /\ k.report \in Report
          /\ h.pc \in {"deciding", "activating", "waiting"} \cup Forwarding
          /\ h.pc \in {"waiting"} \cup Forwarding => k.report.outcome \in {"settle", "uncertain"}
          /\ k.report.outcome = "settle" => h.pc \in Forwarding

\* How the decision about an invocation may go on.
DecisionMove(c, k, v) ==
    \/ v = decision[c] \/ v = NoDecision
    \/ v.stage = "asked" /\ k.pc = "deciding"
    \/ /\ v.stage = "budgeted" /\ decision[c].stage = "asked" /\ k = call[c]
       /\ SizeOf(v.budget) \in Sizes /\ now =< AdmitUntil
    \/ v.stage = "unsigned" /\ decision[c].stage = "budgeted" /\ k = call[c]

\* What a step of invocation c, or of the gateway for it, does on its side.
StepOf(c, k, v) ==
    /\ call' = [call EXCEPT ![c] = k] /\ decision' = [decision EXCEPT ![c] = v]
    /\ k = call[c] \/ MoveOf(c, k)
    /\ DecisionMove(c, k, v)
    /\ call[c].pc = "deciding" /\ k.pc \in {"activating", "reporting"} => v = NoDecision
    /\ call[c].pc = "deciding" /\ k.pc = "activating" => decision[c].stage = "budgeted"
    /\ posted' \subseteq posted \cup {<<c, "activation">>, <<c, "renewal">>, <<c, "terminal">>}
    /\ posted' # posted => call[c].pc # "idle"
    /\ <<c, "terminal">> \in posted' => <<c, "terminal">> \in posted \/ k.pc = "reporting"
    /\ fetched' = IF call[c].pc = "sending" /\ k.pc = "waiting" THEN fetched \cup {c} ELSE fetched
    /\ call[c].pc = "activating" /\ k.pc = "sending" =>
          grants[Of(c)].state = "authorized" /\ activations'[Of(c)] = activations[Of(c)] + 1
    /\ now' = now

Decision == [stage : Stage, budget : {NoBudget("none")} \cup Budgets]

\* A step that leaves the invocation alone writes back what was there.
LEMMA SameRecords ==
  ASSUME ExchangeTypeOK, DecisionOK, NEW c \in Calls
  PROVE  /\ call[c] \in Call /\ call = [call EXCEPT ![c] = call[c]]
         /\ decision[c] \in Decision /\ decision = [decision EXCEPT ![c] = decision[c]]
         /\ NoDecision \in Decision
BY DEF ExchangeTypeOK, DecisionOK, Decision, NoDecision, Stage

\* What Becomes posts.
LEMMA BecomesPosts ==
  ASSUME NEW c \in Calls, NEW k, NEW S, Becomes(c, k, S)
  PROVE  /\ call' = [call EXCEPT ![c] = k]
         /\ posted' \subseteq posted \cup {<<c, "activation">>, <<c, "terminal">>}
         /\ <<c, "terminal">> \in posted' => <<c, "terminal">> \in posted \/ k.pc = "reporting"
BY DEF Becomes

\* The answer to a decision moves the invocation that waits for it, or nobody.
LEMMA DecidesMoves ==
  ASSUME ExchangeTypeOK, DecisionOK, NEW c \in Calls, NEW g \in Nat \cup {NoGeneration}, Decides(c, g),
         fetched' = fetched, now' = now, g = NoGeneration \/ decision[c].stage = "budgeted"
  PROVE  \E k \in Call : StepOf(c, k, NoDecision)
<1>0. call \in [Calls -> Call]
  BY DEF ExchangeTypeOK
<1>1. decision' = [decision EXCEPT ![c] = NoDecision]
  BY DEF Decides
<1>2. CASE UNCHANGED <<call, posted>>
  <2>1. StepOf(c, call[c], NoDecision)
    BY <1>1, <1>2, SameRecords DEF StepOf, DecisionMove
  <2> QED BY <2>1, SameRecords
<1>3. ASSUME NEW k \in Call, InCall(c, "deciding"), Becomes(c, k, {}), MoveOf(c, k),
             k.pc \notin {"waiting", "sending"}, k.pc = "activating" => decision[c].stage = "budgeted"
      PROVE  StepOf(c, k, NoDecision)
  BY <1>1, <1>3, BecomesPosts DEF StepOf, DecisionMove, InCall
<1>4. CASE InCall(c, "deciding") /\ Becomes(c, Goes(c, "done"), {})
  <2>1. Goes(c, "done") \in Call /\ MoveOf(c, Goes(c, "done")) /\ Goes(c, "done").pc = "done"
    BY <1>0, <1>4, CallRecords DEF MoveOf, Location, CallEnded, InCall
  <2> QED BY <1>3, <1>4, <2>1
<1>5. CASE g # NoGeneration /\ InCall(c, "deciding") /\ Becomes(c, [Goes(c, "activating") EXCEPT !.gen = g], {})
  <2> DEFINE h == Goes(c, "activating")
             k == [h EXCEPT !.gen = g]
  <2>1. /\ h \in Call /\ h.pc = "activating" /\ h.renewal = "none" /\ h.report = call[c].report
        /\ h.age = call[c].age
    BY <1>0, CallRecords DEF Location, SettingUp
  <2> HIDE DEF h
  <2>2. /\ k \in Call /\ k.pc = "activating" /\ k.renewal = "none" /\ k.report = call[c].report
        /\ k.age = call[c].age
    BY <2>1 DEF Call
  <2>3. Becomes(c, k, {})
    BY <1>5 DEF h
  <2> HIDE DEF k
  <2>4. MoveOf(c, k)
    BY <1>5, <2>2 DEF MoveOf, InCall
  <2>5. StepOf(c, k, NoDecision)
    BY <1>3, <1>5, <2>2, <2>3, <2>4
  <2> QED BY <2>2, <2>5
<1>6. CASE InCall(c, "deciding") /\ Becomes(c, [Reports(c, ReleaseReport) EXCEPT !.gen = g], {})
  <2> DEFINE h == Reports(c, ReleaseReport)
             k == [h EXCEPT !.gen = g]
  <2>0. ReleaseReport \in Report /\ ReleaseReport.outcome = "release"
    BY DEF ReleaseReport, Report
  <2>1. /\ h \in Call /\ h.pc = "reporting" /\ h.renewal = "none" /\ h.report = ReleaseReport
        /\ h.age = call[c].age
    BY <1>0, <2>0, CallRecords
  <2> HIDE DEF h
  <2>2. /\ k \in Call /\ k.pc = "reporting" /\ k.renewal = "none" /\ k.report = ReleaseReport
        /\ k.age = call[c].age
    BY <2>1 DEF Call
  <2>3. Becomes(c, k, {})
    BY <1>6 DEF h
  <2> HIDE DEF k
  <2>4. MoveOf(c, k)
    BY <1>6, <2>0, <2>2 DEF MoveOf, InCall, Forwarding
  <2>5. StepOf(c, k, NoDecision)
    BY <1>3, <1>6, <2>2, <2>3, <2>4
  <2> QED BY <2>2, <2>5
<1> QED BY <1>2, <1>4, <1>5, <1>6 DEF Decides

\* A budget that is resolved is one of the request's.
LEMMA ResolvedBudget ==
  ASSUME LedgerTypeOK, HistoryInv, NEW limit \in Limits, NEW b,
         b = ResolveTokenBudget(Demand.input, Demand.output, RemainingOf(LoadPool(limit)),
                                LoadPool(limit).limit, Mode),
         b.kind = "resolved"
  PROVE  b \in Budgets /\ SizeOf(b) \in Sizes
<1> DEFINE p == LoadPool(limit)
           n == RemainingOf(p)
<1>1. p \in PoolState /\ p.limit \in Limits
  BY LoadPoolType DEF LoadPool, EmptyPool, HistoryInv
<1>2. n \in Int
  BY <1>1 DEF RemainingOf, PoolState
<1>3. p.limit \in Nat
  BY <1>1 DEF PoolState
<1> HIDE DEF p, n
<1>4. b = ResolveTokenBudget(Demand.input, Demand.output, n, p.limit, Mode)
  BY DEF n, p
<1>5. ValidArguments(n, p.limit)
  BY <1>4 DEF ResolveTokenBudget, NoBudget
<1>6. n \in 0..p.limit
  BY <1>2, <1>3, <1>5 DEF ValidArguments
<1>7. b \in Budgets
  BY <1>1, <1>4, <1>6 DEF Budgets
<1> QED BY <1>7, BudgetsAssumption

\* The steps of the decision controller.
LEMMA DecisionSteps ==
  ASSUME ExchangeInv, RelayTypeOK', NEW c \in Calls,
         Budget(c) \/ Admit(c) \/ ReleaseUnsigned(c) \/ DecisionLost(c)
  PROVE  \E k \in Call, v \in Decision : StepOf(c, k, v)
<1>0. /\ ExchangeTypeOK /\ DecisionOK /\ LedgerTypeOK /\ HistoryInv /\ Of(c) \in Requests
      /\ grants \in [Requests -> RelayGrant] /\ grants' \in [Requests -> RelayGrant]
  BY OfRelayed DEF ExchangeInv, LedgerInv, RelayInv, RelayTypeOK
<1>1. NoDecision \in Decision /\ call[c] \in Call /\ decision[c] \in Decision
  BY <1>0, SameRecords
<1>2. ASSUME NEW v \in Decision, DecisionMove(c, call[c], v), decision' = [decision EXCEPT ![c] = v],
             UNCHANGED <<call, posted, fetched, now>>
      PROVE  StepOf(c, call[c], v)
  BY <1>0, <1>2, SameRecords DEF StepOf
<1>3. ASSUME NEW g \in Nat \cup {NoGeneration}, Decides(c, g), fetched' = fetched, now' = now,
             g = NoGeneration \/ decision[c].stage = "budgeted"
      PROVE  \E k \in Call, v \in Decision : StepOf(c, k, v)
  <2>1. \E k \in Call : StepOf(c, k, NoDecision)
    BY <1>0, <1>3, DecidesMoves
  <2> QED BY <1>1, <2>1
<1>4. CASE DecisionLost(c)
  <2>1. StepOf(c, call[c], NoDecision)
    BY <1>1, <1>2, <1>4 DEF DecisionLost, DecisionMove, vars, leaseVars
  <2> QED BY <1>1, <2>1
<1>5. CASE Budget(c)
  <2>0. fetched' = fetched /\ now' = now /\ decision[c].stage = "asked" /\ now =< AdmitUntil
    BY <1>5 DEF Budget, vars, leaseVars
  <2>1. CASE Decides(c, NoGeneration)
    BY <1>3, <2>0, <2>1
  <2>2. CASE ~Decides(c, NoGeneration)
    <3>1. PICK limit \in Limits :
             LET b == ResolveTokenBudget(Demand.input, Demand.output, RemainingOf(LoadPool(limit)),
                                         LoadPool(limit).limit, Mode)
             IN  /\ b.kind = "resolved"
                 /\ decision' = [decision EXCEPT ![c] = [stage |-> "budgeted", budget |-> b]]
                 /\ UNCHANGED <<call, posted>>
      BY <1>5, <2>2 DEF Budget
    <3> DEFINE b == ResolveTokenBudget(Demand.input, Demand.output, RemainingOf(LoadPool(limit)),
                                       LoadPool(limit).limit, Mode)
               v == [stage |-> "budgeted", budget |-> b]
    <3>2. b \in Budgets /\ SizeOf(b) \in Sizes
      BY <1>0, <3>1, ResolvedBudget
    <3>3. UNCHANGED <<call, posted>> /\ decision' = [decision EXCEPT ![c] = v]
      BY <3>1
    <3> HIDE DEF b
    <3>4. v \in Decision /\ DecisionMove(c, call[c], v)
      BY <2>0, <3>2 DEF Decision, Stage, DecisionMove
    <3> HIDE DEF v
    <3>5. StepOf(c, call[c], v)
      BY <1>2, <2>0, <3>3, <3>4
    <3> QED BY <1>1, <3>4, <3>5
  <2> QED BY <2>1, <2>2
<1>6. CASE Admit(c)
  <2>0. fetched' = fetched /\ decision[c].stage = "budgeted"
    BY <1>6 DEF Admit
  <2>1. now' = now
    BY <1>6 DEF Admit, AdmitRelay, AppendLease, PruneOnly, vars, leaseVars
  <2>2. grants'[Of(c)].gen \in Nat \cup {NoGeneration} /\ grants[Of(c)].gen \in Nat \cup {NoGeneration}
    BY <1>0 DEF RelayGrant
  <2>3. CASE decision' = [decision EXCEPT ![c].stage = "unsigned"] /\ UNCHANGED <<call, posted>>
    <3> DEFINE v == [decision[c] EXCEPT !.stage = "unsigned"]
    <3>1. v \in Decision /\ v.stage = "unsigned"
      BY <1>1 DEF Decision, Stage
    <3>2. decision' = [decision EXCEPT ![c] = v]
      BY <1>0, <2>3 DEF DecisionOK
    <3> HIDE DEF v
    <3>3. DecisionMove(c, call[c], v)
      BY <2>0, <3>1 DEF DecisionMove
    <3>4. StepOf(c, call[c], v)
      BY <1>2, <2>0, <2>1, <2>3, <3>1, <3>2, <3>3
    <3> QED BY <1>1, <3>1, <3>4
  <2>4. CASE \E g \in {NoGeneration, grants'[Of(c)].gen, grants[Of(c)].gen} : Decides(c, g)
    <3>1. PICK g \in {NoGeneration, grants'[Of(c)].gen, grants[Of(c)].gen} : Decides(c, g)
      BY <2>4
    <3>2. g \in Nat \cup {NoGeneration}
      BY <2>2
    <3> QED BY <1>3, <2>0, <2>1, <3>1, <3>2
  <2> QED BY <1>6, <2>3, <2>4 DEF Admit
<1>7. CASE ReleaseUnsigned(c)
  <2>0. fetched' = fetched /\ Decides(c, NoGeneration)
    BY <1>7 DEF ReleaseUnsigned
  <2>1. now' = now
    BY <1>7 DEF ReleaseUnsigned, FinishRelay, ExpireAttempted, ReleaseGrantLease, ReleaseLease,
                vars, leaseVars
  <2> QED BY <1>3, <2>0, <2>1
<1> QED BY <1>4, <1>5, <1>6, <1>7

\* The steps of the invocation itself, and the callbacks executed for it.
LEMMA OwnSteps ==
  ASSUME ExchangeInv, NEW c \in Calls,
         Ingress(c) \/ OwnStep(c) \/ ForwardEnds(c) \/ Cancelled(c) \/ Dies(c)
  PROVE  \E k \in Call, v \in Decision : StepOf(c, k, v)
<1>0. ExchangeTypeOK /\ DecisionOK /\ call \in [Calls -> Call]
  BY DEF ExchangeInv, ExchangeTypeOK
<1>1. /\ NoDecision \in Decision /\ call[c] \in Call /\ decision[c] \in Decision
      /\ decision = [decision EXCEPT ![c] = decision[c]]
  BY <1>0, SameRecords
<1>2. UncertainReport \in Report /\ UncertainReport.outcome = "uncertain"
  BY DEF UncertainReport, Report
<1>3. now' = now
  BY DEF Ingress, OwnStep, Send, Respond, RenewalFires, GiveUp, ForwardEnds, Cancelled, Dies, vars, leaseVars
<1>4. ASSUME NEW k \in Call, call' = [call EXCEPT ![c] = k], MoveOf(c, k), decision' = decision,
             call[c].pc \notin {"idle"}, ~(call[c].pc = "deciding" /\ k.pc \in {"activating", "reporting"}),
             ~(call[c].pc = "activating" /\ k.pc = "sending"),
             posted' \subseteq posted \cup {<<c, "activation">>, <<c, "renewal">>, <<c, "terminal">>},
             <<c, "terminal">> \in posted' => <<c, "terminal">> \in posted \/ k.pc = "reporting",
             fetched' = IF call[c].pc = "sending" /\ k.pc = "waiting" THEN fetched \cup {c} ELSE fetched
      PROVE  \E l \in Call, v \in Decision : StepOf(c, l, v)
  <2>1. StepOf(c, k, decision[c])
    BY <1>1, <1>3, <1>4 DEF StepOf, DecisionMove
  <2> QED BY <1>1, <2>1
<1>5. \A l \in Location :
        /\ Goes(c, l) \in Call /\ Goes(c, l).pc = l /\ Goes(c, l).renewal = "none"
        /\ Goes(c, l).report = call[c].report /\ Goes(c, l).age = call[c].age
  BY <1>0, CallRecords
<1>6. \A rep \in Report :
        /\ Reports(c, rep) \in Call /\ Reports(c, rep).pc = "reporting"
        /\ Reports(c, rep).renewal = "none" /\ Reports(c, rep).report = rep
        /\ Reports(c, rep).age = call[c].age
  BY <1>0, CallRecords
<1>7. CASE Ingress(c)
  <2>0. /\ call[c].pc = "idle" /\ fetched' = fetched
        /\ \/ /\ Becomes(c, Goes(c, "deciding"), {})
              /\ decision' = [decision EXCEPT ![c].stage = "asked"]
           \/ Becomes(c, Goes(c, "done"), {}) /\ decision' = decision
    BY <1>7 DEF Ingress, InCall
  <2> DEFINE v == [decision[c] EXCEPT !.stage = "asked"]
             k == Goes(c, "deciding")
             e == Goes(c, "done")
  <2>1. v \in Decision /\ v.stage = "asked"
    BY <1>1 DEF Decision, Stage
  <2>2. /\ k \in Call /\ e \in Call /\ MoveOf(c, k) /\ MoveOf(c, e)
        /\ k.pc = "deciding" /\ e.pc = "done"
    BY <1>5, <2>0 DEF MoveOf, Location, SettingUp, CallEnded
  <2>3. CASE Becomes(c, k, {}) /\ decision' = [decision EXCEPT ![c].stage = "asked"]
    <3>1. decision' = [decision EXCEPT ![c] = v]
      BY <1>0, <2>3 DEF DecisionOK
    <3>2. posted' = posted /\ call' = [call EXCEPT ![c] = k]
      BY <2>2, <2>3 DEF Becomes
    <3> HIDE DEF v, k
    <3>3. StepOf(c, k, v)
      BY <1>3, <2>0, <2>1, <2>2, <3>1, <3>2 DEF StepOf, DecisionMove
    <3> QED BY <2>1, <2>2, <3>3
  <2>4. CASE Becomes(c, e, {}) /\ decision' = decision
    <3>1. posted' = posted /\ call' = [call EXCEPT ![c] = e]
      BY <2>2, <2>4 DEF Becomes
    <3> HIDE DEF e
    <3>2. StepOf(c, e, decision[c])
      BY <1>1, <1>3, <2>0, <2>2, <2>4, <3>1 DEF StepOf, DecisionMove
    <3> QED BY <1>1, <2>2, <3>2
  <2> QED BY <2>0, <2>3, <2>4
<1>8. CASE Send(c)
  <2>1. /\ Goes(c, "waiting") \in Call /\ MoveOf(c, Goes(c, "waiting")) /\ Goes(c, "waiting").pc = "waiting"
    BY <1>5, <1>8 DEF Send, InCall, MoveOf, Location, SettingUp
  <2> QED BY <1>4, <1>8, <2>1, BecomesPosts DEF Send, InCall
<1>9. CASE Respond(c)
  <2>0. call[c].pc = "waiting" /\ decision' = decision /\ fetched' = fetched
    BY <1>9 DEF Respond, InCall
  <2>1. CASE Becomes(c, Reports(c, UncertainReport), {})
    <3>1. MoveOf(c, Reports(c, UncertainReport))
      BY <1>2, <1>6, <2>0 DEF MoveOf
    <3> QED BY <1>2, <1>4, <1>6, <2>0, <2>1, <3>1, BecomesPosts
  <2>2. ASSUME NEW l \in Forwarding, Becomes(c, Goes(c, l), {})
        PROVE  \E k \in Call, v \in Decision : StepOf(c, k, v)
    <3>1. Goes(c, l) \in Call /\ MoveOf(c, Goes(c, l)) /\ Goes(c, l).pc = l
      BY <1>5, <2>0 DEF MoveOf, Location
    <3> QED BY <1>4, <2>0, <2>2, <3>1, BecomesPosts DEF Forwarding
  <2> QED BY <1>9, <2>1, <2>2 DEF Respond
<1>10. CASE ForwardEnds(c) \/ Cancelled(c)
  <2>0. call[c].pc \in Forwarding /\ decision' = decision /\ fetched' = fetched
    BY <1>10 DEF ForwardEnds, Cancelled, InCall, Forwarding
  <2>1. PICK rep \in Report : /\ Becomes(c, Reports(c, rep), {})
                              /\ rep.outcome \in {"settle", "uncertain"}
    <3>1. \A n \in Actuals : [outcome |-> "settle", tokens |-> n] \in Report
      BY DEF Report
    <3> QED BY <1>2, <1>10, <3>1 DEF ForwardEnds, Cancelled
  <2>2. MoveOf(c, Reports(c, rep))
    BY <1>6, <2>0, <2>1 DEF MoveOf
  <2> QED BY <1>4, <1>6, <2>0, <2>1, <2>2, BecomesPosts DEF Forwarding
<1>11. CASE RenewalFires(c)
  <2>0. /\ call[c].pc \in Forwarding /\ decision' = decision /\ fetched' = fetched
        /\ call' = [call EXCEPT ![c].renewal = "sent"] /\ posted' = posted \cup {<<c, "renewal">>}
    BY <1>11 DEF RenewalFires
  <2> DEFINE k == [call[c] EXCEPT !.renewal = "sent"]
  <2>1. k \in Call /\ k.pc = call[c].pc /\ k.report = call[c].report /\ k.age = call[c].age
    BY <1>1 DEF Call
  <2>2. call' = [call EXCEPT ![c] = k]
    BY <1>0, <2>0
  <2> HIDE DEF k
  <2>3. MoveOf(c, k)
    BY <2>0, <2>1 DEF MoveOf
  <2> QED BY <1>4, <2>0, <2>1, <2>2, <2>3 DEF Forwarding
<1>12. CASE Dies(c)
  <2>0. /\ call[c].pc # "idle" /\ decision' = decision /\ fetched' = fetched /\ posted' = posted
        /\ call' = [call EXCEPT ![c].pc = "dead", ![c].renewal = "none"]
    BY <1>12 DEF Dies
  <2> DEFINE k == [call[c] EXCEPT !.pc = "dead", !.renewal = "none"]
  <2>1. k = Goes(c, "dead")
    BY DEF Goes
  <2>2. k \in Call /\ k.pc = "dead" /\ k.renewal = "none" /\ k.report = call[c].report /\ k.age = call[c].age
    BY <1>5, <2>1 DEF Location, CallEnded
  <2>3. call' = [call EXCEPT ![c] = k]
    BY <1>0, <2>0
  <2> HIDE DEF k
  <2>4. MoveOf(c, k)
    BY <2>0, <2>2 DEF MoveOf
  <2> QED BY <1>4, <2>0, <2>2, <2>3, <2>4
<1>13. CASE GiveUp(c)
  <2>0. decision' = decision /\ fetched' = fetched
    BY <1>13 DEF GiveUp
  <2>1. CASE call[c].pc = "deciding" /\ Becomes(c, Goes(c, "done"), {})
    <3>1. Goes(c, "done") \in Call /\ MoveOf(c, Goes(c, "done")) /\ Goes(c, "done").pc = "done"
      BY <1>5, <2>1 DEF MoveOf, Location, CallEnded
    <3> QED BY <1>4, <2>0, <2>1, <3>1, BecomesPosts
  <2>2. CASE \/ InCall(c, "activating") /\ Becomes(c, AfterActivation(c, "unknown"), {})
             \/ call[c].renewal = "sent" /\ Becomes(c, AfterRenewal(c, FALSE), {})
    <3>1. /\ Becomes(c, Reports(c, UncertainReport), {})
          /\ call[c].pc = "activating" \/ call[c].pc \in Forwarding
      BY <2>2 DEF AfterActivation, AfterRenewal, InCall, ExchangeInv, CallInv
    <3>2. MoveOf(c, Reports(c, UncertainReport))
      BY <1>2, <1>6, <3>1 DEF MoveOf
    <3> QED BY <1>2, <1>4, <1>6, <2>0, <3>1, <3>2, BecomesPosts DEF Forwarding
  <2>3. CASE InCall(c, "reporting") /\ call' = [call EXCEPT ![c].pc = "done"] /\ posted' = posted
    <3> DEFINE k == [call[c] EXCEPT !.pc = "done"]
    <3>0. call[c].pc = "reporting" /\ call[c].renewal = "none"
      BY <1>1, <2>3 DEF InCall, ExchangeInv, CallInv, Forwarding
    <3>1. k \in Call /\ k.pc = "done" /\ k.renewal = "none" /\ k.report = call[c].report /\ k.age = call[c].age
      BY <1>1, <3>0 DEF Call, CallEnded
    <3>2. call' = [call EXCEPT ![c] = k]
      BY <1>0, <2>3
    <3> HIDE DEF k
    <3>3. MoveOf(c, k)
      BY <3>0, <3>1 DEF MoveOf
    <3> QED BY <1>4, <2>0, <2>3, <3>0, <3>1, <3>2, <3>3
  <2> QED BY <1>13, <2>1, <2>2, <2>3 DEF GiveUp, InCall
<1> QED BY <1>7, <1>8, <1>9, <1>10, <1>11, <1>12, <1>13 DEF OwnStep

\* The activation is answered with "activated" only where it starts the attempt.
LEMMA ActivatedStarts ==
  ASSUME RelayTypeOK, NEW r \in Requests, NEW g,
         ActivationAnswer(r, g) = "activated", ActivateRelay(r, g)
  PROVE  /\ grants[r].state = "authorized"
         /\ activations' = [activations EXCEPT ![r] = @ + 1]
         /\ grants' = [grants EXCEPT ![r].state = "attempted"]
         /\ UNCHANGED <<ledgerVars, leaseVars>>
<1>1. grants[r] \in RelayGrant /\ now \in Nat /\ grants[r].auth \in Nat
  BY DEF RelayTypeOK, RelayGrant
<1>2. ~(now >= grants[r].auth)
  BY DEF ActivationAnswer
<1> QED BY <1>2 DEF ActivateRelay, Activatable

\* The gateway executes a callback that the invocation posted.
LEMMA CallbackSteps ==
  ASSUME ExchangeInv, NEW c \in Calls, ExecuteActivation(c) \/ ExecuteRenewal(c) \/ ExecuteReport(c)
  PROVE  \E k \in Call, v \in Decision : StepOf(c, k, v)
<1>0. /\ ExchangeTypeOK /\ DecisionOK /\ call \in [Calls -> Call] /\ RelayTypeOK
      /\ Of(c) \in Requests /\ Of(c) \in Relayed /\ CallInv(c)
      /\ activations \in [Requests -> Nat]
  BY OfRelayed DEF ExchangeInv, ExchangeTypeOK, RelayTypeOK
<1>1. /\ call[c] \in Call /\ call = [call EXCEPT ![c] = call[c]] /\ decision[c] \in Decision
      /\ decision = [decision EXCEPT ![c] = decision[c]]
  BY <1>0, SameRecords
<1>2. /\ UncertainReport \in Report /\ UncertainReport.outcome = "uncertain"
      /\ ReleaseReport \in Report /\ ReleaseReport.outcome = "release"
  BY DEF UncertainReport, ReleaseReport, Report
<1>3. now' = now /\ decision' = decision /\ fetched' = fetched
  BY DEF ExecuteActivation, ExecuteRenewal, ExecuteReport, ActivateRelay, RenewRelay, FinishRelay,
         ExpireAttempted, ReleaseGrantLease, ReleaseLease, vars, leaseVars
<1>4. call[c].pc # "idle"
  BY <1>0 DEF ExecuteActivation, ExecuteRenewal, ExecuteReport, CallInv
<1>5. ASSUME NEW k \in Call, call' = [call EXCEPT ![c] = k], k = call[c] \/ MoveOf(c, k),
             call[c].pc = "deciding" => k.pc = "deciding",
             call[c].pc = "sending" => k.pc = "sending",
             call[c].pc = "activating" /\ k.pc = "sending" =>
                grants[Of(c)].state = "authorized" /\ activations'[Of(c)] = activations[Of(c)] + 1,
             posted' \subseteq posted \cup {<<c, "activation">>, <<c, "renewal">>, <<c, "terminal">>},
             <<c, "terminal">> \in posted' => <<c, "terminal">> \in posted \/ k.pc = "reporting"
      PROVE  \E l \in Call, v \in Decision : StepOf(c, l, v)
  <2>1. StepOf(c, k, decision[c])
    BY <1>1, <1>3, <1>4, <1>5 DEF StepOf, DecisionMove
  <2> QED BY <1>1, <2>1
<1>6. CASE posted' \subseteq posted /\ UNCHANGED call
  BY <1>1, <1>5, <1>6
<1>7. \A l \in Location :
        /\ Goes(c, l) \in Call /\ Goes(c, l).pc = l /\ Goes(c, l).renewal = "none"
        /\ Goes(c, l).report = call[c].report /\ Goes(c, l).age = call[c].age
  BY <1>0, CallRecords
<1>8. \A rep \in Report :
        /\ Reports(c, rep) \in Call /\ Reports(c, rep).pc = "reporting"
        /\ Reports(c, rep).renewal = "none" /\ Reports(c, rep).report = rep
        /\ Reports(c, rep).age = call[c].age
  BY <1>0, CallRecords
<1>9. CASE ExecuteActivation(c)
  <2> DEFINE answer == ActivationAnswer(Of(c), call[c].gen)
             k == AfterActivation(c, answer)
  <2>1. CASE call[c].pc = "activating" /\ Becomes(c, k, {<<c, "activation">>})
    <3>1. CASE answer = "activated"
      <4>1. k = Goes(c, "sending")
        BY <3>1 DEF AfterActivation
      <4>2. k \in Call /\ k.pc = "sending" /\ MoveOf(c, k)
        BY <1>7, <2>1, <4>1 DEF MoveOf, Location, SettingUp
      <4>3. ActivateRelay(Of(c), call[c].gen)
        BY <1>9, <3>1 DEF ExecuteActivation
      <4>4. /\ grants[Of(c)].state = "authorized"
            /\ activations' = [activations EXCEPT ![Of(c)] = @ + 1]
        BY <1>0, <3>1, <4>3, ActivatedStarts
      <4>5. activations'[Of(c)] = activations[Of(c)] + 1
        BY <1>0, <4>4
      <4> HIDE DEF k
      <4> QED BY <1>5, <2>1, <4>2, <4>4, <4>5, BecomesPosts
    <3>2. CASE answer # "activated"
      <4>1. \/ \E rep \in {ReleaseReport, UncertainReport} : k = Reports(c, rep)
            \/ k = Goes(c, "done")
        BY <3>2 DEF AfterActivation
      <4>2. k \in Call /\ MoveOf(c, k) /\ k.pc \in {"reporting", "done"}
        <5>1. CASE k = Goes(c, "done")
          BY <1>7, <2>1, <5>1 DEF MoveOf, Location, CallEnded
        <5>2. ASSUME NEW rep \in {ReleaseReport, UncertainReport}, k = Reports(c, rep)
              PROVE  k \in Call /\ MoveOf(c, k) /\ k.pc \in {"reporting", "done"}
          BY <1>2, <1>8, <2>1, <5>2 DEF MoveOf, Forwarding
        <5> QED BY <4>1, <5>1, <5>2
      <4> HIDE DEF k
      <4> QED BY <1>5, <2>1, <4>2, BecomesPosts
    <3> QED BY <3>1, <3>2
  <2> HIDE DEF k
  <2> QED BY <1>6, <1>9, <2>1 DEF ExecuteActivation, InCall, k
<1>10. CASE ExecuteRenewal(c)
  <2>1. CASE \E b \in BOOLEAN : call[c].renewal = "sent" /\ Becomes(c, AfterRenewal(c, b), {<<c, "renewal">>})
    <3>0. call[c].pc \in Forwarding
      BY <1>0, <2>1 DEF CallInv
    <3>1. PICK b \in BOOLEAN : Becomes(c, AfterRenewal(c, b), {<<c, "renewal">>})
      BY <2>1
    <3> DEFINE k == AfterRenewal(c, b)
    <3>2. CASE b
      <4>1. k = [call[c] EXCEPT !.renewal = "none"]
        BY <3>2 DEF AfterRenewal
      <4>2. k \in Call /\ k.pc = call[c].pc /\ k.report = call[c].report /\ k.age = call[c].age
        BY <1>1, <4>1 DEF Call
      <4> HIDE DEF k
      <4>3. MoveOf(c, k)
        BY <3>0, <4>2 DEF MoveOf
      <4> QED BY <1>5, <3>0, <3>1, <4>2, <4>3, BecomesPosts DEF Forwarding, k
    <3>3. CASE ~b
      <4>1. k = Reports(c, UncertainReport)
        BY <3>3 DEF AfterRenewal
      <4>2. k \in Call /\ k.pc = "reporting" /\ MoveOf(c, k)
        BY <1>2, <1>8, <3>0, <4>1 DEF MoveOf
      <4> HIDE DEF k
      <4> QED BY <1>5, <3>0, <3>1, <4>2, BecomesPosts DEF Forwarding, k
    <3> QED BY <3>2, <3>3
  <2> QED BY <1>6, <1>10, <2>1 DEF ExecuteRenewal
<1>11. CASE ExecuteReport(c)
  <2>1. CASE InCall(c, "reporting") /\ call' = [call EXCEPT ![c].pc = "done"]
    <3> DEFINE k == [call[c] EXCEPT !.pc = "done"]
    <3>0. call[c].pc = "reporting" /\ call[c].renewal = "none"
      BY <1>0, <1>1, <2>1 DEF InCall, CallInv, Forwarding
    <3>1. k \in Call /\ k.pc = "done" /\ k.renewal = "none" /\ k.report = call[c].report /\ k.age = call[c].age
      BY <1>1, <3>0 DEF Call, CallEnded
    <3>2. call' = [call EXCEPT ![c] = k]
      BY <1>0, <2>1
    <3>3. posted' \subseteq posted
      BY <1>11 DEF ExecuteReport
    <3> HIDE DEF k
    <3>4. MoveOf(c, k)
      BY <3>0, <3>1 DEF MoveOf
    <3> QED BY <1>5, <3>0, <3>1, <3>2, <3>3, <3>4
  <2> QED BY <1>6, <1>11, <2>1 DEF ExecuteReport
<1> QED BY <1>9, <1>10, <1>11

(***************************************************************************)
(* The types and the place of an invocation are kept.                      *)
(***************************************************************************)

\* A step about one invocation writes records of the right type.
LEMMA StepOfTypes ==
  ASSUME ExchangeTypeOK, DecisionOK, RelayTypeOK', NEW c \in Calls, NEW k \in Call, NEW v \in Decision,
         StepOf(c, k, v)
  PROVE  ExchangeTypeOK' /\ DecisionOK'
<1>1. call' \in [Calls -> Call] /\ decision' \in [Calls -> Decision]
  BY DEF StepOf, ExchangeTypeOK, DecisionOK, Decision
<1>2. fetched' \subseteq Calls
  BY DEF StepOf, ExchangeTypeOK
<1>3. posted' \subseteq Calls \X {"activation", "renewal", "terminal"}
  BY DEF StepOf, ExchangeTypeOK
<1> QED BY <1>1, <1>2, <1>3 DEF ExchangeTypeOK, DecisionOK, Decision

\* A step about one invocation leaves what is known of the others.
LEMMA OthersKeepCall ==
  ASSUME ExchangeTypeOK, DecisionOK, NEW c \in Calls, NEW k \in Call, NEW v \in Decision,
         StepOf(c, k, v), NEW d \in Calls \ {c}, CallInv(d)
  PROVE  CallInv(d)'
<1>1. call'[d] = call[d] /\ decision'[d] = decision[d] /\ now' = now
  BY DEF StepOf, ExchangeTypeOK, DecisionOK
<1>2. d \in fetched' <=> d \in fetched
  BY DEF StepOf
<1>3. \A kind \in {"activation", "renewal", "terminal"} : <<d, kind>> \in posted' => <<d, kind>> \in posted
  BY DEF StepOf
<1> QED BY <1>1, <1>2, <1>3 DEF CallInv

\* And keeps what is known of its own.
LEMMA OwnCallKept ==
  ASSUME ExchangeTypeOK, DecisionOK, NEW c \in Calls, NEW k \in Call, NEW v \in Decision,
         StepOf(c, k, v), CallInv(c), now \in Nat
  PROVE  CallInv(c)'
<1>0. call'[c] = k /\ decision'[c] = v /\ now' = now
  BY DEF StepOf, ExchangeTypeOK, DecisionOK
<1> DEFINE h == call[c]
<1>1. h \in Call /\ decision[c] \in Decision /\ NoReport \notin Report
  BY DEF ExchangeTypeOK, DecisionOK, Decision, NoReport, Report
<1>2. k = h \/ MoveOf(c, k)
  BY DEF StepOf
<1>3. /\ k.age = h.age /\ k.age \in Nat
      /\ h.pc # "idle" => k.pc # "idle"
      /\ k.pc = "idle" => h.pc = "idle"
  BY <1>1, <1>2, ExchangeAssumption DEF MoveOf, Call, Forwarding
<1>4. k.pc = "idle" => k.age = 0
  BY <1>3 DEF CallInv
<1>5. k.renewal # "none" => k.pc \in Forwarding
  BY <1>1, <1>2 DEF CallInv, MoveOf
<1>6. k.pc \in {"waiting"} \cup Forwarding => c \in fetched'
  BY <1>2 DEF CallInv, MoveOf, StepOf, Forwarding
<1>7. c \in fetched' => k.pc \in {"waiting", "reporting"} \cup Forwarding \cup CallEnded
  BY <1>2 DEF CallInv, MoveOf, StepOf, Forwarding, CallEnded
<1>8. k.report # NoReport => k.pc \in {"reporting"} \cup CallEnded
  BY <1>2 DEF CallInv, MoveOf, Forwarding, CallEnded
<1>9. k.report.outcome = "settle" => c \in fetched'
  BY <1>2 DEF CallInv, MoveOf, StepOf, Forwarding, CallEnded
<1>10. c \in fetched' /\ k.pc \in {"reporting", "done"} => k.report.outcome \in {"settle", "uncertain"}
  BY <1>2 DEF CallInv, MoveOf, StepOf, Forwarding, CallEnded
<1>11. k.pc = "reporting" \/ <<c, "terminal">> \in posted' => k.report \in Report
  <2>1. k.pc = "reporting" => k.report \in Report
    BY <1>2 DEF CallInv, MoveOf, Forwarding
  <2>2. <<c, "terminal">> \in posted => k.report \in Report
    BY <1>1, <1>2 DEF CallInv, MoveOf
  <2> QED BY <2>1, <2>2 DEF StepOf
<1>12. \A kind \in {"activation", "renewal", "terminal"} : <<c, kind>> \in posted' => k.pc # "idle"
  BY <1>3 DEF CallInv, StepOf
<1>13. v.stage # "none" => k.pc \in {"deciding"} \cup CallEnded
  <2>0. NoDecision.stage = "none"
    BY DEF NoDecision
  <2>1. CASE v = decision[c]
    BY <1>2, <2>0, <2>1 DEF CallInv, MoveOf, StepOf, Forwarding, CallEnded
  <2>2. CASE v.stage = "asked" /\ k.pc = "deciding"
    BY <2>2
  <2>3. CASE decision[c].stage \in {"asked", "budgeted"} /\ k = call[c]
    BY <2>3 DEF CallInv
  <2> QED BY <2>0, <2>1, <2>2, <2>3 DEF StepOf, DecisionMove
<1>14. v.stage = "budgeted" => SizeOf(v.budget) \in Sizes
  BY DEF StepOf, DecisionMove, CallInv, NoDecision
<1>15. \/ k.pc \in {"activating", "sending", "waiting"}
       \/ k.pc = "deciding" /\ v.stage = "budgeted"
       => now =< AdmitUntil + k.age
  <2>1. CASE k.pc \in {"activating", "sending", "waiting"}
    <3>1. \/ h.pc \in {"activating", "sending", "waiting"}
          \/ h.pc = "deciding" /\ decision[c].stage = "budgeted"
      BY <1>2, <2>1 DEF MoveOf, StepOf, Forwarding
    <3> QED BY <1>3, <3>1 DEF CallInv
  <2>2. CASE k.pc = "deciding" /\ v.stage = "budgeted"
    <3>1. CASE v = decision[c]
      <4>1. h.pc = "deciding"
        BY <1>2, <2>2, <3>1 DEF MoveOf, CallInv, Forwarding, CallEnded
      <4> QED BY <1>3, <2>2, <3>1, <4>1 DEF CallInv
    <3>2. CASE v # decision[c]
      <4>1. now =< AdmitUntil
        BY <2>2, <3>2 DEF StepOf, DecisionMove, NoDecision
      <4> QED BY <1>3, <4>1, RelayAssumption
    <3> QED BY <3>1, <3>2
  <2> QED BY <2>1, <2>2
<1> HIDE DEF h
<1> QED BY <1>0, <1>4, <1>5, <1>6, <1>7, <1>8, <1>9, <1>10, <1>11, <1>12, <1>13, <1>14, <1>15 DEF CallInv

\* What a renewal period makes of an invocation.
Aged(c) ==
    IF call[c].pc \in SettingUp THEN [call[c] EXCEPT !.age = @ + 1]
    ELSE IF call[c].pc \in Forwarding THEN [call[c] EXCEPT !.renewal = "due"]
    ELSE call[c]

\* What a period changes: the age of a setup, the renewal due of a running exchange.
LEMMA PeriodAges ==
  ASSUME ExchangeTypeOK, Period, NEW c \in Calls
  PROVE  /\ call'[c] = Aged(c) /\ Aged(c) \in Call
         /\ Aged(c).pc = call[c].pc /\ Aged(c).report = call[c].report /\ Aged(c).gen = call[c].gen
         /\ call[c].pc \in SettingUp =>
               Aged(c).age = call[c].age + 1 /\ Aged(c).renewal = call[c].renewal
         /\ call[c].pc \notin SettingUp => Aged(c).age = call[c].age
         /\ call[c].pc \in Forwarding => Aged(c).renewal = "due"
         /\ call[c].pc \notin SettingUp \cup Forwarding => Aged(c) = call[c]
<1>1. call[c] \in Call /\ call[c].age \in 0..SetupPeriods /\ SetupPeriods \in Nat
  BY ExchangeAssumption DEF ExchangeTypeOK, Call
<1>2. call'[c] = Aged(c) /\ (call[c].pc \in SettingUp => call[c].age < SetupPeriods)
  BY DEF Period, Aged
<1>3. SettingUp \cap Forwarding = {}
  BY DEF SettingUp, Forwarding
<1>4. CASE call[c].pc \in SettingUp
  <2>1. Aged(c) = [call[c] EXCEPT !.age = call[c].age + 1]
    BY <1>4 DEF Aged
  <2>2. call[c].age + 1 \in 0..SetupPeriods
    BY <1>1, <1>2, <1>4
  <2> QED BY <1>1, <1>2, <1>3, <1>4, <2>1, <2>2 DEF Call
<1>5. CASE call[c].pc \in Forwarding
  <2>1. Aged(c) = [call[c] EXCEPT !.renewal = "due"]
    BY <1>3, <1>5 DEF Aged
  <2> QED BY <1>1, <1>2, <1>3, <1>5, <2>1 DEF Call
<1>6. CASE call[c].pc \notin SettingUp \cup Forwarding
  BY <1>1, <1>2, <1>6 DEF Aged
<1> QED BY <1>4, <1>5, <1>6

\* A period keeps the types.
LEMMA PeriodTypes ==
  ASSUME ExchangeTypeOK, DecisionOK, RelayTypeOK', Period
  PROVE  ExchangeTypeOK' /\ DecisionOK'
<1>1. call' = [c \in Calls |-> Aged(c)]
  BY DEF Period, Aged
<1>2. \A c \in Calls : Aged(c) \in Call
  BY PeriodAges
<1> QED BY <1>1, <1>2 DEF Period, ExchangeTypeOK, DecisionOK

\* A period sends and receives nothing, so each invocation stays consistent.
LEMMA PeriodKeepsCall ==
  ASSUME ExchangeTypeOK, DecisionOK, Period, NEW c \in Calls, CallInv(c), now \in Nat
  PROVE  CallInv(c)'
<1>0. /\ call'[c] = Aged(c) /\ now' = now + 1 /\ UNCHANGED <<decision, posted, fetched>>
      /\ call[c].renewal = "none"
  BY PeriodAges DEF Period, Tick
<1>1. call[c] \in Call /\ call[c].age \in Nat
  BY ExchangeAssumption DEF ExchangeTypeOK, Call
<1> DEFINE k == Aged(c)
<1>2. /\ k.pc = call[c].pc /\ k.report = call[c].report
      /\ call[c].pc \in SettingUp => k.age = call[c].age + 1 /\ k.renewal = "none"
      /\ call[c].pc \notin SettingUp => k.age = call[c].age
      /\ call[c].pc \notin SettingUp \cup Forwarding => k.renewal = "none"
  BY <1>0, PeriodAges
<1> HIDE DEF k
<1>3. \/ k.pc \in {"activating", "sending", "waiting"}
      \/ k.pc = "deciding" /\ decision'[c].stage = "budgeted"
      => now' =< AdmitUntil + k.age
  BY <1>0, <1>1, <1>2, RelayAssumption DEF CallInv, SettingUp
<1>4. k.pc = "idle" => k.age = 0
  BY <1>2 DEF CallInv, SettingUp
<1>5. k.renewal # "none" => k.pc \in Forwarding
  BY <1>2
<1> QED BY <1>0, <1>2, <1>3, <1>4, <1>5 DEF CallInv, k

(***************************************************************************)
(* What the operations of the controller do to grants and leases.          *)
(***************************************************************************)

\* A lease of r that is in force stays stored, for as long or for its full time.
LeaseKept(r) ==
    \A l \in leases : l.req = r /\ l.exp > now =>
        \E m \in leases' : /\ m.req = r /\ m.gen = l.gen
                           /\ m.exp >= l.exp \/ m.exp >= now + LeaseTTL

\* The grant of r has a lease with its full time ahead.
FreshLease(r) == \E l \in leases' : l.req = r /\ l.gen = grants'[r].gen /\ l.exp >= now + LeaseTTL

\* After a step for r its grant is over, or goes on under its lease, or got one.
GrantServed(r) ==
    \/ grants'[r].state \notin LiveStates
    \/ grants[r].state \in LiveStates /\ grants'[r].gen = grants[r].gen /\ LeaseKept(r)
    \/ FreshLease(r)

\* What the operations on the lease record leave of the leases of q.
LEMMA LeasesOfOthers ==
  ASSUME RelayTypeOK, NEW q \in Relayed,
         \/ leases' = leases \/ PruneOnly
         \/ \E r \in Relayed : AppendLease(r)
         \/ \E r \in Relayed \ {q} : ReleaseGrantLease(r) \/ SaveInFlight(Extended(GrantLease(r)))
  PROVE  LeaseKept(q)
<1>1. SUFFICES ASSUME NEW l \in leases, l.req = q, l.exp > now
               PROVE  l \in leases'
  <2>1. \A l \in leases : l.exp >= l.exp
    BY DEF RelayTypeOK, LeaseIn
  <2> QED BY <1>1, <2>1 DEF LeaseKept
<1>2. l \in Active
  BY <1>1 DEF Active, WithoutExpired, Normalized
<1> QED BY <1>1, <1>2 DEF PruneOnly, AppendLease, ReleaseGrantLease, ReleaseLease, Releasable, SaveInFlight,
                          Extended, GrantLease, ActiveOf

\* Extending the lease of r keeps it, and gives it its full time when it is in force.
LEMMA LeaseExtended ==
  ASSUME RelayTypeOK, NEW r \in Relayed, SaveInFlight(Extended(GrantLease(r))), grants'[r] = grants[r]
  PROVE  LeaseKept(r) /\ (GrantLease(r) # {} => FreshLease(r))
<1>1. now \in Nat /\ leases \subseteq LeaseIn(Requests) /\ now + LeaseTTL \in Nat
  BY LeaseTTLAssumption DEF RelayTypeOK
<1>2. ASSUME NEW l \in GrantLease(r)
      PROVE  \E m \in leases' : m.req = r /\ m.gen = l.gen /\ m.exp = now + LeaseTTL
  <2> DEFINE m == [l EXCEPT !.exp = now + LeaseTTL]
  <2>1. l.req = r /\ (l \in leases \/ \E q : l = NewLease(q, LegacyGeneration))
    BY <1>2 DEF GrantLease, ActiveOf, Active, WithoutExpired, Normalized
  <2>2. m.req = r /\ m.gen = l.gen /\ m.exp = now + LeaseTTL
    BY <1>1, <2>1 DEF LeaseIn, NewLease
  <2>3. m \in leases'
    BY <1>2 DEF SaveInFlight, Extended
  <2> QED BY <2>2, <2>3
<1>3. LeaseKept(r)
  <2> SUFFICES ASSUME NEW l \in leases, l.req = r, l.exp > now
               PROVE  \E m \in leases' : /\ m.req = r /\ m.gen = l.gen
                                         /\ m.exp >= l.exp \/ m.exp >= now + LeaseTTL
    BY DEF LeaseKept
  <2>1. l \in Active /\ l.exp \in Nat
    BY <1>1 DEF Active, WithoutExpired, Normalized, LeaseIn
  <2>2. CASE l \in GrantLease(r)
    BY <1>1, <1>2, <2>1, <2>2
  <2>3. CASE l \notin GrantLease(r)
    BY <2>1, <2>3 DEF SaveInFlight, Extended
  <2> QED BY <2>2, <2>3
<1>4. GrantLease(r) # {} => FreshLease(r)
  <2> SUFFICES ASSUME NEW l \in GrantLease(r) PROVE FreshLease(r)
    OBVIOUS
  <2>1. l.gen = grants'[r].gen
    BY DEF GrantLease
  <2> QED BY <1>1, <1>2, <2>1 DEF FreshLease
<1> QED BY <1>3, <1>4

\* The grant of another request and its lease are not touched.
GrantRests(q) == grants'[q] = grants[q] /\ LeaseKept(q)

\* A callback ends the grant or goes on with it.
LEMMA CallbackServes ==
  ASSUME RelayInv, NEW r \in Relayed, NEW g, Callback(r, g)
  PROVE  GrantServed(r) /\ \A q \in Relayed \ {r} : GrantRests(q)
<1>0. /\ RelayTypeOK /\ r \in Requests /\ grants \in [Requests -> RelayGrant] /\ grants[r] \in RelayGrant
      /\ Relayed \subseteq Requests
  BY RelayAssumption DEF RelayInv, RelayTypeOK
<1>1. ReleaseGrantLease(r) \/ SaveInFlight(Extended(GrantLease(r))) \/ leases' = leases
  BY DEF Callback, ActivateRelay, RenewRelay, FinishRelay, ExpireAttempted, leaseVars
<1>2. ASSUME NEW q \in Relayed \ {r}
      PROVE  GrantRests(q)
  <2>1. LeaseKept(q)
    BY <1>0, <1>1, LeasesOfOthers
  <2>2. grants'[q] = grants[q]
    BY <1>0, OtherGrantsRest
  <2> QED BY <2>1, <2>2 DEF GrantRests
<1>3. CASE ActivateRelay(r, g)
  <2>1. CASE grants' = [grants EXCEPT ![r].state = "released"]
    BY <1>0, <1>2, <2>1 DEF RelayGrant, GrantServed, LiveStates
  <2>2. CASE grants' = [grants EXCEPT ![r].state = "attempted"] /\ leases' = leases
    <3>1. LeaseKept(r) /\ grants[r].state = "authorized"
      BY <1>0, <1>3, <2>2, LeasesOfOthers DEF ActivateRelay, Activatable
    <3>2. grants'[r].gen = grants[r].gen
      BY <1>0, <2>2 DEF RelayGrant
    <3> QED BY <1>2, <3>1, <3>2 DEF GrantServed, LiveStates
  <2> QED BY <1>3, <2>1, <2>2 DEF ActivateRelay, leaseVars
<1>4. CASE RenewRelay(r, g)
  <2>1. CASE grants' = [grants EXCEPT ![r].state = "uncertain"]
    BY <1>0, <1>2, <2>1 DEF RelayGrant, GrantServed, LiveStates
  <2>2. CASE SaveInFlight(Extended(GrantLease(r))) /\ grants' = grants
    <3>1. LeaseKept(r)
      BY <1>0, <2>2, LeaseExtended
    <3> QED BY <1>2, <1>4, <2>2, <3>1 DEF RenewRelay, GrantServed, LiveStates
  <2> QED BY <1>4, <2>1, <2>2 DEF RenewRelay, ExpireAttempted
<1>5. ASSUME NEW report \in Report, FinishRelay(r, g, report)
      PROVE  GrantServed(r)
  <2>1. GrantStateAfter[report.outcome] \notin LiveStates
    BY DEF GrantStateAfter, LiveStates, Report
  <2>2. CASE grants' = [grants EXCEPT ![r].state = GrantStateAfter[report.outcome], ![r].report = report]
    BY <1>0, <2>1, <2>2 DEF RelayGrant, GrantServed
  <2>3. CASE grants' = [grants EXCEPT ![r].state = "uncertain"]
    BY <1>0, <2>3 DEF RelayGrant, GrantServed, LiveStates
  <2> QED BY <1>5, <2>2, <2>3 DEF FinishRelay, ExpireAttempted
<1> QED BY <1>2, <1>3, <1>4, <1>5 DEF Callback

\* An admission gives the grant a lease, or without a place leaves all as it was.
LEMMA AdmitServes ==
  ASSUME RelayInv, NEW r \in Relayed, NEW size, NEW k, NEW limit, AdmitRelay(r, size, k, limit)
  PROVE  GrantServed(r) /\ \A q \in Relayed \ {r} : GrantRests(q)
<1>0. /\ RelayTypeOK /\ r \in Requests /\ grants \in [Requests -> RelayGrant] /\ now \in Nat
      /\ Relayed \subseteq Requests
  BY RelayAssumption DEF RelayInv, RelayTypeOK
<1>1. AppendLease(r) \/ PruneOnly
  BY DEF AdmitRelay
<1>2. ASSUME NEW q \in Relayed \ {r}
      PROVE  GrantRests(q)
  <2>1. LeaseKept(q)
    BY <1>0, <1>1, LeasesOfOthers
  <2>2. grants'[q] = grants[q]
    BY <1>0, OtherGrantsRest
  <2> QED BY <2>1, <2>2 DEF GrantRests
<1>3. CASE PruneOnly /\ grants' = grants
  <2>1. LeaseKept(r)
    BY <1>0, <1>3, LeasesOfOthers
  <2> QED BY <1>2, <1>3, <2>1 DEF GrantServed
<1>4. CASE /\ AppendLease(r)
           /\ grants' = [grants EXCEPT ![r] =
                          [state |-> "authorized", gen |-> nextGeneration,
                           auth |-> now + AuthTTL, cred |-> now + CredTTL,
                           report |-> NoReport]]
  <2>1. grants'[r].gen = nextGeneration
    BY <1>0, <1>4
  <2>2. NewLease(r, nextGeneration) \in leases'
    BY <1>4 DEF AppendLease, SaveInFlight
  <2>3. FreshLease(r)
    BY <1>0, <2>1, <2>2, LeaseTTLAssumption DEF FreshLease, NewLease
  <2> QED BY <1>2, <2>3 DEF GrantServed
<1> QED BY <1>3, <1>4 DEF AdmitRelay

\* What the controller did when the gateway or the invocation took a step for c.
LEMMA StepServes ==
  ASSUME ExchangeInv, NEW c \in Calls,
         Ingress(c) \/ GatewayStep(c) \/ OwnStep(c) \/ ForwardEnds(c) \/ Cancelled(c) \/ Dies(c)
  PROVE  /\ GrantServed(Of(c)) /\ \A q \in Relayed \ {Of(c)} : GrantRests(q)
         /\ call[c].pc = "idle" => call'[c].pc # "idle" /\ UNCHANGED vars
<1>0. RelayInv /\ RelayTypeOK /\ Of(c) \in Relayed /\ CallInv(c) /\ call \in [Calls -> Call]
  BY OfRelayed DEF ExchangeInv, ExchangeTypeOK
<1>1. ASSUME UNCHANGED vars
      PROVE  GrantServed(Of(c)) /\ \A q \in Relayed \ {Of(c)} : GrantRests(q)
  <2>1. leases' = leases /\ grants' = grants
    BY <1>1 DEF vars, leaseVars, relayVars
  <2>2. \A q \in Relayed : LeaseKept(q)
    BY <1>0, <2>1, LeasesOfOthers
  <2> QED BY <1>0, <2>1, <2>2 DEF GrantServed, GrantRests
<1>2. ReleaseReport \in Report
  BY DEF ReleaseReport, Report
<1>3. CASE Ingress(c)
  <2>1. UNCHANGED vars /\ call[c].pc = "idle"
    BY <1>3 DEF Ingress, InCall
  <2>2. call'[c] = Goes(c, "deciding") \/ call'[c] = Goes(c, "done")
    BY <1>0, <1>3 DEF Ingress, Becomes
  <2>3. Goes(c, "deciding").pc = "deciding" /\ Goes(c, "done").pc = "done"
    BY <1>0, CallRecords DEF Location, SettingUp, CallEnded
  <2> QED BY <1>1, <2>1, <2>2, <2>3
<1>4. CASE ~Ingress(c)
  <2>1. call[c].pc # "idle"
    BY <1>0, <1>4 DEF GatewayStep, OwnStep, Budget, Admit, ReleaseUnsigned, DecisionLost,
          ExecuteActivation, ExecuteRenewal, ExecuteReport, Send, Respond, RenewalFires, GiveUp,
          ForwardEnds, Cancelled, Dies, InCall, CallInv, Forwarding, CallEnded
  <2>2. \/ UNCHANGED vars
        \/ \E g : Callback(Of(c), g)
        \/ \E size, k, limit : AdmitRelay(Of(c), size, k, limit)
    <3>1. CASE GatewayStep(c)
      <4>1. <<c, "terminal">> \in posted => call[c].report \in Report
        BY <1>0 DEF CallInv
      <4>2. CASE Budget(c) \/ DecisionLost(c)
        BY <4>2 DEF Budget, DecisionLost
      <4>3. CASE Admit(c)
        BY <4>3 DEF Admit
      <4>4. CASE ReleaseUnsigned(c)
        BY <1>2, <4>4 DEF ReleaseUnsigned, Callback
      <4>5. CASE ExecuteActivation(c)
        BY <4>5 DEF ExecuteActivation, Callback
      <4>6. CASE ExecuteRenewal(c)
        BY <4>6 DEF ExecuteRenewal, Callback
      <4>7. CASE ExecuteReport(c)
        BY <4>1, <4>7 DEF ExecuteReport, Callback
      <4> QED BY <3>1, <4>2, <4>3, <4>4, <4>5, <4>6, <4>7 DEF GatewayStep
    <3>2. CASE OwnStep(c) \/ ForwardEnds(c) \/ Cancelled(c) \/ Dies(c)
      BY <3>2 DEF OwnStep, Send, Respond, RenewalFires, GiveUp, ForwardEnds, Cancelled, Dies
    <3> QED BY <1>4, <3>1, <3>2
  <2> QED BY <1>0, <1>1, <2>1, <2>2, CallbackServes, AdmitServes
<1> QED BY <1>3, <1>4

\* An invocation that forwards, and has a renewal under way, goes on without one
\* only when the renewal was confirmed.
LEMMA RenewalConfirmed ==
  ASSUME ExchangeInv, NEW c \in Calls,
         Ingress(c) \/ GatewayStep(c) \/ OwnStep(c) \/ ForwardEnds(c) \/ Cancelled(c) \/ Dies(c),
         call[c].pc \in Forwarding, call[c].renewal # "none",
         call'[c].pc \in Forwarding, call'[c].renewal = "none"
  PROVE  FreshLease(Of(c)) \/ grants'[Of(c)].state \notin LiveStates
<1>0. /\ RelayInv /\ RelayTypeOK /\ Of(c) \in Relayed /\ Of(c) \in Requests /\ CallInv(c)
      /\ call \in [Calls -> Call] /\ call[c] \in Call /\ grants \in [Requests -> RelayGrant]
  BY OfRelayed DEF ExchangeInv, ExchangeTypeOK, RelayTypeOK
<1>1. \A rep \in Report : Reports(c, rep).pc = "reporting"
  BY <1>0, CallRecords
<1>2. UncertainReport \in Report /\ \A n \in Actuals : [outcome |-> "settle", tokens |-> n] \in Report
  BY DEF UncertainReport, Report
<1>3. \A k, S : Becomes(c, k, S) => call'[c] = k
  BY <1>0 DEF Becomes
<1>4. call' # call
  OBVIOUS
<1>5. CASE ExecuteRenewal(c)
  <2> DEFINE r == Of(c)
             g == call[c].gen
             renewed == /\ Renewable(r, g) /\ now < grants[r].auth
                        /\ entries[r].state = "reserved" /\ GrantLease(r) # {}
  <2>1. Becomes(c, AfterRenewal(c, renewed), {<<c, "renewal">>})
    BY <1>4, <1>5 DEF ExecuteRenewal
  <2>2. call'[c] = AfterRenewal(c, renewed)
    BY <1>3, <2>1
  <2>3. renewed
    BY <1>1, <1>2, <2>2 DEF AfterRenewal, Forwarding
  <2>4. RenewRelay(r, g)
    BY <1>5, <2>3 DEF ExecuteRenewal
  <2>5. CASE ExpireAttempted(r)
    <3>1. grants' = [grants EXCEPT ![r].state = "uncertain"]
      BY <2>5 DEF ExpireAttempted
    <3> QED BY <1>0, <3>1 DEF RelayGrant, LiveStates
  <2>6. CASE SaveInFlight(Extended(GrantLease(r))) /\ grants' = grants
    BY <1>0, <2>3, <2>6, LeaseExtended
  <2> QED BY <2>4, <2>5, <2>6 DEF RenewRelay
<1>6. CASE Budget(c) \/ Admit(c) \/ ReleaseUnsigned(c) \/ DecisionLost(c)
  BY <1>0, <1>6 DEF Budget, Admit, ReleaseUnsigned, DecisionLost, CallInv, Forwarding, CallEnded
<1>7. CASE ExecuteActivation(c) \/ ExecuteReport(c)
  BY <1>4, <1>7 DEF ExecuteActivation, ExecuteReport, InCall, Forwarding
<1>8. CASE Ingress(c) \/ Send(c) \/ Respond(c)
  BY <1>8 DEF Ingress, Send, Respond, InCall, Forwarding
<1>9. CASE RenewalFires(c)
  <2>1. call' = [call EXCEPT ![c].renewal = "sent"]
    BY <1>9 DEF RenewalFires
  <2>2. call'[c].renewal = "sent"
    BY <1>0, <2>1 DEF Call
  <2> QED BY <2>2
<1>10. CASE Dies(c)
  <2>1. call' = [call EXCEPT ![c].pc = "dead", ![c].renewal = "none"]
    BY <1>10 DEF Dies
  <2>2. call'[c].pc = "dead"
    BY <1>0, <2>1 DEF Call
  <2> QED BY <2>2 DEF Forwarding
<1>11. CASE GiveUp(c)
  <2>1. Becomes(c, Reports(c, UncertainReport), {})
    BY <1>11 DEF GiveUp, InCall, AfterRenewal, Forwarding
  <2> QED BY <1>1, <1>2, <1>3, <2>1 DEF Forwarding
<1>12. CASE ForwardEnds(c) \/ Cancelled(c)
  <2>1. \E rep \in Report : Becomes(c, Reports(c, rep), {})
    BY <1>2, <1>12 DEF ForwardEnds, Cancelled
  <2> QED BY <1>1, <1>3, <2>1 DEF Forwarding
<1> QED BY <1>5, <1>6, <1>7, <1>8, <1>9, <1>10, <1>11, <1>12 DEF GatewayStep, OwnStep

\* The time left is part of a lease's time, and positive.
LEMMA LeftBounds ==
  ASSUME NEW k \in Call
  PROVE  Left(k) \in Int /\ Left(k) >= 1 /\ Left(k) =< LeaseTTL /\ k.age \in Nat
<1>1. k.age \in Nat /\ k.age =< SetupPeriods
  BY ExchangeAssumption DEF Call
<1> QED BY <1>1, ExchangeAssumption, LeaseTTLAssumption DEF Left

\* A lease that is kept still has the time that is left.
LEMMA KeptIsEnough ==
  ASSUME RelayTypeOK, RelayTypeOK', NEW r \in Relayed, LeaseKept(r), NEW l \in leases, l.req = r, NEW n \in Int,
         NEW m \in Int, l.exp >= now + n, n >= 1, m =< n, n =< LeaseTTL
  PROVE  \E x \in leases' : x.req = r /\ x.gen = l.gen /\ x.exp >= now + m
<1>1. now \in Nat /\ l.exp \in Nat /\ \A x \in leases' : x.exp \in Nat
  BY DEF RelayTypeOK, LeaseIn
<1>2. l.exp > now
  BY <1>1
<1>3. PICK x \in leases' : x.req = r /\ x.gen = l.gen /\ (x.exp >= l.exp \/ x.exp >= now + LeaseTTL)
  BY <1>2 DEF LeaseKept
<1>4. x.exp \in Nat
  BY <1>1
<1> QED BY <1>1, <1>3, <1>4, LeaseTTLAssumption

\* A step about one invocation leaves every exchange that is alone its lease.
LEMMA StepHolds ==
  ASSUME ExchangeInv, RelayTypeOK', NEW c \in Calls,
         Ingress(c) \/ GatewayStep(c) \/ OwnStep(c) \/ ForwardEnds(c) \/ Cancelled(c) \/ Dies(c),
         NEW k \in Call, NEW v \in Decision, StepOf(c, k, v), NEW d \in Calls
  PROVE  HoldInv(d)'
<1>0. /\ RelayInv /\ RelayTypeOK /\ Of(d) \in Relayed /\ Of(c) \in Relayed /\ HoldInv(d)
      /\ call \in [Calls -> Call] /\ call[d] \in Call /\ now \in Nat /\ LaunchInv(Of(d))
  BY OfRelayed DEF ExchangeInv, ExchangeTypeOK, RelayTypeOK
<1>1. call' = [call EXCEPT ![c] = k] /\ now' = now /\ call'[c] = k
  BY <1>0 DEF StepOf
<1>2. GrantServed(Of(c)) /\ \A q \in Relayed \ {Of(c)} : GrantRests(q)
  BY StepServes
<1>3. call[c].pc = "idle" => k.pc # "idle" /\ UNCHANGED vars
  BY <1>1, StepServes
<1> DEFINE r == Of(d)
<1> SUFFICES ASSUME call'[d].pc \in SettingUp \cup Forwarding, Alone(d)',
                    grants'[r].state \in LiveStates
             PROVE  \E l \in leases' : /\ l.req = r /\ l.gen = grants'[r].gen
                                       /\ l.exp >= now + Left(call'[d])
  BY <1>1 DEF HoldInv, Left, LiveStates
<1>4. \A e \in Calls \ {d} : Of(e) = r => call'[e].pc = "idle"
  BY DEF Alone
<1>5. ASSUME NEW e \in Calls \ {c}
      PROVE  call'[e] = call[e]
  BY <1>0, <1>1
<1>6. Left(call'[d]) \in Int /\ Left(call'[d]) =< LeaseTTL
  <2>1. call'[d] \in Call
    BY <1>0, <1>1
  <2> QED BY <2>1, LeftBounds
<1>7. /\ Left(call[d]) \in Int /\ Left(call[d]) >= 1 /\ Left(call[d]) =< LeaseTTL
      /\ call[d].age \in Nat /\ call[d].age =< SetupPeriods
  BY <1>0, LeftBounds, ExchangeAssumption DEF Call
<1>8. ASSUME Alone(d), call[d].pc \in SettingUp \cup Forwarding, grants[r].state \in LiveStates,
             grants'[r].gen = grants[r].gen, LeaseKept(r), Left(call'[d]) =< Left(call[d])
      PROVE  \E l \in leases' : l.req = r /\ l.gen = grants'[r].gen /\ l.exp >= now + Left(call'[d])
  <2>1. PICK l \in leases : l.req = r /\ l.gen = grants[r].gen /\ l.exp >= now + Left(call[d])
    BY <1>0, <1>8 DEF HoldInv, LiveStates
  <2>2. \E x \in leases' : x.req = r /\ x.gen = l.gen /\ x.exp >= now + Left(call'[d])
    BY <1>0, <1>6, <1>7, <1>8, <2>1, KeptIsEnough, ZenonT(60)
  <2> QED BY <1>8, <2>1, <2>2
<1>9. CASE Of(c) # r
  <2>1. Alone(d)
    BY <1>4, <1>5, <1>9 DEF Alone
  <2>2. call'[d] = call[d] /\ GrantRests(r)
    BY <1>0, <1>2, <1>5, <1>9
  <2> QED BY <1>7, <1>8, <2>1, <2>2 DEF GrantRests
<1>10. CASE Of(c) = r /\ c # d
  <2>1. k.pc = "idle"
    BY <1>1, <1>4, <1>10
  <2>2. call[c].pc = "idle"
    BY <2>1 DEF StepOf, MoveOf, Forwarding
  <2> QED BY <1>3, <2>1, <2>2
<1>11. CASE c = d
  <2>1. Alone(d)
    BY <1>4, <1>5, <1>11 DEF Alone
  <2>2. CASE FreshLease(r)
    <3>1. PICK l \in leases' : l.req = r /\ l.gen = grants'[r].gen /\ l.exp >= now + LeaseTTL
      BY <2>2 DEF FreshLease
    <3>2. l.exp \in Nat
      BY DEF RelayTypeOK, LeaseIn
    <3> QED BY <1>0, <1>6, <3>1, <3>2, LeaseTTLAssumption
  <2>3. CASE /\ ~FreshLease(r)
             /\ grants[r].state \in LiveStates /\ grants'[r].gen = grants[r].gen /\ LeaseKept(r)
    <3>1. call[d].pc # "idle"
      <4>1. PICK e \in Calls : Of(e) = r /\ call[e].pc # "idle"
        BY <1>0, <2>3 DEF LaunchInv, LiveStates
      <4> QED BY <2>1, <4>1 DEF Alone
    <3>2. call[d].pc \in SettingUp \cup Forwarding
      BY <1>1, <1>11, <3>1 DEF StepOf, MoveOf, SettingUp, Forwarding
    <3>3. k.age = call[d].age
      BY <1>11 DEF StepOf, MoveOf
    <3>4. ~(/\ call[d].pc \in Forwarding /\ call[d].renewal # "none"
            /\ k.pc \in Forwarding /\ k.renewal = "none")
      BY <1>1, <1>11, <2>3, RenewalConfirmed
    <3>5. k.pc \in SettingUp => call[d].pc \in SettingUp
      BY <1>11, <3>1 DEF StepOf, MoveOf, SettingUp, Forwarding
    <3>6. Left(k) =< Left(call[d])
      <4>1. k.pc \in SettingUp \/ k.pc \in Forwarding
        BY <1>1, <1>11
      <4>2. SettingUp \cap Forwarding = {}
        BY DEF SettingUp, Forwarding
      <4>3. CASE k.pc \in SettingUp
        BY <1>7, <3>3, <3>5, <4>3, LeaseTTLAssumption DEF Left
      <4>4. CASE k.pc \in Forwarding /\ call[d].pc \in SettingUp
        BY <1>7, <3>3, <4>2, <4>4, LeaseTTLAssumption, ExchangeAssumption DEF Left
      <4>5. CASE k.pc \in Forwarding /\ call[d].pc \in Forwarding
        BY <1>7, <3>4, <4>2, <4>5, LeaseTTLAssumption, ExchangeAssumption DEF Left
      <4> QED BY <3>2, <4>1, <4>3, <4>4, <4>5
    <3> QED BY <1>1, <1>8, <1>11, <2>1, <2>3, <3>2, <3>6
  <2> QED BY <1>2, <1>11, <2>2, <2>3 DEF GrantServed
<1> QED BY <1>9, <1>10, <1>11

\* A renewal period takes one period off the time of every lease.
LEMMA PeriodHolds ==
  ASSUME ExchangeInv, RelayTypeOK', Period, NEW d \in Calls
  PROVE  HoldInv(d)'
<1>0. /\ RelayTypeOK /\ HoldInv(d) /\ ExchangeTypeOK /\ call[d] \in Call /\ now \in Nat
      /\ leases' = leases /\ grants' = grants /\ now' = now + 1
  BY DEF ExchangeInv, ExchangeTypeOK, RelayTypeOK, Period, Tick, relayVars
<1>1. \A e \in Calls : call'[e].pc = call[e].pc
  BY <1>0, PeriodAges
<1>2. Alone(d)' <=> Alone(d)
  BY <1>1 DEF Alone
<1>3. call[d].renewal = "none" /\ call'[d] = Aged(d)
  BY <1>0, PeriodAges DEF Period
<1>4. SettingUp \cap Forwarding = {} /\ SetupPeriods \in Nat /\ LeaseTTL \in Nat
  BY ExchangeAssumption, LeaseTTLAssumption DEF SettingUp, Forwarding
<1>5. ASSUME call[d].pc \in SettingUp \cup Forwarding
      PROVE  Left(call'[d]) = Left(call[d]) - 1
  <2>1. call[d].age \in Nat
    BY <1>0, LeftBounds
  <2>2. CASE call[d].pc \in SettingUp
    <3>1. call'[d].pc \in SettingUp /\ call'[d].age = call[d].age + 1
      BY <1>0, <1>1, <1>3, <2>2, PeriodAges
    <3> QED BY <1>4, <2>1, <2>2, <3>1 DEF Left
  <2>3. CASE call[d].pc \in Forwarding
    <3>1. call'[d].pc \in Forwarding /\ call'[d].renewal = "due"
      BY <1>0, <1>1, <1>3, <2>3, PeriodAges
    <3> QED BY <1>3, <1>4, <2>3, <3>1 DEF Left
  <2> QED BY <1>5, <2>2, <2>3
<1>6. SUFFICES ASSUME call[d].pc \in SettingUp \cup Forwarding, Alone(d),
                      grants[Of(d)].state \in {"authorized", "attempted"}
               PROVE  \E l \in leases : /\ l.req = Of(d) /\ l.gen = grants[Of(d)].gen
                                        /\ l.exp >= now + 1 + Left(call'[d])
  BY <1>0, <1>1, <1>2 DEF HoldInv, Left
<1>7. PICK l \in leases : /\ l.req = Of(d) /\ l.gen = grants[Of(d)].gen
                          /\ l.exp >= now + Left(call[d])
  BY <1>0, <1>6 DEF HoldInv
<1>8. l.exp \in Nat /\ Left(call[d]) \in Int
  BY <1>0, LeftBounds DEF RelayTypeOK, LeaseIn
<1> QED BY <1>0, <1>5, <1>6, <1>7, <1>8

\* What the jobs of the day leave of a grant: its end, or all as it was.
LEMMA DayServes ==
  ASSUME RelayInv, NEW q \in Relayed, DayStep \/ UNCHANGED allVars
  PROVE  /\ now' = now /\ activations' = activations
         /\ GrantRests(q) \/ grants'[q].state \in {"none", "reconciled_consumed", "reconciled_unused"}
         /\ grants'[q].state # "none" => grants[q].state # "none"
<1>0. /\ RelayTypeOK /\ grants \in [Requests -> RelayGrant] /\ Relayed \subseteq Requests
  BY RelayAssumption DEF RelayInv, RelayTypeOK
<1>1. ASSUME leases' = leases, grants' = grants
      PROVE  GrantRests(q)
  BY <1>0, <1>1, LeasesOfOthers DEF GrantRests
<1>2. CASE Finalize \/ WipeLost \/ UNCHANGED allVars
  BY <1>1, <1>2 DEF Finalize, WipeLost, allVars, vars, leaseVars, relayVars
<1>3. CASE Wipe
  BY <1>0, <1>3 DEF Wipe, NoGrant
<1>4. ASSUME NEW r \in Relayed, NEW d \in Disposition, ReconcileRelayed(r, d)
      PROVE  /\ now' = now /\ activations' = activations
             /\ GrantRests(q) \/ grants'[q].state \in {"none", "reconciled_consumed", "reconciled_unused"}
             /\ grants'[q].state # "none" => grants[q].state # "none"
  <2>1. now' = now /\ activations' = activations
    BY <1>4 DEF ReconcileRelayed, Terminalize, ReleaseGrantLease, ReleaseLease, leaseVars
  <2>2. CASE leases' = leases /\ grants' = grants
    BY <1>1, <2>1, <2>2
  <2>3. CASE /\ ReleaseGrantLease(r)
             /\ grants[r].state # "none"
             /\ \E s \in {"reconciled_consumed", "reconciled_unused"} :
                  grants' = [grants EXCEPT ![r].state = s, ![r].report = NoReport]
    <3>1. CASE q # r
      <4>1. LeaseKept(q)
        BY <1>0, <2>3, <3>1, LeasesOfOthers
      <4>2. grants'[q] = grants[q]
        BY <1>0, <2>3, <3>1
      <4> QED BY <2>1, <4>1, <4>2 DEF GrantRests
    <3>2. CASE q = r
      BY <1>0, <2>1, <2>3, <3>2 DEF RelayGrant
    <3> QED BY <3>1, <3>2
  <2>4. \/ leases' = leases /\ grants' = grants
        \/ /\ ReleaseGrantLease(r) /\ grants[r].state # "none"
           /\ \E s \in {"reconciled_consumed", "reconciled_unused"} :
                grants' = [grants EXCEPT ![r].state = s, ![r].report = NoReport]
    BY <1>4 DEF ReconcileRelayed, Terminalize, leaseVars
  <2> QED BY <2>2, <2>3, <2>4
<1> QED BY <1>2, <1>3, <1>4 DEF DayStep

\* The reconciliation and the end of the day only take leases from invocations whose
\* grant is closed.
LEMMA DayHolds ==
  ASSUME ExchangeInv, RelayTypeOK', DayStep \/ UNCHANGED allVars, NEW d \in Calls
  PROVE  HoldInv(d)'
<1>0. /\ RelayInv /\ RelayTypeOK /\ HoldInv(d) /\ Of(d) \in Relayed /\ call[d] \in Call /\ call' = call
  BY OfRelayed DEF ExchangeInv, ExchangeTypeOK, DayStep, exchangeVars, allVars
<1>1. /\ now' = now
      /\ GrantRests(Of(d)) \/ grants'[Of(d)].state \in {"none", "reconciled_consumed", "reconciled_unused"}
  BY <1>0, DayServes
<1>2. CASE grants'[Of(d)].state \notin {"authorized", "attempted"}
  BY <1>2 DEF HoldInv
<1>3. CASE grants'[Of(d)].state \in {"authorized", "attempted"}
  <2>1. GrantRests(Of(d))
    BY <1>1, <1>3
  <2> SUFFICES ASSUME call[d].pc \in SettingUp \cup Forwarding, Alone(d)
               PROVE  \E l \in leases' : /\ l.req = Of(d) /\ l.gen = grants'[Of(d)].gen
                                         /\ l.exp >= now + Left(call[d])
    BY <1>0, <1>1 DEF HoldInv, Left, Alone
  <2>2. PICK l \in leases : /\ l.req = Of(d) /\ l.gen = grants[Of(d)].gen
                            /\ l.exp >= now + Left(call[d])
    BY <1>0, <1>3, <2>1 DEF HoldInv, GrantRests
  <2>3. Left(call[d]) \in Int /\ Left(call[d]) >= 1 /\ Left(call[d]) =< LeaseTTL
    BY <1>0, LeftBounds
  <2>4. Left(call[d]) =< Left(call[d])
    BY <2>3
  <2>5. \E x \in leases' : x.req = Of(d) /\ x.gen = l.gen /\ x.exp >= now + Left(call[d])
    BY <1>0, <2>1, <2>2, <2>3, <2>4, KeptIsEnough DEF GrantRests
  <2> QED BY <2>1, <2>2, <2>5 DEF GrantRests
<1> QED BY <1>2, <1>3

(***************************************************************************)
(* Who may fetch, and who settles.                                         *)
(***************************************************************************)

\* Confirmed activations are never forgotten.
LEMMA ActivationsGrow ==
  ASSUME RelayInv, HistoryInv, [RelayNext]_vars, NEW r \in Relayed
  PROVE  activations'[r] >= activations[r]
<1>0. activations[r] \in Nat /\ r \in Requests
  BY RelayAssumption DEF RelayInv, RelayTypeOK
<1>1. ASSUME NEW q \in Relayed, NEW g, Callback(q, g)
      PROVE  activations'[r] >= activations[r]
  BY <1>0, <1>1, CallbackHistory
<1>2. CASE activations' = activations
  BY <1>0, <1>2
<1>3. \/ activations' = activations
      \/ \E q \in Relayed : \E g : Callback(q, g)
  BY DEF RelayNext, AdmitRelay, FenceSetup, ReconcileRelayed, Finalize, Wipe, WipeLost, Tick, vars, relayVars
<1> QED BY <1>1, <1>2, <1>3

\* A grant becomes settled only by a report of usage, which its sender fetched.
LEMMA SettledByReport ==
  ASSUME ExchangeInv, NEW c \in Calls,
         Ingress(c) \/ GatewayStep(c) \/ OwnStep(c) \/ ForwardEnds(c) \/ Cancelled(c) \/ Dies(c),
         grants'[Of(c)].state = "settled"
  PROVE  \/ grants'[Of(c)] = grants[Of(c)]
         \/ c \in fetched /\ grants'[Of(c)].report = call[c].report /\ call[c].report # NoReport
<1> DEFINE r == Of(c)
<1>0. /\ r \in Relayed /\ r \in Requests /\ CallInv(c) /\ RelayTypeOK
      /\ grants \in [Requests -> RelayGrant] /\ grants[r] \in RelayGrant
  BY OfRelayed DEF ExchangeInv, ExchangeTypeOK, RelayTypeOK
<1>1. ASSUME NEW g, NEW report \in Report, FinishRelay(r, g, report)
      PROVE  report.outcome = "settle" /\ grants'[r].report = report
  <2>1. report.outcome \in {"settle", "uncertain", "release"}
    BY DEF Report
  <2>2. CASE grants' = [grants EXCEPT ![r].state = GrantStateAfter[report.outcome], ![r].report = report]
    <3>1. grants'[r].state = GrantStateAfter[report.outcome] /\ grants'[r].report = report
      BY <1>0, <2>2 DEF RelayGrant
    <3> QED BY <2>1, <3>1 DEF GrantStateAfter
  <2>3. CASE grants' = [grants EXCEPT ![r].state = "uncertain"]
    BY <1>0, <2>3 DEF RelayGrant
  <2> QED BY <1>1, <2>2, <2>3 DEF FinishRelay, ExpireAttempted
<1>2. CASE grants' = grants
  BY <1>2
<1>3. CASE Admit(c)
  <2>1. \/ grants' = grants
        \/ grants' = [grants EXCEPT ![r] =
                          [state |-> "authorized", gen |-> nextGeneration,
                           auth |-> now + AuthTTL, cred |-> now + CredTTL,
                           report |-> NoReport]]
    BY <1>3 DEF Admit, AdmitRelay, vars, relayVars
  <2> QED BY <1>0, <2>1
<1>4. CASE ReleaseUnsigned(c)
  <2>1. ReleaseReport \in Report /\ ReleaseReport.outcome # "settle"
    BY DEF ReleaseReport, Report
  <2> QED BY <1>1, <1>2, <1>4, <2>1 DEF ReleaseUnsigned, vars, relayVars
<1>5. CASE ExecuteActivation(c)
  <2>1. \/ grants' = grants \/ grants' = [grants EXCEPT ![r].state = "released"]
        \/ grants' = [grants EXCEPT ![r].state = "attempted"]
    BY <1>5 DEF ExecuteActivation, ActivateRelay, vars, relayVars
  <2> QED BY <1>0, <2>1 DEF RelayGrant
<1>6. CASE ExecuteRenewal(c)
  <2>1. grants' = grants \/ grants' = [grants EXCEPT ![r].state = "uncertain"]
    BY <1>6 DEF ExecuteRenewal, RenewRelay, ExpireAttempted, vars, relayVars
  <2> QED BY <1>0, <2>1 DEF RelayGrant
<1>7. CASE ExecuteReport(c)
  <2>1. call[c].report \in Report
    BY <1>0, <1>7 DEF ExecuteReport, CallInv
  <2>2. CASE FinishRelay(r, call[c].gen, call[c].report)
    <3>1. call[c].report.outcome = "settle" /\ grants'[r].report = call[c].report
      BY <1>1, <2>1, <2>2
    <3> QED BY <1>0, <3>1 DEF CallInv, NoReport
  <2> QED BY <1>2, <1>7, <2>2 DEF ExecuteReport, vars, relayVars
<1>8. CASE \/ Ingress(c) \/ Budget(c) \/ DecisionLost(c) \/ OwnStep(c) \/ ForwardEnds(c)
           \/ Cancelled(c) \/ Dies(c)
  BY <1>2, <1>8 DEF Ingress, Budget, DecisionLost, OwnStep, Send, Respond, RenewalFires, GiveUp,
                    ForwardEnds, Cancelled, Dies, vars, relayVars
<1> QED BY <1>3, <1>4, <1>5, <1>6, <1>7, <1>8 DEF GatewayStep

\* What an invocation has reported it does not report otherwise.
LEMMA ReportStays ==
  ASSUME ExchangeInv, NEW c \in Calls, NEW k \in Call, NEW v \in Decision, StepOf(c, k, v),
         NEW d \in fetched, call[d].report # NoReport
  PROVE  d \in fetched' /\ call'[d].report = call[d].report
<1>0. call \in [Calls -> Call] /\ d \in Calls /\ CallInv(d) /\ NoReport \notin Report
  BY DEF ExchangeInv, ExchangeTypeOK, NoReport, Report
<1>1. d \in fetched' /\ call' = [call EXCEPT ![c] = k]
  BY DEF StepOf
<1>2. CASE d # c
  BY <1>0, <1>1, <1>2
<1>3. CASE d = c
  <2>1. call[c].pc \in {"reporting"} \cup CallEnded
    BY <1>0, <1>3 DEF CallInv
  <2>2. k.report = call[c].report
    BY <2>1 DEF StepOf, MoveOf, Forwarding, CallEnded
  <2> QED BY <1>0, <1>1, <1>3, <2>2
<1> QED BY <1>2, <1>3

\* The step that starts to send is the one whose activation was confirmed, and
\* before it nobody was allowed to.
LEMMA StepLaunches ==
  ASSUME ExchangeInv, RelayTypeOK', NEW c \in Calls,
         Ingress(c) \/ GatewayStep(c) \/ OwnStep(c) \/ ForwardEnds(c) \/ Cancelled(c) \/ Dies(c),
         NEW k \in Call, NEW v \in Decision, StepOf(c, k, v), NEW r \in Relayed,
         activations'[r] >= activations[r]
  PROVE  LaunchInv(r)'
<1>0. /\ RelayInv /\ RelayTypeOK /\ Of(c) \in Relayed /\ LaunchInv(r) /\ call \in [Calls -> Call]
      /\ fetched \subseteq Calls /\ r \in Requests /\ activations[r] \in Nat /\ activations'[r] \in Nat
      /\ History(r) /\ GrantMatchesEntry
  BY OfRelayed, RelayAssumption DEF ExchangeInv, ExchangeTypeOK, RelayTypeOK, HistoryInv, RelayInv, Paired,
         GrantMatchesEntry
<1>1. call' = [call EXCEPT ![c] = k] /\ call'[c] = k /\ \A d \in Calls \ {c} : call'[d] = call[d]
  BY <1>0 DEF StepOf
<1>2. \A q \in Relayed \ {Of(c)} : grants'[q] = grants[q]
  BY StepServes DEF GrantRests
<1>3. k.pc # "idle"
  <2>1. k.pc = "idle" => call[c].pc = "idle"
    BY DEF StepOf, MoveOf, Forwarding
  <2> QED BY <1>1, <2>1, StepServes
<1>4. \/ Launched(r)' \subseteq Launched(r)
      \/ /\ c \notin Launched(r) /\ Launched(r)' \subseteq Launched(r) \cup {c}
         /\ Of(c) = r /\ call[c].pc = "activating" /\ k.pc = "sending"
  <2>1. \A d \in Calls \ {c} : d \in Launched(r)' => d \in Launched(r)
    BY <1>1 DEF Launched, StepOf
  <2>2. CASE c \in Launched(r)' /\ c \notin Launched(r)
    <3>1. Of(c) = r /\ c \notin fetched /\ call[c].pc # "sending" /\ (c \in fetched' \/ k.pc = "sending")
      BY <1>1, <2>2 DEF Launched
    <3>2. c \notin fetched'
      BY <3>1 DEF StepOf
    <3>3. call[c].pc = "activating" /\ k.pc = "sending"
      BY <3>1, <3>2 DEF StepOf, MoveOf, Forwarding
    <3> QED BY <2>1, <2>2, <3>1, <3>3 DEF Launched
  <2>3. CASE ~(c \in Launched(r)' /\ c \notin Launched(r))
    BY <2>1, <2>3 DEF Launched
  <2> QED BY <2>2, <2>3
<1>5. /\ \A d, e \in Launched(r)' : d = e
      /\ Launched(r)' # {} => activations'[r] >= 1
  <2>1. CASE Launched(r)' \subseteq Launched(r)
    BY <1>0, <2>1 DEF LaunchInv
  <2>2. CASE /\ Launched(r)' \subseteq Launched(r) \cup {c} /\ Of(c) = r
             /\ call[c].pc = "activating" /\ k.pc = "sending"
    <3>1. grants[r].state = "authorized" /\ activations'[r] = activations[r] + 1
      BY <2>2 DEF StepOf
    <3>2. activations[r] = 0
      BY <1>0, <3>1 DEF History
    <3>3. Launched(r) = {}
      BY <1>0, <3>2 DEF LaunchInv
    <3> QED BY <2>2, <3>1, <3>2, <3>3
  <2> QED BY <1>4, <2>1, <2>2
<1>6. ASSUME grants'[r].state = "settled"
      PROVE  \E d \in fetched' : Of(d) = r /\ call'[d].report = grants'[r].report
  <2>1. CASE grants'[r] = grants[r]
    <3>1. PICK d \in fetched : Of(d) = r /\ call[d].report = grants[r].report
      BY <1>0, <1>6, <2>1 DEF LaunchInv
    <3>2. call[d].report # NoReport
      <4>1. grants[r].report.outcome = "settle"
        BY <1>0, <1>6, <2>1 DEF GrantMatchesEntry
      <4> QED BY <3>1, <4>1 DEF NoReport
    <3> QED BY <2>1, <3>1, <3>2, ReportStays
  <2>2. CASE grants'[r] # grants[r]
    <3>1. Of(c) = r
      BY <1>2, <2>2
    <3>2. c \in fetched /\ grants'[r].report = call[c].report /\ call[c].report # NoReport
      BY <1>6, <2>2, <3>1, SettledByReport
    <3> QED BY <3>1, <3>2, ReportStays
  <2> QED BY <2>1, <2>2
<1>7. grants'[r].state # "none" => \E d \in Calls : Of(d) = r /\ call'[d].pc # "idle"
  <2>1. CASE Of(c) = r
    BY <1>1, <1>3, <2>1
  <2>2. CASE Of(c) # r
    <3>1. grants'[r] = grants[r]
      BY <1>2, <2>2
    <3>2. \A d \in Calls : Of(d) = r => call'[d] = call[d]
      BY <1>1, <2>2
    <3> QED BY <1>0, <3>1, <3>2 DEF LaunchInv
  <2> QED BY <2>1, <2>2
<1> QED BY <1>5, <1>6, <1>7 DEF LaunchInv

(***************************************************************************)
(* The invariant.                                                          *)
(***************************************************************************)

\* Before the first ingress call nothing has happened.
LEMMA ExchangeInvInit == ExchangeInit => ExchangeInv
<1> SUFFICES ASSUME ExchangeInit PROVE ExchangeInv
  OBVIOUS
<1>1. LedgerInv /\ RelayInv /\ HistoryInv /\ RelayTypeOK
  BY FreshLedger, RelayInvInit, HistoryInit DEF ExchangeInit, RelayInit, RelayInv
<1>2. /\ \A c \in Calls : call[c] = NewCall /\ decision[c] = NoDecision
      /\ posted = {} /\ fetched = {} /\ \A r \in Relayed : grants[r] = NoGrant
  BY RelayAssumption DEF ExchangeInit, RelayInit
<1>3. NewCall \in Call /\ NewCall.pc = "idle" /\ NewCall.renewal = "none" /\ NewCall.age = 0 /\ NewCall.report = NoReport
  BY ExchangeAssumption DEF NewCall, Call
<1>4. ExchangeTypeOK
  BY <1>1, <1>2, <1>3 DEF ExchangeInit, ExchangeTypeOK
<1>5. DecisionOK
  BY DEF ExchangeInit, DecisionOK, NoDecision, Stage
<1>6. \A c \in Calls : CallInv(c)
  BY <1>2, <1>3 DEF CallInv, NoDecision, NoReport, Forwarding
<1>7. \A c \in Calls : HoldInv(c)
  BY <1>2, <1>3 DEF HoldInv, SettingUp, Forwarding
<1>8. \A r \in Relayed : LaunchInv(r)
  BY <1>2, <1>3 DEF LaunchInv, Launched, NoGrant
<1> QED BY <1>1, <1>4, <1>5, <1>6, <1>7, <1>8 DEF ExchangeInv

\* Every step for an invocation is one of those that StepOf describes.
LEMMA StepIsStepOf ==
  ASSUME ExchangeInv, RelayTypeOK', NEW c \in Calls,
         Ingress(c) \/ GatewayStep(c) \/ OwnStep(c) \/ ForwardEnds(c) \/ Cancelled(c) \/ Dies(c)
  PROVE  \E k \in Call, v \in Decision : StepOf(c, k, v)
BY DecisionSteps, CallbackSteps, OwnSteps DEF GatewayStep

\* Every step of the exchange keeps the invariant.
LEMMA ExchangeInvStep ==
  ASSUME ExchangeInv, [ExchangeNext]_allVars
  PROVE  ExchangeInv'
<1>0. /\ LedgerInv /\ RelayInv /\ HistoryInv /\ ExchangeTypeOK /\ DecisionOK /\ now \in Nat
      /\ \A c \in Calls : CallInv(c) /\ HoldInv(c)
      /\ \A r \in Relayed : LaunchInv(r)
  BY DEF ExchangeInv, ExchangeTypeOK, RelayTypeOK
<1>1. [RelayNext]_vars
  BY <1>0, ExchangeStepIsRelayStep
<1>2. LedgerInv' /\ RelayInv' /\ HistoryInv' /\ RelayTypeOK'
  BY <1>0, <1>1, RelayStepIsLedgerStep, LedgerInvStep, RelayInvStep, HistoryStep DEF RelayInv
<1>3. \A r \in Relayed : activations'[r] >= activations[r]
  BY <1>0, <1>1, ActivationsGrow
<1>4. ASSUME NEW c \in Calls,
             Ingress(c) \/ GatewayStep(c) \/ OwnStep(c) \/ ForwardEnds(c) \/ Cancelled(c) \/ Dies(c)
      PROVE  ExchangeInv'
  <2>1. PICK k \in Call, v \in Decision : StepOf(c, k, v)
    BY <1>2, <1>4, StepIsStepOf
  <2>2. ExchangeTypeOK' /\ DecisionOK'
    BY <1>0, <1>2, <2>1, StepOfTypes
  <2>3. \A d \in Calls : CallInv(d)'
    BY <1>0, <2>1, OthersKeepCall, OwnCallKept
  <2>4. \A d \in Calls : HoldInv(d)'
    BY <1>2, <1>4, <2>1, StepHolds
  <2>5. \A r \in Relayed : LaunchInv(r)'
    BY <1>2, <1>3, <1>4, <2>1, StepLaunches
  <2> QED BY <1>2, <2>2, <2>3, <2>4, <2>5 DEF ExchangeInv
<1>5. CASE Period
  <2>1. ExchangeTypeOK' /\ DecisionOK'
    BY <1>0, <1>2, <1>5, PeriodTypes
  <2>2. \A d \in Calls : CallInv(d)' /\ HoldInv(d)'
    BY <1>0, <1>2, <1>5, PeriodKeepsCall, PeriodHolds
  <2>3. /\ \A d \in Calls : call'[d].pc = call[d].pc /\ call'[d].report = call[d].report
        /\ fetched' = fetched /\ grants' = grants /\ activations' = activations
    BY <1>0, <1>5, PeriodAges DEF Period, Tick, relayVars
  <2>4. ASSUME NEW r \in Relayed PROVE LaunchInv(r)'
    <3>1. Launched(r)' = Launched(r)
      BY <2>3 DEF Launched
    <3>2. fetched \subseteq Calls
      BY <1>0 DEF ExchangeTypeOK
    <3> QED BY <1>0, <2>3, <3>1, <3>2 DEF LaunchInv
  <2> QED BY <1>2, <2>1, <2>2, <2>4 DEF ExchangeInv
<1>6. CASE DayStep \/ UNCHANGED allVars
  <2>1. UNCHANGED <<call, decision, posted, admission, fetched>>
    BY <1>6 DEF DayStep, allVars, exchangeVars
  <2>2. now' = now
    <3>1. CASE Relayed = {}
      BY <1>6, <3>1 DEF DayStep, Finalize, Wipe, WipeLost, allVars, vars, leaseVars
    <3>2. CASE Relayed # {}
      BY <1>0, <1>6, <3>2, DayServes
    <3> QED BY <3>1, <3>2
  <2>3. ExchangeTypeOK' /\ DecisionOK'
    BY <1>0, <1>2, <2>1 DEF ExchangeTypeOK, DecisionOK
  <2>4. \A d \in Calls : CallInv(d)'
    BY <1>0, <2>1, <2>2 DEF CallInv
  <2>5. \A d \in Calls : HoldInv(d)'
    BY <1>2, <1>6, DayHolds
  <2>6. ASSUME NEW r \in Relayed PROVE LaunchInv(r)'
    <3>1. Launched(r)' = Launched(r)
      BY <2>1 DEF Launched
    <3>2. /\ activations' = activations
          /\ grants'[r] = grants[r] \/ grants'[r].state \in {"none", "reconciled_consumed", "reconciled_unused"}
      BY <1>0, <1>6, DayServes DEF GrantRests
    <3>3. grants'[r].state # "none" => grants[r].state # "none"
      BY <1>0, <1>6, DayServes DEF GrantRests
    <3> QED BY <1>0, <2>1, <3>1, <3>2, <3>3 DEF LaunchInv
  <2> QED BY <1>2, <2>3, <2>4, <2>5, <2>6 DEF ExchangeInv
<1> QED BY <1>4, <1>5, <1>6 DEF ExchangeNext

\* The inductive invariant of the route.
THEOREM ExchangeInvariant == ExchangeSpec => []ExchangeInv
<1>1. ExchangeInv /\ [ExchangeNext]_allVars => ExchangeInv'
  BY ExchangeInvStep
<1> QED BY <1>1, ExchangeInvInit, PTL DEF ExchangeSpec

\* Invocations, decisions, posted callbacks and fetches keep their types.
THEOREM ExchangeTypeCorrect == ExchangeSpec => []ExchangeTypeOK
<1>1. ExchangeInv => ExchangeTypeOK
  BY DEF ExchangeInv
<1> QED BY <1>1, ExchangeInvariant, PTL

\* Whatever the Deno service and the network do, the controller sees only the
\* operations of RelayGrants, so all that is proved of those holds here too.
THEOREM ExchangeRefinesRelay == ExchangeSpec => RelaySpec
<1>1. ExchangeInit => RelayInit
  BY DEF ExchangeInit
<1>2. ExchangeInv /\ [ExchangeNext]_allVars => [RelayNext]_vars
  BY ExchangeStepIsRelayStep DEF ExchangeInv
<1> QED BY <1>1, <1>2, ExchangeInvariant, PTL DEF ExchangeSpec, RelaySpec

\* Hence the books balance and outcomes are final whatever callbacks are late, lost
\* or repeated.
THEOREM ExchangeKeepsBooks ==
  ExchangeSpec => /\ [](LedgerBalanced /\ OvercommitOnlyByExcess /\ IdempotencyExclusive)
                  /\ OutcomesAreFinal /\ StrictAdmissionCovered
BY ExchangeRefinesRelay, RelayRefinesLedger, LedgerAlwaysBalanced, LedgerOvercommit, LedgerIdempotent,
   LedgerOutcomesFinal, LedgerStrictAdmission, PTL DEF ImplementsLedger

\* And grants, entries, leases and the fence agree, and an expired credential has
\* no effect, when it is the Deno service that makes the calls.
THEOREM ExchangeKeepsGrants ==
  ExchangeSpec => /\ [](GrantMatchesEntry /\ LeaseOnlyForLiveGrant /\ FenceHolds)
                  /\ ExpiredCredentialInert
BY ExchangeRefinesRelay, GrantsMatchEntries, LeasesFollowGrants, FencesHold, ExpiredCredentialsInert, PTL

\* A request is fetched upstream at most once, and only after the controller has
\* confirmed its activation, however often its ingress call reaches Deno.
THEOREM FetchesAreOnce == ExchangeSpec => []FetchedOnce
<1>1. ExchangeInv => FetchedOnce
  <2> SUFFICES ASSUME ExchangeInv, NEW r \in Relayed
               PROVE  LET mine == {c \in fetched : Of(c) = r} IN
                      Cardinality(mine) =< 1 /\ Cardinality(mine) =< activations[r]
    BY DEF FetchedOnce
  <2> DEFINE mine == {c \in fetched : Of(c) = r}
  <2>1. LaunchInv(r) /\ mine \subseteq Launched(r) /\ activations[r] \in Nat
    BY RelayAssumption DEF ExchangeInv, ExchangeTypeOK, RelayTypeOK, Launched
  <2>2. CASE mine = {}
    <3>1. Cardinality(mine) = 0
      BY <2>2, FS_EmptySet
    <3> QED BY <2>1, <3>1
  <2>3. CASE mine # {}
    <3>1. PICK c : mine = {c}
      BY <2>1, <2>3 DEF LaunchInv
    <3>2. Cardinality(mine) = 1
      BY <3>1, FS_Singleton
    <3>3. activations[r] >= 1
      BY <2>1, <2>3 DEF LaunchInv
    <3> QED BY <2>1, <3>2, <3>3
  <2> QED BY <2>2, <2>3
<1> QED BY <1>1, ExchangeInvariant, PTL

\* The entry of a settled request was settled through its grant.
LEMMA SettledEntry ==
  ASSUME RelayInv, NEW r \in Relayed, entries[r].state = "settled"
  PROVE  /\ grants[r].state = "settled" /\ grants[r].report \in Report
         /\ grants[r].report = [outcome |-> "settle", tokens |-> entries[r].actual]
<1>1. Paired(r) /\ grants[r] \in RelayGrant
  BY RelayAssumption DEF RelayInv, RelayTypeOK
<1>2. grants[r].state = "settled"
  <2>1. EntryStateOf[grants[r].state] = "settled" /\ grants[r].state \in GrantState \cup {"none"}
    BY <1>1 DEF Paired, RelayGrant
  <2> QED BY <2>1 DEF EntryStateOf, GrantState
<1>3. grants[r].report.outcome = "settle" /\ grants[r].report.tokens = entries[r].actual
  BY <1>1, <1>2 DEF Paired
<1>4. grants[r].report \in Report
  BY <1>1, <1>3 DEF RelayGrant, NoReport
<1>5. grants[r].report \in [outcome : {"settle"}, tokens : Actuals]
  BY <1>3, <1>4 DEF Report
<1> QED BY <1>2, <1>3, <1>4, <1>5

\* An exchange that ended after its fetch reported usage or an uncertain outcome,
\* never a release, and what is charged is what it reported.
THEOREM ReportsAreOnce == ExchangeSpec => []ReportedOnce
<1>1. ExchangeInv => ReportedOnce
  <2> SUFFICES ASSUME ExchangeInv, NEW c \in fetched
               PROVE  /\ call[c].pc \in {"reporting", "done"} =>
                            call[c].report.outcome \in {"settle", "uncertain"}
                      /\ entries[Of(c)].state = "settled" =>
                            call[c].report = [outcome |-> "settle", tokens |-> entries[Of(c)].actual]
    BY DEF ReportedOnce
  <2>1. c \in Calls /\ CallInv(c) /\ Of(c) \in Relayed /\ RelayInv /\ LaunchInv(Of(c))
        /\ fetched \subseteq Calls
    BY OfRelayed DEF ExchangeInv, ExchangeTypeOK
  <2>2. call[c].pc \in {"reporting", "done"} => call[c].report.outcome \in {"settle", "uncertain"}
    BY <2>1 DEF CallInv
  <2>3. ASSUME entries[Of(c)].state = "settled"
        PROVE  call[c].report = [outcome |-> "settle", tokens |-> entries[Of(c)].actual]
    <3>1. /\ grants[Of(c)].state = "settled"
          /\ grants[Of(c)].report = [outcome |-> "settle", tokens |-> entries[Of(c)].actual]
      BY <2>1, <2>3, SettledEntry
    <3>2. PICK d \in fetched : Of(d) = Of(c) /\ call[d].report = grants[Of(c)].report
      BY <2>1, <3>1 DEF LaunchInv
    <3>3. d = c
      BY <2>1, <3>2 DEF LaunchInv, Launched
    <3> QED BY <3>1, <3>2, <3>3
  <2> QED BY <2>2, <2>3
<1> QED BY <1>1, ExchangeInvariant, PTL

\* While the exchange of a request that reached Deno once runs under an open grant
\* its lease is in force.
THEOREM ExchangesHoldLeases == ExchangeSpec => []ExchangeHoldsLease
<1>1. ExchangeInv => ExchangeHoldsLease
  <2> SUFFICES ASSUME ExchangeInv, NEW c \in Calls,
                      call[c].pc \in {"waiting"} \cup Forwarding,
                      grants[Of(c)].state = "attempted",
                      \A d \in Calls \ {c} : Of(d) = Of(c) => InCall(d, "idle")
               PROVE  GrantLease(Of(c)) # {}
    BY DEF ExchangeHoldsLease
  <2>1. HoldInv(c) /\ call[c] \in Call /\ RelayTypeOK /\ now \in Nat
    BY DEF ExchangeInv, ExchangeTypeOK, RelayTypeOK
  <2>2. Alone(c)
    BY DEF Alone, InCall
  <2>3. PICK l \in leases : /\ l.req = Of(c) /\ l.gen = grants[Of(c)].gen
                            /\ l.exp >= now + Left(call[c])
    BY <2>1, <2>2 DEF HoldInv, SettingUp
  <2>4. l.exp \in Nat /\ Left(call[c]) \in Int /\ Left(call[c]) >= 1
    BY <2>1, LeftBounds DEF RelayTypeOK, LeaseIn
  <2>5. l.exp > now
    BY <2>1, <2>3, <2>4
  <2>6. l \in GrantLease(Of(c))
    BY <2>3, <2>5 DEF GrantLease, ActiveOf, Active, WithoutExpired, Normalized
  <2> QED BY <2>6
<1> QED BY <1>1, ExchangeInvariant, PTL

(***************************************************************************)
(* The route keeps the contract.                                           *)
(***************************************************************************)

\* The account of a request is told by the state of its grant.
AccountFor ==
    [none |-> "none", authorized |-> "held", attempted |-> "held", uncertain |-> "doubt",
     settled |-> "charged", released |-> "free", reconciled_consumed |-> "resolved",
     reconciled_unused |-> "resolved"]

AccountsTold == \A r \in Relayed : AccountOf(r) = AccountFor[grants[r].state]

\* Entry and grant agree, so the grant tells the account.
LEMMA AccountsByGrants == RelayInv => AccountsTold
<1> SUFFICES ASSUME RelayInv, NEW r \in Relayed
             PROVE  AccountOf(r) = AccountFor[grants[r].state]
  BY DEF AccountsTold
<1>1. entries[r].state = EntryStateOf[grants[r].state] /\ grants[r].state \in GrantState \cup {"none"}
  BY RelayAssumption DEF RelayInv, RelayTypeOK, RelayGrant, Paired
<1>2. CASE grants[r].state \in {"none", "authorized", "attempted", "uncertain", "settled"}
  BY <1>1, <1>2 DEF AccountOf, AccountFor, EntryStateOf
<1>3. CASE grants[r].state \in {"released", "reconciled_consumed", "reconciled_unused"}
  BY <1>1, <1>3 DEF AccountOf, AccountFor, EntryStateOf
<1> QED BY <1>1, <1>2, <1>3 DEF GrantState

\* How the account of one request may move, and who was sent when it does.
AccountMove(r, s, t) ==
    \/ AccountFor[t] = AccountFor[s]
    \/ s = "none" /\ t = "authorized" /\ activations[r] = 0
    \/ s \in LiveStates \cup {"uncertain"} /\ t = "uncertain"
    \/ s = "authorized" /\ t = "released"
    \/ s \in LiveStates \cup {"uncertain"} /\ t = "settled" /\ \E c \in fetched : Of(c) = r
    \/ s \in LiveStates \cup {"uncertain"} /\ t \in {"reconciled_consumed", "reconciled_unused"}

\* Every such move is one the contract allows.
LEMMA MoveIsContractStep ==
  ASSUME ExchangeInv, RelayInv', NEW r \in Relayed, AccountMove(r, grants[r].state, grants'[r].state),
         \A q \in Relayed \ {r} : grants'[q] = grants[q], fetched' = fetched
  PROVE  [Contract!ContractNext]_<<[q \in Relayed |-> AccountOf(q)], {Of(c) : c \in fetched}>>
<1> DEFINE account == [q \in Relayed |-> AccountOf(q)]
           sent == {Of(c) : c \in fetched}
           s == grants[r].state
           t == grants'[r].state
<1>0. RelayInv /\ LaunchInv(r) /\ History(r) /\ fetched \subseteq Calls /\ activations[r] \in Nat
  BY RelayAssumption DEF ExchangeInv, HistoryInv, ExchangeTypeOK, RelayTypeOK
<1>1. /\ \A q \in Relayed : account[q] = AccountFor[grants[q].state]
      /\ \A q \in Relayed : account'[q] = AccountFor[grants'[q].state]
  <2>1. AccountsTold
    BY <1>0, AccountsByGrants
  <2>2. RelayInv' => AccountsTold'
    BY AccountsByGrants, PTL
  <2> QED BY <2>1, <2>2 DEF AccountsTold
<1>2. account' = [account EXCEPT ![r] = AccountFor[t]] /\ sent' = sent
  <2>1. \A q \in Relayed \ {r} : account'[q] = account[q]
    BY <1>1
  <2> QED BY <1>1, <2>1
<1>3. r \in sent => activations[r] >= 1
  BY <1>0 DEF LaunchInv, Launched
<1>4. account[r] = AccountFor[s]
  BY <1>1
<1> HIDE DEF account, sent, s, t
<1>5. CASE AccountFor[t] = AccountFor[s]
  <2>1. account' = account
    BY <1>2, <1>4, <1>5 DEF account
  <2> QED BY <1>2, <2>1 DEF account, sent
<1>6. CASE s = "none" /\ t = "authorized" /\ activations[r] = 0
  <2>1. r \notin sent
    BY <1>3, <1>6
  <2>2. Contract!Hold(r)
    BY <1>2, <1>4, <1>6, <2>1 DEF Contract!Hold, Contract!Moves, AccountFor, account, sent
  <2> QED BY <2>2 DEF Contract!ContractNext
<1>7. CASE s \in LiveStates \cup {"uncertain"} /\ t = "uncertain" /\ AccountFor[t] # AccountFor[s]
  <2>1. AccountFor[s] = "held" /\ AccountFor[t] = "doubt"
    BY <1>7 DEF AccountFor, LiveStates
  <2>2. Contract!Doubt(r)
    BY <1>2, <1>4, <2>1 DEF Contract!Doubt, Contract!Moves, account, sent
  <2> QED BY <2>2 DEF Contract!ContractNext
<1>8. CASE s = "authorized" /\ t = "released"
  <2>1. r \notin sent
    BY <1>0, <1>3, <1>8 DEF History, s
  <2>2. Contract!Free(r)
    BY <1>2, <1>4, <1>8, <2>1 DEF Contract!Free, Contract!Moves, AccountFor, account, sent
  <2> QED BY <2>2 DEF Contract!ContractNext
<1>9. CASE s \in LiveStates \cup {"uncertain"} /\ t = "settled" /\ r \in sent
  <2>1. AccountFor[s] \in {"held", "doubt"} /\ AccountFor[t] = "charged"
    BY <1>9 DEF AccountFor, LiveStates
  <2>2. Contract!Charge(r)
    BY <1>2, <1>4, <1>9, <2>1 DEF Contract!Charge, Contract!Moves, account, sent
  <2> QED BY <2>2 DEF Contract!ContractNext
<1>10. CASE s \in LiveStates \cup {"uncertain"} /\ t \in {"reconciled_consumed", "reconciled_unused"}
  <2>1. AccountFor[s] \in {"held", "doubt"} /\ AccountFor[t] = "resolved"
    BY <1>10 DEF AccountFor, LiveStates
  <2>2. Contract!Resolve(r)
    BY <1>2, <1>4, <2>1 DEF Contract!Resolve, Contract!Moves, account, sent
  <2> QED BY <2>2 DEF Contract!ContractNext
<1>11. (\E c \in fetched : Of(c) = r) => r \in sent
  BY DEF sent
<1> QED BY <1>5, <1>6, <1>7, <1>8, <1>9, <1>10, <1>11 DEF AccountMove, s, t

\* A terminal report moves the account of its request.
LEMMA FinishMovesAccount ==
  ASSUME RelayInv, NEW r \in Relayed, NEW g, NEW report \in Report, FinishRelay(r, g, report),
         grants'[r].state = "settled" => \E c \in fetched : Of(c) = r
  PROVE  AccountMove(r, grants[r].state, grants'[r].state)
<1>0. r \in Requests /\ grants \in [Requests -> RelayGrant] /\ grants[r] \in RelayGrant
  BY RelayAssumption DEF RelayInv, RelayTypeOK
<1>1. grants[r].state \in LiveStates \cup {"uncertain"}
  BY <1>0 DEF FinishRelay, Binds, TerminalGrantStates, GrantState, RelayGrant, LiveStates
<1>2. CASE /\ Legal(grants[r].state, report.outcome)
           /\ grants' = [grants EXCEPT ![r].state = GrantStateAfter[report.outcome], ![r].report = report]
  <2>1. grants'[r].state = GrantStateAfter[report.outcome]
    BY <1>0, <1>2 DEF RelayGrant
  <2>2. CASE report.outcome = "settle"
    BY <1>1, <2>1, <2>2 DEF GrantStateAfter, AccountMove
  <2>3. CASE report.outcome = "uncertain"
    BY <1>1, <2>1, <2>3 DEF GrantStateAfter, AccountMove
  <2>4. CASE report.outcome = "release"
    BY <1>2, <2>1, <2>4 DEF GrantStateAfter, AccountMove, Legal
  <2> QED BY <2>2, <2>3, <2>4 DEF Report
<1>3. CASE grants' = [grants EXCEPT ![r].state = "uncertain"]
  <2>1. grants'[r].state = "uncertain"
    BY <1>0, <1>3 DEF RelayGrant
  <2> QED BY <1>1, <2>1 DEF AccountMove
<1> QED BY <1>2, <1>3 DEF FinishRelay, ExpireAttempted

\* A step for an invocation that does not send moves at most its request's account.
LEMMA StepMovesAccount ==
  ASSUME ExchangeInv, NEW c \in Calls,
         Ingress(c) \/ GatewayStep(c) \/ OwnStep(c) \/ ForwardEnds(c) \/ Cancelled(c) \/ Dies(c), ~Send(c)
  PROVE  fetched' = fetched /\ AccountMove(Of(c), grants[Of(c)].state, grants'[Of(c)].state)
<1> DEFINE r == Of(c)
<1>0. /\ r \in Relayed /\ r \in Requests /\ CallInv(c) /\ RelayInv /\ History(r) /\ now \in Nat
      /\ grants \in [Requests -> RelayGrant] /\ grants[r] \in RelayGrant /\ LedgerInv
  BY OfRelayed DEF ExchangeInv, ExchangeTypeOK, RelayTypeOK, HistoryInv
<1>1. fetched' = fetched
  BY DEF Ingress, GatewayStep, Budget, Admit, ReleaseUnsigned, DecisionLost, ExecuteActivation,
         ExecuteRenewal, ExecuteReport, OwnStep, Respond, RenewalFires, GiveUp, ForwardEnds, Cancelled, Dies
<1>2. ASSUME grants'[r].state = grants[r].state
      PROVE  AccountMove(r, grants[r].state, grants'[r].state)
  BY <1>2 DEF AccountMove
<1>3. grants'[r].state = "settled" =>
         grants'[r].state = grants[r].state \/ \E d \in fetched : Of(d) = r
  BY SettledByReport
<1>4. ASSUME NEW g, NEW report \in Report, FinishRelay(r, g, report)
      PROVE  AccountMove(r, grants[r].state, grants'[r].state)
  BY <1>0, <1>2, <1>3, <1>4, FinishMovesAccount
<1>5. CASE Admit(c)
  <2>1. CASE grants' = grants
    BY <1>1, <1>2, <2>1
  <2>2. CASE \E size, k, limit : AdmitRelay(r, size, k, limit) /\ grants' # grants
    <3>1. /\ now =< AdmitUntil /\ entries[r].state = "absent"
          /\ grants' = [grants EXCEPT ![r] =
                          [state |-> "authorized", gen |-> nextGeneration,
                           auth |-> now + AuthTTL, cred |-> now + CredTTL,
                           report |-> NoReport]]
      BY <2>2 DEF AdmitRelay, Admissible
    <3>2. grants[r].state = "none"
      <4>1. grants[r].state \in GrantState \cup {"none"} /\ EntryStateOf[grants[r].state] = "absent"
        BY <1>0, <3>1 DEF RelayInv, Paired, RelayGrant
      <4> QED BY <4>1 DEF EntryStateOf, GrantState
    <3>3. ~(now >= FinalizeFrom)
      BY <1>0, <3>1, RelayAssumption
    <3>4. activations[r] = 0
      BY <1>0, <3>2, <3>3 DEF History
    <3>5. grants'[r].state = "authorized"
      BY <1>0, <3>1
    <3> QED BY <1>1, <3>2, <3>4, <3>5 DEF AccountMove
  <2> QED BY <1>5, <2>1, <2>2 DEF Admit, vars, relayVars
<1>6. CASE ReleaseUnsigned(c)
  <2>1. ReleaseReport \in Report
    BY DEF ReleaseReport, Report
  <2> QED BY <1>1, <1>2, <1>4, <1>6, <2>1 DEF ReleaseUnsigned, vars, relayVars
<1>7. CASE ExecuteActivation(c)
  <2>1. CASE grants' = grants
    BY <1>1, <1>2, <2>1
  <2>2. CASE ActivateRelay(r, call[c].gen)
    <3>1. /\ grants[r].state = "authorized"
          /\ \/ grants' = [grants EXCEPT ![r].state = "released"]
             \/ grants' = [grants EXCEPT ![r].state = "attempted"]
      BY <2>2 DEF ActivateRelay, Activatable
    <3>2. grants'[r].state \in {"released", "attempted"}
      BY <1>0, <3>1 DEF RelayGrant
    <3> QED BY <1>1, <3>1, <3>2 DEF AccountMove, AccountFor
  <2> QED BY <1>7, <2>1, <2>2 DEF ExecuteActivation, vars, relayVars
<1>8. CASE ExecuteRenewal(c)
  <2>1. CASE grants' = grants
    BY <1>1, <1>2, <2>1
  <2>2. CASE grants[r].state = "attempted" /\ grants' = [grants EXCEPT ![r].state = "uncertain"]
    <3>1. grants'[r].state = "uncertain"
      BY <1>0, <2>2 DEF RelayGrant
    <3> QED BY <1>1, <2>2, <3>1 DEF AccountMove, LiveStates
  <2> QED BY <1>8, <2>1, <2>2 DEF ExecuteRenewal, RenewRelay, ExpireAttempted, vars, relayVars
<1>9. CASE ExecuteReport(c)
  <2>1. call[c].report \in Report
    BY <1>0, <1>9 DEF ExecuteReport, CallInv
  <2> QED BY <1>1, <1>2, <1>4, <1>9, <2>1 DEF ExecuteReport, vars, relayVars
<1>10. CASE \/ Ingress(c) \/ Budget(c) \/ DecisionLost(c) \/ OwnStep(c) \/ ForwardEnds(c)
            \/ Cancelled(c) \/ Dies(c)
  <2>1. grants' = grants
    BY <1>10 DEF Ingress, Budget, DecisionLost, OwnStep, Send, Respond, RenewalFires, GiveUp,
                 ForwardEnds, Cancelled, Dies, vars, relayVars
  <2> QED BY <1>1, <1>2, <2>1
<1> QED BY <1>5, <1>6, <1>7, <1>8, <1>9, <1>10 DEF GatewayStep

\* The fetch is what the contract calls sending.
LEMMA SendIsContractStep ==
  ASSUME ExchangeInv, RelayInv', NEW c \in Calls, Send(c)
  PROVE  [Contract!ContractNext]_<<[q \in Relayed |-> AccountOf(q)], {Of(d) : d \in fetched}>>
<1> DEFINE account == [q \in Relayed |-> AccountOf(q)]
           sent == {Of(d) : d \in fetched}
           r == Of(c)
<1>0. /\ r \in Relayed /\ RelayInv /\ LaunchInv(r) /\ History(r) /\ CallInv(c) /\ fetched \subseteq Calls
      /\ call[c] \in Call /\ now \in Nat /\ activations[r] \in Nat
  BY OfRelayed DEF ExchangeInv, ExchangeTypeOK, RelayTypeOK, HistoryInv
<1>1. call[c].pc = "sending" /\ grants' = grants /\ entries' = entries /\ fetched' = fetched \cup {c}
  BY DEF Send, InCall, vars, relayVars, ledgerVars
<1>2. account' = account /\ sent' = sent \cup {r}
  BY <1>1 DEF AccountOf
<1>3. r \notin sent
  <2> SUFFICES ASSUME NEW d \in fetched, Of(d) = r PROVE FALSE
    OBVIOUS
  <2>1. d = c
    BY <1>0, <1>1 DEF LaunchInv, Launched
  <2> QED BY <1>0, <1>1, <2>1 DEF CallInv, Forwarding, CallEnded
<1>4. activations[r] >= 1
  BY <1>0, <1>1 DEF LaunchInv, Launched
<1>5. ~(now >= FinalizeFrom)
  <2>1. call[c].age \in Nat /\ call[c].age =< SetupPeriods
    BY <1>0, ExchangeAssumption DEF Call
  <2>2. now =< AdmitUntil + call[c].age
    BY <1>0, <1>1 DEF CallInv
  <2> QED BY <1>0, <2>1, <2>2, RelayAssumption, ExchangeAssumption
<1>6. grants[r].state \notin {"none", "released"}
  BY <1>0, <1>4, <1>5 DEF History
<1>7. grants[r].state \in GrantState \cup {"none"}
  BY <1>0, RelayAssumption DEF RelayInv, RelayTypeOK, RelayGrant
<1>8. account[r] \notin {"none", "free"}
  <2>1. account[r] = AccountFor[grants[r].state]
    BY <1>0, AccountsByGrants DEF AccountsTold
  <2> QED BY <1>6, <1>7, <2>1 DEF AccountFor, GrantState
<1> HIDE DEF account, sent
<1>9. Contract!Send(r)
  BY <1>2, <1>3, <1>8 DEF Contract!Send, account, sent
<1> QED BY <1>0, <1>9 DEF Contract!ContractNext

\* So is the work of the jobs of the day.
LEMMA DayIsContractStep ==
  ASSUME ExchangeInv, RelayInv', DayStep
  PROVE  [Contract!ContractNext]_<<[q \in Relayed |-> AccountOf(q)], {Of(d) : d \in fetched}>>
<1>0. /\ RelayInv /\ LedgerInv /\ grants \in [Requests -> RelayGrant] /\ Relayed \subseteq Requests
      /\ entries \in [Requests -> Entry] /\ fetched' = fetched
  BY RelayAssumption DEF ExchangeInv, RelayInv, RelayTypeOK, LedgerTypeOK, DayStep, exchangeVars
<1>1. CASE Finalize \/ WipeLost
  <2>1. grants' = grants /\ entries' = entries
    BY <1>1 DEF Finalize, FinalizeDay, WipeLost, DeleteAllLost, relayVars
  <2> QED BY <1>0, <2>1 DEF AccountOf
<1>2. ASSUME NEW r \in Relayed, NEW d \in Disposition, ReconcileRelayed(r, d)
      PROVE  [Contract!ContractNext]_<<[q \in Relayed |-> AccountOf(q)], {Of(e) : e \in fetched}>>
  <2>1. \A q \in Relayed \ {r} : grants'[q] = grants[q]
    BY <1>0, <1>2, OtherGrantsRest
  <2>2. grants[r].state \in GrantState \cup {"none"}
    BY <1>0 DEF RelayGrant
  <2>3. CASE grants' = grants
    BY <1>0, <2>1, <2>3, MoveIsContractStep DEF AccountMove
  <2>4. CASE /\ grants[r].state \notin {"none"} \cup TerminalGrantStates
             /\ \E s \in {"reconciled_consumed", "reconciled_unused"} :
                  grants' = [grants EXCEPT ![r].state = s, ![r].report = NoReport]
    <3>1. grants[r].state \in LiveStates \cup {"uncertain"}
      BY <2>2, <2>4 DEF GrantState, TerminalGrantStates, LiveStates
    <3>2. grants'[r].state \in {"reconciled_consumed", "reconciled_unused"}
      BY <1>0, <2>4 DEF RelayGrant
    <3>3. AccountMove(r, grants[r].state, grants'[r].state)
      BY <3>1, <3>2 DEF AccountMove
    <3> QED BY <1>0, <2>1, <3>3, MoveIsContractStep
  <2> QED BY <1>2, <2>3, <2>4 DEF ReconcileRelayed, Terminalize
<1>3. CASE Wipe
  <2> DEFINE account == [q \in Relayed |-> AccountOf(q)]
             sent == {Of(d) : d \in fetched}
  <2>1. finalizing /\ entries' = [q \in Requests |-> NoEntry]
    BY <1>3 DEF Wipe, DeleteAll
  <2>2. \A q \in Relayed : entries[q].state \notin {"reserved", "uncertain"}
    BY <1>0, <2>1 DEF LedgerInv, FinalizedMeansResolved, InState
  <2>4. ASSUME NEW q \in Relayed
        PROVE  account[q] \in Contract!Closed \cup {"none"}
    BY <2>2 DEF AccountOf, Contract!Closed
  <2>5. account' = [q \in Relayed |-> "none"] /\ sent' = sent
    <3>1. \A q \in Relayed : grants'[q].state = "none"
      BY <1>0, <1>3 DEF Wipe, NoGrant
    <3>2. RelayInv' => AccountsTold'
      BY AccountsByGrants, PTL
    <3>3. \A q \in Relayed : AccountOf(q)' = "none"
      BY <3>1, <3>2 DEF AccountsTold, AccountFor
    <3> QED BY <1>0, <3>3
  <2> HIDE DEF account, sent
  <2>6. Contract!Forget
    BY <2>4, <2>5 DEF Contract!Forget, account, sent
  <2> QED BY <2>6 DEF Contract!ContractNext
<1> QED BY <1>1, <1>2, <1>3 DEF DayStep

\* The relay route keeps the contract of AccountedRequest: tokens are held before
\* anything is sent, a request is sent once, nothing that may have been sent is
\* given back, and usage is charged once and only for what was sent.
THEOREM ExchangeImplementsContract == ExchangeSpec => ImplementsContract
<1>1. ExchangeInit => Contract!ContractInit
  <2> SUFFICES ASSUME ExchangeInit PROVE Contract!ContractInit
    OBVIOUS
  <2>1. fetched = {} /\ \A r \in Relayed : grants[r].state = "none"
    BY RelayAssumption DEF ExchangeInit, RelayInit, NoGrant
  <2>2. \A r \in Relayed : AccountOf(r) = "none"
    BY <2>1, RelayInvInit, AccountsByGrants DEF ExchangeInit, AccountsTold, AccountFor
  <2> QED BY <2>1, <2>2 DEF Contract!ContractInit
<1>2. ASSUME ExchangeInv, [ExchangeNext]_allVars
      PROVE  [Contract!ContractNext]_<<[r \in Relayed |-> AccountOf(r)], {Of(c) : c \in fetched}>>
  <2>0. RelayInv /\ RelayInv'
    BY <1>2, ExchangeInvStep DEF ExchangeInv
  <2>1. ASSUME NEW c \in Calls,
               Ingress(c) \/ GatewayStep(c) \/ OwnStep(c) \/ ForwardEnds(c) \/ Cancelled(c) \/ Dies(c)
        PROVE  [Contract!ContractNext]_<<[r \in Relayed |-> AccountOf(r)], {Of(d) : d \in fetched}>>
    <3>1. CASE Send(c)
      BY <1>2, <2>0, <3>1, SendIsContractStep
    <3>2. CASE ~Send(c)
      <4>1. fetched' = fetched /\ AccountMove(Of(c), grants[Of(c)].state, grants'[Of(c)].state)
        BY <1>2, <2>1, <3>2, StepMovesAccount
      <4>2. \A q \in Relayed \ {Of(c)} : grants'[q] = grants[q]
        BY <1>2, <2>1, StepServes DEF GrantRests
      <4> QED BY <1>2, <2>0, <4>1, <4>2, OfRelayed, MoveIsContractStep
    <3> QED BY <3>1, <3>2
  <2>2. CASE DayStep
    BY <1>2, <2>0, <2>2, DayIsContractStep
  <2>3. CASE Period \/ UNCHANGED allVars
    <3>1. grants' = grants /\ entries' = entries /\ fetched' = fetched
      BY <2>3 DEF Period, Tick, allVars, exchangeVars, vars, relayVars, ledgerVars
    <3> QED BY <3>1 DEF AccountOf
  <2> QED BY <1>2, <2>1, <2>2, <2>3 DEF ExchangeNext
<1>3. ExchangeInv /\ [ExchangeNext]_allVars =>
        [Contract!ContractNext]_<<[r \in Relayed |-> AccountOf(r)], {Of(c) : c \in fetched}>>
  BY <1>2
<1> QED BY <1>1, <1>3, ExchangeInvariant, PTL DEF ExchangeSpec, ImplementsContract, Contract!ContractSpec

\* What the relay gave back (and not an operator or the reconciliation) is of a request that
\* was not fetched upstream, and usage is charged only for one that was.
GivenBackNeverFetched ==
    \A r \in Relayed :
        /\ grants[r].state = "released" => \A c \in fetched : Of(c) # r
        /\ entries[r].state = "settled" => \E c \in fetched : Of(c) = r

\* The ledger's records agree with what went upstream, however callbacks are delayed,
\* lost or repeated: a consequence of the contract.
THEOREM ExchangeSpendsWhatItSends == ExchangeSpec => []GivenBackNeverFetched
<1> DEFINE A == [r \in Relayed |-> AccountOf(r)]
           gone == {Of(c) : c \in fetched}
           Agree == \A r \in Relayed : (A[r] = "free" => r \notin gone) /\ (A[r] = "charged" => r \in gone)
<1>1. Contract!ContractInit => Agree
  BY DEF Contract!ContractInit
<1>2. Agree /\ [Contract!ContractNext]_<<A, gone>> => Agree'
  <2> SUFFICES ASSUME Agree, [Contract!ContractNext]_<<A, gone>>
               PROVE  Agree'
    OBVIOUS
  <2>1. DOMAIN A = Relayed
    OBVIOUS
  <2>2. ASSUME NEW q \in Relayed,
               \/ Contract!Hold(q) \/ Contract!Send(q) \/ Contract!Doubt(q) \/ Contract!Free(q)
               \/ Contract!Charge(q) \/ Contract!Resolve(q)
        PROVE  Agree'
    <3>1. \/ gone' = gone \cup {q} /\ A' = A /\ A[q] # "free"
          \/ /\ gone' = gone
             /\ \E to : /\ A' = [A EXCEPT ![q] = to]
                        /\ (to = "free" => q \notin gone) /\ (to = "charged" => q \in gone)
      BY <2>2 DEF Contract!Hold, Contract!Send, Contract!Doubt, Contract!Free, Contract!Charge,
                  Contract!Resolve, Contract!Moves
    <3> HIDE DEF A, gone
    <3> QED BY <2>1, <3>1
  <2>3. CASE Contract!Forget
    BY <2>3 DEF Contract!Forget
  <2>4. CASE UNCHANGED <<A, gone>>
    BY <2>4
  <2> QED BY <2>2, <2>3, <2>4 DEF Contract!ContractNext
<1>3. Agree /\ GrantMatchesEntry => GivenBackNeverFetched
  <2> SUFFICES ASSUME Agree, GrantMatchesEntry, NEW r \in Relayed
               PROVE  /\ grants[r].state = "released" => \A c \in fetched : Of(c) # r
                      /\ entries[r].state = "settled" => \E c \in fetched : Of(c) = r
    BY DEF GivenBackNeverFetched
  <2>1. (AccountOf(r) = "free" => r \notin gone) /\ (AccountOf(r) = "charged" => r \in gone)
    OBVIOUS
  <2>2. grants[r].state = "released" => entries[r].state = "released"
    BY DEF GrantMatchesEntry, EntryStateOf
  <2>3. grants[r].state = "released" => AccountOf(r) = "free"
    BY <2>2 DEF AccountOf
  <2>4. entries[r].state = "settled" => AccountOf(r) = "charged"
    BY <2>2 DEF AccountOf
  <2> HIDE DEF Agree
  <2> QED BY <2>1, <2>3, <2>4
<1>4. Contract!ContractSpec => []Agree
  <2> HIDE DEF Agree
  <2> QED BY <1>1, <1>2, PTL DEF Contract!ContractSpec
<1> HIDE DEF Agree
<1> QED BY <1>3, <1>4, ExchangeImplementsContract, ExchangeKeepsGrants, PTL DEF ImplementsContract
=============================================================================
