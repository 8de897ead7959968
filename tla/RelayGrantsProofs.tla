-------------------------- MODULE RelayGrantsProofs --------------------------
(***************************************************************************)
(* Proofs about RelayGrants: the relay operations are ledger operations,   *)
(* so everything proved of the ledger holds with relayed requests too; and *)
(* grant, request entry and lease of a relayed request agree at all times. *)
(***************************************************************************)
EXTENDS RelayGrants, QuotaLedgerProofs

\* What admitRelay checks is what reserve checks, so its writes are a reserve.
LEMMA AdmissibleReserves ==
  ASSUME NEW r \in Requests, NEW size, NEW k, NEW limit, Admissible(r, size, k, limit)
  PROVE  ReserveOutcome(r, size, k, limit) = "reserved"
<1>1. /\ entries[r].state = "absent" /\ ~finalized /\ Fits(LoadPool(limit), size)
      /\ MappedRequest(k) \notin {NoRequest, r} => entries[MappedRequest(k)].state = "released"
  BY DEF Admissible
<1>2. EntryRequest(r, k) = r
  BY <1>1 DEF EntryRequest
<1> QED BY <1>1, <1>2 DEF ReserveOutcome

\* A lifecycle transition inside a relay transaction is a ledger operation.
LEMMA AppliesLedgerStep ==
  ASSUME NEW r \in Requests, NEW report \in Report, Applies(r, report)
  PROVE  [LedgerNext]_ledgerVars
<1>1. CASE report.outcome = "settle"
  <2>1. report.tokens \in Actuals
    BY <1>1 DEF Report
  <2>2. Settle(r, report.tokens) \/ UNCHANGED ledgerVars
    BY <1>1 DEF Applies
  <2> QED BY <2>1, <2>2 DEF LedgerNext, RequestStep
<1>2. CASE report.outcome = "uncertain"
  <2>1. MarkUncertain(r) \/ UNCHANGED ledgerVars
    BY <1>2 DEF Applies
  <2> QED BY <2>1 DEF LedgerNext, RequestStep
<1>3. CASE report.outcome = "release"
  <2>1. Release(r) \/ UNCHANGED ledgerVars
    BY <1>3 DEF Applies
  <2> QED BY <2>1 DEF LedgerNext, RequestStep
<1> QED BY <1>1, <1>2, <1>3 DEF Report

\* Every relay operation is, for the ledger, one operation or none.
LEMMA RelayStepIsLedgerStep ==
  ASSUME [RelayNext]_vars
  PROVE  [LedgerNext]_ledgerVars
<1> USE RelayAssumption
<1>1. ASSUME NEW r \in Relayed, NEW size \in Sizes, NEW k \in Keys \cup {NoKey},
             NEW limit \in Limits, AdmitRelay(r, size, k, limit)
      PROVE  [LedgerNext]_ledgerVars
  <2>1. r \in Requests
    OBVIOUS
  <2>2. PutReservation(r, size, k, limit) \/ UNCHANGED ledgerVars
    BY <1>1 DEF AdmitRelay
  <2>3. ReserveOutcome(r, size, k, limit) = "reserved"
    BY <1>1, <2>1, AdmissibleReserves DEF AdmitRelay
  <2> QED BY <2>1, <2>2, <2>3 DEF Reserve, RequestStep, LedgerNext
<1>2. ASSUME NEW r \in Relayed, FenceSetup(r)
      PROVE  [LedgerNext]_ledgerVars
  BY <1>2 DEF FenceSetup
<1>3. UncertainReport \in Report /\ ReleaseReport \in Report
  BY DEF UncertainReport, ReleaseReport, Report
<1>4. ASSUME NEW r \in Relayed, NEW g, Callback(r, g)
      PROVE  [LedgerNext]_ledgerVars
  <2>1. r \in Requests
    OBVIOUS
  <2>2. CASE ActivateRelay(r, g)
    <3>1. Applies(r, ReleaseReport) \/ UNCHANGED ledgerVars
      BY <2>2 DEF ActivateRelay
    <3> QED BY <1>3, <2>1, <3>1, AppliesLedgerStep
  <2>3. CASE RenewRelay(r, g)
    <3>1. Applies(r, UncertainReport) \/ UNCHANGED ledgerVars
      BY <2>3 DEF RenewRelay, ExpireAttempted
    <3> QED BY <1>3, <2>1, <3>1, AppliesLedgerStep
  <2>4. ASSUME NEW report \in Report, FinishRelay(r, g, report)
        PROVE  [LedgerNext]_ledgerVars
    <3>1. Applies(r, report) \/ Applies(r, UncertainReport)
      BY <2>4 DEF FinishRelay, ExpireAttempted
    <3> QED BY <1>3, <2>1, <3>1, AppliesLedgerStep
  <2> QED BY <1>4, <2>2, <2>3, <2>4 DEF Callback
<1>5. ASSUME NEW r \in Relayed, NEW d \in Disposition, ReconcileRelayed(r, d)
      PROVE  [LedgerNext]_ledgerVars
  <2>1. r \in Requests /\ ReconcileRequest(r, d)
    BY <1>5 DEF ReconcileRelayed
  <2> QED BY <2>1 DEF RequestStep, LedgerNext
<1>6. ASSUME NEW r \in Requests \ Relayed, DirectStep(r)
      PROVE  [LedgerNext]_ledgerVars
  <2>1. RequestStep(r) \/ UNCHANGED ledgerVars
    BY <1>6 DEF DirectStep
  <2> QED BY <2>1 DEF LedgerNext
<1>7. CASE Finalize \/ Wipe \/ WipeLost
  BY <1>7 DEF Finalize, Wipe, WipeLost, LedgerNext
<1>8. CASE Tick
  BY <1>8 DEF Tick
<1>9. CASE UNCHANGED vars
  BY <1>9 DEF vars
<1> QED BY <1>1, <1>2, <1>4, <1>5, <1>6, <1>7, <1>8, <1>9 DEF RelayNext

\* The relay implements the ledger: its operations, interleaved with those of
\* the direct route, are ledger operations.
THEOREM RelayRefinesLedger == RelaySpec => ImplementsLedger
<1>1. RelayInit => LedgerInit
  BY DEF RelayInit
<1>2. [RelayNext]_vars => [LedgerNext]_ledgerVars
  BY RelayStepIsLedgerStep
<1> QED BY <1>1, <1>2, PTL DEF RelaySpec, ImplementsLedger, LedgerSpec

\* Hence the accounting invariants hold with relayed and direct requests
\* sharing one object.
THEOREM RelayKeepsBooks ==
  RelaySpec => [](LedgerBalanced /\ OvercommitOnlyByExcess /\ IdempotencyExclusive)
BY RelayRefinesLedger, LedgerAlwaysBalanced, LedgerOvercommit, LedgerIdempotent, PTL
   DEF ImplementsLedger

(***************************************************************************)
(* Grant, entry and lease of a relayed request.                            *)
(***************************************************************************)

\* Grant and entry agree, and the entry has recorded no operation that a later
\* report of its grant could still have to perform: while the grant is live no
\* operation at all, after an uncertain outcome none but markUncertain. Without
\* this part a first settlement could find its result already saved.
Paired(r) ==
    /\ entries[r].state = EntryStateOf[grants[r].state]
    /\ grants[r].state = "settled" =>
          /\ grants[r].report.outcome = "settle"
          /\ entries[r].actual = grants[r].report.tokens
    /\ grants[r].state \in {"authorized", "attempted"} => entries[r].saved = {}
    /\ grants[r].state = "uncertain" => entries[r].saved \subseteq {"markUncertain"}
    /\ grants[r].state # "none" => grants[r].gen \in Nat

\* The inductive invariant of the relay, above that of the ledger. The object
\* never held a list in the old format, so no lease is migrated.
RelayInv ==
    /\ RelayTypeOK
    /\ legacy = {}
    /\ \A r \in Relayed : Paired(r)
    /\ LeaseOnlyForLiveGrant
    /\ FenceHolds

LiveStates == {"authorized", "attempted"}

\* No lease is migrated, so what is in force is part of what is stored.
LEMMA ActiveIsStored ==
  ASSUME legacy = {}
  PROVE  Active \subseteq leases
BY DEF Active, WithoutExpired, Normalized

\* After the release of its place a grant has none left.
LEMMA PlaceGivenBack ==
  ASSUME RelayInv, NEW r \in Relayed, grants[r].state # "none", ReleaseGrantLease(r)
  PROVE  /\ leases' \subseteq leases /\ legacy' = {}
         /\ \A l \in leases' : l.req # r
         /\ nextGeneration' = nextGeneration /\ now' = now
<1>1. Active \subseteq leases
  BY ActiveIsStored DEF RelayInv
<1>2. grants[r].gen \in Nat
  BY DEF RelayInv, Paired
<1>3. grants[r].gen # NoGeneration
  BY <1>2 DEF NoGeneration
<1>4. leases' = {l \in Active : ~(l.req = r /\ l.gen = grants[r].gen)}
  BY <1>3 DEF ReleaseGrantLease, ReleaseLease, Releasable, SaveInFlight
<1>5. \A l \in leases : l.req = r => l.gen = grants[r].gen
  BY DEF RelayInv, LeaseOnlyForLiveGrant
<1> QED BY <1>1, <1>4, <1>5 DEF ReleaseGrantLease, ReleaseLease, SaveInFlight

\* The invariant survives a step that is about one relayed request, when its
\* grant and entry still agree afterwards and every lease of it is its grant's.
LEMMA OneRequestKeeps ==
  ASSUME RelayInv, RelayTypeOK', NEW r \in Relayed,
         \A q \in Requests \ {r} : entries'[q] = entries[q] /\ grants'[q] = grants[q],
         Paired(r)', legacy' = {},
         \A l \in leases' :
             \/ l.req # r /\ \E m \in leases : m.req = l.req /\ m.gen = l.gen
             \/ l.req = r /\ grants'[r].state \in LiveStates /\ l.gen = grants'[r].gen,
         fenced' \subseteq fenced \cup {r},
         r \in fenced' => grants'[r].state = "none" /\ entries'[r].state = "absent"
  PROVE  RelayInv'
<1> USE RelayAssumption
<1>1. \A q \in Relayed : Paired(q)'
  <2> SUFFICES ASSUME NEW q \in Relayed, q # r PROVE Paired(q)'
    OBVIOUS
  <2>1. entries'[q] = entries[q] /\ grants'[q] = grants[q] /\ Paired(q)
    BY DEF RelayInv
  <2> QED BY <2>1 DEF Paired, EntryStateOf
<1>2. LeaseOnlyForLiveGrant'
  BY DEF LeaseOnlyForLiveGrant, RelayInv, LiveStates
<1>3. FenceHolds'
  <2> SUFFICES ASSUME NEW q \in fenced', q # r
               PROVE  entries'[q].state = "absent" /\ grants'[q].state = "none"
    BY DEF FenceHolds
  <2>1. q \in fenced /\ q \in Requests
    BY DEF RelayInv, RelayTypeOK
  <2> QED BY <2>1 DEF RelayInv, FenceHolds
<1> QED BY <1>1, <1>2, <1>3 DEF RelayInv

\* Grants, leases and the rest keep their types when one grant is replaced.
LEMMA RelayTypeKept ==
  ASSUME RelayTypeOK, LedgerTypeOK', NEW r \in Requests, NEW g \in RelayGrant,
         legacy' = {}, leases' \subseteq LeaseIn(Requests),
         nextGeneration' \in Nat, now' \in Nat,
         grants' = [grants EXCEPT ![r] = g],
         fenced' \subseteq Relayed, credentials' = credentials,
         activations' \in [Requests -> Nat]
  PROVE  RelayTypeOK'
BY DEF RelayTypeOK

\* A legal report of a grant that is not terminal takes effect on the entry: it
\* is the first call of its operation and finds the entry in a state it applies to.
LEMMA ReportTakesEffect ==
  ASSUME RelayInv, NEW r \in Relayed, NEW report \in Report, Applies(r, report),
         grants[r].state \in {"authorized", "attempted", "uncertain"},
         Legal(grants[r].state, report.outcome)
  PROVE  /\ \A q \in Requests \ {r} : entries'[q] = entries[q]
         /\ entries'[r].state = EntryStateOf[GrantStateAfter[report.outcome]]
         /\ report.outcome = "settle" => entries'[r].actual = report.tokens
         /\ report.outcome = "uncertain" => entries'[r].saved \subseteq {"markUncertain"}
<1> USE RelayAssumption
<1>1. entries \in [Requests -> Entry] /\ r \in Requests
  BY DEF RelayInv, RelayTypeOK, LedgerTypeOK
<1>2. /\ grants[r].state \in LiveStates => entries[r].state = "reserved" /\ entries[r].saved = {}
      /\ grants[r].state = "uncertain" =>
            entries[r].state = "uncertain" /\ entries[r].saved \subseteq {"markUncertain"}
  BY DEF RelayInv, Paired, EntryStateOf, LiveStates
<1>3. entries[r].state \in Open /\ entries[r].saved \subseteq {"markUncertain"}
  BY <1>2 DEF Open, LiveStates
<1>4. CASE report.outcome = "settle"
  <2>1. FirstCall(r, "settle")
    BY <1>3 DEF FirstCall, Open
  <2>2. Settle(r, report.tokens)
    BY <1>4, <2>1 DEF Applies, OperationOf
  <2>3. entries' = [entries EXCEPT ![r].state = "settled", ![r].actual = report.tokens,
                                   ![r].saved = @ \cup {"settle"}]
    BY <1>3, <2>2 DEF Settle
  <2>4. entries'[r].state = "settled" /\ entries'[r].actual = report.tokens
    BY <1>1, <2>3 DEF Entry
  <2> QED BY <1>1, <1>4, <2>3, <2>4 DEF EntryStateOf, GrantStateAfter
<1>5. CASE report.outcome = "release"
  <2>1. entries[r].state = "reserved" /\ entries[r].saved = {}
    BY <1>2, <1>5 DEF Legal, LiveStates
  <2>2. Release(r)
    BY <1>5, <2>1 DEF Applies, OperationOf, FirstCall
  <2>3. entries' = [entries EXCEPT ![r].state = "released", ![r].saved = @ \cup {"release"}]
    BY <2>1, <2>2 DEF Release
  <2>4. entries'[r].state = "released"
    BY <1>1, <2>3 DEF Entry
  <2> QED BY <1>1, <1>5, <2>3, <2>4 DEF EntryStateOf, GrantStateAfter
<1>6. CASE report.outcome = "uncertain"
  <2>1. MarkUncertain(r) \/ (~FirstCall(r, "markUncertain") /\ entries' = entries)
    BY <1>6 DEF Applies, OperationOf, ledgerVars
  <2>2. CASE entries[r].state = "reserved"
    <3>1. entries[r].saved = {}
      BY <1>2, <2>2 DEF LiveStates
    <3>2. MarkUncertain(r)
      BY <2>1, <2>2, <3>1 DEF FirstCall
    <3>3. PICK o : entries' = [entries EXCEPT ![r].state = "uncertain", ![r].origin = o,
                                              ![r].saved = @ \cup {"markUncertain"}]
      BY <2>2, <3>2 DEF MarkUncertain, BecomeUncertain
    <3>4. entries'[r].state = "uncertain" /\ entries'[r].saved = {"markUncertain"}
      BY <1>1, <3>1, <3>3 DEF Entry
    <3> QED BY <1>1, <1>6, <3>3, <3>4 DEF EntryStateOf, GrantStateAfter
  <2>3. CASE entries[r].state = "uncertain"
    <3>1. entries' = entries \/ entries' = [entries EXCEPT ![r].saved = @ \cup {"markUncertain"}]
      BY <2>1, <2>3 DEF MarkUncertain, RecordOnly
    <3>2. entries'[r].state = "uncertain" /\ entries'[r].saved \subseteq {"markUncertain"}
      BY <1>1, <1>3, <2>3, <3>1 DEF Entry
    <3> QED BY <1>1, <1>6, <3>1, <3>2 DEF EntryStateOf, GrantStateAfter
  <2> QED BY <1>3, <2>2, <2>3 DEF Open
<1> QED BY <1>4, <1>5, <1>6 DEF Report

\* One grant moves to another state, with a report or without one.
GrantMoves(r, s, report) ==
    \/ grants' = [grants EXCEPT ![r].state = s] /\ report = grants[r].report
    \/ grants' = [grants EXCEPT ![r].state = s, ![r].report = report]

\* Such a move replaces the grant by another one of the same generation.
LEMMA GrantReplaced ==
  ASSUME RelayTypeOK, NEW r \in Requests, NEW s \in GrantState,
         NEW report \in Report \cup {NoReport}, GrantMoves(r, s, report)
  PROVE  \E g \in RelayGrant : /\ grants' = [grants EXCEPT ![r] = g]
                               /\ g.state = s /\ g.report = report /\ g.gen = grants[r].gen
<1>1. grants \in [Requests -> RelayGrant] /\ grants[r] \in RelayGrant
  BY DEF RelayTypeOK
<1>2. CASE grants' = [grants EXCEPT ![r].state = s] /\ report = grants[r].report
  <2> DEFINE g == [grants[r] EXCEPT !.state = s]
  <2>1. g \in RelayGrant /\ g.state = s /\ g.report = report /\ g.gen = grants[r].gen
    BY <1>1, <1>2 DEF RelayGrant
  <2>2. grants' = [grants EXCEPT ![r] = g]
    BY <1>1, <1>2
  <2> QED BY <2>1, <2>2
<1>3. CASE grants' = [grants EXCEPT ![r].state = s, ![r].report = report]
  <2> DEFINE g == [grants[r] EXCEPT !.state = s, !.report = report]
  <2>1. g \in RelayGrant /\ g.state = s /\ g.report = report /\ g.gen = grants[r].gen
    BY <1>1, <1>3 DEF RelayGrant
  <2>2. grants' = [grants EXCEPT ![r] = g]
    BY <1>1, <1>3
  <2> QED BY <2>1, <2>2
<1> QED BY <1>2, <1>3 DEF GrantMoves

\* The invariant survives the end or the change of one grant: its entry follows
\* and its place is given back, or it stays live with its entry untouched.
LEMMA GrantMoveKeeps ==
  ASSUME RelayInv, LedgerTypeOK', NEW r \in Relayed, NEW s \in GrantState,
         NEW report \in Report \cup {NoReport}, grants[r].state # "none",
         \/ grants' = [grants EXCEPT ![r].state = s] /\ report = grants[r].report
         \/ grants' = [grants EXCEPT ![r].state = s, ![r].report = report],
         \A q \in Requests \ {r} : entries'[q] = entries[q],
         entries'[r].state = EntryStateOf[s],
         s = "settled" => report.outcome = "settle" /\ entries'[r].actual = report.tokens,
         s = "uncertain" => entries'[r].saved \subseteq {"markUncertain"},
         s \in LiveStates => entries'[r].saved = {},
         leases' \subseteq leases, legacy' = {},
         s \in LiveStates \/ \A l \in leases' : l.req # r,
         nextGeneration' = nextGeneration, now' = now,
         fenced' = fenced, credentials' = credentials, activations' \in [Requests -> Nat]
  PROVE  RelayInv'
<1>1. RelayTypeOK /\ r \in Requests /\ grants \in [Requests -> RelayGrant]
  BY RelayAssumption DEF RelayInv, RelayTypeOK
<1>0. GrantMoves(r, s, report)
  BY DEF GrantMoves
<1>2. PICK g \in RelayGrant : /\ grants' = [grants EXCEPT ![r] = g]
                              /\ g.state = s /\ g.report = report /\ g.gen = grants[r].gen
  BY <1>0, <1>1, GrantReplaced
<1>3. grants'[r] = g /\ \A q \in Requests \ {r} : grants'[q] = grants[q]
  BY <1>1, <1>2
<1>4. RelayTypeOK'
  <2>1. leases' \subseteq LeaseIn(Requests) /\ nextGeneration' \in Nat /\ now' \in Nat
        /\ fenced' \subseteq Relayed
    BY <1>1 DEF RelayTypeOK
  <2> QED BY <1>1, <1>2, <2>1, RelayTypeKept
<1>5. Paired(r)'
  <2>1. g.gen \in Nat
    BY <1>2 DEF RelayInv, Paired
  <2>2. s \in {"authorized", "attempted"} => entries'[r].saved = {}
    BY DEF LiveStates
  <2> QED BY <1>2, <1>3, <2>1, <2>2 DEF Paired, EntryStateOf
<1>6. r \notin fenced
  BY DEF RelayInv, FenceHolds
<1>7. \A l \in leases' : l.req = r => s \in LiveStates /\ l.gen = grants[r].gen
  BY DEF RelayInv, LeaseOnlyForLiveGrant
<1> QED BY <1>2, <1>3, <1>4, <1>5, <1>6, <1>7, OneRequestKeeps

\* A report that ends the grant keeps the invariant; expireAttemptedGrant is the
\* report of an uncertain outcome that nobody sent.
LEMMA EndKeeps ==
  ASSUME RelayInv, LedgerTypeOK', NEW r \in Relayed, NEW report \in Report,
         NEW kept \in Report \cup {NoReport},
         Applies(r, report), ReleaseGrantLease(r),
         grants[r].state \in {"authorized", "attempted", "uncertain"},
         Legal(grants[r].state, report.outcome),
         \/ /\ grants' = [grants EXCEPT ![r].state = GrantStateAfter[report.outcome]]
            /\ kept = grants[r].report /\ report.outcome # "settle"
         \/ /\ grants' = [grants EXCEPT ![r].state = GrantStateAfter[report.outcome],
                                        ![r].report = kept]
            /\ kept = report,
         fenced' = fenced, credentials' = credentials, activations' = activations
  PROVE  RelayInv'
<1> DEFINE s == GrantStateAfter[report.outcome]
<1>1. /\ \A q \in Requests \ {r} : entries'[q] = entries[q]
      /\ entries'[r].state = EntryStateOf[s]
      /\ report.outcome = "settle" => entries'[r].actual = report.tokens
      /\ report.outcome = "uncertain" => entries'[r].saved \subseteq {"markUncertain"}
  BY ReportTakesEffect
<1>2. /\ s \in GrantState /\ s \notin LiveStates
      /\ s = "settled" <=> report.outcome = "settle"
      /\ s = "uncertain" <=> report.outcome = "uncertain"
  BY DEF Report, GrantStateAfter, GrantState, LiveStates
<1>3. /\ leases' \subseteq leases /\ legacy' = {}
      /\ \A l \in leases' : l.req # r
      /\ nextGeneration' = nextGeneration /\ now' = now
  BY PlaceGivenBack
<1>4. activations' \in [Requests -> Nat]
  BY DEF RelayInv, RelayTypeOK
<1>5. s = "settled" => kept.outcome = "settle" /\ entries'[r].actual = kept.tokens
  BY <1>1, <1>2
<1>6. grants[r].state # "none"
  OBVIOUS
<1>7. \/ grants' = [grants EXCEPT ![r].state = s] /\ kept = grants[r].report
      \/ grants' = [grants EXCEPT ![r].state = s, ![r].report = kept]
  OBVIOUS
<1> HIDE DEF s
<1> QED BY <1>1, <1>2, <1>3, <1>4, <1>5, <1>6, <1>7, GrantMoveKeeps

\* expireAttemptedGrant keeps the invariant.
LEMMA ExpireKeeps ==
  ASSUME RelayInv, LedgerTypeOK', NEW r \in Relayed, ExpireAttempted(r),
         grants[r].state = "attempted",
         fenced' = fenced, credentials' = credentials, activations' = activations
  PROVE  RelayInv'
<1>1. UncertainReport \in Report /\ UncertainReport.outcome = "uncertain"
  BY DEF UncertainReport, Report
<1>2. grants' = [grants EXCEPT ![r].state = GrantStateAfter[UncertainReport.outcome]]
  BY <1>1 DEF ExpireAttempted, GrantStateAfter
<1>3. grants[r].report \in Report \cup {NoReport}
  BY RelayAssumption DEF RelayInv, RelayTypeOK, RelayGrant
<1>4. Legal(grants[r].state, UncertainReport.outcome)
  BY <1>1 DEF Legal
<1> QED BY <1>1, <1>2, <1>3, <1>4, EndKeeps DEF ExpireAttempted

\* activateRelay keeps the invariant, whether it starts the attempt or gives the
\* reservation back.
LEMMA ActivateKeeps ==
  ASSUME RelayInv, LedgerTypeOK', NEW r \in Relayed, NEW g, ActivateRelay(r, g)
  PROVE  RelayInv'
<1>1. /\ grants[r].state = "authorized" /\ fenced' = fenced /\ credentials' = credentials
      /\ r \in Requests /\ grants[r].report \in Report \cup {NoReport}
  BY RelayAssumption DEF ActivateRelay, Activatable, RelayInv, RelayTypeOK, RelayGrant
<1>2. CASE /\ Applies(r, ReleaseReport) /\ ReleaseGrantLease(r)
           /\ grants' = [grants EXCEPT ![r].state = "released"]
           /\ activations' = activations
  <2>1. ReleaseReport \in Report /\ ReleaseReport.outcome = "release"
    BY DEF ReleaseReport, Report
  <2>2. grants' = [grants EXCEPT ![r].state = GrantStateAfter[ReleaseReport.outcome]]
    BY <1>2, <2>1 DEF GrantStateAfter
  <2>3. Legal(grants[r].state, ReleaseReport.outcome)
    BY <1>1, <2>1 DEF Legal
  <2> QED BY <1>1, <1>2, <2>1, <2>2, <2>3, EndKeeps
<1>3. CASE /\ grants' = [grants EXCEPT ![r].state = "attempted"]
           /\ activations' = [activations EXCEPT ![r] = @ + 1]
           /\ UNCHANGED <<ledgerVars, leaseVars>>
  <2>1. /\ entries' = entries /\ leases' = leases /\ legacy' = {}
        /\ nextGeneration' = nextGeneration /\ now' = now
    BY <1>3 DEF ledgerVars, leaseVars, RelayInv
  <2>2. activations' \in [Requests -> Nat]
    BY <1>1, <1>3 DEF RelayInv, RelayTypeOK
  <2>3. entries[r].state = "reserved" /\ entries[r].saved = {}
    BY <1>1 DEF RelayInv, Paired, EntryStateOf
  <2>4. /\ "attempted" \in GrantState /\ "attempted" \in LiveStates
        /\ EntryStateOf["attempted"] = "reserved"
    BY DEF GrantState, LiveStates, EntryStateOf
  <2> QED BY <1>1, <1>3, <2>1, <2>2, <2>3, <2>4, GrantMoveKeeps
<1> QED BY <1>2, <1>3 DEF ActivateRelay

\* A step that touches nothing but the leases keeps the invariant when every lease
\* it leaves has the request and the generation of one that was there.
LEMMA LeaseStepKeeps ==
  ASSUME RelayInv, LedgerTypeOK', leases' \subseteq LeaseIn(Requests), legacy' = {},
         \A r \in Relayed : entries'[r] = entries[r],
         \A l \in leases' : l.req \in Relayed =>
             \E m \in leases : m.req = l.req /\ m.gen = l.gen,
         nextGeneration' \in Nat, now' \in Nat, UNCHANGED relayVars
  PROVE  RelayInv'
<1> USE RelayAssumption
<1>1. UNCHANGED <<grants, fenced, credentials, activations>>
  BY DEF relayVars
<1>2. RelayTypeOK'
  BY <1>1 DEF RelayInv, RelayTypeOK
<1>3. \A r \in Relayed : Paired(r)'
  BY <1>1 DEF RelayInv, Paired
<1>4. LeaseOnlyForLiveGrant'
  BY <1>1 DEF RelayInv, LeaseOnlyForLiveGrant
<1>5. FenceHolds'
  BY <1>1 DEF RelayInv, RelayTypeOK, FenceHolds
<1> QED BY <1>2, <1>3, <1>4, <1>5 DEF RelayInv

\* Extending leases that are in force changes neither request nor generation.
LEMMA ExtendedAreStored ==
  ASSUME RelayInv, NEW S \in SUBSET Active
  PROVE  /\ Extended(S) \subseteq LeaseIn(Requests)
         /\ \A l \in Extended(S) : \E m \in leases : m.req = l.req /\ m.gen = l.gen
<1>1. Active \subseteq leases /\ leases \subseteq LeaseIn(Requests) /\ now + LeaseTTL \in Nat
  BY ActiveIsStored, LeaseTTLAssumption DEF RelayInv, RelayTypeOK
<1>2. \A m \in S : LET l == [m EXCEPT !.exp = now + LeaseTTL]
                   IN  l \in LeaseIn(Requests) /\ l.req = m.req /\ l.gen = m.gen
  BY <1>1 DEF LeaseIn
<1> QED BY <1>1, <1>2 DEF Extended

\* renewRelay keeps the invariant: it extends the grant's own lease, or ends the
\* attempt whose authorization ran out.
LEMMA RenewKeepsGrants ==
  ASSUME RelayInv, LedgerTypeOK', NEW r \in Relayed, NEW g, RenewRelay(r, g)
  PROVE  RelayInv'
<1>1. CASE ExpireAttempted(r)
  BY <1>1, ExpireKeeps DEF RenewRelay
<1>2. CASE /\ SaveInFlight(Extended(GrantLease(r)))
           /\ UNCHANGED <<ledgerVars, nextGeneration, now, grants>>
  <2>1. GrantLease(r) \in SUBSET Active
    BY DEF GrantLease, ActiveOf
  <2>2. leases' = Extended(GrantLease(r)) /\ legacy' = {} /\ entries' = entries
    BY <1>2 DEF SaveInFlight, ledgerVars
  <2>3. UNCHANGED relayVars /\ nextGeneration' \in Nat /\ now' \in Nat
    BY <1>2 DEF RenewRelay, relayVars, RelayInv, RelayTypeOK
  <2> QED BY <2>1, <2>2, <2>3, ExtendedAreStored, LeaseStepKeeps
<1> QED BY <1>1, <1>2 DEF RenewRelay

\* finishRelay keeps the invariant.
LEMMA FinishKeeps ==
  ASSUME RelayInv, LedgerTypeOK', NEW r \in Relayed, NEW g, NEW report \in Report,
         FinishRelay(r, g, report)
  PROVE  RelayInv'
<1>1. grants[r].state \in {"authorized", "attempted", "uncertain"}
  BY RelayAssumption DEF FinishRelay, Binds, TerminalGrantStates, GrantState,
                         RelayInv, RelayTypeOK, RelayGrant
<1>2. fenced' = fenced /\ credentials' = credentials /\ activations' = activations
  BY DEF FinishRelay
<1>3. CASE /\ Legal(grants[r].state, report.outcome)
           /\ Applies(r, report)
           /\ ReleaseGrantLease(r)
           /\ grants' = [grants EXCEPT ![r].state = GrantStateAfter[report.outcome],
                                       ![r].report = report]
  BY <1>1, <1>2, <1>3, EndKeeps
<1>4. CASE grants[r].state = "attempted" /\ ExpireAttempted(r)
  BY <1>2, <1>4, ExpireKeeps
<1> QED BY <1>3, <1>4 DEF FinishRelay

\* reconcileRequest keeps the invariant: it finds an open entry, hence a grant that
\* is not terminal, and ends both.
LEMMA ReconcileKeeps ==
  ASSUME RelayInv, LedgerTypeOK', NEW r \in Relayed, NEW d \in Disposition,
         ReconcileRelayed(r, d)
  PROVE  RelayInv'
<1> DEFINE s == IF d = "consumed" THEN "reconciled_consumed" ELSE "reconciled_unused"
<1>1. /\ r \in Requests /\ entries \in [Requests -> Entry]
      /\ grants[r].state \in GrantState \cup {"none"} /\ activations \in [Requests -> Nat]
  BY RelayAssumption DEF RelayInv, RelayTypeOK, LedgerTypeOK, RelayGrant
<1>2. entries[r].state \in Open /\ entries[r].state = EntryStateOf[grants[r].state]
  BY DEF ReconcileRelayed, ReconcileRequest, RelayInv, Paired
<1>3. grants[r].state \notin {"none"} \cup TerminalGrantStates
  BY <1>1, <1>2 DEF Open, EntryStateOf, TerminalGrantStates, GrantState
<1>4. /\ ReleaseGrantLease(r)
      /\ grants' = [grants EXCEPT ![r].state = s, ![r].report = NoReport]
  BY <1>3 DEF ReconcileRelayed, Terminalize
<1>5. PICK x : /\ entries' = [entries EXCEPT ![r].state = x, ![r].saved = @ \cup {"reconcile"}]
               /\ x = IF d = "consumed" THEN "reconciled" ELSE "released"
  BY DEF ReconcileRelayed, ReconcileRequest
<1>6. entries'[r].state = x /\ \A q \in Requests \ {r} : entries'[q] = entries[q]
  BY <1>1, <1>5 DEF Entry
<1>7. x = EntryStateOf[s] /\ s \in GrantState /\ s \notin LiveStates \cup {"settled", "uncertain"}
  BY <1>5 DEF EntryStateOf, GrantState, LiveStates
<1>8. fenced' = fenced /\ credentials' = credentials /\ activations' = activations
  BY DEF ReconcileRelayed
<1>9. /\ leases' \subseteq leases /\ legacy' = {}
      /\ \A l \in leases' : l.req # r
      /\ nextGeneration' = nextGeneration /\ now' = now
  BY <1>3, <1>4, PlaceGivenBack
<1> HIDE DEF s
<1> QED BY <1>1, <1>3, <1>4, <1>6, <1>7, <1>8, <1>9, GrantMoveKeeps

\* admitRelay keeps the invariant: the request it admits had neither grant nor
\* lease, the generation it takes is new.
LEMMA AdmitKeeps ==
  ASSUME RelayInv, LedgerTypeOK', NEW r \in Relayed, NEW size \in Sizes,
         NEW k \in Keys \cup {NoKey}, NEW limit \in Limits, AdmitRelay(r, size, k, limit)
  PROVE  RelayInv'
<1> USE RelayAssumption
<1>1. /\ r \in Requests /\ r \notin fenced /\ entries[r].state = "absent"
      /\ fenced' = fenced /\ activations' = activations
  BY DEF AdmitRelay, Admissible
<1>2. /\ now \in Nat /\ nextGeneration \in Nat /\ leases \subseteq LeaseIn(Requests)
      /\ entries \in [Requests -> Entry] /\ grants \in [Requests -> RelayGrant]
      /\ fenced \subseteq Relayed /\ credentials \subseteq Relayed \X Nat
      /\ activations \in [Requests -> Nat]
  BY DEF RelayInv, RelayTypeOK, LedgerTypeOK
<1>3. Active \subseteq leases
  BY ActiveIsStored DEF RelayInv
<1>4. grants[r].state = "none"
  <2>1. grants[r].state \in GrantState \cup {"none"}
    BY <1>1, <1>2 DEF RelayGrant
  <2>2. EntryStateOf[grants[r].state] = "absent"
    BY <1>1 DEF RelayInv, Paired
  <2> QED BY <2>1, <2>2 DEF EntryStateOf, GrantState
<1>5. CASE ~HasRoom /\ PruneOnly /\ UNCHANGED <<ledgerVars, grants, credentials>>
  <2>1. leases' = Active /\ legacy' = {} /\ nextGeneration' = nextGeneration /\ now' = now
        /\ entries' = entries /\ UNCHANGED relayVars
    BY <1>1, <1>5 DEF PruneOnly, SaveInFlight, ledgerVars, relayVars
  <2> QED BY <1>2, <1>3, <2>1, LeaseStepKeeps
<1>6. CASE /\ PutReservation(r, size, k, limit)
           /\ AppendLease(r)
           /\ grants' = [grants EXCEPT ![r] =
                           [state |-> "authorized", gen |-> nextGeneration,
                            auth |-> now + AuthTTL, cred |-> now + CredTTL,
                            report |-> NoReport]]
           /\ credentials' = credentials \cup {<<r, nextGeneration>>}
  <2> DEFINE n == NewLease(r, nextGeneration)
  <2>1. n \in LeaseIn(Requests) /\ n.req = r /\ n.gen = nextGeneration
    BY <1>1, <1>2, LeaseTTLAssumption DEF NewLease, LeaseIn
  <2>2. leases' = Active \cup {n} /\ legacy' = {} /\ nextGeneration' = nextGeneration + 1
        /\ now' = now
    BY <1>6 DEF AppendLease, SaveInFlight
  <2>3. entries'[r].state = "reserved" /\ entries'[r].saved = {}
        /\ \A q \in Requests \ {r} : entries'[q] = entries[q]
    BY <1>1, <1>2, <1>6 DEF PutReservation, NoEntry
  <2>4. /\ grants' \in [Requests -> RelayGrant]
        /\ grants'[r].state = "authorized" /\ grants'[r].gen = nextGeneration
        /\ \A q \in Requests \ {r} : grants'[q] = grants[q]
    BY <1>1, <1>2, <1>6 DEF RelayGrant, GrantState
  <2>5. \A l \in Active : l.req # r
    BY <1>3, <1>4 DEF RelayInv, LeaseOnlyForLiveGrant
  <2>6. credentials' \subseteq Relayed \X Nat
    BY <1>2, <1>6
  <2>7. RelayTypeOK'
    <3> HIDE DEF n
    <3> QED BY <1>1, <1>2, <1>3, <2>1, <2>2, <2>4, <2>6 DEF RelayTypeOK
  <2>8. Paired(r)'
    BY <1>2, <2>3, <2>4 DEF Paired, EntryStateOf
  <2>9. \A l \in leases' :
             \/ l.req # r /\ \E m \in leases : m.req = l.req /\ m.gen = l.gen
             \/ l.req = r /\ grants'[r].state \in LiveStates /\ l.gen = grants'[r].gen
    <3> HIDE DEF n
    <3> QED BY <1>3, <2>1, <2>2, <2>4, <2>5 DEF LiveStates
  <2> HIDE DEF n
  <2> QED BY <1>1, <2>2, <2>3, <2>4, <2>7, <2>8, <2>9, OneRequestKeeps
<1> QED BY <1>5, <1>6 DEF AdmitRelay

\* A fence is set only where there is nothing, so it keeps the invariant.
LEMMA FenceKeeps ==
  ASSUME RelayInv, LedgerTypeOK', NEW r \in Relayed, FenceSetup(r)
  PROVE  RelayInv'
<1>1. /\ UNCHANGED <<entries, legacy, leases, nextGeneration, now, grants, credentials, activations>>
      /\ fenced' = fenced \cup {r} /\ grants[r].state = "none" /\ entries[r].state = "absent"
  BY DEF FenceSetup, ledgerVars, leaseVars
<1>2. RelayTypeOK' /\ legacy' = {}
  BY <1>1 DEF RelayInv, RelayTypeOK
<1>3. \A q \in Relayed : Paired(q)'
  BY <1>1 DEF RelayInv, Paired
<1>4. LeaseOnlyForLiveGrant' /\ FenceHolds'
  BY <1>1 DEF RelayInv, LeaseOnlyForLiveGrant, FenceHolds
<1> QED BY <1>2, <1>3, <1>4 DEF RelayInv

\* What a request of the direct route does to the ledger and the leases leaves the
\* relayed requests alone.
LEMMA DirectKeeps ==
  ASSUME RelayInv, LedgerInv, LedgerTypeOK', NEW r \in Requests \ Relayed,
         DirectStep(r), UNCHANGED relayVars
  PROVE  RelayInv'
<1> USE RelayAssumption
<1>1. /\ now \in Nat /\ nextGeneration \in Nat /\ leases \subseteq LeaseIn(Requests)
      /\ legacy = {} /\ Active \subseteq leases
  BY ActiveIsStored DEF RelayInv, RelayTypeOK
<1>2. CASE RequestStep(r) /\ UNCHANGED leaseVars
  <2>1. \A q \in Requests \ {r} : entries'[q] = entries[q]
    BY <1>2, RequestStepAccounted DEF LedgerInv, Accounted
  <2>2. leases' = leases /\ legacy' = {} /\ nextGeneration' = nextGeneration /\ now' = now
    BY <1>1, <1>2 DEF leaseVars
  <2> QED BY <1>1, <2>1, <2>2, LeaseStepKeeps
<1>3. CASE AcquireLease(r) /\ UNCHANGED ledgerVars
  <2> DEFINE n == NewLease(r, nextGeneration)
  <2>1. n \in LeaseIn(Requests) /\ n.req \notin Relayed
    BY <1>1, LeaseTTLAssumption DEF NewLease, LeaseIn
  <2>2. /\ leases' = Active \/ leases' = Active \cup {n}
        /\ legacy' = {} /\ now' = now /\ entries' = entries
        /\ nextGeneration' = nextGeneration \/ nextGeneration' = nextGeneration + 1
    BY <1>3 DEF AcquireLease, AppendLease, PruneOnly, SaveInFlight, ledgerVars
  <2> HIDE DEF n
  <2> QED BY <1>1, <2>1, <2>2, LeaseStepKeeps
<1>4. ASSUME NEW g, RenewLease(r, g), UNCHANGED ledgerVars PROVE RelayInv'
  <2>1. PICK S \in SUBSET Active : leases' = Extended(S)
    BY <1>4 DEF RenewLease, SaveInFlight, ActiveOf
  <2>2. legacy' = {} /\ now' = now /\ entries' = entries /\ nextGeneration' = nextGeneration
    BY <1>4 DEF RenewLease, SaveInFlight, ledgerVars
  <2> QED BY <1>1, <2>1, <2>2, ExtendedAreStored, LeaseStepKeeps
<1>5. ASSUME NEW g, ReleaseLease(r, g), UNCHANGED ledgerVars PROVE RelayInv'
  <2>1. leases' \subseteq Active
    BY <1>5 DEF ReleaseLease, SaveInFlight
  <2>2. legacy' = {} /\ now' = now /\ entries' = entries /\ nextGeneration' = nextGeneration
    BY <1>5 DEF ReleaseLease, SaveInFlight, ledgerVars
  <2> QED BY <1>1, <2>1, <2>2, LeaseStepKeeps
<1> QED BY <1>2, <1>3, <1>4, <1>5 DEF DirectStep

\* A fresh object, at the start or after the wipe of its day.
LEMMA NoGrantIsOne == NoGrant \in RelayGrant
BY DEF NoGrant, RelayGrant, NoReport

\* The wipe keeps the invariant: nothing is left that could disagree.
LEMMA WipeKeeps ==
  ASSUME RelayInv, LedgerTypeOK', Wipe
  PROVE  RelayInv'
<1>1. /\ leases' = {} /\ legacy' = {} /\ fenced' = {}
      /\ grants' = [r \in Requests |-> NoGrant] /\ entries' = [r \in Requests |-> NoEntry]
      /\ UNCHANGED <<nextGeneration, now, credentials, activations>>
  BY DEF Wipe, DeleteAll
<1>2. RelayTypeOK'
  BY <1>1, NoGrantIsOne DEF RelayInv, RelayTypeOK
<1>3. \A q \in Relayed : Paired(q)'
  BY <1>1, RelayAssumption DEF Paired, NoGrant, NoEntry, EntryStateOf
<1>4. LeaseOnlyForLiveGrant' /\ FenceHolds'
  BY <1>1 DEF LeaseOnlyForLiveGrant, FenceHolds
<1> QED BY <1>1, <1>2, <1>3, <1>4 DEF RelayInv

\* Every step of the relay keeps the invariant.
LEMMA RelayInvStep ==
  ASSUME RelayInv, LedgerInv, [RelayNext]_vars
  PROVE  RelayInv'
<1>1. LedgerTypeOK'
  BY RelayStepIsLedgerStep, LedgerTypeStep DEF LedgerInv
<1>2. ASSUME NEW r \in Relayed, NEW g, Callback(r, g) PROVE RelayInv'
  BY <1>1, <1>2, ActivateKeeps, RenewKeepsGrants, FinishKeeps DEF Callback
<1>3. ASSUME NEW r \in Relayed, NEW size \in Sizes, NEW k \in Keys \cup {NoKey},
             NEW limit \in Limits, AdmitRelay(r, size, k, limit)
      PROVE  RelayInv'
  BY <1>1, <1>3, AdmitKeeps
<1>4. ASSUME NEW r \in Relayed, FenceSetup(r) PROVE RelayInv'
  BY <1>1, <1>4, FenceKeeps
<1>5. ASSUME NEW r \in Relayed, NEW d \in Disposition, ReconcileRelayed(r, d) PROVE RelayInv'
  BY <1>1, <1>5, ReconcileKeeps
<1>6. ASSUME NEW r \in Requests \ Relayed, DirectStep(r), UNCHANGED relayVars PROVE RelayInv'
  BY <1>1, <1>6, DirectKeeps
<1>7. CASE Wipe
  BY <1>1, <1>7, WipeKeeps
<1>8. CASE Finalize \/ WipeLost \/ Tick \/ UNCHANGED vars
  <2>1. /\ entries' = entries /\ leases' = leases /\ legacy' = {} /\ UNCHANGED relayVars
        /\ nextGeneration' \in Nat /\ now' \in Nat /\ leases \subseteq LeaseIn(Requests)
    BY <1>8 DEF Finalize, FinalizeDay, WipeLost, DeleteAllLost, Tick, vars, ledgerVars, leaseVars,
                RelayInv, RelayTypeOK
  <2> QED BY <1>1, <2>1, LeaseStepKeeps
<1> QED BY <1>2, <1>3, <1>4, <1>5, <1>6, <1>7, <1>8 DEF RelayNext

\* A fresh object satisfies the invariant.
LEMMA RelayInvInit == RelayInit => RelayInv
<1> SUFFICES ASSUME RelayInit PROVE RelayInv
  OBVIOUS
<1>1. LedgerTypeOK
  BY FreshLedger DEF RelayInit, LedgerInv
<1>2. /\ leases = {} /\ legacy = {} /\ fenced = {} /\ credentials = {}
      /\ nextGeneration = 1 /\ now = 0 /\ activations = [r \in Requests |-> 0]
      /\ grants = [r \in Requests |-> NoGrant] /\ entries = [r \in Requests |-> NoEntry]
  BY DEF RelayInit, LedgerInit
<1>3. RelayTypeOK
  BY <1>1, <1>2, NoGrantIsOne DEF RelayTypeOK
<1>4. \A q \in Relayed : Paired(q)
  BY <1>2, RelayAssumption DEF Paired, NoGrant, NoEntry, EntryStateOf
<1> QED BY <1>2, <1>3, <1>4 DEF RelayInv, LeaseOnlyForLiveGrant, FenceHolds

\* The inductive invariant of the relay, together with that of the ledger.
THEOREM RelayInvariant == RelaySpec => [](LedgerInv /\ RelayInv)
<1>1. RelayInit => RelayInv
  BY RelayInvInit
<1>2. RelaySpec => []LedgerInv
  BY RelayRefinesLedger, LedgerInvariant, PTL DEF ImplementsLedger
<1>3. RelayInv /\ LedgerInv /\ [RelayNext]_vars => RelayInv'
  BY RelayInvStep
<1> QED BY <1>1, <1>2, <1>3, PTL DEF RelaySpec

\* The records the relay stores keep their types.
THEOREM RelayTypeCorrect == RelaySpec => []RelayTypeOK
<1>1. RelayInv => RelayTypeOK
  BY DEF RelayInv
<1> QED BY <1>1, RelayInvariant, PTL

\* Grant and request entry never tell different stories, and a settled request is
\* charged what its accepted report says: for any number of relayed and direct
\* requests, and callbacks as late, repeated and reordered as they may be.
THEOREM GrantsMatchEntries == RelaySpec => []GrantMatchesEntry
<1>1. RelayInv => GrantMatchesEntry
  BY DEF RelayInv, Paired, GrantMatchesEntry
<1> QED BY <1>1, RelayInvariant, PTL

\* A relayed request occupies a place only under a live grant's generation.
THEOREM LeasesFollowGrants == RelaySpec => []LeaseOnlyForLiveGrant
<1>1. RelayInv => LeaseOnlyForLiveGrant
  BY DEF RelayInv
<1> QED BY <1>1, RelayInvariant, PTL

\* A fenced setup never gets a reservation or a grant.
THEOREM FencesHold == RelaySpec => []FenceHolds
<1>1. RelayInv => FenceHolds
  BY DEF RelayInv
<1> QED BY <1>1, RelayInvariant, PTL

\* An operation on one relayed request leaves the grants of the others alone.
LEMMA OtherGrantsRest ==
  ASSUME RelayInv, NEW r \in Relayed,
         \/ \E g : Callback(r, g)
         \/ \E size, k, limit : AdmitRelay(r, size, k, limit)
         \/ FenceSetup(r)
         \/ \E d : ReconcileRelayed(r, d)
  PROVE  \A q \in Requests \ {r} : grants'[q] = grants[q]
<1>1. grants \in [Requests -> RelayGrant]
  BY DEF RelayInv, RelayTypeOK
<1>2. grants' = grants \/ \E x : grants' = [grants EXCEPT ![r] = x]
  <2>1. ASSUME NEW g, Callback(r, g)
        PROVE  \/ grants' = grants
               \/ \E s : grants' = [grants EXCEPT ![r].state = s]
               \/ \E s, p : grants' = [grants EXCEPT ![r].state = s, ![r].report = p]
    BY <2>1 DEF Callback, ActivateRelay, RenewRelay, FinishRelay, ExpireAttempted
  <2>2. ASSUME NEW d, ReconcileRelayed(r, d)
        PROVE  \/ grants' = grants
               \/ \E s, p : grants' = [grants EXCEPT ![r].state = s, ![r].report = p]
    BY <2>2 DEF ReconcileRelayed, Terminalize
  <2>3. ASSUME NEW s, grants' = [grants EXCEPT ![r].state = s]
        PROVE  \E x : grants' = [grants EXCEPT ![r] = x]
    BY <1>1, <2>3
  <2>4. ASSUME NEW s, NEW p, grants' = [grants EXCEPT ![r].state = s, ![r].report = p]
        PROVE  \E x : grants' = [grants EXCEPT ![r] = x]
    BY <1>1, <2>4
  <2>5. ASSUME NEW size, NEW k, NEW limit, AdmitRelay(r, size, k, limit)
        PROVE  grants' = grants \/ \E x : grants' = [grants EXCEPT ![r] = x]
    BY <2>5 DEF AdmitRelay
  <2>6. CASE FenceSetup(r)
    BY <2>6 DEF FenceSetup
  <2> QED BY <2>1, <2>2, <2>3, <2>4, <2>5, <2>6
<1> QED BY <1>1, <1>2

\* Once its credential has expired nothing but the reconciliation or the wipe of a
\* finalized day changes a grant: a late callback is inert, whatever it carries.
THEOREM ExpiredCredentialsInert == RelaySpec => ExpiredCredentialInert
<1> DEFINE Inert(r) ==
      grants[r].state # "none" /\ now >= grants[r].cred /\ grants'[r] # grants[r]
      => \/ grants'[r].state \in {"reconciled_consumed", "reconciled_unused"}
         \/ finalized /\ grants'[r] = NoGrant
<1>1. ASSUME RelayInv, LedgerInv, [RelayNext]_vars
      PROVE  [\A r \in Relayed : Inert(r)]_vars
  <2> SUFFICES ASSUME NEW q \in Relayed, grants[q].state # "none", now >= grants[q].cred,
                      grants'[q] # grants[q]
               PROVE  \/ grants'[q].state \in {"reconciled_consumed", "reconciled_unused"}
                      \/ finalized /\ grants'[q] = NoGrant
    OBVIOUS
  <2>1. /\ q \in Requests /\ grants \in [Requests -> RelayGrant]
        /\ now \in Nat /\ grants[q].cred \in Nat
    BY <1>1, RelayAssumption DEF RelayInv, RelayTypeOK, RelayGrant
  <2>2. ASSUME NEW r \in Relayed, NEW g, Callback(r, g) PROVE FALSE
    <3>1. q = r
      BY <1>1, <2>1, <2>2, OtherGrantsRest
    <3>2. now < grants[r].cred
      BY <2>2 DEF Callback, ActivateRelay, RenewRelay, FinishRelay, Unexpired
    <3> QED BY <2>1, <3>1, <3>2
  <2>3. ASSUME NEW r \in Relayed, NEW size, NEW k, NEW limit, AdmitRelay(r, size, k, limit)
        PROVE  FALSE
    <3>1. q = r
      BY <1>1, <2>1, <2>3, OtherGrantsRest
    <3>2. EntryStateOf[grants[q].state] = "absent" /\ grants[q].state \in GrantState
      BY <1>1, <2>1, <2>3, <3>1 DEF AdmitRelay, Admissible, RelayInv, Paired, RelayGrant
    <3> QED BY <3>2 DEF EntryStateOf, GrantState
  <2>4. ASSUME NEW r \in Relayed, NEW d \in Disposition, ReconcileRelayed(r, d)
        PROVE  grants'[q].state \in {"reconciled_consumed", "reconciled_unused"}
    <3>1. q = r
      BY <1>1, <2>1, <2>4, OtherGrantsRest
    <3>2. PICK s \in {"reconciled_consumed", "reconciled_unused"} :
             grants' = [grants EXCEPT ![q].state = s, ![q].report = NoReport]
      BY <2>4, <3>1 DEF ReconcileRelayed, Terminalize
    <3>3. grants[q] \in RelayGrant
      BY <2>1
    <3> QED BY <2>1, <3>2, <3>3 DEF RelayGrant
  <2>5. CASE Wipe
    BY <1>1, <2>1, <2>5 DEF Wipe, DeleteAll, LedgerInv
  <2>6. ASSUME NEW r \in Relayed, FenceSetup(r) PROVE FALSE
    BY <2>6 DEF FenceSetup
  <2>7. CASE \/ UNCHANGED relayVars
             \/ Finalize \/ WipeLost \/ Tick
             \/ UNCHANGED vars
    BY <2>7 DEF Finalize, WipeLost, Tick, vars, relayVars
  <2> QED BY <1>1, <2>2, <2>3, <2>4, <2>5, <2>6, <2>7 DEF RelayNext
<1> QED BY <1>1, RelayInvariant, PTL DEF RelaySpec, ExpiredCredentialInert

(***************************************************************************)
(* The history of a grant.                                                 *)
(***************************************************************************)

\* A credential was signed for every grant, a request is activated at most once,
\* and what was activated is never given back; a grant that is gone was wiped.
History(r) ==
    /\ grants[r].state # "none" =>
          <<r, grants[r].gen>> \in credentials /\ grants[r].gen \in 1..MaxGeneration
    /\ activations[r] =< 1
    /\ grants[r].state \in {"authorized", "released"} => activations[r] = 0
    /\ grants[r].state = "none" => activations[r] = 0 \/ now >= FinalizeFrom

HistoryInv ==
    /\ nextGeneration >= 1
    /\ finalizing => now >= FinalizeFrom
    /\ pool.requestCount > 0 => pool.limit \in Limits
    /\ \A r \in Relayed : History(r)

\* A stored pool keeps the limit it was created with.
LEMMA PoolLimitStep ==
  ASSUME LedgerTypeOK, pool.requestCount > 0 => pool.limit \in Limits, [LedgerNext]_ledgerVars
  PROVE  pool'.requestCount > 0 => pool'.limit \in Limits
<1>0. pool \in PoolState /\ entries \in [Requests -> Entry]
  BY DEF LedgerTypeOK
<1>1. \A e : Vacate(pool, e).limit = pool.limit /\ Vacate(pool, e).requestCount = pool.requestCount
  BY <1>0 DEF Vacate, PoolState
<1>2. \A e \in Entry : Vacate(pool, e) \in PoolState
  BY <1>0, VacateType
<1>3. ASSUME NEW r \in Requests, NEW size \in Sizes, NEW k \in Keys \cup {NoKey}, NEW limit \in Limits,
             Reserve(r, size, k, limit)
      PROVE  pool'.limit \in Limits
  <2>1. LoadPool(limit) \in PoolState /\ LoadPool(limit).limit \in Limits
    BY <1>0, LoadPoolType DEF LoadPool, EmptyPool
  <2>2. pool' = [LoadPool(limit) EXCEPT !.reserved = @ + size.tokens, !.requestCount = @ + 1]
    BY <1>3 DEF Reserve, PutReservation
  <2> QED BY <2>1, <2>2 DEF PoolState
<1>4. ASSUME NEW r \in Requests,
             \/ \E n \in Actuals : Settle(r, n)
             \/ MarkUncertain(r) \/ MarkReserveOutcomeUnknown(r) \/ Release(r)
             \/ \E d \in Disposition : ReconcileRequest(r, d)
      PROVE  pool'.limit = pool.limit /\ pool'.requestCount = pool.requestCount
  <2>0. entries[r] \in Entry
    BY <1>0
  <2> DEFINE v == Vacate(pool, entries[r])
  <2>1. /\ v \in PoolState /\ v.limit = pool.limit /\ v.requestCount = pool.requestCount
    BY <1>1, <1>2, <2>0
  <2>2. \/ pool' = pool \/ pool' = v
        \/ \E n : pool' = [v EXCEPT !.confirmed = n]
        \/ \E n : pool' = [v EXCEPT !.uncertain = n]
    BY <1>4 DEF Settle, MarkUncertain, MarkReserveOutcomeUnknown, Release, ReconcileRequest,
                RecordOnly, BecomeUncertain
  <2> HIDE DEF v
  <2> QED BY <2>1, <2>2 DEF PoolState
<1>5. CASE FinalizeDay \/ DeleteAllLost \/ UNCHANGED ledgerVars
  BY <1>5 DEF FinalizeDay, DeleteAllLost, ledgerVars
<1>6. CASE DeleteAll
  BY <1>6 DEF DeleteAll, EmptyPool
<1> QED BY <1>3, <1>4, <1>5, <1>6 DEF LedgerNext, RequestStep

\* A callback moves the grant of its request as far as its state allows, and
\* confirms an activation only of a grant that is authorized.
LEMMA CallbackHistory ==
  ASSUME RelayInv, HistoryInv, NEW r \in Relayed, NEW g, Callback(r, g)
  PROVE  /\ grants[r].state # "none" /\ grants'[r].state # "none" /\ grants'[r].gen = grants[r].gen
         /\ \A q \in Requests \ {r} : activations'[q] = activations[q]
         /\ \/ /\ activations'[r] = activations[r]
               /\ grants'[r].state \in {"authorized", "released"} =>
                     grants[r].state \in {"authorized", "released"}
            \/ /\ activations'[r] = activations[r] + 1 /\ grants[r].state = "authorized"
               /\ grants'[r].state = "attempted"
         /\ UNCHANGED <<credentials, now, nextGeneration>>
<1>0. /\ r \in Requests /\ grants \in [Requests -> RelayGrant] /\ activations \in [Requests -> Nat]
      /\ grants[r] \in RelayGrant
  BY RelayAssumption DEF RelayInv, RelayTypeOK
<1>1. UNCHANGED <<credentials, now, nextGeneration>> /\ grants[r].state # "none"
  BY DEF Callback, ActivateRelay, RenewRelay, FinishRelay, ExpireAttempted, ReleaseGrantLease,
         ReleaseLease, leaseVars, Binds
<1>2. CASE ActivateRelay(r, g)
  <2>1. grants[r].state = "authorized"
    BY <1>2 DEF ActivateRelay, Activatable
  <2>2. \/ grants' = [grants EXCEPT ![r].state = "released"] /\ activations' = activations
        \/ /\ grants' = [grants EXCEPT ![r].state = "attempted"]
           /\ activations' = [activations EXCEPT ![r] = @ + 1]
    BY <1>2 DEF ActivateRelay
  <2> QED BY <1>0, <1>1, <2>1, <2>2 DEF RelayGrant
<1>3. CASE RenewRelay(r, g)
  <2>1. /\ grants' = grants \/ grants' = [grants EXCEPT ![r].state = "uncertain"]
        /\ activations' = activations
    BY <1>3 DEF RenewRelay, ExpireAttempted
  <2> QED BY <1>0, <1>1, <2>1 DEF RelayGrant
<1>4. ASSUME NEW report \in Report, FinishRelay(r, g, report)
      PROVE  /\ activations' = activations
             /\ \/ grants' = [grants EXCEPT ![r].state = "uncertain"]
                \/ grants' = [grants EXCEPT ![r].state = "uncertain", ![r].report = report]
                \/ grants' = [grants EXCEPT ![r].state = "settled", ![r].report = report]
                \/ /\ grants' = [grants EXCEPT ![r].state = "released", ![r].report = report]
                   /\ grants[r].state = "authorized"
  <2>1. report.outcome \in {"settle", "uncertain", "release"}
    BY DEF Report
  <2>2. CASE /\ Legal(grants[r].state, report.outcome)
             /\ grants' = [grants EXCEPT ![r].state = GrantStateAfter[report.outcome],
                                         ![r].report = report]
    <3>1. activations' = activations
      BY <1>4 DEF FinishRelay
    <3>2. /\ GrantStateAfter["settle"] = "settled" /\ GrantStateAfter["uncertain"] = "uncertain"
          /\ GrantStateAfter["release"] = "released"
      BY DEF GrantStateAfter
    <3>3. CASE report.outcome = "settle"
      BY <2>2, <3>1, <3>2, <3>3
    <3>4. CASE report.outcome = "uncertain"
      BY <2>2, <3>1, <3>2, <3>4
    <3>5. CASE report.outcome = "release"
      BY <2>2, <3>1, <3>2, <3>5 DEF Legal
    <3> QED BY <2>1, <3>3, <3>4, <3>5
  <2>3. CASE ExpireAttempted(r)
    BY <1>4, <2>3 DEF FinishRelay, ExpireAttempted
  <2> QED BY <1>4, <2>2, <2>3 DEF FinishRelay
<1>5. CASE \E report \in Report : FinishRelay(r, g, report)
  <2>1. PICK report \in Report : FinishRelay(r, g, report)
    BY <1>5
  <2> QED BY <1>0, <1>1, <1>4, <2>1 DEF RelayGrant
<1> QED BY <1>2, <1>3, <1>5 DEF Callback

\* The history is kept by every step of the relay.
LEMMA HistoryStep ==
  ASSUME RelayInv, LedgerInv, HistoryInv, [RelayNext]_vars
  PROVE  HistoryInv'
<1>0. /\ grants \in [Requests -> RelayGrant] /\ activations \in [Requests -> Nat]
      /\ nextGeneration \in Nat /\ now \in Nat /\ Relayed \subseteq Requests
      /\ MaxGeneration \in Nat /\ FinalizeFrom \in Nat /\ AdmitUntil \in Nat
      /\ AdmitUntil < FinalizeFrom
  BY RelayAssumption DEF RelayInv, RelayTypeOK
<1>1. pool'.requestCount > 0 => pool'.limit \in Limits
  BY RelayStepIsLedgerStep, PoolLimitStep DEF LedgerInv, HistoryInv
<1>2. ASSUME UNCHANGED <<grants, activations, credentials>>, now' \in Nat, now' >= now,
             nextGeneration' >= nextGeneration, nextGeneration' \in Nat,
             finalizing' => finalizing \/ now' >= FinalizeFrom
      PROVE  HistoryInv'
  <2>1. \A r \in Relayed : History(r)'
    BY <1>0, <1>2 DEF HistoryInv, History
  <2> QED BY <1>0, <1>1, <1>2, <2>1 DEF HistoryInv
<1>3. ASSUME NEW r \in Relayed, NEW g, Callback(r, g)
      PROVE  HistoryInv'
  <2>1. finalizing' = finalizing
    BY <1>3 DEF Callback, ActivateRelay, RenewRelay, FinishRelay, ExpireAttempted, Applies, Settle,
                MarkUncertain, Release, ledgerVars
  <2>2. UNCHANGED <<credentials, now, nextGeneration>>
    BY <1>3, CallbackHistory
  <2>3. \A q \in Requests \ {r} : grants'[q] = grants[q]
    BY <1>3, OtherGrantsRest
  <2>4. \A q \in Relayed \ {r} : History(q)'
    BY <1>0, <1>3, <2>2, <2>3, CallbackHistory DEF HistoryInv, History
  <2>5. History(r)'
    <3>1. History(r) /\ activations[r] \in Nat
      BY <1>0 DEF HistoryInv
    <3> QED BY <1>3, <2>2, <3>1, CallbackHistory DEF History
  <2> QED BY <1>1, <2>1, <2>2, <2>4, <2>5 DEF HistoryInv
<1>4. ASSUME NEW r \in Relayed, NEW size \in Sizes, NEW k \in Keys \cup {NoKey}, NEW limit \in Limits,
             AdmitRelay(r, size, k, limit)
      PROVE  HistoryInv'
  <2>0. activations' = activations /\ now' = now /\ now =< AdmitUntil /\ entries[r].state = "absent"
    BY <1>4 DEF AdmitRelay, Admissible, AppendLease, PruneOnly
  <2>1. CASE UNCHANGED <<ledgerVars, grants, credentials>> /\ PruneOnly
    BY <1>0, <1>2, <2>0, <2>1 DEF PruneOnly, ledgerVars
  <2>2. CASE /\ nextGeneration =< MaxGeneration
             /\ PutReservation(r, size, k, limit)
             /\ AppendLease(r)
             /\ grants' = [grants EXCEPT ![r] =
                          [state |-> "authorized", gen |-> nextGeneration,
                           auth |-> now + AuthTTL, cred |-> now + CredTTL,
                           report |-> NoReport]]
             /\ credentials' = credentials \cup {<<r, nextGeneration>>}
    <3>1. finalizing' = finalizing /\ nextGeneration' = nextGeneration + 1
      BY <2>2 DEF PutReservation, AppendLease
    <3>2. grants[r].state = "none"
      <4>1. grants[r].state \in GrantState \cup {"none"} /\ EntryStateOf[grants[r].state] = "absent"
        BY <1>0, <2>0 DEF RelayInv, Paired, RelayGrant
      <4> QED BY <4>1 DEF EntryStateOf, GrantState
    <3>3. activations[r] = 0
      <4>1. activations[r] = 0 \/ now >= FinalizeFrom
        BY <3>2 DEF HistoryInv, History
      <4> QED BY <1>0, <2>0, <4>1
    <3>4. grants'[r].state = "authorized" /\ grants'[r].gen = nextGeneration
      BY <1>0, <2>2
    <3>5. \A q \in Relayed \ {r} : grants'[q] = grants[q]
      BY <1>0, <2>2
    <3>6. \A q \in Relayed \ {r} : History(q)'
      BY <1>0, <2>0, <2>2, <3>5 DEF HistoryInv, History
    <3>7. History(r)'
      BY <1>0, <2>0, <2>2, <3>3, <3>4 DEF HistoryInv, History
    <3> QED BY <1>0, <1>1, <2>0, <3>1, <3>6, <3>7 DEF HistoryInv
  <2> QED BY <1>4, <2>1, <2>2 DEF AdmitRelay
<1>5. ASSUME NEW r \in Relayed, FenceSetup(r) PROVE HistoryInv'
  BY <1>0, <1>2, <1>5 DEF FenceSetup, ledgerVars, leaseVars
<1>6. ASSUME NEW r \in Relayed, NEW d \in Disposition, ReconcileRelayed(r, d) PROVE HistoryInv'
  <2>1. /\ finalizing' = finalizing
        /\ UNCHANGED <<credentials, activations>>
        /\ UNCHANGED <<now, nextGeneration>>
    BY <1>6 DEF ReconcileRelayed, ReconcileRequest, Terminalize, ReleaseGrantLease, ReleaseLease, leaseVars
  <2>2. \/ grants' = grants
        \/ /\ grants[r].state # "none"
           /\ \E s \in {"reconciled_consumed", "reconciled_unused"} :
                 grants' = [grants EXCEPT ![r].state = s, ![r].report = NoReport]
    BY <1>6 DEF ReconcileRelayed, Terminalize
  <2>3. CASE grants' = grants
    BY <1>0, <1>2, <2>1, <2>3
  <2>4. CASE grants' # grants
    <3>1. PICK s \in {"reconciled_consumed", "reconciled_unused"} :
             grants' = [grants EXCEPT ![r].state = s, ![r].report = NoReport]
      BY <2>2, <2>4
    <3>2. grants'[r].state = s /\ grants'[r].gen = grants[r].gen /\ grants[r].state # "none"
      BY <1>0, <2>2, <2>4, <3>1 DEF RelayGrant
    <3>3. \A q \in Relayed \ {r} : grants'[q] = grants[q]
      BY <1>0, <3>1
    <3>4. \A q \in Relayed : History(q)'
      BY <2>1, <3>2, <3>3 DEF HistoryInv, History
    <3> QED BY <1>1, <2>1, <3>4 DEF HistoryInv
  <2> QED BY <2>3, <2>4
<1>7. ASSUME NEW r \in Requests \ Relayed, DirectStep(r), UNCHANGED relayVars PROVE HistoryInv'
  <2>1. finalizing' = finalizing
    BY <1>7 DEF DirectStep, RequestStep, Reserve, PutReservation, Settle, MarkUncertain,
                MarkReserveOutcomeUnknown, Release, ReconcileRequest, ledgerVars
  <2>2. now' = now /\ nextGeneration' \in {nextGeneration, nextGeneration + 1}
    BY <1>7 DEF DirectStep, leaseVars, AcquireLease, PruneOnly, AppendLease, RenewLease, ReleaseLease
  <2> QED BY <1>0, <1>2, <1>7, <2>1, <2>2 DEF relayVars
<1>8. CASE Wipe
  <2>1. /\ finalizing /\ ~finalizing' /\ grants' = [r \in Requests |-> NoGrant]
        /\ UNCHANGED <<nextGeneration, now, credentials, activations>>
    BY <1>8 DEF Wipe, DeleteAll
  <2>2. \A r \in Relayed : grants'[r].state = "none"
    BY <1>0, <2>1 DEF NoGrant
  <2>3. \A r \in Relayed : History(r)'
    BY <1>0, <2>1, <2>2 DEF HistoryInv, History
  <2> QED BY <1>1, <2>1, <2>3 DEF HistoryInv
<1>9. CASE Finalize \/ WipeLost \/ UNCHANGED vars
  BY <1>0, <1>2, <1>9 DEF Finalize, WipeLost, DeleteAllLost, vars, ledgerVars, leaseVars, relayVars
<1>10. CASE Tick
  BY <1>0, <1>2, <1>10 DEF Tick, ledgerVars, relayVars
<1> QED BY <1>3, <1>4, <1>5, <1>6, <1>7, <1>8, <1>9, <1>10 DEF RelayNext

\* A fresh object has no history.
LEMMA HistoryInit == RelayInit => HistoryInv
BY RelayAssumption DEF RelayInit, LedgerInit, HistoryInv, History, NoGrant, EmptyPool

\* However often and however late its credential is used, a grant is activated
\* at most once, and a request that was activated is never given back.
THEOREM ActivatedOnce ==
  RelaySpec => [](\A r \in Relayed : activations[r] =< 1
                    /\ (activations[r] = 1 => grants[r].state \notin {"authorized", "released"}))
<1>1. RelayInit => HistoryInv
  BY HistoryInit
<1>2. RelayInv /\ LedgerInv /\ HistoryInv /\ [RelayNext]_vars => HistoryInv'
  BY HistoryStep
<1>3. HistoryInv => \A r \in Relayed : activations[r] =< 1
                    /\ (activations[r] = 1 => grants[r].state \notin {"authorized", "released"})
  <2> SUFFICES ASSUME HistoryInv, NEW r \in Relayed
               PROVE  /\ activations[r] =< 1
                      /\ activations[r] = 1 => grants[r].state \notin {"authorized", "released"}
    OBVIOUS
  <2>1. History(r)
    BY DEF HistoryInv
  <2> QED BY <2>1 DEF History
<1> QED BY <1>1, <1>2, <1>3, RelayInvariant, PTL DEF RelaySpec
=============================================================================
