---------------------------- MODULE CpuGateProofs ----------------------------
(***************************************************************************)
(* Proof that the CPU gate has one fixture at a time, for any number of    *)
(* hosts and operations, and of lost answers, failing calls and crashes.   *)
(***************************************************************************)
EXTENDS CpuGate, TLAPS

\* The part of the controller's record the argument looks at has its types.
GrantsOK ==
    /\ now \in Nat /\ nextGeneration \in Nat
    /\ grants \in [Requests -> RelayGrant]

Unadmitted == {"none", "sent", "claimed", "inspected"}

\* The slot and the setups have their types, and so do the calls that close.
GateOK ==
    /\ slot \in [kind : {"idle", "held", "closing"}, owner : Relayed \cup {NoRequest}, gen : Nat]
    /\ setups \in [Relayed -> Unadmitted \cup {"admitted", "ready", "over"}]
    /\ \A c \in closes :
          c = [by |-> c.by, op |-> c.op, gen |-> c.gen, pc |-> c.pc, fence |-> c.fence]

\* The operation has a fixture, or a setup that can still become one.
Holds(o) == Live(o) \/ (setups[o] \in {"claimed", "inspected"} /\ o \notin fenced)

\* The operation has no fixture and will never have one again.
Over(o) == ~Live(o) /\ (Absent(o) => o \in fenced)

\* The inductive invariant: a setup that has not been admitted left no grant, what
\* has or may get a fixture owns the slot, and a close that is about to free the
\* slot has seen its operation over.
GateInv ==
    /\ GrantsOK /\ GateOK
    /\ \A o \in Relayed : setups[o] \in Unadmitted => Absent(o)
    /\ \A o \in Relayed : Holds(o) => slot.kind # "idle" /\ slot.owner = o
    /\ \A c \in closes : c.pc = "free" /\ c.op \in Relayed => Over(c.op)

\* The states of the grants, as far as they matter, after a step that admits
\* nothing: only a live grant moves, and none disappears.
Settles ==
    /\ GrantsOK'
    /\ \A q \in Relayed :
          /\ ~Live(q) => grants'[q].state = grants[q].state
          /\ Live(q) => grants'[q].state # "none"
    /\ fenced \subseteq fenced'

-----------------------------------------------------------------------------
(* What the operations of the controller do to the grants.                 *)

\* Giving back a grant's lease changes neither the clock nor the generations.
LEMMA ReleaseKeepsClock ==
  ASSUME NEW r, ReleaseGrantLease(r)
  PROVE  now' = now /\ nextGeneration' = nextGeneration
BY DEF ReleaseGrantLease, ReleaseLease

\* A step that changes one field or two of one live grant, to a state of a grant.
LEMMA GrantMoves ==
  ASSUME GrantsOK, NEW o \in Requests, NEW s \in GrantState, NEW report \in Report \cup {NoReport},
         grants[o].state # "none", grants[o].state \notin TerminalGrantStates,
         \/ grants' = [grants EXCEPT ![o].state = s]
         \/ grants' = [grants EXCEPT ![o].state = s, ![o].report = report],
         now' = now, nextGeneration' = nextGeneration, fenced' = fenced
  PROVE  Settles
<1>1. grants[o] \in RelayGrant /\ Live(o)
  BY DEF GrantsOK, Live, RelayGrant, GrantState, TerminalGrantStates
<1>2. PICK g \in RelayGrant : grants' = [grants EXCEPT ![o] = g] /\ g.state = s
  <2>1. CASE grants' = [grants EXCEPT ![o].state = s]
    <3>1. [grants[o] EXCEPT !.state = s] \in RelayGrant /\ [grants[o] EXCEPT !.state = s].state = s
      BY <1>1 DEF RelayGrant
    <3> QED BY <2>1, <3>1 DEF GrantsOK
  <2>2. CASE grants' = [grants EXCEPT ![o].state = s, ![o].report = report]
    <3> DEFINE g == [grants[o] EXCEPT !.state = s, !.report = report]
    <3>1. g \in RelayGrant /\ g.state = s
      BY <1>1 DEF RelayGrant
    <3>2. grants' = [grants EXCEPT ![o] = g]
      BY <2>2 DEF GrantsOK
    <3> QED BY <3>1, <3>2
  <2> QED BY <2>1, <2>2
<1>3. GrantsOK'
  BY <1>2 DEF GrantsOK
<1>4. s # "none"
  BY DEF GrantState
<1> QED BY <1>1, <1>2, <1>3, <1>4, RelayAssumption DEF Settles, GrantsOK, Live

\* Nothing changes, or only the leases and the clock.
LEMMA GrantsRest ==
  ASSUME GrantsOK, grants' = grants, now' \in Nat, nextGeneration' \in Nat, fenced \subseteq fenced'
  PROVE  Settles
BY DEF GrantsOK, Settles, Live

\* Expiry makes an attempted grant uncertain.
LEMMA ExpireSettles ==
  ASSUME GrantsOK, NEW o \in Requests, ExpireAttempted(o), grants[o].state = "attempted",
         fenced' = fenced
  PROVE  Settles
<1>1. /\ now' = now /\ nextGeneration' = nextGeneration
      /\ grants' = [grants EXCEPT ![o].state = "uncertain"]
  BY ReleaseKeepsClock DEF ExpireAttempted
<1> QED BY <1>1, GrantMoves DEF GrantState, TerminalGrantStates

\* An activation moves an authorized grant.
LEMMA ActivateSettles ==
  ASSUME GrantsOK, NEW o \in Requests, NEW g, ActivateRelay(o, g)
  PROVE  Settles
<1>1. grants[o].state = "authorized" /\ fenced' = fenced
  BY DEF ActivateRelay, Activatable
<1>2. now' = now /\ nextGeneration' = nextGeneration
  BY ReleaseKeepsClock DEF ActivateRelay, leaseVars
<1>3. \/ grants' = [grants EXCEPT ![o].state = "released"]
      \/ grants' = [grants EXCEPT ![o].state = "attempted"]
  BY DEF ActivateRelay
<1> QED BY <1>1, <1>2, <1>3, GrantMoves DEF GrantState, TerminalGrantStates

\* A renewal keeps an attempted grant, or lets it expire.
LEMMA RenewSettles ==
  ASSUME GrantsOK, NEW o \in Requests, NEW g, RenewRelay(o, g)
  PROVE  Settles
<1>1. grants[o].state = "attempted" /\ fenced' = fenced
  BY DEF RenewRelay
<1>2. CASE ExpireAttempted(o)
  BY <1>1, <1>2, ExpireSettles
<1>3. CASE UNCHANGED <<nextGeneration, now, grants>>
  BY <1>1, <1>3, GrantsRest DEF GrantsOK
<1> QED BY <1>2, <1>3 DEF RenewRelay

\* A terminal report ends a live grant.
LEMMA FinishSettles ==
  ASSUME GrantsOK, NEW o \in Requests, NEW g, NEW report \in Report, FinishRelay(o, g, report)
  PROVE  Settles
<1>1. /\ grants[o].state # "none" /\ grants[o].state \notin TerminalGrantStates /\ fenced' = fenced
  BY DEF FinishRelay, Binds
<1>2. CASE /\ ReleaseGrantLease(o)
           /\ grants' = [grants EXCEPT ![o].state = GrantStateAfter[report.outcome],
                                       ![o].report = report]
  <2>1. GrantStateAfter[report.outcome] \in GrantState
    BY DEF Report, GrantStateAfter, GrantState
  <2>2. now' = now /\ nextGeneration' = nextGeneration
    BY <1>2, ReleaseKeepsClock
  <2> QED BY <1>1, <1>2, <2>1, <2>2, GrantMoves
<1>3. CASE grants[o].state = "attempted" /\ ExpireAttempted(o)
  BY <1>1, <1>3, ExpireSettles
<1> QED BY <1>2, <1>3 DEF FinishRelay

\* The reconciliation as unused ends a grant or leaves it alone.
LEMMA ReconcileSettles ==
  ASSUME GrantsOK, NEW o \in Requests, ReconcileUnused(o)
  PROVE  Settles
<1>1. fenced' = fenced /\ Terminalize(o, "unused")
  BY DEF ReconcileUnused
<1>2. CASE UNCHANGED <<leaseVars, grants>>
  BY <1>1, <1>2, GrantsRest DEF GrantsOK, leaseVars
<1>3. CASE /\ grants[o].state \notin {"none"} \cup TerminalGrantStates
           /\ ReleaseGrantLease(o)
           /\ grants' = [grants EXCEPT ![o].state = "reconciled_unused", ![o].report = NoReport]
  <2>1. now' = now /\ nextGeneration' = nextGeneration
    BY <1>3, ReleaseKeepsClock
  <2> QED BY <1>1, <1>3, <2>1, GrantMoves DEF GrantState
<1> QED BY <1>1, <1>2, <1>3 DEF Terminalize

\* The fence touches no grant.
LEMMA FenceSettles ==
  ASSUME GrantsOK, NEW o, Fence(o)
  PROVE  Settles
<1>1. /\ grants' = grants /\ now' = now /\ nextGeneration' = nextGeneration
      /\ fenced \subseteq fenced'
  BY DEF Fence, FenceSetup, leaseVars, vars, relayVars
<1> QED BY <1>1, GrantsRest DEF GrantsOK

\* A step that leaves the controller alone settles trivially.
LEMMA StillSettles ==
  ASSUME GrantsOK, UNCHANGED vars
  PROVE  Settles
BY GrantsRest DEF GrantsOK, vars, leaseVars, relayVars

\* The two reports of a fixture are reports.
LEMMA FixtureReportsAreReports == FixtureReports \subseteq Report
BY GateAssumption DEF FixtureReports, ReleaseReport, Report

\* An operation the runner remembers need not be one of the day: outside the
\* grants nothing changes.
LEMMA NowhereElse ==
  ASSUME GrantsOK, NEW o, o \notin Requests, NEW s, NEW report
  PROVE  [grants EXCEPT ![o].state = s, ![o].report = report] = grants
BY DEF GrantsOK

\* The same for an operation that is no request at all: nothing is stored under it.
LEMMA ReconcileAnySettles ==
  ASSUME GrantsOK, NEW o, ReconcileUnused(o)
  PROVE  Settles
<1>1. CASE o \in Requests
  BY <1>1, ReconcileSettles
<1>2. CASE o \notin Requests
  <2>1. grants' = grants
    BY <1>2, NowhereElse DEF ReconcileUnused, Terminalize
  <2>2. now' = now /\ nextGeneration' = nextGeneration
    BY ReleaseKeepsClock DEF ReconcileUnused, Terminalize, leaseVars
  <2> QED BY <2>1, <2>2, GrantsRest DEF ReconcileUnused, GrantsOK
<1> QED BY <1>1, <1>2

\* So it is for reports about such an operation.
LEMMA FinishAnySettles ==
  ASSUME GrantsOK, NEW o, NEW g, NEW report \in Report, FinishRelay(o, g, report)
  PROVE  Settles
<1>1. CASE o \in Requests
  BY <1>1, FinishSettles
<1>2. CASE o \notin Requests
  <2>1. now' = now /\ nextGeneration' = nextGeneration
    BY ReleaseKeepsClock DEF FinishRelay, ExpireAttempted
  <2>2. CASE grants' = [grants EXCEPT ![o].state = GrantStateAfter[report.outcome],
                                      ![o].report = report]
    BY <1>2, <2>1, <2>2, NowhereElse, GrantsRest DEF FinishRelay, GrantsOK
  <2>3. CASE ExpireAttempted(o)
    <3>1. grants' = grants
      BY <1>2, <2>3 DEF ExpireAttempted, GrantsOK
    <3> QED BY <2>1, <3>1, GrantsRest DEF FinishRelay, GrantsOK
  <2> QED BY <2>2, <2>3 DEF FinishRelay
<1> QED BY <1>1, <1>2

-----------------------------------------------------------------------------
(* The steps.                                                              *)

\* A step that admits nothing keeps the invariant if setups only go forward, a
\* setup that claims gets the slot, the slot is taken only from what holds
\* nothing, and a close turns to free only what is over.
LEMMA SettlingStep ==
  ASSUME GateInv, Settles, GateOK',
         \A o \in Relayed : setups'[o] \in Unadmitted => setups[o] \in Unadmitted,
         \A o \in Relayed : setups'[o] \in {"claimed", "inspected"} =>
             \/ setups[o] \in {"claimed", "inspected"}
             \/ slot'.kind # "idle" /\ slot'.owner = o,
         \A o \in Relayed : slot.kind # "idle" /\ slot.owner = o /\ Holds(o) =>
             slot'.kind # "idle" /\ slot'.owner = o,
         \A c \in closes' : c.pc = "free" /\ c.op \in Relayed => Over(c.op)
  PROVE  GateInv'
<1>1. ASSUME NEW o \in Relayed PROVE setups'[o] \in Unadmitted => Absent(o)'
  BY DEF GateInv, Settles, Absent, Live
<1>2. ASSUME NEW o \in Relayed, Holds(o)' PROVE slot'.kind # "idle" /\ slot'.owner = o
  <2>1. Live(o)' => Live(o)
    BY DEF Settles, Live
  <2>2. CASE Holds(o)
    BY <2>2 DEF GateInv
  <2>3. CASE ~Holds(o)
    BY <1>2, <2>1, <2>3 DEF Holds, Settles
  <2> QED BY <2>2, <2>3
<1>3. ASSUME NEW c \in closes', c.pc = "free", c.op \in Relayed PROVE Over(c.op)'
  BY <1>3 DEF Over, Settles, Live, Absent
<1> QED BY <1>1, <1>2, <1>3 DEF GateInv, Settles

\* The slot and the setups stay, and no close turns to freeing it.
LEMMA QuietStep ==
  ASSUME GateInv, Settles, slot' = slot, setups' = setups,
         \A c \in closes' :
            /\ c = [by |-> c.by, op |-> c.op, gen |-> c.gen, pc |-> c.pc, fence |-> c.fence]
            /\ c.pc = "free" => \E d \in closes : d.pc = "free" /\ d.op = c.op
  PROVE  GateInv'
<1>1. GateOK'
  BY DEF GateInv, GateOK
<1>2. \A c \in closes' : c.pc = "free" /\ c.op \in Relayed => Over(c.op)
  BY DEF GateInv
<1> QED BY <1>1, <1>2, SettlingStep

\* The same when the closes stay, lose a call, or lose the runner of a call.
LEMMA QuietCloses ==
  ASSUME GateInv, Settles, slot' = slot, setups' = setups,
         \/ closes' \subseteq closes
         \/ \E x : closes' = Orphaned(x)
         \/ \E x, o, g : closes' = closes \cup {[by |-> x, op |-> o, gen |-> g, pc |-> "mark",
                                                 fence |-> "none"]}
  PROVE  GateInv'
<1>1. CASE closes' \subseteq closes
  BY <1>1, QuietStep DEF GateInv, GateOK
<1>2. ASSUME NEW x, closes' = Orphaned(x) PROVE GateInv'
  <2>1. ASSUME NEW c \in closes'
        PROVE  /\ c = [by |-> c.by, op |-> c.op, gen |-> c.gen, pc |-> c.pc, fence |-> c.fence]
               /\ c.pc = "free" => \E d \in closes : d.pc = "free" /\ d.op = c.op
    <3>1. PICK d \in closes : c = [d EXCEPT !.by = IF @ = x THEN NoRequest ELSE @]
      BY <1>2, <2>1 DEF Orphaned
    <3>2. d = [by |-> d.by, op |-> d.op, gen |-> d.gen, pc |-> d.pc, fence |-> d.fence]
      BY DEF GateInv, GateOK
    <3>3. PICK b : c = [by |-> b, op |-> d.op, gen |-> d.gen, pc |-> d.pc, fence |-> d.fence]
      BY <3>1, <3>2
    <3> QED BY <3>3
  <2> QED BY <2>1, QuietStep
<1>3. ASSUME NEW x, NEW o, NEW g,
             closes' = closes \cup {[by |-> x, op |-> o, gen |-> g, pc |-> "mark", fence |-> "none"]}
      PROVE  GateInv'
  BY <1>3, QuietStep DEF GateInv, GateOK
<1> QED BY <1>1, <1>2, <1>3

\* The invariant holds of an empty controller, an idle slot and runners not yet started.
LEMMA GateInvInit ==
  CpuGateInit => GateInv
<1> SUFFICES ASSUME CpuGateInit PROVE GateInv
  OBVIOUS
<1>1. GrantsOK
  BY DEF CpuGateInit, RelayInit, GrantsOK, RelayGrant, NoGrant
<1>2. GateOK
  BY DEF CpuGateInit, GateOK, Unadmitted
<1>3. \A o \in Relayed : Absent(o) /\ ~Holds(o)
  BY RelayAssumption DEF CpuGateInit, RelayInit, NoGrant, Absent, Holds, Live
<1> QED BY <1>1, <1>2, <1>3 DEF GateInv, CpuGateInit

\* The steps of a runner: none touches the slot or a setup under way.
LEMMA RunnerStep ==
  ASSUME GateInv, NEW x \in Runners,
         StartRunner(x) \/ RecoveryStep(x) \/ SeriesStep(x) \/ CallFails(x) \/ CloseLost(x) \/ Crash(x)
  PROVE  GateInv'
<1> USE DEF GateInv
<1>1. CASE StartRunner(x)
  BY <1>1, StillSettles, QuietCloses DEF StartRunner
<1>2. CASE RecoveryStep(x)
  <2>1. CASE ReadSlot(x)
    BY <2>1, StillSettles, QuietCloses DEF ReadSlot
  <2>2. CASE FenceTarget(x)
    BY <2>2, FenceSettles, QuietCloses DEF FenceTarget
  <2>3. ASSUME UNCHANGED <<vars, slot, setups>>, FixtureClosed(x, runner[x]) \/ UNCHANGED closes
        PROVE  GateInv'
    <3>1. \/ closes' \subseteq closes
          \/ \E o, g : closes' = closes \cup {[by |-> x, op |-> o, gen |-> g, pc |-> "mark",
                                              fence |-> "none"]}
      BY <2>3, Zenon DEF FixtureClosed
    <3> QED BY <2>3, <3>1, StillSettles, QuietCloses
  <2>4. CASE InspectTarget(x)
    BY <2>3, <2>4 DEF InspectTarget
  <2>5. CASE ReconcileTarget(x)
    <3>1. Settles
      BY <2>5, StillSettles, ReconcileAnySettles DEF ReconcileTarget
    <3> QED BY <2>5, <3>1, QuietCloses DEF ReconcileTarget
  <2>6. CASE ReinspectTarget(x)
    BY <2>3, <2>6 DEF ReinspectTarget
  <2>7. CASE RecheckSlot(x)
    BY <2>7, StillSettles, QuietCloses DEF RecheckSlot
  <2> QED BY <1>2, <2>1, <2>2, <2>4, <2>5, <2>6, <2>7 DEF RecoveryStep
<1>3. CASE SeriesStep(x)
  <2>1. CASE SetupReturns(x)
    BY <2>1, StillSettles, QuietCloses DEF SetupReturns
  <2>2. CASE ProveOwnership(x)
    BY <2>2, StillSettles, QuietCloses DEF ProveOwnership
  <2>3. CASE MeasureEnds(x)
    BY <2>3, StillSettles, QuietCloses DEF MeasureEnds
  <2>4. CASE TerminalizeFixture(x)
    <3>1. Settles
      BY <2>4, StillSettles, FinishAnySettles, FixtureReportsAreReports DEF TerminalizeFixture
    <3> QED BY <2>4, <3>1, QuietCloses DEF TerminalizeFixture
  <2>5. CASE ReadOwnSlot(x)
    BY <2>5, StillSettles, QuietCloses DEF ReadOwnSlot
  <2>6. CASE StopRunner(x)
    BY <2>6, StillSettles, QuietCloses DEF StopRunner
  <2> QED BY <1>3, <2>1, <2>2, <2>3, <2>4, <2>5, <2>6 DEF SeriesStep
<1>4. CASE CallFails(x)
  BY <1>4, StillSettles, QuietCloses DEF CallFails
<1>5. CASE CloseLost(x)
  BY <1>5, StillSettles, QuietCloses DEF CloseLost
<1>6. CASE Crash(x)
  BY <1>6, StillSettles, QuietCloses DEF Crash
<1> QED BY <1>1, <1>2, <1>3, <1>4, <1>5, <1>6

\* A setup that is sent, gives up or has done its admission only goes forward.
LEMMA SetupMoves ==
  ASSUME GateInv, Settles, NEW o \in Relayed, NEW pc \in Unadmitted \cup {"admitted", "ready", "over"},
         SetupAt(o, pc), slot' = slot, closes' = closes,
         pc \in Unadmitted => setups[o] \in Unadmitted,
         pc \in {"claimed", "inspected"} => setups[o] \in {"claimed", "inspected"}
  PROVE  GateInv'
<1>1. GateOK' /\ \A q \in Relayed : setups'[q] = IF q = o THEN pc ELSE setups[q]
  BY DEF GateInv, GateOK, SetupAt
<1>2. \A c \in closes' : c.pc = "free" /\ c.op \in Relayed => Over(c.op)
  BY DEF GateInv
<1> QED BY <1>1, <1>2, SettlingStep

\* The operation is admitted: it had the slot, since its setup was inspected and
\* no fence stopped the admission.
LEMMA AdmitStep ==
  ASSUME GateInv, NEW o \in Relayed, SetupAdmits(o)
  PROVE  GateInv'
<1> USE DEF GateInv
<1>1. CASE UNCHANGED vars /\ SetupAt(o, "over")
  BY <1>1, StillSettles, SetupMoves DEF SetupAdmits, Unadmitted
<1>2. ASSUME NEW limit, AdmitRelay(o, FixtureSize, NoKey, limit),
             SetupAt(o, IF grants'[o].state = "authorized" THEN "admitted" ELSE "over")
      PROVE  GateInv'
  <2>1. setups[o] = "inspected" /\ slot' = slot /\ closes' = closes
    BY DEF SetupAdmits
  <2>2. CASE PruneOnly /\ UNCHANGED grants
    <3>1. Settles
      BY <1>2, <2>2, GrantsRest DEF AdmitRelay, PruneOnly, GrantsOK
    <3> QED BY <1>2, <2>1, <2>2, <3>1, SetupMoves DEF Unadmitted
  <2>3. CASE /\ AppendLease(o)
             /\ grants' = [grants EXCEPT ![o] =
                             [state |-> "authorized", gen |-> nextGeneration,
                              auth |-> now + AuthTTL, cred |-> now + CredTTL,
                              report |-> NoReport]]
    <3>1. o \in Requests /\ o \notin fenced /\ fenced' = fenced
      BY <1>2, RelayAssumption DEF AdmitRelay, Admissible
    <3>2. GrantsOK'
      BY <2>3, RelayAssumption DEF GrantsOK, AppendLease, RelayGrant, GrantState
    <3>3. \A q \in Relayed : grants'[q].state = IF q = o THEN "authorized" ELSE grants[q].state
      BY <2>3, <3>1, RelayAssumption DEF GrantsOK
    <3>4. GateOK' /\ \A q \in Relayed : setups'[q] = IF q = o THEN "admitted" ELSE setups[q]
      BY <1>2, <2>1, <3>1, <3>3 DEF GateOK, SetupAt
    <3>5. Absent(o) /\ Holds(o)
      BY <2>1, <3>1 DEF Unadmitted, Holds
    <3>6. \A q \in Relayed : setups'[q] \in Unadmitted => Absent(q)'
      BY <3>3, <3>4 DEF Absent, Unadmitted
    <3>7. \A q \in Relayed : Holds(q)' => Holds(q)
      BY <3>1, <3>3, <3>4, <3>5 DEF Holds, Live
    <3>8. \A c \in closes' : c.pc = "free" /\ c.op \in Relayed => Over(c.op)'
      BY <2>1, <3>1, <3>3, <3>5 DEF Over, Live, Absent
    <3> QED BY <2>1, <3>2, <3>4, <3>6, <3>7, <3>8
  <2> QED BY <1>2, <2>2, <2>3 DEF AdmitRelay
<1> QED BY <1>1, <1>2 DEF SetupAdmits

\* The steps of a setup, its death, and the callbacks of a live fixture.
LEMMA SetupSteps ==
  ASSUME GateInv, NEW o \in Relayed,
         \/ SetupStep(o) \/ SetupDies(o) \/ FixtureCallback(o)
         \/ \E x \in Runners : SendSetup(x, o)
  PROVE  GateInv'
<1> USE DEF GateInv
<1>0. o \in Requests
  BY RelayAssumption
<1>1. CASE SetupClaims(o)
  <2>1. Settles /\ setups[o] = "sent" /\ closes' = closes
    BY <1>1, StillSettles DEF SetupClaims
  <2>2. CASE Claims(o) /\ SetupAt(o, "claimed")
    <3>1. slot'.kind # "idle" /\ slot'.owner = o /\ GateOK'
      BY <2>1, <2>2 DEF Claims, SetupAt, GateOK, Unadmitted
    <3>2. \A q \in Relayed : setups'[q] = IF q = o THEN "claimed" ELSE setups[q]
      BY <2>2 DEF SetupAt, GateOK
    <3>3. \A q \in Relayed : slot.kind # "idle" /\ slot.owner = q => slot' = slot
      BY <2>2 DEF Claims
    <3> QED BY <2>1, <3>1, <3>2, <3>3, SettlingStep DEF Unadmitted
  <2>3. CASE SetupAt(o, "over") /\ UNCHANGED slot
    BY <2>1, <2>3, SetupMoves DEF Unadmitted
  <2> QED BY <1>1, <2>2, <2>3 DEF SetupClaims
<1>2. CASE SetupInspects(o)
  BY <1>2, StillSettles, SetupMoves DEF SetupInspects, Unadmitted
<1>3. CASE SetupAdmits(o)
  BY <1>3, AdmitStep
<1>4. CASE SetupSigns(o)
  <2>1. Settles /\ (SetupAt(o, "ready") \/ SetupAt(o, "over"))
    BY <1>4, StillSettles, ReconcileAnySettles DEF SetupSigns
  <2> QED BY <1>4, <2>1, SetupMoves DEF SetupSigns, Unadmitted
<1>5. CASE SetupDies(o)
  BY <1>5, StillSettles, SetupMoves DEF SetupDies, Unadmitted
<1>6. CASE FixtureCallback(o)
  <2>1. Settles
    BY <1>0, <1>6, ActivateSettles, RenewSettles, FinishSettles, FixtureReportsAreReports
       DEF FixtureCallback
  <2> QED BY <1>6, <2>1, QuietCloses DEF FixtureCallback, gateVars
<1>7. ASSUME NEW x \in Runners, SendSetup(x, o) PROVE GateInv'
  BY <1>7, StillSettles, SetupMoves DEF SendSetup, SetupAt, Unadmitted
<1> QED BY <1>1, <1>2, <1>3, <1>4, <1>5, <1>6, <1>7 DEF SetupStep

\* What a close may see before it frees the slot means that nothing is left.
LEMMA ProofMeansOver ==
  ASSUME NEW o, NEW fence, Proof(o, fence)
  PROVE  Over(o)
BY DEF Proof, Over, Absent, Live, TerminalFixture

\* The steps of a close, up to freeing the slot, and its death.
LEMMA CloseSteps ==
  ASSUME GateInv, NEW c \in closes, CloseStep(c) \/ CloseDies(c)
  PROVE  GateInv'
<1> USE DEF GateInv
<1>0. c = [by |-> c.by, op |-> c.op, gen |-> c.gen, pc |-> c.pc, fence |-> c.fence]
  BY DEF GateOK
<1>1. ASSUME NEW fence, NEW pc,
             closes' = (closes \ {c}) \cup {[by |-> c.by, op |-> c.op, gen |-> c.gen,
                                             pc |-> pc, fence |-> fence]}
      PROVE  \A d \in closes' :
                /\ d = [by |-> d.by, op |-> d.op, gen |-> d.gen, pc |-> d.pc, fence |-> d.fence]
                /\ d.pc = "free" => (pc = "free" /\ d.op = c.op) \/ d \in closes
  BY <1>1 DEF GateOK
<1>2. ASSUME NEW pc, Advances(c, pc)
      PROVE  \A d \in closes' :
                /\ d = [by |-> d.by, op |-> d.op, gen |-> d.gen, pc |-> d.pc, fence |-> d.fence]
                /\ d.pc = "free" => (pc = "free" /\ d.op = c.op) \/ d \in closes
  <2>1. [c EXCEPT !.pc = pc]
          = [by |-> c.by, op |-> c.op, gen |-> c.gen, pc |-> pc, fence |-> c.fence]
    BY <1>0
  <2> QED BY <1>1, <1>2, <2>1 DEF Advances
<1>3. ASSUME NEW closed, CloseAnswers(c, closed) PROVE closes' \subseteq closes
  BY <1>3 DEF CloseAnswers
<1>4. CASE CloseMarks(c)
  <2>1. Settles /\ setups' = setups
    BY <1>4, StillSettles DEF CloseMarks
  <2>2. CASE slot' = slot /\ closes' \subseteq closes
    BY <2>1, <2>2, QuietCloses
  <2>3. CASE slot.kind # "idle" /\ slot' = [slot EXCEPT !.kind = "closing"] /\ Advances(c, "fence")
    <3>1. \A d \in closes' :
            /\ d = [by |-> d.by, op |-> d.op, gen |-> d.gen, pc |-> d.pc, fence |-> d.fence]
            /\ d.pc = "free" => d \in closes
      BY <1>2, <2>3
    <3>2. GateOK' /\ slot'.kind # "idle" /\ slot'.owner = slot.owner
      BY <2>1, <2>3, <3>1 DEF GateOK
    <3>3. \A d \in closes' : d.pc = "free" /\ d.op \in Relayed => Over(d.op)
      BY <3>1
    <3> QED BY <2>1, <3>2, <3>3, SettlingStep
  <2> QED BY <1>3, <1>4, <2>2, <2>3 DEF CloseMarks
<1>5. CASE CloseFences(c)
  <2>1. Settles /\ slot' = slot /\ setups' = setups
    BY <1>5, FenceSettles DEF CloseFences
  <2>2. closes' = (closes \ {c}) \cup {[by |-> c.by, op |-> c.op, gen |-> c.gen,
                                        pc |-> "inspect", fence |-> FenceAnswer(c.op)]}
    <3>1. [c EXCEPT !.pc = "inspect", !.fence = FenceAnswer(c.op)]
            = [by |-> c.by, op |-> c.op, gen |-> c.gen, pc |-> "inspect", fence |-> FenceAnswer(c.op)]
      <4> DEFINE d == [c EXCEPT !.pc = "inspect"]
      <4>1. d = [by |-> c.by, op |-> c.op, gen |-> c.gen, pc |-> "inspect", fence |-> c.fence]
        BY <1>0
      <4>2. \A v : [d EXCEPT !.fence = v]
                     = [by |-> d.by, op |-> d.op, gen |-> d.gen, pc |-> d.pc, fence |-> v]
        <5> HIDE DEF d
        <5> QED BY <4>1
      <4>3. d.by = c.by /\ d.op = c.op /\ d.gen = c.gen /\ d.pc = "inspect"
        <5> HIDE DEF d
        <5> QED BY <4>1
      <4>4. [c EXCEPT !.pc = "inspect", !.fence = FenceAnswer(c.op)] = [d EXCEPT !.fence = FenceAnswer(c.op)]
        OBVIOUS
      <4> HIDE DEF d
      <4> QED BY <4>2, <4>3, <4>4
    <3> QED BY <1>5, <3>1 DEF CloseFences
  <2>3. \A d \in closes' :
          /\ d = [by |-> d.by, op |-> d.op, gen |-> d.gen, pc |-> d.pc, fence |-> d.fence]
          /\ d.pc = "free" => d \in closes
    BY <1>1, <2>2
  <2> QED BY <2>1, <2>3, QuietStep
<1>6. CASE CloseInspects(c)
  <2>1. Settles /\ slot' = slot /\ setups' = setups
    BY <1>6, StillSettles DEF CloseInspects
  <2>2. CASE Proof(c.op, c.fence) /\ Advances(c, "free")
    <3>1. \A d \in closes' :
            /\ d = [by |-> d.by, op |-> d.op, gen |-> d.gen, pc |-> d.pc, fence |-> d.fence]
            /\ d.pc = "free" => d.op = c.op \/ d \in closes
      BY <1>2, <2>2
    <3>2. Over(c.op)
      BY <2>2, ProofMeansOver
    <3>3. GateOK' /\ \A d \in closes' : d.pc = "free" /\ d.op \in Relayed => Over(d.op)
      BY <2>1, <3>1, <3>2 DEF GateOK
    <3> QED BY <2>1, <3>3, SettlingStep
  <2>3. CASE CloseAnswers(c, FALSE)
    BY <1>3, <2>1, <2>3, QuietCloses
  <2> QED BY <1>6, <2>2, <2>3 DEF CloseInspects
<1>7. CASE CloseFrees(c)
  <2>1. Settles /\ setups' = setups /\ closes' \subseteq closes /\ c.pc = "free"
    BY <1>3, <1>7, StillSettles DEF CloseFrees
  <2>2. CASE slot' = slot
    BY <2>1, <2>2, QuietCloses
  <2>3. CASE Matches(c) /\ slot' = [slot EXCEPT !.kind = "idle", !.owner = NoRequest]
    <3>1. ASSUME NEW o \in Relayed, slot.owner = o PROVE ~Holds(o)
      BY <2>1, <2>3, <3>1 DEF Matches, Over, Holds, Unadmitted
    <3>2. slot' = [kind |-> "idle", owner |-> NoRequest, gen |-> slot.gen]
      BY <2>3 DEF GateOK
    <3>3. GateOK'
      BY <2>1, <3>2 DEF GateOK
    <3> QED BY <2>1, <3>1, <3>3, SettlingStep
  <2> QED BY <1>7, <2>2, <2>3 DEF CloseFrees
<1>8. CASE CloseDies(c)
  BY <1>3, <1>8, StillSettles, QuietCloses DEF CloseDies
<1> QED BY <1>4, <1>5, <1>6, <1>7, <1>8 DEF CloseStep

\* Every step keeps the invariant.
LEMMA GateInvStep ==
  GateInv /\ [CpuGateNext]_cpuGateVars => GateInv'
<1> SUFFICES ASSUME GateInv, [CpuGateNext]_cpuGateVars PROVE GateInv'
  OBVIOUS
<1>1. CASE UNCHANGED cpuGateVars
  BY <1>1, StillSettles, QuietCloses DEF GateInv, cpuGateVars, gateVars
<1>2. ASSUME NEW x \in Runners,
             \/ StartRunner(x) \/ RecoveryStep(x) \/ SeriesStep(x)
             \/ CallFails(x) \/ CloseLost(x) \/ Crash(x)
      PROVE  GateInv'
  BY <1>2, RunnerStep
<1>3. ASSUME NEW o \in Relayed,
             \/ SetupStep(o) \/ SetupDies(o) \/ FixtureCallback(o)
             \/ \E x \in Runners : SendSetup(x, o)
      PROVE  GateInv'
  BY <1>3, SetupSteps
<1>4. ASSUME NEW c \in closes, CloseStep(c) \/ CloseDies(c) PROVE GateInv'
  BY <1>4, CloseSteps
<1>5. CASE TimePasses
  <2>1. Settles
    BY <1>5, GrantsRest DEF GateInv, GrantsOK, TimePasses, Tick, relayVars
  <2> QED BY <1>5, <2>1, QuietCloses DEF TimePasses, gateVars
<1> QED BY <1>1, <1>2, <1>3, <1>4, <1>5 DEF CpuGateNext

\* One fixture at a time: whatever is admitted and not over, and a setup that can
\* still be admitted, owns the slot, however hosts interleave, crash, lose answers
\* or leave calls behind.
THEOREM OneFixtureAtATime == CpuGateSpec => []LiveFixtureOwnsSlot
<1>1. GateInv => LiveFixtureOwnsSlot
  BY DEF GateInv, LiveFixtureOwnsSlot, Holds
<1> QED BY <1>1, GateInvInit, GateInvStep, PTL DEF CpuGateSpec
=============================================================================
