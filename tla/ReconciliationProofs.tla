------------------------- MODULE ReconciliationProofs -------------------------
(***************************************************************************)
(* Proofs about Reconciliation: closing a day is made of ledger operations,*)
(* and a day that is closed is empty, for any number of requests, runs and *)
(* operators.                                                              *)
(***************************************************************************)
EXTENDS Reconciliation, QuotaLedgerProofs

\* A handler's step is a ledger operation or leaves the ledger alone.
LEMMA HandlerStepIsLedgerStep ==
  ASSUME NEW r \in Requests, HandlerStep(r)
  PROVE  [LedgerNext]_ledgerVars
<1>1. CASE Admit(r)
  BY <1>1 DEF Admit, RequestStep, LedgerNext
<1>2. CASE MarkUnknown(r) \/ GiveBack(r) \/ MarkAnswer(r)
  BY <1>2 DEF MarkUnknown, GiveBack, MarkAnswer, RequestStep, LedgerNext
<1>3. ASSUME NEW n \in Actuals, SettleAnswer(r, n)
      PROVE  [LedgerNext]_ledgerVars
  BY <1>3 DEF SettleAnswer, RequestStep, LedgerNext
<1>4. CASE Audit(r) \/ HandlerDies(r)
  BY <1>4 DEF Audit, HandlerDies
<1> QED BY <1>1, <1>2, <1>3, <1>4 DEF HandlerStep

\* So is a step of a run: reconcileRequest is the only call that writes.
LEMMA RunStepIsLedgerStep ==
  ASSUME NEW x \in Runs, RunStep(x), ReconTypeOK
  PROVE  [LedgerNext]_ledgerVars
<1>1. CASE ReconcileOne(x)
  <2>1. PICK r \in run[x].todo : CallReconcile(r, "consumed")
    BY <1>1 DEF ReconcileOne
  <2>2. r \in Requests
    BY <2>1 DEF ReconTypeOK, Run
  <2> QED BY <2>1, <2>2 DEF CallReconcile, RequestStep, LedgerNext, Disposition
<1>2. CASE ~ReconcileOne(x)
  BY <1>2 DEF RunStep, StartRun, ReadLocal, Snapshot, Repair, Candidates, CheckCandidate,
              SnapshotAgain, Recount, WriteReport, RunFails
<1> QED BY <1>1, <1>2

\* And so is a step of an operator call.
LEMMA OperatorStepIsLedgerStep ==
  ASSUME NEW o \in Operators, OperatorStep(o), ReconTypeOK
  PROVE  [LedgerNext]_ledgerVars
<1>1. CASE OperatorReconciles(o)
  <2>1. CallReconcile(operator[o].req, operator[o].disp)
    BY <1>1 DEF OperatorReconciles
  <2>2. operator[o].req \in Requests /\ operator[o].disp \in Disposition
    BY DEF ReconTypeOK, OperatorCall
  <2> QED BY <2>1, <2>2 DEF CallReconcile, RequestStep, LedgerNext
<1>2. CASE ~OperatorReconciles(o)
  BY <1>2 DEF OperatorStep, OperatorLooks, OperatorConfirms, OperatorProjects, OperatorFails
<1> QED BY <1>1, <1>2

\* Every step of the specification is a ledger operation or leaves the ledger alone.
LEMMA ReconStepIsLedgerStep ==
  ASSUME ReconTypeOK, [ReconNext]_vars
  PROVE  [LedgerNext]_ledgerVars
<1>1. CASE SweepSelects \/ SweepFinalizes \/ SweepDeletes \/ SweepFails \/ SweepMarks
  BY <1>1 DEF SweepSelects, SweepFinalizes, SweepDeletes, SweepFails, SweepMarks, LedgerNext
<1>2. CASE PhaseEnds \/ UNCHANGED vars
  BY <1>2 DEF PhaseEnds, vars
<1> QED BY <1>1, <1>2, HandlerStepIsLedgerStep, RunStepIsLedgerStep, OperatorStepIsLedgerStep
        DEF ReconNext

(***************************************************************************)
(* Types.                                                                  *)
(***************************************************************************)

\* The sums a run computes are numbers.
LEMMA LocalTokensType == ReconTypeOK => LocalTokens \in Nat
<1> SUFFICES ASSUME ReconTypeOK PROVE LocalTokens \in Nat
  OBVIOUS
<1> DEFINE S == {r \in Requests : row[r].status = "completed"}
           f == [r \in Requests |-> row[r].tokens]
<1>1. IsFiniteSet(S)
  BY RequestsAssumption, FS_Subset
<1>2. \A r \in S : f[r] \in Nat
  BY DEF ReconTypeOK
<1>3. Total(S, f) \in Nat
  BY <1>1, <1>2, TotalType
<1> QED BY <1>3 DEF LocalTokens

\* The variables outside the ledger, without the operators' and the runs'.
GatewayTypeOK ==
    /\ phase \in Phase
    /\ handler \in [Requests -> [pc : HandlerLocation, usage : Nat]]
    /\ row \in [Requests -> [status : RowStatus, tokens : Nat]]
    /\ report \in ReportStatus
    /\ verdicts \in SUBSET (Requests \X Disposition)
    /\ sweep \in {"idle", "selected", "finalizing", "deleted"}

\* A handler changes its own location and its row, within their types.
LEMMA HandlerStepType ==
  ASSUME ReconTypeOK, NEW r \in Requests, HandlerStep(r)
  PROVE  GatewayTypeOK' /\ UNCHANGED <<run, operator>>
<1> USE DEF ReconTypeOK, GatewayTypeOK, reconVars, Goto, HandlerLocation
<1>1. CASE Admit(r)
  <2>1. PICK status \in {"none", "in_flight"} : row' = [row EXCEPT ![r].status = status]
    BY <1>1 DEF Admit
  <2>2. row' \in [Requests -> [status : RowStatus, tokens : Nat]]
    BY <2>1 DEF RowStatus
  <2>3. PICK pc \in {"admitted", "unknown"} : handler' = [handler EXCEPT ![r].pc = pc]
    BY <1>1 DEF Admit
  <2>4. handler' \in [Requests -> [pc : HandlerLocation, usage : Nat]]
    BY <2>3
  <2> QED BY <1>1, <2>2, <2>4 DEF Admit
<1>2. CASE MarkUnknown(r) \/ GiveBack(r) \/ MarkAnswer(r) \/ HandlerDies(r)
  BY <1>2 DEF MarkUnknown, GiveBack, MarkAnswer, HandlerDies
<1>3. ASSUME NEW n \in Actuals, SettleAnswer(r, n)
      PROVE  GatewayTypeOK' /\ UNCHANGED <<run, operator>>
  <2>1. PICK pc \in {"completed", "lost", "orphaned"}, m \in Nat :
             handler' = [handler EXCEPT ![r] = [pc |-> pc, usage |-> m]]
                \/ handler' = [handler EXCEPT ![r].pc = pc]
    BY <1>3, ActualsAssumption DEF SettleAnswer
  <2>2. handler' \in [Requests -> [pc : HandlerLocation, usage : Nat]]
    BY <2>1
  <2> QED BY <1>3, <2>2 DEF SettleAnswer
<1>4. CASE Audit(r)
  <2>1. handler[r].pc \in RowStatus /\ handler[r].usage \in Nat
    BY <1>4 DEF Audit, RowStatus
  <2>2. PICK n \in Nat : row' = row \/ row' = [row EXCEPT ![r] = [status |-> handler[r].pc, tokens |-> n]]
    BY <1>4, <2>1 DEF Audit
  <2>3. row' \in [Requests -> [status : RowStatus, tokens : Nat]]
    BY <2>1, <2>2
  <2> QED BY <1>4, <2>3 DEF Audit
<1> QED BY <1>1, <1>2, <1>3, <1>4 DEF HandlerStep

\* A run changes its own variables, a row or the report, within their types.
LEMMA RunStepType ==
  ASSUME ReconTypeOK, NEW x \in Runs, RunStep(x)
  PROVE  GatewayTypeOK' /\ run' \in [Runs -> Run] /\ UNCHANGED operator
<1> DEFINE R == run[x]
<1>0. R \in Run /\ LocalTokens \in Nat /\ NewRun \in Run
  BY LocalTokensType DEF ReconTypeOK, Run, NewRun
<1>1. CASE StartRun(x)
  <2>1. PICK pc \in {"ended", "local"} : run' = [run EXCEPT ![x].pc = pc]
    BY <1>1 DEF StartRun
  <2>2. run' \in [Runs -> Run]
    BY <1>0, <2>1 DEF ReconTypeOK, Run
  <2> QED BY <1>1, <2>2 DEF StartRun, ReconTypeOK, GatewayTypeOK, gatewayVars
<1>2. CASE ReadLocal(x) \/ Recount(x)
  <2>1. PICK pc \in {"snapshot", "write"}, n \in Nat :
             run' = [run EXCEPT ![x].pc = pc, ![x].local = n]
    BY <1>0, <1>2 DEF ReadLocal, Recount
  <2>2. run \in [Runs -> Run]
    BY DEF ReconTypeOK
  <2>3. [run[x] EXCEPT !.pc = pc, !.local = n] \in Run
    BY <2>2 DEF Run
  <2>4. run' = [run EXCEPT ![x] = [run[x] EXCEPT !.pc = pc, !.local = n]]
    BY <2>1, <2>2 DEF Run
  <2>5. run' \in [Runs -> Run]
    BY <2>2, <2>3, <2>4
  <2> QED BY <1>2, <2>5 DEF ReadLocal, Recount, ReconTypeOK, GatewayTypeOK, gatewayVars
<1>3. CASE Snapshot(x)
  <2>1. PICK n \in Usages, S \in SUBSET Requests, T \in SUBSET Requests :
             run' = [run EXCEPT ![x].pc = "reconcile", ![x].openai = n,
                                ![x].seen = S, ![x].todo = T]
    <3>1. Pending \in SUBSET Requests /\ Reconcilable \in SUBSET Requests /\ {} \in SUBSET Requests
      BY DEF Pending, Reconcilable, InState
    <3> QED BY <1>3, <3>1 DEF Snapshot
  <2>2. n \in Nat
    BY ReconciliationAssumption
  <2>3. run' \in [Runs -> Run]
    BY <1>0, <2>1, <2>2 DEF ReconTypeOK, Run
  <2> QED BY <1>3, <2>3 DEF Snapshot, ReconTypeOK, GatewayTypeOK, gatewayVars
<1>4. CASE ReconcileOne(x) \/ CheckCandidate(x)
  <2>1. \A r \in Requests : entries[r].tokens \in Nat
    BY DEF ReconTypeOK, LedgerTypeOK, Entry
  <2>2. PICK r \in R.todo : \E F \in {{}, {<<r, entries[r].tokens>>}} :
             run' = [run EXCEPT ![x].todo = @ \ {r}, ![x].fix = F]
    BY <1>4 DEF ReconcileOne, CheckCandidate
  <2>3. /\ R.todo \ {r} \in SUBSET Requests
        /\ {} \in SUBSET (Requests \X Nat) /\ {<<r, entries[r].tokens>>} \in SUBSET (Requests \X Nat)
    BY <1>0, <2>1, <2>2 DEF Run
  <2>4. PICK T \in SUBSET Requests, G \in SUBSET (Requests \X Nat) :
             run' = [run EXCEPT ![x].todo = T, ![x].fix = G]
    BY <2>2, <2>3
  <2>5. run' \in [Runs -> Run]
    BY <1>0, <2>4 DEF ReconTypeOK, Run
  <2> QED BY <1>4, <2>5 DEF ReconcileOne, CheckCandidate, ReconTypeOK, GatewayTypeOK, gatewayVars
<1>5. CASE Repair(x)
  <2>1. PICK f \in R.fix : row' = row
             \/ row' = [row EXCEPT ![f[1]] = [status |-> "completed", tokens |-> f[2]]]
    BY <1>5 DEF Repair
  <2>2. f[1] \in Requests /\ f[2] \in Nat
    BY <1>0 DEF Run
  <2>3. row' \in [Requests -> [status : RowStatus, tokens : Nat]]
    BY <2>1, <2>2 DEF ReconTypeOK, RowStatus
  <2>4. run' = [run EXCEPT ![x].fix = {}]
    BY <1>5 DEF Repair
  <2>5. run' \in [Runs -> Run]
    BY <1>0, <2>4 DEF ReconTypeOK, Run
  <2> QED BY <1>5, <2>3, <2>5 DEF Repair, ReconTypeOK, GatewayTypeOK
<1>6. CASE Candidates(x)
  <2>1. PICK T \in SUBSET Requests : run' = [run EXCEPT ![x].pc = "candidates", ![x].todo = T]
    BY <1>6 DEF Candidates
  <2>2. run' \in [Runs -> Run]
    BY <1>0, <2>1 DEF ReconTypeOK, Run
  <2> QED BY <1>6, <2>2 DEF Candidates, ReconTypeOK, GatewayTypeOK, gatewayVars
<1>7. CASE SnapshotAgain(x)
  <2>1. PICK c \in {0, 1} : run' = [run EXCEPT ![x].pc = "recount", ![x].clear = c]
    BY <1>7 DEF SnapshotAgain
  <2>2. run' \in [Runs -> Run]
    BY <1>0, <2>1 DEF ReconTypeOK, Run
  <2> QED BY <1>7, <2>2 DEF SnapshotAgain, ReconTypeOK, GatewayTypeOK, gatewayVars
<1>8. CASE WriteReport(x) \/ RunFails(x)
  <2>1. run' = [run EXCEPT ![x] = [NewRun EXCEPT !.pc = "ended"]]
    BY <1>8 DEF WriteReport, RunFails
  <2>2. run' \in [Runs -> Run]
    BY <1>0, <2>1 DEF ReconTypeOK, Run
  <2>3. report' \in ReportStatus
    BY <1>8 DEF WriteReport, RunFails, ReconTypeOK, ReportStatus
  <2> QED BY <1>8, <2>2, <2>3 DEF WriteReport, RunFails, ReconTypeOK, GatewayTypeOK, gatewayVars
<1> QED BY <1>1, <1>2, <1>3, <1>4, <1>5, <1>6, <1>7, <1>8 DEF RunStep

\* So does an operator call.
LEMMA OperatorStepType ==
  ASSUME ReconTypeOK, NEW o \in Operators, OperatorStep(o)
  PROVE  GatewayTypeOK' /\ operator' \in [Operators -> OperatorCall] /\ UNCHANGED run
<1> DEFINE P == operator[o]
<1>0. P \in OperatorCall
  BY DEF ReconTypeOK
<1>1. CASE OperatorProjects(o)
  <2>1. P.req \in Requests /\ P.disp \in Disposition /\ P.tokens \in Nat
    BY <1>0 DEF OperatorCall
  <2>2. PICK status \in {"completed", "failed"}, n \in Nat : row' = row
             \/ row' = [row EXCEPT ![P.req] = [status |-> status, tokens |-> n]]
    BY <1>1, <2>1 DEF OperatorProjects
  <2>3. row' \in [Requests -> [status : RowStatus, tokens : Nat]]
    BY <2>1, <2>2 DEF ReconTypeOK, RowStatus
  <2>4. verdicts' \in SUBSET (Requests \X Disposition)
    BY <1>1, <2>1 DEF OperatorProjects, ReconTypeOK
  <2>5. operator' \in [Operators -> OperatorCall]
    BY <1>0, <1>1 DEF OperatorProjects, OperatorGoto, ReconTypeOK, OperatorCall
  <2> QED BY <1>1, <2>3, <2>4, <2>5 DEF OperatorProjects, ReconTypeOK, GatewayTypeOK
<1>2. CASE ~OperatorProjects(o)
  <2>1. \A r \in Requests : entries[r].tokens \in Nat
    BY DEF ReconTypeOK, LedgerTypeOK, Entry
  <2>2. PICK pc \in {"reconcile", "confirm", "project", "ended"}, n \in Nat :
             operator' = [operator EXCEPT ![o].pc = pc]
             \/ operator' = [operator EXCEPT ![o].pc = pc, ![o].tokens = n]
    <3>1. CASE OperatorConfirms(o)
      <4>1. entries[P.req].tokens \in Nat
        BY <1>0, <2>1 DEF OperatorCall
      <4>2. \/ operator' = [operator EXCEPT ![o].pc = "ended"]
            \/ operator' = [operator EXCEPT ![o].pc = "project", ![o].tokens = entries[P.req].tokens]
        BY <3>1 DEF OperatorConfirms, OperatorGoto
      <4> QED BY <4>1, <4>2
    <3>2. CASE ~OperatorConfirms(o)
      <4>1. \/ operator' = [operator EXCEPT ![o].pc = "reconcile"]
            \/ operator' = [operator EXCEPT ![o].pc = "confirm"]
            \/ operator' = [operator EXCEPT ![o].pc = "ended"]
        BY <1>2, <3>2 DEF OperatorStep, OperatorLooks, OperatorReconciles, OperatorFails, OperatorGoto
      <4> QED BY <4>1
    <3> QED BY <3>1, <3>2
  <2>3. operator' \in [Operators -> OperatorCall]
    <3>0. operator \in [Operators -> OperatorCall]
      BY DEF ReconTypeOK
    <3>1. CASE operator' = [operator EXCEPT ![o].pc = pc]
      BY <3>0, <3>1 DEF OperatorCall
    <3>2. CASE operator' = [operator EXCEPT ![o].pc = pc, ![o].tokens = n]
      BY <3>0, <3>2 DEF OperatorCall
    <3> QED BY <2>2, <3>1, <3>2
  <2>4. UNCHANGED <<phase, handler, row, report, run, verdicts, sweep>>
    BY <1>2 DEF OperatorStep, OperatorLooks, OperatorReconciles, OperatorConfirms,
                OperatorFails, gatewayVars
  <2> QED BY <2>3, <2>4 DEF ReconTypeOK, GatewayTypeOK
<1> QED BY <1>1, <1>2

\* Every step keeps the types.
LEMMA ReconTypeStep ==
  ASSUME ReconTypeOK, [ReconNext]_vars
  PROVE  ReconTypeOK'
<1>1. LedgerTypeOK'
  BY ReconStepIsLedgerStep, LedgerTypeStep DEF ReconTypeOK
<1>2. CASE SweepSelects \/ SweepFinalizes \/ SweepDeletes \/ SweepFails \/ SweepMarks
  BY <1>1, <1>2 DEF SweepSelects, SweepFinalizes, SweepDeletes, SweepFails, SweepMarks,
                    ReconTypeOK, ReportStatus, gatewayVars
<1>3. CASE PhaseEnds
  BY <1>1, <1>3 DEF PhaseEnds, PhaseAfter, Phase, ReconTypeOK, gatewayVars, reconVars
<1>4. CASE UNCHANGED vars
  BY <1>1, <1>4 DEF vars, ReconTypeOK, gatewayVars, reconVars
<1>5. ASSUME NEW r \in Requests, HandlerStep(r) PROVE ReconTypeOK'
  BY <1>1, <1>5, HandlerStepType DEF ReconTypeOK, GatewayTypeOK
<1>6. ASSUME NEW x \in Runs, RunStep(x) PROVE ReconTypeOK'
  BY <1>1, <1>6, RunStepType DEF ReconTypeOK, GatewayTypeOK
<1>7. ASSUME NEW o \in Operators, OperatorStep(o) PROVE ReconTypeOK'
  BY <1>1, <1>7, OperatorStepType DEF ReconTypeOK, GatewayTypeOK
<1> QED BY <1>2, <1>3, <1>4, <1>5, <1>6, <1>7 DEF ReconNext

\* The initial state has the types too.
LEMMA ReconTypeInit == ReconInit => ReconTypeOK
<1> SUFFICES ASSUME ReconInit PROVE ReconTypeOK
  OBVIOUS
<1>1. LedgerTypeOK
  BY FreshLedger DEF ReconInit, LedgerInv
<1>2. run \in [Runs -> Run]
  BY DEF ReconInit, Run, NewRun
<1>3. operator \in [Operators -> OperatorCall]
  BY DEF ReconInit, OperatorCall, NewOperator
<1> QED BY <1>1, <1>2, <1>3 DEF ReconInit, ReconTypeOK, Phase, HandlerLocation, RowStatus, ReportStatus

\* The rows, the report and the local variables of every run and operator call
\* keep their types.
THEOREM ReconTypeCorrect == ReconSpec => []ReconTypeOK
<1>1. ReconTypeOK /\ [ReconNext]_vars => ReconTypeOK'
  BY ReconTypeStep
<1> QED BY <1>1, ReconTypeInit, PTL DEF ReconSpec

\* Reconciliation, operators and finalization use the ledger only through its
\* operations: everything proved of the ledger holds while a day is closed.
THEOREM ReconRefinesLedger == ReconSpec => LedgerSpec
<1>1. ReconInit => LedgerInit
  BY DEF ReconInit
<1>2. ReconTypeOK /\ [ReconNext]_vars => [LedgerNext]_ledgerVars
  BY ReconStepIsLedgerStep
<1> QED BY <1>1, <1>2, ReconTypeCorrect, PTL DEF ReconSpec, LedgerSpec

\* In particular the books balance and accounted outcomes stay as they are.
THEOREM ReconKeepsBooks == ReconSpec => []LedgerBalanced /\ OutcomesAreFinal
BY ReconRefinesLedger, LedgerAlwaysBalanced, LedgerOutcomesFinal, PTL

(***************************************************************************)
(* A closed day is empty.                                                  *)
(***************************************************************************)

\* No entry appears and none is reopened.
Shrinks ==
    \A r \in Requests :
        /\ entries[r].state = "absent" => entries'[r].state = "absent"
        /\ entries[r].state \notin Open => entries'[r].state \notin Open

\* Of the ledger operations only reserve makes an entry.
LEMMA LifecycleShrinks ==
  ASSUME LedgerTypeOK, NEW r \in Requests,
         \/ \E n : Settle(r, n)
         \/ MarkUncertain(r) \/ MarkReserveOutcomeUnknown(r) \/ Release(r)
         \/ \E d : ReconcileRequest(r, d)
  PROVE  Shrinks
<1>1. /\ entries \in [Requests -> Entry] /\ entries[r].state # "absent"
      /\ \A q \in Requests \ {r} : entries'[q] = entries[q]
  BY DEF LedgerTypeOK, Settle, MarkUncertain, MarkReserveOutcomeUnknown, Release, ReconcileRequest,
         FirstCall, BecomeUncertain, RecordOnly
<1>2. entries[r].state \notin Open => entries'[r].state = entries[r].state
  BY <1>1 DEF Settle, MarkUncertain, MarkReserveOutcomeUnknown, Release, ReconcileRequest,
         RecordOnly, Open, Entry
<1> QED BY <1>1, <1>2 DEF Shrinks

\* Before a run may start nothing of the reconciliation exists. From then on the
\* ledger only shrinks: what a run saw of the second snapshot stays true until
\* it writes its report, and after.
ClosingInv ==
    /\ phase \notin {"closing", "horizon"} =>
          report = "none" /\ sweep = "idle" /\ \A x \in Runs : run[x].pc = "idle"
    /\ \A x \in Runs : run[x].pc = "idle" => run[x] = NewRun
    /\ \A x \in Runs : run[x].clear = 1 => Pending = {}
    /\ sweep = "deleted" => InState("absent") = Requests
    /\ ClosedDayIsEmpty

\* Outside Admit, every step only shrinks the ledger.
LEMMA ReconShrinks ==
  ASSUME ReconTypeOK, [ReconNext]_vars, phase \in {"closing", "horizon"}
  PROVE  Shrinks
<1>0. LedgerTypeOK /\ (UNCHANGED ledgerVars => Shrinks)
  BY DEF ReconTypeOK, Shrinks, ledgerVars
<1>1. ASSUME NEW r \in Requests, HandlerStep(r) PROVE Shrinks
  <2>1. \/ \E n : Settle(r, n)
        \/ MarkUncertain(r) \/ UNCHANGED ledgerVars
    BY <1>1 DEF HandlerStep, Admit, MarkUnknown, GiveBack, SettleAnswer, MarkAnswer, Audit, HandlerDies
  <2> QED BY <1>0, <2>1, LifecycleShrinks
<1>2. ASSUME NEW x \in Runs, RunStep(x) PROVE Shrinks
  <2>1. CASE ReconcileOne(x)
    <3>1. PICK r \in run[x].todo : CallReconcile(r, "consumed")
      BY <2>1 DEF ReconcileOne
    <3>2. r \in Requests
      BY <3>1 DEF ReconTypeOK, Run
    <3> QED BY <1>0, <3>1, <3>2, LifecycleShrinks DEF CallReconcile
  <2>2. CASE ~ReconcileOne(x)
    <3>1. UNCHANGED ledgerVars
      BY <1>2, <2>2 DEF RunStep, StartRun, ReadLocal, Snapshot, Repair, Candidates, CheckCandidate,
                SnapshotAgain, Recount, WriteReport, RunFails
    <3> QED BY <1>0, <3>1
  <2> QED BY <2>1, <2>2
<1>3. ASSUME NEW o \in Operators, OperatorStep(o) PROVE Shrinks
  <2>1. operator[o].req \in Requests
    BY DEF ReconTypeOK, OperatorCall
  <2>2. CallReconcile(operator[o].req, operator[o].disp) \/ UNCHANGED ledgerVars
    BY <1>3 DEF OperatorStep, OperatorLooks, OperatorReconciles, OperatorConfirms,
                OperatorProjects, OperatorFails
  <2> QED BY <1>0, <2>1, <2>2, LifecycleShrinks DEF CallReconcile
<1>4. CASE SweepSelects \/ SweepFinalizes \/ SweepDeletes \/ SweepFails \/ SweepMarks
  <2>1. entries' = entries \/ entries' = [r \in Requests |-> NoEntry]
    BY <1>4 DEF SweepSelects, SweepFinalizes, SweepDeletes, SweepFails, SweepMarks,
                FinalizeDay, DeleteAll, DeleteAllLost, ledgerVars
  <2> QED BY <2>1 DEF Shrinks, NoEntry, Open
<1>5. CASE PhaseEnds \/ UNCHANGED vars
  BY <1>0, <1>5 DEF PhaseEnds, vars
<1> QED BY <1>1, <1>2, <1>3, <1>4, <1>5 DEF ReconNext

\* What shrinking means for the two sets.
LEMMA ShrunkSets ==
  ASSUME Shrinks
  PROVE  /\ Pending = {} => Pending' = {}
         /\ InState("absent") = Requests => InState("absent")' = Requests
BY DEF Shrinks, Pending, InState, Open

\* The invariant is kept when runs start only after the grace period.
LEMMA ClosingStep ==
  ASSUME ReconTypeOK, ClosingInv, [ReconNext]_vars, RunPhases \subseteq {"closing"}
  PROVE  ClosingInv'
<1>1. CASE phase \notin {"closing", "horizon"}
  <2>1. /\ report = "none" /\ sweep = "idle"
        /\ \A x \in Runs : run[x].pc = "idle" /\ run[x].fix = {} /\ run[x].clear = 0
    BY <1>1 DEF ClosingInv, NewRun
  <2>2. report' = "none" /\ sweep' = "idle" /\ run' = run
    <3>1. ASSUME NEW r \in Requests, HandlerStep(r) PROVE UNCHANGED <<report, sweep, run>>
      BY <3>1 DEF HandlerStep, Admit, MarkUnknown, GiveBack, SettleAnswer, MarkAnswer, Audit,
                  HandlerDies, reconVars
    <3>2. ASSUME NEW x \in Runs, RunStep(x) PROVE FALSE
      BY <1>1, <2>1, <3>2 DEF RunStep, StartRun, ReadLocal, Snapshot, ReconcileOne, Repair, Candidates,
                          CheckCandidate, SnapshotAgain, Recount, WriteReport, RunFails, RunAt
    <3>3. ASSUME NEW o \in Operators, OperatorStep(o) PROVE UNCHANGED <<report, sweep, run>>
      BY <3>3 DEF OperatorStep, OperatorLooks, OperatorReconciles, OperatorConfirms,
                  OperatorProjects, OperatorFails
    <3>4. ~(SweepSelects \/ SweepFinalizes \/ SweepDeletes \/ SweepFails \/ SweepMarks)
      BY <1>1, <2>1 DEF SweepSelects, SweepFinalizes, SweepDeletes, SweepFails, SweepMarks
    <3>5. CASE PhaseEnds \/ UNCHANGED vars
      BY <2>1, <3>5 DEF PhaseEnds, vars, reconVars
    <3> QED BY <2>1, <3>1, <3>2, <3>3, <3>4, <3>5 DEF ReconNext
  <2> QED BY <2>1, <2>2 DEF ClosingInv, ClosedDayIsEmpty
<1>2. CASE phase \in {"closing", "horizon"}
  <2>1. /\ Pending = {} => Pending' = {}
        /\ InState("absent") = Requests => InState("absent")' = Requests
    BY <1>2, ReconShrinks, ShrunkSets
  <2>2. phase' \in {"closing", "horizon"}
    <3>1. UNCHANGED phase \/ PhaseEnds
      BY DEF ReconNext, HandlerStep, Admit, MarkUnknown, GiveBack, SettleAnswer, MarkAnswer, Audit,
             HandlerDies, RunStep, StartRun, ReadLocal, Snapshot, ReconcileOne, Repair, Candidates,
             CheckCandidate, SnapshotAgain, Recount, WriteReport, RunFails, OperatorStep,
             OperatorLooks, OperatorReconciles, OperatorConfirms, OperatorProjects, OperatorFails,
             SweepSelects, SweepFinalizes, SweepDeletes, SweepFails, SweepMarks, vars
    <3> QED BY <1>2, <3>1 DEF PhaseEnds, PhaseAfter
  <2> DEFINE Kept == /\ \A x \in Runs : run'[x].pc = "idle" => run'[x] = NewRun
                     /\ \A x \in Runs : run'[x].clear = 1 => Pending' = {}
                     /\ sweep' = "deleted" => InState("absent")' = Requests
                     /\ report' = "done" => Pending' = {}
                     /\ report' = "deleted" => InState("absent")' = Requests
  <2>3. Kept
    <3>1. UNCHANGED <<run, sweep, report>> => Kept
      BY <2>1 DEF ClosingInv, ClosedDayIsEmpty
    <3>2. ASSUME NEW r \in Requests, HandlerStep(r) PROVE UNCHANGED <<report, sweep, run>>
      BY <3>2 DEF HandlerStep, Admit, MarkUnknown, GiveBack, SettleAnswer, MarkAnswer, Audit,
                  HandlerDies, reconVars
    <3>3. ASSUME NEW o \in Operators, OperatorStep(o) PROVE UNCHANGED <<report, sweep, run>>
      BY <3>3 DEF OperatorStep, OperatorLooks, OperatorReconciles, OperatorConfirms,
                  OperatorProjects, OperatorFails
    <3>4. ASSUME NEW x \in Runs, RunStep(x) PROVE Kept
      <4>1. \A y \in Runs \ {x} : run'[y] = run[y]
        BY <3>4 DEF ReconTypeOK, RunStep, StartRun, ReadLocal, Snapshot, ReconcileOne, Repair,
             Candidates, CheckCandidate, SnapshotAgain, Recount, WriteReport, RunFails
      <4>0. run \in [Runs -> Run]
        BY DEF ReconTypeOK
      <4>2. run'[x].pc # "idle"
        <5>1. CASE Repair(x)
          <6>1. run[x].fix # {} /\ run' = [run EXCEPT ![x].fix = {}]
            BY <5>1 DEF Repair
          <6>2. run[x].pc # "idle"
            BY <6>1 DEF ClosingInv, NewRun
          <6> QED BY <4>0, <6>1, <6>2 DEF Run
        <5>2. CASE ReconcileOne(x) \/ CheckCandidate(x)
          <6>1. /\ run[x].pc # "idle"
                /\ \E T, F : run' = [run EXCEPT ![x].todo = T, ![x].fix = F]
            BY <5>2 DEF ReconcileOne, CheckCandidate, RunAt
          <6> QED BY <4>0, <6>1 DEF Run
        <5>3. CASE StartRun(x)
          <6>1. PICK p \in {"ended", "local"} : run' = [run EXCEPT ![x].pc = p]
            BY <5>3 DEF StartRun
          <6> QED BY <4>0, <6>1 DEF Run
        <5>5. CASE ReadLocal(x)
          BY <4>0, <5>5 DEF ReadLocal, Run
        <5>6. CASE Snapshot(x)
          BY <4>0, <5>6 DEF Snapshot, Run
        <5>7. CASE Candidates(x)
          BY <4>0, <5>7 DEF Candidates, Run
        <5>8. CASE SnapshotAgain(x)
          BY <4>0, <5>8 DEF SnapshotAgain, Run
        <5>9. CASE Recount(x)
          BY <4>0, <5>9 DEF Recount, Run
        <5>4. CASE WriteReport(x) \/ RunFails(x)
          BY <4>0, <5>4 DEF WriteReport, RunFails, NewRun
        <5> QED BY <3>4, <5>1, <5>2, <5>3, <5>4, <5>5, <5>6, <5>7, <5>8, <5>9 DEF RunStep
      <4>3. run'[x].clear = 1 => Pending' = {}
        <5>1. CASE SnapshotAgain(x)
          <6>1. Pending = {} \/ run' = [run EXCEPT ![x].pc = "recount", ![x].clear = 0]
            BY <5>1 DEF SnapshotAgain
          <6> QED BY <2>1, <4>0, <6>1 DEF Run
        <5>2. CASE WriteReport(x) \/ RunFails(x)
          <6>1. run' = [run EXCEPT ![x] = [NewRun EXCEPT !.pc = "ended"]]
            BY <5>2 DEF WriteReport, RunFails
          <6> QED BY <4>0, <6>1 DEF NewRun
        <5>3. CASE ~(SnapshotAgain(x) \/ WriteReport(x) \/ RunFails(x))
          <6>1. run'[x].clear = run[x].clear
            <7>1. CASE StartRun(x) \/ Repair(x)
              BY <4>0, <7>1 DEF StartRun, Repair, Run
            <7>2. CASE ReadLocal(x) \/ Recount(x) \/ Candidates(x)
              BY <4>0, <7>2 DEF ReadLocal, Recount, Candidates, Run
            <7>3. CASE Snapshot(x)
              BY <4>0, <7>3 DEF Snapshot, Run
            <7>4. CASE ReconcileOne(x) \/ CheckCandidate(x)
              <8>1. \E T, F : run' = [run EXCEPT ![x].todo = T, ![x].fix = F]
                BY <7>4 DEF ReconcileOne, CheckCandidate
              <8> QED BY <4>0, <8>1 DEF Run
            <7> QED BY <3>4, <5>3, <7>1, <7>2, <7>3, <7>4 DEF RunStep
          <6> QED BY <2>1, <6>1 DEF ClosingInv
        <5> QED BY <5>1, <5>2, <5>3
      <4>4. sweep' = sweep /\ (report' = report \/ report' = "open" \/ (report' = "done" /\ run[x].clear = 1))
        BY <3>4 DEF RunStep, StartRun, ReadLocal, Snapshot, ReconcileOne, Repair,
             Candidates, CheckCandidate, SnapshotAgain, Recount, WriteReport, RunFails, IsDone
      <4> QED BY <2>1, <4>1, <4>2, <4>3, <4>4 DEF ClosingInv, ClosedDayIsEmpty
    <3>5. CASE SweepSelects \/ SweepFinalizes \/ SweepFails \/ SweepMarks
      BY <2>1, <3>5 DEF SweepSelects, SweepFinalizes, SweepFails, SweepMarks, ClosingInv, ClosedDayIsEmpty
    <3>6. CASE SweepDeletes
      <4>1. InState("absent")' = Requests
        BY <3>6 DEF SweepDeletes, DeleteAll, InState, NoEntry
      <4> QED BY <2>1, <3>6, <4>1 DEF SweepDeletes, ClosingInv, ClosedDayIsEmpty
    <3>7. CASE PhaseEnds \/ UNCHANGED vars
      BY <3>1, <3>7 DEF PhaseEnds, vars, reconVars
    <3> QED BY <3>1, <3>2, <3>3, <3>4, <3>5, <3>6, <3>7 DEF ReconNext
  <2> QED BY <2>2, <2>3 DEF ClosingInv, ClosedDayIsEmpty
<1> QED BY <1>1, <1>2

\* A day that is done has nothing left to account for and a day marked deleted
\* has nothing stored, for any number of requests, overlapping runs, operators
\* and retried finalizations, when every run starts after the last reservation.
THEOREM ReconClosedDay ==
  ASSUME RunPhases \subseteq {"closing"}
  PROVE  ReconSpec => []ClosedDayIsEmpty
<1>1. ReconInit => ClosingInv
  BY DEF ReconInit, ClosingInv, ClosedDayIsEmpty, NewRun
<1>2. ReconTypeOK /\ ClosingInv /\ [ReconNext]_vars => ClosingInv'
  BY ClosingStep
<1>3. ClosingInv => ClosedDayIsEmpty
  BY DEF ClosingInv
<1> QED BY <1>1, <1>2, <1>3, ReconTypeCorrect, PTL DEF ReconSpec

(***************************************************************************)
(* Verdicts and rows. Someone who acts on a closed request (an operator    *)
(* about to project its verdict, or answered; a run about to repair a row) *)
(* learned of it from an entry that is final: no two of them can have      *)
(* learned different things, also once the day is wiped.                   *)
(***************************************************************************)

RowFor(d) == IF d = "consumed" THEN "completed" ELSE "failed"

\* Someone knows that request r is closed as d.
Ruled(r, d) ==
    \/ \E o \in Operators :
          operator[o].pc = "project" /\ operator[o].req = r /\ operator[o].disp = d
    \/ <<r, d>> \in verdicts
    \/ d = "consumed" /\ \E x \in Runs : \E f \in run[x].fix : f[1] = r

RulingInv(r) ==
    /\ \A d \in Disposition : Ruled(r, d) =>
          handler[r].pc # "idle" /\ entries[r].state \in {StateFor(d), "absent"}
    /\ \A d1, d2 \in Disposition : Ruled(r, d1) /\ Ruled(r, d2) => d1 = d2
    /\ \A d \in Disposition : <<r, d>> \in verdicts => row[r].status \in {"none", RowFor(d)}

\* What a row, or the handler that is about to write it, says was used.
RowInv(r) ==
    /\ handler[r].pc = "idle" => entries[r].state = "absent" /\ row[r].status = "none"
    /\ handler[r].pc = "completed" =>
          \/ entries[r].state = "settled" /\ entries[r].actual = handler[r].usage
          \/ entries[r].state \in {"reconciled", "absent"}
    /\ row[r].status = "completed" =>
          \/ entries[r].state = "settled" /\ row[r].tokens = entries[r].actual
          \/ entries[r].state \in {"reconciled", "absent"}

\* Only reserve_unknown requests are the operators', and only the others the runs'.
OriginInv(r) ==
    /\ "reconcile" \in entries[r].saved =>
          \/ entries[r].state = "reconciled"
          \/ entries[r].state = "released" /\ entries[r].origin = "reserve_unknown"
    /\ handler[r].pc = "admitted" =>
          /\ entries[r].state \in {"reserved", "reconciled", "absent"}
          /\ entries[r].origin # "reserve_unknown"
    /\ \A o \in Operators : operator[o].pc \in {"reconcile", "confirm"} /\ operator[o].req = r =>
          /\ handler[r].pc # "idle"
          /\ entries[r].origin = "reserve_unknown" \/ entries[r].state = "absent"
    /\ \A x \in Runs : run[x].pc = "reconcile" /\ r \in run[x].todo =>
          entries[r].origin # "reserve_unknown"

VerdictInv(r) == RulingInv(r) /\ RowInv(r) /\ OriginInv(r)

\* A lifecycle operation about r: from the states it applies to the entry takes
\* the new one; from the others nothing but the recorded result changes.
Operates(r, from, s) ==
    /\ \A q \in Requests \ {r} : entries'[q] = entries[q]
    /\ "reconcile" \in entries'[r].saved <=> "reconcile" \in entries[r].saved
    /\ entries[r].state # "absent"
    /\ entries[r].state \in from => entries'[r].state = s
    /\ entries[r].state \notin from =>
          /\ entries'[r].state = entries[r].state /\ entries'[r].actual = entries[r].actual
          /\ entries'[r].origin = entries[r].origin

\* What the operations of the handlers do to the entry of their request.
LEMMA HandlerOperations ==
  ASSUME entries \in [Requests -> Entry], NEW r \in Requests
  PROVE  /\ \A n : Settle(r, n) =>
               /\ Operates(r, Open, "settled") /\ entries'[r].origin = entries[r].origin
               /\ entries[r].state \in Open => entries'[r].actual = n
         /\ MarkUncertain(r) =>
               /\ Operates(r, {"reserved"}, "uncertain")
               /\ entries'[r].origin = "reserve_unknown" <=> entries[r].origin = "reserve_unknown"
         /\ MarkReserveOutcomeUnknown(r) =>
               /\ Operates(r, {"reserved"}, "uncertain")
               /\ entries[r].state = "reserved" => entries'[r].origin = "reserve_unknown"
         /\ Release(r) =>
               Operates(r, {"reserved"}, "released") /\ entries'[r].origin = entries[r].origin
<1>0. entries[r] \in Entry
  OBVIOUS
<1>1. ASSUME NEW n, Settle(r, n)
      PROVE  /\ Operates(r, Open, "settled") /\ entries'[r].origin = entries[r].origin
             /\ entries[r].state \in Open => entries'[r].actual = n
  <2>1. CASE entries[r].state \in Open
    <3>1. entries' = [entries EXCEPT ![r].state = "settled", ![r].actual = n,
                                     ![r].saved = @ \cup {"settle"}]
      BY <1>1, <2>1 DEF Settle
    <3> QED BY <1>0, <2>1, <3>1 DEF Entry, Operates, Open
  <2>2. CASE entries[r].state \notin Open
    <3>1. /\ entries' = [entries EXCEPT ![r].saved = @ \cup {"settle"}]
          /\ entries[r].state # "absent"
      BY <1>1, <2>2 DEF Settle, RecordOnly, FirstCall
    <3> QED BY <1>0, <2>2, <3>1 DEF Entry, Operates
  <2> QED BY <2>1, <2>2
<1>2. ASSUME MarkUncertain(r)
      PROVE  /\ Operates(r, {"reserved"}, "uncertain")
             /\ entries'[r].origin = "reserve_unknown" <=> entries[r].origin = "reserve_unknown"
  <2>1. CASE entries[r].state = "reserved"
    <3> DEFINE o == IF entries[r].origin = "none" THEN "upstream_uncertain" ELSE entries[r].origin
    <3>1. entries' = [entries EXCEPT ![r].state = "uncertain", ![r].origin = o,
                                     ![r].saved = @ \cup {"markUncertain"}]
      BY <1>2, <2>1 DEF MarkUncertain, BecomeUncertain
    <3>2. o = "reserve_unknown" <=> entries[r].origin = "reserve_unknown"
      OBVIOUS
    <3> HIDE DEF o
    <3> QED BY <1>0, <2>1, <3>1, <3>2 DEF Entry, Operates
  <2>2. CASE entries[r].state # "reserved"
    <3>1. /\ entries' = [entries EXCEPT ![r].saved = @ \cup {"markUncertain"}]
          /\ entries[r].state # "absent"
      BY <1>2, <2>2 DEF MarkUncertain, RecordOnly, FirstCall
    <3> QED BY <1>0, <2>2, <3>1 DEF Entry, Operates
  <2> QED BY <2>1, <2>2
<1>3. ASSUME MarkReserveOutcomeUnknown(r)
      PROVE  /\ Operates(r, {"reserved"}, "uncertain")
             /\ entries[r].state = "reserved" => entries'[r].origin = "reserve_unknown"
  <2>1. CASE entries[r].state = "reserved"
    <3>1. entries' = [entries EXCEPT ![r].state = "uncertain", ![r].origin = "reserve_unknown",
                                     ![r].saved = @ \cup {"markReserveOutcomeUnknown"}]
      BY <1>3, <2>1 DEF MarkReserveOutcomeUnknown, BecomeUncertain
    <3> QED BY <1>0, <2>1, <3>1 DEF Entry, Operates
  <2>2. CASE entries[r].state # "reserved"
    <3>1. /\ entries' = [entries EXCEPT ![r].saved = @ \cup {"markReserveOutcomeUnknown"}]
          /\ entries[r].state # "absent"
      BY <1>3, <2>2 DEF MarkReserveOutcomeUnknown, RecordOnly, FirstCall
    <3> QED BY <1>0, <2>2, <3>1 DEF Entry, Operates
  <2> QED BY <2>1, <2>2
<1>4. ASSUME Release(r)
      PROVE  Operates(r, {"reserved"}, "released") /\ entries'[r].origin = entries[r].origin
  <2>1. CASE entries[r].state = "reserved"
    <3>1. entries' = [entries EXCEPT ![r].state = "released", ![r].saved = @ \cup {"release"}]
      BY <1>4, <2>1 DEF Release
    <3> QED BY <1>0, <2>1, <3>1 DEF Entry, Operates
  <2>2. CASE entries[r].state # "reserved"
    <3>1. /\ entries' = [entries EXCEPT ![r].saved = @ \cup {"release"}]
          /\ entries[r].state # "absent"
      BY <1>4, <2>2 DEF Release, RecordOnly, FirstCall
    <3> QED BY <1>0, <2>2, <3>1 DEF Entry, Operates
  <2> QED BY <2>1, <2>2
<1> QED BY <1>1, <1>2, <1>3, <1>4

\* What reconcileRequest does: the first call on an open entry decides.
LEMMA ReconcileOperation ==
  ASSUME entries \in [Requests -> Entry], NEW r \in Requests, NEW d, OriginInv(r),
         CallReconcile(r, d)
  PROVE  \/ /\ \A q \in Requests \ {r} : entries'[q] = entries[q]
            /\ entries[r].state \in Open /\ entries'[r].state = StateFor(d)
            /\ entries'[r].actual = entries[r].actual /\ entries'[r].origin = entries[r].origin
         \/ entries' = entries /\ entries[r].state \notin Open
<1>1. CASE ReconcileRequest(r, d)
  <2>1. entries[r] \in Entry /\ entries[r].state \in Open
    BY <1>1 DEF ReconcileRequest
  <2>2. entries' = [entries EXCEPT ![r].state = StateFor(d), ![r].saved = @ \cup {"reconcile"}]
    BY <1>1 DEF ReconcileRequest, StateFor
  <2>3. /\ entries'[r].state = StateFor(d)
        /\ entries'[r].actual = entries[r].actual /\ entries'[r].origin = entries[r].origin
    BY <2>1, <2>2 DEF Entry
  <2> QED BY <2>1, <2>2, <2>3
<1>2. CASE /\ ~(FirstCall(r, "reconcile") /\ entries[r].state \in Open)
           /\ UNCHANGED ledgerVars
  <2>1. entries[r].state \in Open => FirstCall(r, "reconcile")
    BY DEF FirstCall, OriginInv, Open
  <2> QED BY <1>2, <2>1 DEF ledgerVars
<1> QED BY <1>1, <1>2 DEF CallReconcile

\* A step that says nothing new about r keeps what is known about it.
LEMMA VerdictFrame ==
  ASSUME NEW r \in Requests, VerdictInv(r),
         entries'[r] = entries[r], handler'[r] = handler[r], row'[r] = row[r],
         \A d \in Disposition : Ruled(r, d)' => Ruled(r, d),
         \A d \in Disposition : <<r, d>> \in verdicts' => <<r, d>> \in verdicts,
         \A o \in Operators : operator'[o].pc \in {"reconcile", "confirm"} /\ operator'[o].req = r =>
            operator[o].pc \in {"reconcile", "confirm"} /\ operator[o].req = r,
         \A x \in Runs : run'[x].pc = "reconcile" /\ r \in run'[x].todo =>
            run[x].pc = "reconcile" /\ r \in run[x].todo
  PROVE  VerdictInv(r)'
<1>1. RulingInv(r)'
  BY DEF VerdictInv, RulingInv
<1>2. RowInv(r)'
  BY DEF VerdictInv, RowInv
<1>3. OriginInv(r)'
  BY DEF VerdictInv, OriginInv
<1> QED BY <1>1, <1>2, <1>3 DEF VerdictInv

\* The reservation of a request nobody has ruled on.
LEMMA AdmitVerdict ==
  ASSUME ReconTypeOK, NEW r \in Requests, VerdictInv(r), Admit(r)
  PROVE  VerdictInv(r)'
<1>0. /\ entries[r] \in Entry /\ handler[r] \in [pc : HandlerLocation, usage : Nat]
      /\ row[r] \in [status : RowStatus, tokens : Nat]
  BY DEF ReconTypeOK, LedgerTypeOK
<1>1. /\ UNCHANGED <<run, operator, verdicts>>
      /\ handler[r].pc = "idle" /\ handler'[r].pc \in {"admitted", "unknown"}
  BY DEF Admit, reconVars, At, Goto, ReconTypeOK
<1>2. /\ entries'[r].state = "reserved" /\ entries'[r].saved = {} /\ entries'[r].origin = "none"
  BY DEF Admit, Reserve, PutReservation, NoEntry, ReconTypeOK, LedgerTypeOK
<1>3. row'[r].status \in {"none", "in_flight"}
  BY DEF Admit, ReconTypeOK
<1>4. \A d \in Disposition : ~Ruled(r, d)
  BY <1>1 DEF VerdictInv, RulingInv
<1>5. \A d \in Disposition : ~Ruled(r, d)' /\ <<r, d>> \notin verdicts'
  BY <1>1, <1>4 DEF Ruled
<1>6. RulingInv(r)'
  BY <1>5 DEF RulingInv
<1>7. RowInv(r)'
  BY <1>1, <1>3 DEF RowInv
<1>8. OriginInv(r)'
  <2>1. \A o \in Operators : ~(operator'[o].pc \in {"reconcile", "confirm"} /\ operator'[o].req = r)
    BY <1>1 DEF VerdictInv, OriginInv
  <2> QED BY <1>1, <1>2, <2>1 DEF OriginInv
<1> QED BY <1>6, <1>7, <1>8 DEF VerdictInv

\* The other steps of the handler: a closed request stays as it was closed.
LEMMA HandlerVerdict ==
  ASSUME ReconTypeOK, ClosingInv, NEW r \in Requests, VerdictInv(r), HandlerStep(r)
  PROVE  VerdictInv(r)'
<1>0. /\ entries \in [Requests -> Entry] /\ entries[r] \in Entry
      /\ handler \in [Requests -> [pc : HandlerLocation, usage : Nat]]
      /\ row \in [Requests -> [status : RowStatus, tokens : Nat]]
  BY DEF ReconTypeOK, LedgerTypeOK
<1>1. UNCHANGED <<run, operator, verdicts>>
  BY DEF HandlerStep, Admit, MarkUnknown, GiveBack, SettleAnswer, MarkAnswer, Audit, HandlerDies,
         reconVars
<1>2. \A d \in Disposition : Ruled(r, d)' <=> Ruled(r, d)
  BY <1>1 DEF Ruled
<1>3. RulingInv(r) /\ RowInv(r) /\ OriginInv(r)
  BY DEF VerdictInv
<1>4. Open = {"reserved", "uncertain"} /\ Disposition = {"consumed", "unused"}
  BY DEF Open, Disposition
<1>5. CASE Admit(r)
  BY <1>5, AdmitVerdict
<1>6. CASE MarkUnknown(r)
  <2>1. /\ handler[r].pc = "unknown" /\ handler'[r].pc = "failed" /\ row' = row
        /\ \A x \in Runs : run[x].pc = "idle"
        /\ Operates(r, {"reserved"}, "uncertain")
        /\ entries[r].state = "reserved" => entries'[r].origin = "reserve_unknown"
    BY <1>0, <1>6, HandlerOperations DEF MarkUnknown, At, Goto, ClosingInv, NewRun
  <2>2. RulingInv(r)'
    BY <1>1, <1>2, <1>3, <1>4, <2>1 DEF RulingInv, Operates, StateFor
  <2>3. RowInv(r)'
    BY <1>3, <2>1 DEF RowInv, Operates
  <2>4. OriginInv(r)'
    BY <1>1, <1>3, <2>1 DEF OriginInv, Operates
  <2> QED BY <2>2, <2>3, <2>4 DEF VerdictInv
<1>7. CASE GiveBack(r)
  <2>1. /\ handler[r].pc = "admitted" /\ handler'[r].pc = "failed" /\ row' = row
        /\ Operates(r, {"reserved"}, "released") /\ entries'[r].origin = entries[r].origin
    BY <1>0, <1>7, HandlerOperations DEF GiveBack, At, Goto
  <2>2. RulingInv(r)'
    BY <1>1, <1>2, <1>3, <1>4, <2>1 DEF RulingInv, Operates, StateFor
  <2>3. RowInv(r)'
    BY <1>3, <2>1 DEF RowInv, Operates
  <2>4. OriginInv(r)'
    BY <1>1, <1>3, <2>1 DEF OriginInv, Operates
  <2> QED BY <2>2, <2>3, <2>4 DEF VerdictInv
<1>8. ASSUME NEW n \in Actuals, SettleAnswer(r, n)
      PROVE  VerdictInv(r)'
  <2>0. handler[r].pc = "admitted" /\ row' = row
    BY <1>8 DEF SettleAnswer, At
  <2>1. CASE Settle(r, n) /\ \E pc \in {"completed", "lost"} :
                handler' = [handler EXCEPT ![r] =
                              [pc |-> pc, usage |-> IF pc = "completed" THEN n ELSE 0]]
    <3>1. /\ Operates(r, {"reserved", "uncertain"}, "settled") /\ entries'[r].origin = entries[r].origin
          /\ entries[r].state \in {"reserved", "uncertain"} => entries'[r].actual = n
      BY <1>0, <1>4, <2>1, HandlerOperations
    <3>2. /\ handler'[r].pc \in {"completed", "lost"}
          /\ handler'[r].pc = "completed" => handler'[r].usage = n
      BY <1>0, <2>1
    <3>3. RulingInv(r)'
      BY <1>1, <1>2, <1>3, <1>4, <2>0, <3>1, <3>2 DEF RulingInv, Operates, StateFor
    <3>4. RowInv(r)'
      BY <1>3, <2>0, <3>1, <3>2 DEF RowInv, OriginInv, Operates
    <3>5. OriginInv(r)'
      BY <1>1, <1>3, <2>0, <3>1, <3>2 DEF OriginInv, Operates
    <3> QED BY <3>3, <3>4, <3>5 DEF VerdictInv
  <2>2. CASE Goto(r, "orphaned") /\ UNCHANGED ledgerVars
    <3>1. handler'[r].pc = "orphaned" /\ entries' = entries
      BY <1>0, <2>2 DEF Goto, ledgerVars
    <3> QED BY <1>1, <1>2, <1>3, <2>0, <3>1 DEF VerdictInv, RulingInv, RowInv, OriginInv
  <2> QED BY <1>8, <2>1, <2>2 DEF SettleAnswer
<1>9. CASE MarkAnswer(r)
  <2>1. /\ handler[r].pc \in {"admitted", "lost"} /\ handler'[r].pc = "uncertain" /\ row' = row
        /\ MarkUncertain(r) \/ entries' = entries
    BY <1>0, <1>9 DEF MarkAnswer, At, Goto, ledgerVars
  <2>2. CASE entries' = entries
    BY <1>1, <1>2, <1>3, <2>1, <2>2 DEF VerdictInv, RulingInv, RowInv, OriginInv
  <2>3. CASE MarkUncertain(r)
    <3>1. /\ Operates(r, {"reserved"}, "uncertain")
          /\ entries'[r].origin = "reserve_unknown" <=> entries[r].origin = "reserve_unknown"
      BY <1>0, <2>3, HandlerOperations
    <3>2. RulingInv(r)'
      BY <1>1, <1>2, <1>3, <1>4, <2>1, <3>1 DEF RulingInv, Operates, StateFor
    <3>3. RowInv(r)'
      BY <1>3, <2>1, <3>1 DEF RowInv, Operates
    <3>4. OriginInv(r)'
      BY <1>1, <1>3, <2>1, <3>1 DEF OriginInv, Operates
    <3> QED BY <3>2, <3>3, <3>4 DEF VerdictInv
  <2> QED BY <2>1, <2>2, <2>3
<1>10. CASE Audit(r)
  <2>1. /\ handler[r].pc \in {"completed", "uncertain", "failed", "orphaned"}
        /\ handler'[r].pc = "done" /\ entries' = entries
        /\ \/ row'[r] = row[r]
           \/ /\ row[r].status \in {"in_flight", "uncertain"}
              /\ row'[r].status = handler[r].pc
              /\ handler[r].pc = "completed" => row'[r].tokens = handler[r].usage
    BY <1>0, <1>10 DEF Audit, At, ledgerVars
  <2>2. RulingInv(r)'
    BY <1>1, <1>2, <1>3, <1>4, <2>1 DEF RulingInv, RowFor
  <2>3. RowInv(r)'
    BY <1>3, <2>1 DEF RowInv
  <2>4. OriginInv(r)'
    BY <1>1, <1>3, <2>1 DEF OriginInv
  <2> QED BY <2>2, <2>3, <2>4 DEF VerdictInv
<1>11. CASE HandlerDies(r)
  <2>1. /\ handler[r].pc \in {"unknown", "admitted", "lost"} /\ handler'[r].pc = "done"
        /\ entries' = entries /\ row' = row
    BY <1>0, <1>11 DEF HandlerDies, Goto, ledgerVars
  <2> QED BY <1>1, <1>2, <1>3, <2>1 DEF VerdictInv, RulingInv, RowInv, OriginInv
<1> QED BY <1>5, <1>6, <1>7, <1>8, <1>9, <1>10, <1>11 DEF HandlerStep

\* A request that is reconciled, now or already, can be ruled consumed.
LEMMA ConsumedRuling ==
  ASSUME NEW r \in Requests, RulingInv(r), UNCHANGED <<handler, row, verdicts>>,
         \A d \in Disposition : Ruled(r, d)' => Ruled(r, d) \/ d = "consumed",
         handler[r].pc # "idle",
         entries[r].state \in Open \cup {"reconciled"}, entries'[r].state = "reconciled"
  PROVE  RulingInv(r)'
<1>1. \A d \in Disposition : Ruled(r, d) => d = "consumed"
  BY DEF RulingInv, StateFor, Open
<1>2. \A d \in Disposition : Ruled(r, d)' => d = "consumed"
  BY <1>1
<1> QED BY <1>2 DEF RulingInv, StateFor

\* A step of a run: what it is about to repair it saw reconciled.
LEMMA RunVerdict ==
  ASSUME ReconTypeOK, ClosingInv, \A r \in Requests : VerdictInv(r),
         NEW x \in Runs, RunStep(x), NEW r \in Requests
  PROVE  VerdictInv(r)'
<1>0. /\ entries \in [Requests -> Entry] /\ entries[r] \in Entry
      /\ row \in [Requests -> [status : RowStatus, tokens : Nat]]
      /\ run \in [Runs -> Run] /\ run[x] \in Run
  BY DEF ReconTypeOK, LedgerTypeOK
<1>1. UNCHANGED <<handler, operator, verdicts>>
  BY DEF RunStep, StartRun, ReadLocal, Snapshot, ReconcileOne, Repair, Candidates,
         CheckCandidate, SnapshotAgain, Recount, WriteReport, RunFails, gatewayVars
<1>2. VerdictInv(r) /\ RulingInv(r) /\ RowInv(r) /\ OriginInv(r)
  BY DEF VerdictInv
<1>3. \A y \in Runs \ {x} : run'[y] = run[y]
  BY <1>0 DEF RunStep, StartRun, ReadLocal, Snapshot, ReconcileOne, Repair,
              Candidates, CheckCandidate, SnapshotAgain, Recount, WriteReport, RunFails
<1>4. \A d \in Disposition :
         \/ Ruled(r, d)' => Ruled(r, d)
         \/ d = "consumed" /\ \E f \in run'[x].fix : f[1] = r
  BY <1>1, <1>3 DEF Ruled
<1>5. (\A f \in run'[x].fix : f \in run[x].fix) => \A d \in Disposition : Ruled(r, d)' => Ruled(r, d)
  BY <1>4 DEF Ruled
<1>6. ASSUME entries' = entries, row' = row, \A f \in run'[x].fix : f \in run[x].fix,
             run'[x].pc = "reconcile" => run[x].pc = "reconcile" /\ run'[x].todo \subseteq run[x].todo
      PROVE  VerdictInv(r)'
  <2>1. \A d \in Disposition : Ruled(r, d)' => Ruled(r, d)
    BY <1>5, <1>6
  <2>2. \A y \in Runs : run'[y].pc = "reconcile" /\ r \in run'[y].todo =>
           run[y].pc = "reconcile" /\ r \in run[y].todo
    BY <1>3, <1>6
  <2> QED BY <1>1, <1>2, <1>6, <2>1, <2>2, VerdictFrame
<1>7. StateFor("consumed") = "reconciled" /\ "consumed" \in Disposition
  BY DEF StateFor, Disposition
<1>8. CASE StartRun(x)
  <2>1. PICK p \in {"ended", "local"} : run' = [run EXCEPT ![x].pc = p]
    BY <1>8 DEF StartRun
  <2>2. run'[x].fix = run[x].fix /\ run'[x].pc # "reconcile"
    BY <1>0, <2>1 DEF Run
  <2> QED BY <1>6, <1>8, <2>2 DEF StartRun, ledgerVars, gatewayVars
<1>9. CASE ReadLocal(x)
  <2>1. run'[x].fix = run[x].fix /\ run'[x].pc # "reconcile"
    BY <1>0, <1>9 DEF ReadLocal, Run
  <2> QED BY <1>6, <1>9, <2>1 DEF ReadLocal, ledgerVars, gatewayVars
<1>10. CASE Candidates(x)
  <2>1. run'[x].fix = run[x].fix /\ run'[x].pc # "reconcile"
    BY <1>0, <1>10 DEF Candidates, Run
  <2> QED BY <1>6, <1>10, <2>1 DEF Candidates, ledgerVars, gatewayVars
<1>11. CASE SnapshotAgain(x)
  <2>1. run'[x].fix = run[x].fix /\ run'[x].pc # "reconcile"
    BY <1>0, <1>11 DEF SnapshotAgain, Run
  <2> QED BY <1>6, <1>11, <2>1 DEF SnapshotAgain, ledgerVars, gatewayVars
<1>12. CASE Recount(x)
  <2>1. run'[x].fix = run[x].fix /\ run'[x].pc # "reconcile"
    BY <1>0, <1>12 DEF Recount, Run
  <2> QED BY <1>6, <1>12, <2>1 DEF Recount, ledgerVars, gatewayVars
<1>13. CASE WriteReport(x) \/ RunFails(x)
  <2>1. run' = [run EXCEPT ![x] = [NewRun EXCEPT !.pc = "ended"]] /\ entries' = entries /\ row' = row
    BY <1>13 DEF WriteReport, RunFails, ledgerVars, gatewayVars
  <2>2. run'[x].fix = {} /\ run'[x].pc # "reconcile"
    BY <1>0, <2>1 DEF NewRun
  <2> QED BY <1>6, <2>1, <2>2
<1>14. CASE Snapshot(x)
  <2>1. PICK n : run' = [run EXCEPT ![x].pc = "reconcile", ![x].openai = n, ![x].seen = Pending,
                             ![x].todo = IF n - run[x].local = Total(Reconcilable, Held)
                                         THEN Reconcilable ELSE {}]
    BY <1>14 DEF Snapshot
  <2>2. run'[x].fix = run[x].fix /\ run'[x].todo \subseteq Reconcilable
    <3> DEFINE T == IF n - run[x].local = Total(Reconcilable, Held) THEN Reconcilable ELSE {}
    <3>1. T \subseteq Reconcilable
      OBVIOUS
    <3>2. run' = [run EXCEPT ![x].pc = "reconcile", ![x].openai = n, ![x].seen = Pending,
                             ![x].todo = T]
      BY <2>1
    <3> HIDE DEF T
    <3> QED BY <1>0, <3>1, <3>2 DEF Run
  <2>3. entries' = entries /\ row' = row
    BY <1>14 DEF Snapshot, ledgerVars, gatewayVars
  <2>4. \A d \in Disposition : Ruled(r, d)' => Ruled(r, d)
    BY <1>5, <2>2
  <2>5. RulingInv(r)' /\ RowInv(r)'
    BY <1>1, <1>2, <2>3, <2>4 DEF RulingInv, RowInv
  <2>6. r \in Reconcilable => entries[r].origin # "reserve_unknown"
    BY DEF Reconcilable
  <2>7. \A y \in Runs : run'[y].pc = "reconcile" /\ r \in run'[y].todo =>
           entries[r].origin # "reserve_unknown"
    BY <1>2, <1>3, <2>2, <2>6 DEF OriginInv
  <2>8. OriginInv(r)'
    BY <1>1, <1>2, <2>3, <2>7 DEF OriginInv
  <2> QED BY <2>5, <2>8 DEF VerdictInv
<1>15. CASE Repair(x)
  <2>1. /\ run[x].fix # {} /\ run' = [run EXCEPT ![x].fix = {}] /\ entries' = entries
    BY <1>15 DEF Repair, ledgerVars
  <2>2. run'[x].fix = {} /\ run'[x].pc = run[x].pc /\ run'[x].todo = run[x].todo
    BY <1>0, <2>1 DEF Run
  <2>3. CASE row'[r] = row[r]
    <3>1. \A d \in Disposition : Ruled(r, d)' => Ruled(r, d)
      BY <1>5, <2>2
    <3>2. \A y \in Runs : run'[y].pc = "reconcile" /\ r \in run'[y].todo =>
             run[y].pc = "reconcile" /\ r \in run[y].todo
      BY <1>3, <2>2
    <3> QED BY <1>1, <1>2, <2>1, <2>3, <3>1, <3>2, VerdictFrame
  <2>4. CASE row'[r] # row[r]
    <3>1. PICK f \in run[x].fix : row' = [row EXCEPT ![f[1]] = [status |-> "completed", tokens |-> f[2]]]
      BY <1>15, <2>4 DEF Repair
    <3>2. f[1] = r /\ row'[r].status = "completed"
      BY <1>0, <2>4, <3>1 DEF Run
    <3>3. Ruled(r, "consumed")
      BY <3>1, <3>2 DEF Ruled
    <3>4. handler[r].pc # "idle" /\ entries[r].state \in {"reconciled", "absent"}
      BY <1>2, <1>7, <3>3 DEF RulingInv
    <3>5. \A d \in Disposition : Ruled(r, d)' => Ruled(r, d)
      BY <1>5, <2>2
    <3>6. \A d \in Disposition : Ruled(r, d) => d = "consumed"
      BY <1>2, <1>7, <3>3 DEF RulingInv
    <3>7. \A d \in Disposition : <<r, d>> \in verdicts => Ruled(r, d)
      BY DEF Ruled
    <3>8. RulingInv(r)'
      BY <1>1, <1>2, <2>1, <3>2, <3>5, <3>6, <3>7 DEF RulingInv, RowFor
    <3>9. RowInv(r)'
      BY <1>1, <1>2, <2>1, <3>2, <3>4 DEF RowInv
    <3>10. OriginInv(r)'
      BY <1>1, <1>2, <1>3, <2>1, <2>2 DEF OriginInv
    <3> QED BY <3>8, <3>9, <3>10 DEF VerdictInv
  <2> QED BY <2>3, <2>4
<1>16. CASE ReconcileOne(x)
  <2>0. UNCHANGED <<handler, row>> /\ RunAt(x, "reconcile") /\ run[x].fix = {}
    BY <1>16 DEF ReconcileOne, gatewayVars
  <2>1. PICK q \in run[x].todo :
          /\ CallReconcile(q, "consumed")
          /\ run' = [run EXCEPT ![x].todo = @ \ {q},
                                ![x].fix = IF Applied(q) \/ ReconciledConsumed(q)
                                           THEN {<<q, entries[q].tokens>>} ELSE {}]
    BY <1>16 DEF ReconcileOne
  <2>2. q \in Requests /\ OriginInv(q) /\ entries[q].origin # "reserve_unknown"
    BY <1>0, <2>0, <2>1 DEF Run, VerdictInv, OriginInv, RunAt
  <2>3. /\ run'[x].pc = run[x].pc /\ run'[x].todo \subseteq run[x].todo
        /\ \A f \in run'[x].fix : f[1] = q /\ (Applied(q) \/ ReconciledConsumed(q))
    <3> DEFINE F == IF Applied(q) \/ ReconciledConsumed(q) THEN {<<q, entries[q].tokens>>} ELSE {}
    <3>1. \A f \in F : f[1] = q /\ (Applied(q) \/ ReconciledConsumed(q))
      OBVIOUS
    <3>2. run' = [run EXCEPT ![x].todo = @ \ {q}, ![x].fix = F]
      BY <2>1
    <3> HIDE DEF F
    <3> QED BY <1>0, <3>1, <3>2 DEF Run
  <2>4. \/ /\ \A p \in Requests \ {q} : entries'[p] = entries[p]
           /\ entries[q].state \in Open /\ entries'[q].state = "reconciled"
           /\ entries'[q].actual = entries[q].actual /\ entries'[q].origin = entries[q].origin
        \/ entries' = entries /\ entries[q].state \notin Open
    BY <1>0, <1>7, <2>1, <2>2, ReconcileOperation
  <2>5. \A y \in Runs : run'[y].pc = "reconcile" /\ r \in run'[y].todo =>
           run[y].pc = "reconcile" /\ r \in run[y].todo
    BY <1>3, <2>3
  <2>6. CASE entries'[r] = entries[r] /\ \A f \in run'[x].fix : f[1] # r
    <3>1. \A d \in Disposition : Ruled(r, d)' => Ruled(r, d)
      BY <1>4, <2>6
    <3> QED BY <1>1, <1>2, <2>0, <2>5, <2>6, <3>1, VerdictFrame
  <2>7. CASE r = q /\ entries'[r].state = "reconciled"
    <3>1. /\ entries[r].state \in Open \cup {"reconciled"}
          /\ entries'[r].origin = entries[r].origin
      BY <2>4, <2>7
    <3>2. entries[r].state # "absent" /\ handler[r].pc # "idle"
      BY <1>2, <3>1 DEF Open, RowInv
    <3>3. \A d \in Disposition : Ruled(r, d)' => Ruled(r, d) \/ d = "consumed"
      BY <1>4
    <3>4. RulingInv(r)'
      BY <1>1, <1>2, <2>0, <2>7, <3>1, <3>2, <3>3, ConsumedRuling
    <3>5. RowInv(r)'
      BY <1>2, <2>0, <2>7, <3>2 DEF RowInv
    <3>6. OriginInv(r)'
      BY <1>1, <1>2, <2>5, <2>7, <3>1, <3>2 DEF OriginInv
    <3> QED BY <3>4, <3>5, <3>6 DEF VerdictInv
  <2>8. CASE r = q /\ entries'[r].state # "reconciled"
    <3>1. entries' = entries /\ entries[q].state \notin Open
      BY <2>4, <2>8
    <3>2. \A f \in run'[x].fix : FALSE
      BY <2>2, <2>3, <2>8, <3>1 DEF Applied, ReconciledConsumed, OriginInv
    <3> QED BY <2>6, <3>1, <3>2
  <2>9. CASE r # q
    BY <2>3, <2>4, <2>6, <2>9
  <2> QED BY <2>7, <2>8, <2>9
<1>17. CASE CheckCandidate(x)
  <2>0. entries' = entries /\ row' = row /\ handler' = handler
    BY <1>17 DEF CheckCandidate, gatewayVars, ledgerVars
  <2>1. PICK q \in run[x].todo :
          run' = [run EXCEPT ![x].todo = @ \ {q},
                             ![x].fix = IF ReconciledConsumed(q) /\ entries[q].origin # "reserve_unknown"
                                        THEN {<<q, entries[q].tokens>>} ELSE {}]
    BY <1>17 DEF CheckCandidate
  <2>2. /\ run'[x].pc = run[x].pc /\ run'[x].todo \subseteq run[x].todo
        /\ \A f \in run'[x].fix : f[1] = q /\ ReconciledConsumed(q)
    <3> DEFINE F == IF ReconciledConsumed(q) /\ entries[q].origin # "reserve_unknown"
                    THEN {<<q, entries[q].tokens>>} ELSE {}
    <3>1. \A f \in F : f[1] = q /\ ReconciledConsumed(q)
      OBVIOUS
    <3>2. run' = [run EXCEPT ![x].todo = @ \ {q}, ![x].fix = F]
      BY <2>1
    <3> HIDE DEF F
    <3> QED BY <1>0, <3>1, <3>2 DEF Run
  <2>3. \A y \in Runs : run'[y].pc = "reconcile" /\ r \in run'[y].todo =>
           run[y].pc = "reconcile" /\ r \in run[y].todo
    BY <1>3, <2>2
  <2>4. CASE \A f \in run'[x].fix : f[1] # r
    <3>1. \A d \in Disposition : Ruled(r, d)' => Ruled(r, d)
      BY <1>4, <2>4
    <3> QED BY <1>1, <1>2, <2>0, <2>3, <3>1, VerdictFrame
  <2>5. CASE \E f \in run'[x].fix : f[1] = r
    <3>1. entries[r].state = "reconciled"
      BY <2>2, <2>5 DEF ReconciledConsumed
    <3>2. handler[r].pc # "idle"
      BY <1>2, <3>1 DEF RowInv
    <3>3. \A d \in Disposition : Ruled(r, d)' => Ruled(r, d) \/ d = "consumed"
      BY <1>4
    <3>4. RulingInv(r)'
      BY <1>1, <1>2, <2>0, <3>1, <3>2, <3>3, ConsumedRuling
    <3>5. RowInv(r)' /\ OriginInv(r)'
      BY <1>1, <1>2, <2>0, <2>3 DEF RowInv, OriginInv
    <3> QED BY <3>4, <3>5 DEF VerdictInv
  <2> QED BY <2>4, <2>5
<1> QED BY <1>8, <1>9, <1>10, <1>11, <1>12, <1>13, <1>14, <1>15, <1>16, <1>17 DEF RunStep

\* A step of an operator call: a verdict is what the ledger confirmed.
LEMMA OperatorVerdict ==
  ASSUME ReconTypeOK, \A r \in Requests : VerdictInv(r),
         NEW o \in Operators, OperatorStep(o), NEW r \in Requests
  PROVE  VerdictInv(r)'
<1>0. /\ entries \in [Requests -> Entry] /\ entries[r] \in Entry
      /\ row \in [Requests -> [status : RowStatus, tokens : Nat]]
      /\ operator \in [Operators -> OperatorCall] /\ operator[o] \in OperatorCall
  BY DEF ReconTypeOK, LedgerTypeOK
<1> DEFINE q == operator[o].req
           d0 == operator[o].disp
<1>1. UNCHANGED <<handler, run>> /\ q \in Requests /\ d0 \in Disposition
  BY <1>0 DEF OperatorStep, OperatorLooks, OperatorReconciles, OperatorConfirms, OperatorProjects,
         OperatorFails, gatewayVars, OperatorCall
<1>2. VerdictInv(r) /\ RulingInv(r) /\ RowInv(r) /\ OriginInv(r)
  BY DEF VerdictInv
<1>3. \A p \in Operators \ {o} : operator'[p] = operator[p]
  BY <1>0 DEF OperatorStep, OperatorLooks, OperatorReconciles, OperatorConfirms, OperatorProjects,
         OperatorFails, OperatorGoto
<1>4. operator'[o].req = q /\ operator'[o].disp = d0
  BY <1>0 DEF OperatorStep, OperatorLooks, OperatorReconciles, OperatorConfirms, OperatorProjects,
         OperatorFails, OperatorGoto, OperatorCall
<1>5. ASSUME UNCHANGED <<entries, row, verdicts>>, operator'[o].pc = "ended"
      PROVE  VerdictInv(r)'
  <2>1. \A d \in Disposition : Ruled(r, d)' => Ruled(r, d)
    BY <1>1, <1>3, <1>5 DEF Ruled
  <2>2. \A p \in Operators : operator'[p].pc \in {"reconcile", "confirm"} /\ operator'[p].req = r =>
            operator[p].pc \in {"reconcile", "confirm"} /\ operator[p].req = r
    BY <1>3, <1>5
  <2> QED BY <1>1, <1>2, <1>5, <2>1, <2>2, VerdictFrame
<1> HIDE DEF q, d0
<1>6. StateFor(d0) \in {"reconciled", "released"}
  BY DEF StateFor
<1>7. \A d \in Disposition : StateFor(d) = StateFor(d0) => d = d0
  BY <1>1 DEF StateFor, Disposition
<1>8. ASSUME OperatorLooks(o) PROVE VerdictInv(r)'
  <2>0. UNCHANGED <<entries, row, verdicts>> /\ operator[o].pc = "idle"
    BY <1>8 DEF OperatorLooks, ledgerVars, gatewayVars, OperatorAt
  <2>1. CASE operator'[o].pc = "ended"
    BY <1>5, <2>0, <2>1
  <2>2. CASE operator'[o].pc # "ended"
    <3>1. /\ operator'[o].pc = "reconcile" /\ entries[q].origin = "reserve_unknown"
          /\ entries[q].state \in {"uncertain", StateFor(d0)}
      BY <1>0, <1>8, <2>2 DEF OperatorLooks, OperatorGoto, OperatorCall, q, d0
    <3>2. entries[q].state # "absent" /\ handler[q].pc # "idle"
      BY <1>1, <1>6, <3>1 DEF VerdictInv, RowInv
    <3>3. \A d \in Disposition : Ruled(r, d)' => Ruled(r, d)
      BY <1>1, <1>3, <2>0, <3>1 DEF Ruled
    <3>4. RulingInv(r)' /\ RowInv(r)'
      BY <1>1, <1>2, <2>0, <3>3 DEF RulingInv, RowInv
    <3>5. \A p \in Operators : operator'[p].pc \in {"reconcile", "confirm"} /\ operator'[p].req = r =>
            /\ handler[r].pc # "idle"
            /\ entries[r].origin = "reserve_unknown" \/ entries[r].state = "absent"
      BY <1>2, <1>3, <1>4, <3>1, <3>2 DEF OriginInv
    <3>6. OriginInv(r)'
      BY <1>1, <1>2, <2>0, <3>5 DEF OriginInv
    <3> QED BY <3>4, <3>6 DEF VerdictInv
  <2> QED BY <2>1, <2>2
<1>9. ASSUME OperatorReconciles(o) PROVE VerdictInv(r)'
  <2>0. /\ UNCHANGED <<row, verdicts>> /\ operator[o].pc = "reconcile"
        /\ operator'[o].pc = "confirm" /\ CallReconcile(q, d0)
    BY <1>0, <1>9 DEF OperatorReconciles, gatewayVars, OperatorAt, OperatorGoto, OperatorCall, q, d0
  <2>1. OriginInv(q)
    BY <1>1 DEF VerdictInv
  <2>2. \/ /\ \A p \in Requests \ {q} : entries'[p] = entries[p]
           /\ entries[q].state \in Open /\ entries'[q].state = StateFor(d0)
           /\ entries'[q].actual = entries[q].actual /\ entries'[q].origin = entries[q].origin
        \/ entries' = entries /\ entries[q].state \notin Open
    BY <1>0, <1>1, <2>0, <2>1, ReconcileOperation
  <2>3. \A d \in Disposition : Ruled(r, d)' => Ruled(r, d)
    BY <1>1, <1>3, <2>0 DEF Ruled
  <2>4. \A p \in Operators : operator'[p].pc \in {"reconcile", "confirm"} /\ operator'[p].req = r =>
            operator[p].pc \in {"reconcile", "confirm"} /\ operator[p].req = r
    BY <1>3, <1>4, <2>0 DEF q
  <2>5. CASE entries'[r] = entries[r]
    BY <1>1, <1>2, <2>0, <2>3, <2>4, <2>5, VerdictFrame
  <2>6. CASE entries'[r] # entries[r]
    <3>1. /\ r = q /\ entries[r].state \in {"reserved", "uncertain"} /\ entries'[r].state = StateFor(d0)
          /\ entries'[r].origin = entries[r].origin
      BY <2>2, <2>6 DEF Open
    <3>2. entries[r].origin = "reserve_unknown"
      BY <1>2, <2>0, <3>1 DEF OriginInv, q
    <3>3. handler[r].pc \notin {"admitted", "completed", "idle"} /\ row[r].status # "completed"
      BY <1>2, <3>1, <3>2 DEF OriginInv, RowInv
    <3>4. \A d \in Disposition : ~Ruled(r, d)
      BY <1>2, <3>1 DEF RulingInv, StateFor
    <3>5. \A d \in Disposition : ~Ruled(r, d)' /\ <<r, d>> \notin verdicts'
      BY <2>3, <3>4 DEF Ruled
    <3>6. RulingInv(r)'
      BY <3>5 DEF RulingInv
    <3>7. RowInv(r)'
      BY <1>1, <2>0, <3>3 DEF RowInv
    <3>8. OriginInv(r)'
      BY <1>1, <1>2, <1>6, <2>4, <3>1, <3>2, <3>3 DEF OriginInv
    <3> QED BY <3>6, <3>7, <3>8 DEF VerdictInv
  <2> QED BY <2>5, <2>6
<1>10. ASSUME OperatorConfirms(o) PROVE VerdictInv(r)'
  <2>0. UNCHANGED <<entries, row, verdicts>>
    BY <1>10 DEF OperatorConfirms, ledgerVars, gatewayVars
  <2>1. CASE operator'[o].pc = "ended"
    BY <1>5, <2>0, <2>1
  <2>2. CASE operator'[o].pc # "ended"
    <3>1. operator'[o].pc = "project" /\ entries[q].state = StateFor(d0)
      BY <1>0, <1>10, <2>2 DEF OperatorConfirms, OperatorGoto, OperatorCall, q, d0
    <3>2. entries[q].state # "absent" /\ handler[q].pc # "idle"
      BY <1>1, <1>6, <3>1 DEF VerdictInv, RowInv
    <3>3. \A d \in Disposition : Ruled(r, d)' => Ruled(r, d) \/ (r = q /\ d = d0)
      BY <1>1, <1>3, <1>4, <2>0 DEF Ruled
    <3>4. r = q => \A d \in Disposition : Ruled(r, d) => d = d0
      BY <1>2, <1>7, <3>1, <3>2 DEF RulingInv
    <3>5. RulingInv(r)'
      BY <1>1, <1>2, <2>0, <3>1, <3>2, <3>3, <3>4 DEF RulingInv
    <3>6. RowInv(r)'
      BY <1>1, <1>2, <2>0 DEF RowInv
    <3>7. OriginInv(r)'
      BY <1>1, <1>2, <1>3, <2>0, <3>1 DEF OriginInv
    <3> QED BY <3>5, <3>6, <3>7 DEF VerdictInv
  <2> QED BY <2>1, <2>2
<1>11. ASSUME OperatorProjects(o) PROVE VerdictInv(r)'
  <2>0. /\ entries' = entries /\ verdicts' = verdicts \cup {<<q, d0>>}
        /\ operator[o].pc = "project" /\ operator'[o].pc = "ended"
    BY <1>0, <1>11 DEF OperatorProjects, ledgerVars, OperatorAt, OperatorGoto, OperatorCall, q, d0
  <2>1. \/ row'[r] = row[r] /\ (r = q => row[r].status = "none")
        \/ r = q /\ row'[r].status = RowFor(d0)
    BY <1>0, <1>1, <1>11 DEF OperatorProjects, RowFor, q, d0
  <2>2. Ruled(q, d0)
    BY <2>0 DEF Ruled, q, d0
  <2>3. \A d \in Disposition : Ruled(r, d)' => Ruled(r, d)
    BY <1>1, <1>3, <2>0, <2>2 DEF Ruled
  <2>4. r = q => \A d \in Disposition : Ruled(r, d) => d = d0
    BY <1>1, <1>2, <2>2 DEF RulingInv
  <2>5. \A d \in Disposition : <<r, d>> \in verdicts' => Ruled(r, d)
    BY <2>0, <2>2 DEF Ruled
  <2>6. \A d \in Disposition : <<r, d>> \in verdicts' => row'[r].status \in {"none", RowFor(d)}
    <3>1. CASE r = q
      BY <2>1, <2>4, <2>5, <3>1
    <3>2. CASE r # q
      BY <1>2, <2>0, <2>1, <3>2 DEF RulingInv
    <3> QED BY <3>1, <3>2
  <2>7. RulingInv(r)'
    BY <1>1, <1>2, <2>0, <2>3, <2>6 DEF RulingInv
  <2>8. RowInv(r)'
    <3>1. r = q => handler[r].pc # "idle" /\ entries[r].state \in {StateFor(d0), "absent"}
      BY <1>1, <1>2, <2>2 DEF RulingInv
    <3>2. row'[r] = row[r] \/ (r = q /\ row'[r].status = RowFor(d0))
      BY <2>1
    <3> QED BY <1>1, <1>2, <2>0, <3>1, <3>2 DEF RowInv, RowFor, StateFor
  <2>9. OriginInv(r)'
    BY <1>1, <1>2, <1>3, <2>0 DEF OriginInv
  <2> QED BY <2>7, <2>8, <2>9 DEF VerdictInv
<1>12. ASSUME OperatorFails(o) PROVE VerdictInv(r)'
  <2>1. UNCHANGED <<entries, row, verdicts>> /\ operator'[o].pc = "ended"
    BY <1>0, <1>12 DEF OperatorFails, ledgerVars, gatewayVars, OperatorGoto, OperatorCall
  <2> QED BY <1>5, <2>1
<1> QED BY <1>8, <1>9, <1>10, <1>11, <1>12 DEF OperatorStep

\* Every step keeps what is known about every request.
LEMMA VerdictStep ==
  ASSUME ReconTypeOK, ClosingInv, \A r \in Requests : VerdictInv(r), [ReconNext]_vars,
         NEW r \in Requests
  PROVE  VerdictInv(r)'
<1>1. ASSUME UNCHANGED <<handler, row, operator, verdicts, run>>,
             entries' = entries \/ entries' = [q \in Requests |-> NoEntry]
      PROVE  VerdictInv(r)'
  <2>1. \A d \in Disposition : Ruled(r, d)' <=> Ruled(r, d)
    BY <1>1 DEF Ruled
  <2>2. CASE entries' = entries
    BY <1>1, <2>1, <2>2, VerdictFrame
  <2>3. CASE entries' = [q \in Requests |-> NoEntry]
    <3>1. entries'[r].state = "absent" /\ entries'[r].saved = {} /\ entries'[r].origin = "none"
      BY <2>3 DEF NoEntry
    <3> QED BY <1>1, <2>1, <3>1 DEF VerdictInv, RulingInv, RowInv, OriginInv
  <2> QED BY <1>1, <2>2, <2>3
<1>2. ASSUME NEW q \in Requests, HandlerStep(q)
      PROVE  VerdictInv(r)'
  <2>1. CASE r = q
    BY <1>2, <2>1, HandlerVerdict
  <2>2. CASE r # q
    <3>0. /\ entries \in [Requests -> Entry]
          /\ handler \in [Requests -> [pc : HandlerLocation, usage : Nat]]
          /\ row \in [Requests -> [status : RowStatus, tokens : Nat]]
      BY DEF ReconTypeOK, LedgerTypeOK
    <3>1. UNCHANGED <<run, operator, verdicts>>
      BY <1>2 DEF HandlerStep, Admit, MarkUnknown, GiveBack, SettleAnswer, MarkAnswer, Audit,
                  HandlerDies, reconVars
    <3>2. entries'[r] = entries[r]
      BY <1>2, <2>2, <3>0 DEF HandlerStep, Admit, MarkUnknown, GiveBack, SettleAnswer, MarkAnswer, Audit,
                  HandlerDies, Reserve, PutReservation, Settle, MarkUncertain, BecomeUncertain,
                  MarkReserveOutcomeUnknown, Release, RecordOnly, ledgerVars
    <3>3. handler'[r] = handler[r] /\ row'[r] = row[r]
      BY <1>2, <2>2, <3>0 DEF HandlerStep, Admit, MarkUnknown, GiveBack, SettleAnswer, MarkAnswer, Audit,
                  HandlerDies, Goto
    <3>4. \A d \in Disposition : Ruled(r, d)' <=> Ruled(r, d)
      BY <3>1 DEF Ruled
    <3> QED BY <3>1, <3>2, <3>3, <3>4, VerdictFrame
  <2> QED BY <2>1, <2>2
<1>3. CASE SweepDeletes
  BY <1>1, <1>3 DEF SweepDeletes, DeleteAll, gatewayVars
<1>4. CASE SweepSelects \/ SweepFinalizes \/ SweepFails \/ SweepMarks \/ PhaseEnds \/ UNCHANGED vars
  BY <1>1, <1>4 DEF SweepSelects, SweepFinalizes, SweepFails, SweepMarks, PhaseEnds, vars, gatewayVars,
                    reconVars, ledgerVars, FinalizeDay, DeleteAllLost
<1> QED BY <1>2, <1>3, <1>4, RunVerdict, OperatorVerdict DEF ReconNext

\* Nobody knows anything about a request that has not been made.
LEMMA VerdictInit == ReconInit => \A r \in Requests : VerdictInv(r)
<1>1. ASSUME ReconInit, NEW r \in Requests
      PROVE  VerdictInv(r)
  <2>1. /\ entries[r] = NoEntry /\ handler[r].pc = "idle" /\ row[r].status = "none" /\ verdicts = {}
        /\ run = [x \in Runs |-> NewRun]
        /\ \A o \in Operators : operator[o].pc = "idle"
    BY <1>1 DEF ReconInit, LedgerInit, NewOperator
  <2>2. \A x \in Runs : run[x].pc = "idle" /\ run[x].fix = {}
    BY <2>1 DEF NewRun
  <2>3. \A d \in Disposition : ~Ruled(r, d)
    BY <2>1, <2>2 DEF Ruled
  <2>4. RulingInv(r)
    BY <2>1, <2>3 DEF RulingInv
  <2>5. RowInv(r)
    BY <2>1 DEF RowInv, NoEntry
  <2>6. OriginInv(r)
    BY <2>1, <2>2 DEF OriginInv, NoEntry
  <2> QED BY <2>4, <2>5, <2>6 DEF VerdictInv
<1> QED BY <1>1

\* What everyone knows about every request is kept, for any number of requests,
\* runs and operators, when every run starts after the last reservation.
THEOREM ReconVerdicts ==
  ASSUME RunPhases \subseteq {"closing"}
  PROVE  ReconSpec => [](ReconTypeOK /\ ClosingInv /\ \A r \in Requests : VerdictInv(r))
<1> DEFINE AllVerdicts == \A r \in Requests : VerdictInv(r)
<1>1. ReconInit => ClosingInv /\ AllVerdicts
  BY VerdictInit DEF ReconInit, ClosingInv, ClosedDayIsEmpty, NewRun
<1>2. ReconTypeOK /\ ClosingInv /\ [ReconNext]_vars => ClosingInv'
  BY ClosingStep
<1>3. ReconTypeOK /\ ClosingInv /\ AllVerdicts /\ [ReconNext]_vars => AllVerdicts'
  BY VerdictStep
<1> HIDE DEF AllVerdicts
<1>4. ReconSpec => [](ReconTypeOK /\ ClosingInv /\ AllVerdicts)
  BY <1>1, <1>2, <1>3, ReconTypeCorrect, PTL DEF ReconSpec
<1> QED BY <1>4 DEF AllVerdicts

\* What D1 reports as completed is charged in the ledger: settled with exactly
\* that usage, or reconciled as consumed, until the day is wiped, whichever of
\* handler, runs and operators wrote the row and in whatever order.
THEOREM ReconCompletedIsCharged ==
  ASSUME RunPhases \subseteq {"closing"}
  PROVE  ReconSpec => []CompletedIsCharged
<1> DEFINE AllVerdicts == \A r \in Requests : VerdictInv(r)
<1>1. AllVerdicts => CompletedIsCharged
  BY DEF VerdictInv, RowInv, CompletedIsCharged
<1>2. ReconSpec => [](ReconTypeOK /\ ClosingInv /\ AllVerdicts)
  BY ReconVerdicts
<1> HIDE DEF AllVerdicts
<1> QED BY <1>1, <1>2, PTL

\* An operator who was answered ok can rely on it: neither a late handler, a run
\* that repairs rows nor an operator with the other disposition undoes it.
THEOREM ReconVerdictsHold ==
  ASSUME RunPhases \subseteq {"closing"}
  PROVE  ReconSpec => []OperatorVerdictsHold
<1> DEFINE AllVerdicts == \A r \in Requests : VerdictInv(r)
<1>1. ReconTypeOK /\ AllVerdicts => OperatorVerdictsHold
  <2> SUFFICES ASSUME ReconTypeOK, AllVerdicts, NEW v \in verdicts
               PROVE  /\ entries[v[1]].state \in {StateFor(v[2]), "absent"}
                      /\ row[v[1]].status \in {"none", IF v[2] = "consumed" THEN "completed" ELSE "failed"}
    BY DEF OperatorVerdictsHold
  <2>1. PICK r \in Requests, d \in Disposition : v = <<r, d>>
    BY DEF ReconTypeOK
  <2>2. RulingInv(r) /\ Ruled(r, d)
    BY <2>1 DEF VerdictInv, Ruled
  <2>3. entries[r].state \in {StateFor(d), "absent"} /\ row[r].status \in {"none", RowFor(d)}
    BY <2>1, <2>2 DEF RulingInv
  <2> QED BY <2>1, <2>3 DEF RowFor
<1>2. ReconSpec => [](ReconTypeOK /\ ClosingInv /\ AllVerdicts)
  BY ReconVerdicts
<1> HIDE DEF AllVerdicts
<1> QED BY <1>1, <1>2, PTL

(***************************************************************************)
(* What is given back was not used. A request that a handler gave back or  *)
(* that an operator may judge was never sent, and its handler cannot send  *)
(* it any more. This does not depend on when runs start.                   *)
(***************************************************************************)

\* r is open to being given back: it was, or an operator may be about to.
Returnable(r) ==
    \/ entries[r].state = "released"
    \/ entries[r].origin = "reserve_unknown"
    \/ \E o \in Operators : operator[o].pc = "reconcile" /\ operator[o].req = r

GivenBackInv(r) ==
    /\ handler[r].pc \in {"idle", "unknown", "admitted", "failed"} => ~MayBeUsed(r)
    /\ Returnable(r) => ~MayBeUsed(r) /\ handler[r].pc \in {"failed", "done"}

\* A step that lets r be given back only if it was before keeps the fact when
\* handler and row stay and the entry records no answer of the upstream.
LEMMA GivenBackFrame ==
  ASSUME NEW r \in Requests, GivenBackInv(r), handler'[r] = handler[r],
         row'[r].status = row[r].status \/ row'[r].status \notin {"uncertain", "orphaned"},
         entries'[r].saved \cap {"settle", "markUncertain"}
            \subseteq entries[r].saved \cap {"settle", "markUncertain"},
         Returnable(r)' => Returnable(r)
  PROVE  GivenBackInv(r)'
<1>1. ~MayBeUsed(r) => ~MayBeUsed(r)'
  BY Zenon DEF MayBeUsed
<1> QED BY <1>1 DEF GivenBackInv

\* The handler of r keeps it.
LEMMA GivenBackHandler ==
  ASSUME ReconTypeOK, NEW r \in Requests, GivenBackInv(r), HandlerStep(r)
  PROVE  GivenBackInv(r)'
<1>0. /\ entries \in [Requests -> Entry] /\ entries[r] \in Entry
      /\ handler \in [Requests -> [pc : HandlerLocation, usage : Nat]]
      /\ row \in [Requests -> [status : RowStatus, tokens : Nat]]
      /\ operator' = operator
  BY HandlerStepType DEF ReconTypeOK, LedgerTypeOK
<1>1. CASE Admit(r)
  <2>1. handler[r].pc = "idle" /\ handler'[r].pc \in {"admitted", "unknown"}
    BY <1>0, <1>1 DEF Admit, At, Goto
  <2>2. ~MayBeUsed(r) /\ ~Returnable(r)
    BY <2>1 DEF GivenBackInv
  <2>3. /\ entries'[r].saved = {} /\ entries'[r].state = "reserved" /\ entries'[r].origin = "none"
        /\ row'[r].status \in {"none", "in_flight"}
    BY <1>0, <1>1 DEF Admit, Reserve, PutReservation, NoEntry
  <2>4. ~MayBeUsed(r)' /\ ~Returnable(r)'
    BY <1>0, <2>1, <2>2, <2>3 DEF MayBeUsed, Returnable
  <2> QED BY <2>4 DEF GivenBackInv
<1>2. CASE MarkUnknown(r) \/ GiveBack(r)
  <2>1. /\ handler[r].pc \in {"unknown", "admitted"} /\ handler'[r].pc = "failed" /\ row' = row
        /\ entries'[r].saved \subseteq entries[r].saved \cup {"markReserveOutcomeUnknown", "release"}
    BY <1>0, <1>2 DEF MarkUnknown, GiveBack, At, Goto, MarkReserveOutcomeUnknown, BecomeUncertain,
                      Release, RecordOnly, Entry
  <2>2. ~MayBeUsed(r)
    BY <2>1 DEF GivenBackInv
  <2>3. ~MayBeUsed(r)'
    BY <2>1, <2>2 DEF MayBeUsed
  <2> QED BY <2>1, <2>3 DEF GivenBackInv
<1>3. ASSUME NEW n \in Actuals, SettleAnswer(r, n)
      PROVE  GivenBackInv(r)'
  <2>1. handler[r].pc = "admitted" /\ handler'[r].pc \in {"completed", "lost", "orphaned"}
    BY <1>0, <1>3 DEF SettleAnswer, At, Goto
  <2>2. ~Returnable(r)
    BY <2>1 DEF GivenBackInv
  <2>3. entries'[r].state \in {entries[r].state, "settled"} /\ entries'[r].origin = entries[r].origin
    BY <1>0, <1>3 DEF SettleAnswer, Settle, RecordOnly, ledgerVars, Entry
  <2>4. ~Returnable(r)'
    BY <1>0, <2>2, <2>3 DEF Returnable
  <2> QED BY <2>1, <2>4 DEF GivenBackInv
<1>4. CASE MarkAnswer(r)
  <2>1. handler[r].pc \in {"admitted", "lost"} /\ handler'[r].pc = "uncertain"
    BY <1>0, <1>4 DEF MarkAnswer, At, Goto
  <2>2. ~Returnable(r)
    BY <2>1 DEF GivenBackInv
  <2>3. /\ entries'[r].state \in {entries[r].state, "uncertain"}
        /\ entries'[r].origin \in {entries[r].origin, "upstream_uncertain"}
    BY <1>0, <1>4 DEF MarkAnswer, MarkUncertain, BecomeUncertain, RecordOnly, ledgerVars, Entry
  <2>4. ~Returnable(r)'
    BY <1>0, <2>2, <2>3 DEF Returnable
  <2> QED BY <2>1, <2>4 DEF GivenBackInv
<1>5. CASE Audit(r)
  <2>1. /\ handler[r].pc \in {"completed", "uncertain", "failed", "orphaned"} /\ handler'[r].pc = "done"
        /\ entries' = entries /\ row'[r].status \in {row[r].status, handler[r].pc}
    BY <1>0, <1>5 DEF Audit, ledgerVars
  <2>2. Returnable(r)' <=> Returnable(r)
    BY <1>0, <2>1 DEF Returnable
  <2>3. Returnable(r) => handler[r].pc = "failed" /\ ~MayBeUsed(r)
    BY <2>1 DEF GivenBackInv
  <2>4. Returnable(r) => ~MayBeUsed(r)'
    BY <2>1, <2>3 DEF MayBeUsed
  <2> QED BY <2>1, <2>2, <2>4 DEF GivenBackInv
<1>6. CASE HandlerDies(r)
  <2>1. /\ handler[r].pc \in {"unknown", "admitted", "lost"} /\ handler'[r].pc = "done"
        /\ entries' = entries
    BY <1>0, <1>6 DEF HandlerDies, Goto, ledgerVars
  <2>2. ~Returnable(r)'
    BY <1>0, <2>1 DEF Returnable, GivenBackInv
  <2> QED BY <2>1, <2>2 DEF GivenBackInv
<1> QED BY <1>1, <1>2, <1>3, <1>4, <1>5, <1>6 DEF HandlerStep

\* A step of another handler is about another request.
LEMMA GivenBackOtherHandler ==
  ASSUME ReconTypeOK, NEW r \in Requests, GivenBackInv(r), NEW q \in Requests \ {r}, HandlerStep(q)
  PROVE  GivenBackInv(r)'
<1>0. /\ entries \in [Requests -> Entry]
      /\ handler \in [Requests -> [pc : HandlerLocation, usage : Nat]]
      /\ row \in [Requests -> [status : RowStatus, tokens : Nat]]
      /\ operator' = operator
  BY HandlerStepType DEF ReconTypeOK, LedgerTypeOK
<1>1. entries'[r] = entries[r]
  BY <1>0 DEF HandlerStep, Admit, MarkUnknown, GiveBack, SettleAnswer, MarkAnswer, Audit,
              HandlerDies, Reserve, PutReservation, Settle, MarkUncertain, BecomeUncertain,
              MarkReserveOutcomeUnknown, Release, RecordOnly, ledgerVars
<1>2. handler'[r] = handler[r] /\ row'[r] = row[r]
  BY <1>0 DEF HandlerStep, Admit, MarkUnknown, GiveBack, SettleAnswer, MarkAnswer, Audit,
              HandlerDies, Goto
<1>3. Returnable(r)' <=> Returnable(r)
  BY <1>0, <1>1 DEF Returnable
<1> QED BY <1>1, <1>2, <1>3, GivenBackFrame

\* What reconcileRequest makes of an entry, whoever calls it.
LEMMA ReconcileCalled ==
  ASSUME ReconTypeOK, NEW q \in Requests, NEW d \in Disposition, CallReconcile(q, d), NEW r \in Requests
  PROVE  /\ entries'[r].origin = entries[r].origin
         /\ entries'[r].saved \subseteq entries[r].saved \cup {"reconcile"}
         /\ entries'[r].state \in {entries[r].state, "reconciled"} \/ (r = q /\ d # "consumed")
<1>1. entries \in [Requests -> Entry]
  BY DEF ReconTypeOK, LedgerTypeOK
<1>2. CASE ReconcileRequest(q, d)
  <2>1. CASE r # q
    BY <1>1, <1>2, <2>1 DEF ReconcileRequest
  <2>2. CASE r = q
    <3>1. entries'[q] = [entries[q] EXCEPT !.state = IF d = "consumed" THEN "reconciled" ELSE "released",
                                           !.saved = @ \cup {"reconcile"}]
      BY <1>1, <1>2 DEF ReconcileRequest
    <3>2. entries[q] \in Entry
      BY <1>1
    <3>3. /\ entries'[q].origin = entries[q].origin
          /\ entries'[q].saved = entries[q].saved \cup {"reconcile"}
          /\ entries'[q].state = IF d = "consumed" THEN "reconciled" ELSE "released"
      BY <3>1, <3>2 DEF Entry
    <3> QED BY <2>2, <3>3, Zenon
  <2> QED BY <2>1, <2>2
<1>3. CASE UNCHANGED ledgerVars
  BY <1>3 DEF ledgerVars
<1> QED BY <1>2, <1>3 DEF CallReconcile

\* A run gives nothing back, whatever it read and whenever it started.
LEMMA GivenBackRun ==
  ASSUME ReconTypeOK, NEW r \in Requests, GivenBackInv(r), NEW x \in Runs, RunStep(x)
  PROVE  GivenBackInv(r)'
<1>0. row \in [Requests -> [status : RowStatus, tokens : Nat]] /\ run \in [Runs -> Run]
  BY DEF ReconTypeOK
<1>1. handler' = handler /\ operator' = operator
  BY DEF RunStep, StartRun, ReadLocal, Snapshot, ReconcileOne, Repair, Candidates, CheckCandidate,
         SnapshotAgain, Recount, WriteReport, RunFails, gatewayVars
<1>2. row'[r].status \in {row[r].status, "completed"}
  <2>1. CASE Repair(x)
    <3>1. \/ row' = row
          \/ \E f \in run[x].fix :
                row' = [row EXCEPT ![f[1]] = [status |-> "completed", tokens |-> f[2]]]
      BY <2>1 DEF Repair
    <3>2. ASSUME NEW f, row' = [row EXCEPT ![f[1]] = [status |-> "completed", tokens |-> f[2]]]
          PROVE  row'[r].status \in {row[r].status, "completed"}
      <4>1. CASE f[1] = r
        BY <1>0, <3>2, <4>1
      <4>2. CASE f[1] # r
        BY <1>0, <3>2, <4>2
      <4> QED BY <4>1, <4>2
    <3> QED BY <3>1, <3>2
  <2>2. CASE ~Repair(x)
    BY <2>2 DEF RunStep, StartRun, ReadLocal, Snapshot, ReconcileOne, Candidates, CheckCandidate,
                SnapshotAgain, Recount, WriteReport, RunFails, gatewayVars
  <2> QED BY <2>1, <2>2
<1>3. /\ entries'[r].origin = entries[r].origin
      /\ entries'[r].saved \subseteq entries[r].saved \cup {"reconcile"}
      /\ entries'[r].state \in {entries[r].state, "reconciled"}
  <2>1. CASE ReconcileOne(x)
    <3>1. PICK q \in run[x].todo : CallReconcile(q, "consumed")
      BY <2>1 DEF ReconcileOne
    <3>2. q \in Requests /\ "consumed" \in Disposition
      BY <1>0, <3>1 DEF Run, Disposition
    <3> QED BY <3>1, <3>2, ReconcileCalled
  <2>2. CASE ~ReconcileOne(x)
    BY <2>2 DEF RunStep, StartRun, ReadLocal, Snapshot, Repair, Candidates, CheckCandidate,
                SnapshotAgain, Recount, WriteReport, RunFails, ledgerVars
  <2> QED BY <2>1, <2>2
<1>4. Returnable(r)' => Returnable(r)
  BY <1>1, <1>3 DEF Returnable
<1> QED BY <1>1, <1>2, <1>3, <1>4, GivenBackFrame

\* An operator gives back only a request it was allowed to judge.
LEMMA GivenBackOperator ==
  ASSUME ReconTypeOK, NEW r \in Requests, GivenBackInv(r), NEW o \in Operators, OperatorStep(o)
  PROVE  GivenBackInv(r)'
<1>0. /\ row \in [Requests -> [status : RowStatus, tokens : Nat]]
      /\ operator \in [Operators -> OperatorCall]
      /\ operator[o].req \in Requests /\ operator[o].disp \in Disposition
  BY DEF ReconTypeOK, OperatorCall
<1>1. handler' = handler
  BY DEF OperatorStep, OperatorLooks, OperatorReconciles, OperatorConfirms, OperatorProjects,
         OperatorFails, gatewayVars
<1>2. row'[r].status \in {row[r].status, "completed", "failed"}
  BY <1>0 DEF OperatorStep, OperatorLooks, OperatorReconciles, OperatorConfirms, OperatorProjects,
         OperatorFails, gatewayVars
<1>3. \A p \in Operators : operator'[p].pc = "reconcile" =>
         /\ operator'[p].req = operator[p].req
         /\ \/ operator[p].pc = "reconcile"
            \/ entries[operator[p].req].origin = "reserve_unknown"
  <2>1. CASE OperatorLooks(o)
    <3>1. /\ operator'[o].req = operator[o].req
          /\ operator'[o].pc = "reconcile" => entries[operator[o].req].origin = "reserve_unknown"
      BY <1>0, <2>1 DEF OperatorLooks, OperatorGoto, OperatorCall
    <3>2. \A p \in Operators \ {o} : operator'[p] = operator[p]
      BY <1>0, <2>1 DEF OperatorLooks, OperatorGoto
    <3> QED BY <3>1, <3>2
  <2>2. CASE ~OperatorLooks(o)
    <3>1. operator'[o].pc # "reconcile" /\ \A p \in Operators \ {o} : operator'[p] = operator[p]
      BY <1>0, <2>2 DEF OperatorStep, OperatorReconciles, OperatorConfirms, OperatorProjects,
                        OperatorFails, OperatorGoto, OperatorCall
    <3> QED BY <3>1
  <2> QED BY <2>1, <2>2
<1>4. CASE OperatorReconciles(o)
  <2>1. operator[o].pc = "reconcile" /\ CallReconcile(operator[o].req, operator[o].disp)
    BY <1>4 DEF OperatorReconciles, OperatorAt
  <2>2. /\ entries'[r].origin = entries[r].origin
        /\ entries'[r].saved \subseteq entries[r].saved \cup {"reconcile"}
        /\ entries'[r].state \in {entries[r].state, "reconciled"} \/ r = operator[o].req
    BY <1>0, <2>1, ReconcileCalled
  <2>3. Returnable(r)' => Returnable(r)
    BY <1>3, <2>1, <2>2 DEF Returnable
  <2> QED BY <1>1, <1>2, <2>2, <2>3, GivenBackFrame
<1>5. CASE ~OperatorReconciles(o)
  <2>1. entries' = entries
    BY <1>5 DEF OperatorStep, OperatorLooks, OperatorConfirms, OperatorProjects, OperatorFails, ledgerVars
  <2>2. Returnable(r)' => Returnable(r)
    BY <1>3, <2>1 DEF Returnable
  <2> QED BY <1>1, <1>2, <2>1, <2>2, GivenBackFrame
<1> QED BY <1>4, <1>5

\* Every step keeps it.
LEMMA GivenBackStep ==
  ASSUME ReconTypeOK, NEW r \in Requests, GivenBackInv(r), [ReconNext]_vars
  PROVE  GivenBackInv(r)'
<1>1. ASSUME NEW q \in Requests, HandlerStep(q)
      PROVE  GivenBackInv(r)'
  BY <1>1, GivenBackHandler, GivenBackOtherHandler
<1>2. CASE SweepDeletes
  <2>1. UNCHANGED <<handler, row, operator>> /\ entries'[r] = NoEntry
    BY <1>2 DEF SweepDeletes, DeleteAll, gatewayVars
  <2>2. entries'[r].saved = {} /\ entries'[r].state # "released" /\ entries'[r].origin # "reserve_unknown"
    BY <2>1 DEF NoEntry
  <2>3. Returnable(r)' => Returnable(r)
    BY <2>1, <2>2 DEF Returnable
  <2> QED BY <2>1, <2>2, <2>3, GivenBackFrame
<1>3. CASE SweepSelects \/ SweepFinalizes \/ SweepFails \/ SweepMarks \/ PhaseEnds \/ UNCHANGED vars
  <2>1. UNCHANGED <<handler, row, operator, entries>>
    BY <1>3 DEF SweepSelects, SweepFinalizes, SweepFails, SweepMarks, PhaseEnds, vars, gatewayVars,
                reconVars, ledgerVars, FinalizeDay, DeleteAllLost
  <2>2. Returnable(r)' <=> Returnable(r)
    BY <2>1 DEF Returnable
  <2> QED BY <2>1, <2>2, GivenBackFrame
<1> QED BY <1>1, <1>2, <1>3, GivenBackRun, GivenBackOperator DEF ReconNext

\* Tokens are given back, by a handler or on an operator's word, only for a
\* request upstream never worked on: for any number of runs and operators, and
\* for runs started by hand in the grace period as well.
THEOREM ReconGivesBackUnused == ReconSpec => []GivenBackNeverUsed
<1> DEFINE AllUnused == \A r \in Requests : GivenBackInv(r)
<1>1. ReconInit => AllUnused
  <2> SUFFICES ASSUME ReconInit, NEW r \in Requests
               PROVE  GivenBackInv(r)
    OBVIOUS
  <2>1. /\ entries[r] = NoEntry /\ handler[r].pc = "idle" /\ row[r].status = "none"
        /\ \A o \in Operators : operator[o].pc = "idle"
    BY DEF ReconInit, LedgerInit, NewOperator
  <2>2. ~MayBeUsed(r) /\ ~Returnable(r)
    BY <2>1 DEF MayBeUsed, Returnable, NoEntry
  <2> QED BY <2>2 DEF GivenBackInv
<1>2. ReconTypeOK /\ AllUnused /\ [ReconNext]_vars => AllUnused'
  BY GivenBackStep
<1>3. AllUnused => GivenBackNeverUsed
  BY DEF GivenBackInv, Returnable, GivenBackNeverUsed
<1> HIDE DEF AllUnused
<1> QED BY <1>1, <1>2, <1>3, ReconTypeCorrect, PTL DEF ReconSpec
=============================================================================
