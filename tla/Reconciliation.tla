---------------------------- MODULE Reconciliation ----------------------------
(***************************************************************************)
(* How the books of one (pool, UTC day) are closed: runReconciliation,     *)
(* started by the cron and by the admin route, the operator's verdict on a *)
(* reserve_unknown request, and the scheduled finalization, against the    *)
(* QuotaController of the day and the request rows in D1.                  *)
(*                                                                         *)
(* Every read or write of the controller or of D1 is a step of its own; an *)
(* invocation can end between any two of them. The Usage API's answer is   *)
(* any number: it lags, and its 48 hours count other traffic too. The      *)
(* daily_usage table, which no code reads back, is left out.               *)
(*                                                                         *)
(* The day goes through four phases: "day"; "grace", while requests that   *)
(* began before midnight still reserve; "closing", yesterday as the cron   *)
(* of 00:05 sees it; "horizon", old enough to be finalized.                *)
(***************************************************************************)
EXTENDS QuotaLedger

CONSTANTS
    Runs,          \* invocations of runReconciliation
    Operators,     \* calls of the admin route for reserve_unknown requests
    RunPhases,     \* the phases in which a run may start
    Usages         \* the numbers the Usage API may answer

ASSUME ReconciliationAssumption ==
    /\ RunPhases \subseteq {"grace", "closing"}
    /\ Usages \subseteq Nat

VARIABLES
    phase,         \* the phase of the day
    handler,       \* where the gateway's handler of each request is
    row,           \* the row of each request in D1
    report,        \* the reconciliations row of the day
    run,           \* the local variables of each run
    operator,      \* the local variables of each operator call
    verdicts,      \* <<request, disposition>> pairs an operator was answered ok
    sweep          \* where the finalization of the scheduled job is

gatewayVars == <<handler, row>>
reconVars == <<report, run, operator, verdicts, sweep>>
vars == <<ledgerVars, phase, gatewayVars, reconVars>>

Phase == {"day", "grace", "closing", "horizon"}
PhaseAfter == [day |-> "grace", grace |-> "closing", closing |-> "horizon"]

\* "admitted": the reservation was answered; "unknown": both attempts threw,
\* one was executed; "lost": a settlement threw, once executed. The others are
\* about to write that status to the row.
HandlerLocation == {"idle", "unknown", "admitted", "lost", "completed", "uncertain",
                    "failed", "orphaned", "done"}

RowStatus == {"none", "in_flight", "completed", "failed", "uncertain", "orphaned"}
ReportStatus == {"none", "open", "done", "deleted"}

\* seen and todo: the snapshot, and what is left to reconcile of it. fix: a row
\* about to be repaired. clear = 1: the second snapshot was empty.
NewRun == [pc |-> "idle", local |-> 0, openai |-> 0, seen |-> {}, todo |-> {},
           fix |-> {}, clear |-> 0]
NewOperator(r, d) == [pc |-> "idle", req |-> r, disp |-> d, tokens |-> 0]

ReconInit ==
    /\ LedgerInit
    /\ phase = "day"
    /\ handler = [r \in Requests |-> [pc |-> "idle", usage |-> 0]]
    /\ row = [r \in Requests |-> [status |-> "none", tokens |-> 0]]
    /\ report = "none"
    /\ run = [x \in Runs |-> NewRun]
    /\ operator \in [Operators -> {NewOperator(r, d) : r \in Requests, d \in Disposition}]
    /\ verdicts = {}
    /\ sweep = "idle"

-----------------------------------------------------------------------------
(* The request handlers of the gateway, as far as the books see them.      *)

At(r, location) == handler[r].pc = location
Goto(r, location) == handler' = [handler EXCEPT ![r].pc = location]

\* The row is inserted, best effort, and the reservation made. A request that
\* is refused leaves nothing to reconcile.
Admit(r) ==
    /\ phase \in {"day", "grace"}
    /\ At(r, "idle")
    /\ \E size \in Sizes, k \in Keys \cup {NoKey}, limit \in Limits : Reserve(r, size, k, limit)
    /\ \E status \in {"none", "in_flight"} : row' = [row EXCEPT ![r].status = status]
    /\ Goto(r, "admitted") \/ Goto(r, "unknown")
    /\ UNCHANGED <<phase, reconVars>>

\* rejectUnknownReservation
MarkUnknown(r) ==
    /\ phase \in {"day", "grace"}
    /\ At(r, "unknown")
    /\ MarkReserveOutcomeUnknown(r)
    /\ Goto(r, "failed")
    /\ UNCHANGED <<phase, row, reconVars>>

\* A known failure before the upstream call.
GiveBack(r) ==
    /\ phase \in {"day", "grace"}
    /\ At(r, "admitted")
    /\ Release(r)
    /\ Goto(r, "failed")
    /\ UNCHANGED <<phase, row, reconVars>>

\* The upstream answered with usage n; the entry of a wiped day is unknown.
SettleAnswer(r, n) ==
    /\ At(r, "admitted")
    /\ \/ /\ Settle(r, n)
          /\ \E pc \in {"completed", "lost"} :
                handler' = [handler EXCEPT ![r] =
                              [pc |-> pc, usage |-> IF pc = "completed" THEN n ELSE 0]]
       \/ /\ entries[r].state = "absent"
          /\ Goto(r, "orphaned")
          /\ UNCHANGED ledgerVars
    /\ UNCHANGED <<phase, row, reconVars>>

\* The upstream outcome is uncertain, or its settlement was lost in a stream,
\* and whether or not the mark arrives.
MarkAnswer(r) ==
    /\ At(r, "admitted") \/ At(r, "lost")
    /\ MarkUncertain(r) \/ UNCHANGED ledgerVars
    /\ Goto(r, "uncertain")
    /\ UNCHANGED <<phase, row, reconVars>>

\* completeRequestRow, best effort: a final row is not touched.
Audit(r) ==
    /\ handler[r].pc \in {"completed", "uncertain", "failed", "orphaned"}
    /\ \/ /\ row[r].status \in {"in_flight", "uncertain"}
          /\ row' = [row EXCEPT ![r] =
                       [status |-> handler[r].pc,
                        tokens |-> IF At(r, "completed") THEN handler[r].usage ELSE 0]]
       \/ UNCHANGED row
    /\ handler' = [handler EXCEPT ![r] = [pc |-> "done", usage |-> 0]]
    /\ UNCHANGED <<ledgerVars, phase, reconVars>>

\* The invocation is killed, or its last RPC is lost and it gives up.
HandlerDies(r) ==
    /\ handler[r].pc \in {"unknown", "admitted", "lost"}
    /\ Goto(r, "done")
    /\ UNCHANGED <<ledgerVars, phase, row, reconVars>>

-----------------------------------------------------------------------------
(* Reads.                                                                  *)

\* SELECT SUM(total_tokens) ... WHERE status = 'completed'
LocalTokens ==
    Total({r \in Requests : row[r].status = "completed"},
          [r \in Requests |-> row[r].tokens])

\* getReconcileSnapshot
Pending == InState("reserved") \cup InState("uncertain")

\* reconciled is the state, and requestedDisposition consumed, of the same entries
ReconciledConsumed(r) == entries[r].state = "reconciled"

\* reconcileRequest, with the ReconcileResult it answers: a repeated call is
\* answered from the saved result, which says applied whatever was asked now.
CallReconcile(r, d) ==
    \/ ReconcileRequest(r, d)
    \/ /\ ~(FirstCall(r, "reconcile") /\ entries[r].state \in Open)
       /\ UNCHANGED ledgerVars
Applied(r) == entries[r].state \in Open \/ "reconcile" \in entries[r].saved

-----------------------------------------------------------------------------
(* runReconciliation.                                                      *)

RunAt(x, location) == run[x].pc = location

\* A day that is done is left alone; otherwise the run begins. It is the day
\* before the run's own, so it no longer starts in "horizon".
StartRun(x) ==
    /\ phase \in RunPhases
    /\ RunAt(x, "idle")
    /\ run' = [run EXCEPT ![x].pc = IF report = "done" THEN "ended" ELSE "local"]
    /\ UNCHANGED <<ledgerVars, phase, gatewayVars, report, operator, verdicts, sweep>>

ReadLocal(x) ==
    /\ RunAt(x, "local")
    /\ run' = [run EXCEPT ![x].pc = "snapshot", ![x].local = LocalTokens]
    /\ UNCHANGED <<ledgerVars, phase, gatewayVars, report, operator, verdicts, sweep>>

\* reconcilablePendingRequests
Reconcilable == {r \in Pending : entries[r].origin # "reserve_unknown"}

\* The snapshot, the usage, and the inference: when the difference is exactly
\* what the ordinary pending requests reserved, they are to be consumed.
Snapshot(x) ==
    /\ RunAt(x, "snapshot")
    /\ \E n \in Usages :
          run' = [run EXCEPT ![x].pc = "reconcile", ![x].openai = n, ![x].seen = Pending,
                             ![x].todo = IF n - run[x].local = Total(Reconcilable, Held)
                                         THEN Reconcilable ELSE {}]
    /\ UNCHANGED <<ledgerVars, phase, gatewayVars, report, operator, verdicts, sweep>>

\* Fault: the row is repaired whatever became of the request.
FaultReconcileOne(x) ==
    /\ RunAt(x, "reconcile") /\ run[x].fix = {}
    /\ \E r \in run[x].todo :
          /\ CallReconcile(r, "consumed")
          /\ run' = [run EXCEPT ![x].todo = @ \ {r}, ![x].fix = {<<r, entries[r].tokens>>}]
    /\ UNCHANGED <<phase, gatewayVars, report, operator, verdicts, sweep>>

\* One request of the snapshot is reconciled. Its row is to be repaired when
\* the call was applied, now or before, or the request is reconciled anyway.
ReconcileOne(x) ==
    /\ RunAt(x, "reconcile") /\ run[x].fix = {}
    /\ \E r \in run[x].todo :
          /\ CallReconcile(r, "consumed")
          /\ run' = [run EXCEPT ![x].todo = @ \ {r},
                                ![x].fix = IF Applied(r) \/ ReconciledConsumed(r)
                                           THEN {<<r, entries[r].tokens>>} ELSE {}]
    /\ UNCHANGED <<phase, gatewayVars, report, operator, verdicts, sweep>>

\* repairConsumedProjection: an update that fails is ignored.
Repair(x) ==
    /\ \E f \in run[x].fix :
          \/ /\ row[f[1]].status # "none"
             /\ row' = [row EXCEPT ![f[1]] = [status |-> "completed", tokens |-> f[2]]]
          \/ UNCHANGED row
    /\ run' = [run EXCEPT ![x].fix = {}]
    /\ UNCHANGED <<ledgerVars, phase, handler, report, operator, verdicts, sweep>>

\* Rows left uncertain that the snapshot does not name; todo now holds them.
Candidates(x) ==
    /\ RunAt(x, "reconcile") /\ run[x].fix = {} /\ run[x].todo = {}
    /\ run' = [run EXCEPT ![x].pc = "candidates",
                          ![x].todo = {r \in Requests : row[r].status = "uncertain"} \ run[x].seen]
    /\ UNCHANGED <<ledgerVars, phase, gatewayVars, report, operator, verdicts, sweep>>

CheckCandidate(x) ==
    /\ RunAt(x, "candidates") /\ run[x].fix = {}
    /\ \E r \in run[x].todo :
          run' = [run EXCEPT ![x].todo = @ \ {r},
                             ![x].fix = IF ReconciledConsumed(r) /\ entries[r].origin # "reserve_unknown"
                                        THEN {<<r, entries[r].tokens>>} ELSE {}]
    /\ UNCHANGED <<ledgerVars, phase, gatewayVars, report, operator, verdicts, sweep>>

\* remainingPending
SnapshotAgain(x) ==
    /\ RunAt(x, "candidates") /\ run[x].fix = {} /\ run[x].todo = {}
    /\ run' = [run EXCEPT ![x].pc = "recount", ![x].clear = IF Pending = {} THEN 1 ELSE 0]
    /\ UNCHANGED <<ledgerVars, phase, gatewayVars, report, operator, verdicts, sweep>>

Recount(x) ==
    /\ RunAt(x, "recount")
    /\ run' = [run EXCEPT ![x].pc = "write", ![x].local = LocalTokens]
    /\ UNCHANGED <<ledgerVars, phase, gatewayVars, report, operator, verdicts, sweep>>

\* Fault: requests still pending do not keep the day open.
FaultIsDone(x) == run[x].openai = run[x].local

IsDone(x) == run[x].clear = 1 /\ run[x].openai = run[x].local

WriteReport(x) ==
    /\ RunAt(x, "write")
    /\ report' = IF IsDone(x) THEN "done" ELSE "open"
    /\ run' = [run EXCEPT ![x] = [NewRun EXCEPT !.pc = "ended"]]
    /\ UNCHANGED <<ledgerVars, phase, gatewayVars, operator, verdicts, sweep>>

\* The Usage API failed three times, or a call or query threw: the run ends.
\* A reconcileRequest that throws after it was executed ends the same way.
RunFails(x) ==
    /\ run[x].pc \notin {"idle", "ended"}
    /\ run' = [run EXCEPT ![x] = [NewRun EXCEPT !.pc = "ended"]]
    /\ UNCHANGED <<ledgerVars, phase, gatewayVars, report, operator, verdicts, sweep>>

-----------------------------------------------------------------------------
(* reconcileReserveUnknown.                                                *)

OperatorAt(o, location) == operator[o].pc = location
OperatorGoto(o, location) == operator' = [operator EXCEPT ![o].pc = location]
StateFor(d) == IF d = "consumed" THEN "reconciled" ELSE "released"

\* Fault: an operator may judge any uncertain request.
FaultOperatorLooks(o) ==
    /\ OperatorAt(o, "idle")
    /\ OperatorGoto(o, IF entries[operator[o].req].state = "uncertain" THEN "reconcile" ELSE "ended")
    /\ UNCHANGED <<ledgerVars, phase, gatewayVars, report, run, verdicts, sweep>>

\* The operator asks: only a reserve_unknown request that is still uncertain,
\* or was reconciled with the same disposition, is taken further.
OperatorLooks(o) ==
    LET e == entries[operator[o].req]
        taken == /\ e.origin = "reserve_unknown"
                 /\ \/ e.state = "uncertain"
                    \/ "reconcile" \in e.saved /\ e.state = StateFor(operator[o].disp)
    IN  /\ OperatorAt(o, "idle")
        /\ OperatorGoto(o, IF taken THEN "reconcile" ELSE "ended")
        /\ UNCHANGED <<ledgerVars, phase, gatewayVars, report, run, verdicts, sweep>>

OperatorReconciles(o) ==
    /\ OperatorAt(o, "reconcile")
    /\ CallReconcile(operator[o].req, operator[o].disp)
    /\ OperatorGoto(o, "confirm")
    /\ UNCHANGED <<phase, gatewayVars, report, run, verdicts, sweep>>

\* Fault: the answer of reconcileRequest is believed.
FaultOperatorConfirms(o) ==
    /\ OperatorAt(o, "confirm")
    /\ OperatorGoto(o, "project")
    /\ UNCHANGED <<ledgerVars, phase, gatewayVars, report, run, verdicts, sweep>>

\* canonicalTarget: another disposition may have come first.
OperatorConfirms(o) ==
    LET e == entries[operator[o].req] IN
    /\ OperatorAt(o, "confirm")
    /\ \/ /\ "reconcile" \in e.saved /\ e.state = StateFor(operator[o].disp)
          /\ operator' = [operator EXCEPT ![o].pc = "project", ![o].tokens = e.tokens]
       \/ /\ ~("reconcile" \in e.saved /\ e.state = StateFor(operator[o].disp))
          /\ OperatorGoto(o, "ended")
    /\ UNCHANGED <<ledgerVars, phase, gatewayVars, report, run, verdicts, sweep>>

\* The row follows the disposition, and the operator is told.
OperatorProjects(o) ==
    LET r == operator[o].req
        d == operator[o].disp
    IN  /\ OperatorAt(o, "project")
        /\ row' = IF row[r].status = "none" THEN row
                  ELSE [row EXCEPT ![r] = IF d = "consumed"
                          THEN [status |-> "completed", tokens |-> operator[o].tokens]
                          ELSE [status |-> "failed", tokens |-> 0]]
        /\ OperatorGoto(o, "ended")
        /\ verdicts' = verdicts \cup {<<r, d>>}
        /\ UNCHANGED <<ledgerVars, phase, handler, report, run, sweep>>

OperatorFails(o) ==
    /\ operator[o].pc \in {"reconcile", "confirm", "project"}
    /\ OperatorGoto(o, "ended")
    /\ UNCHANGED <<ledgerVars, phase, gatewayVars, report, run, verdicts, sweep>>

-----------------------------------------------------------------------------
(* The finalization of the scheduled job, once a day until it succeeded.   *)

\* The rows of days that are done and old enough.
SweepSelects ==
    /\ phase = "horizon"
    /\ sweep = "idle" /\ report = "done"
    /\ sweep' = "selected"
    /\ UNCHANGED <<ledgerVars, phase, gatewayVars, report, run, operator, verdicts>>

\* Fault: finalizeDay refuses an object that has nothing stored any more.
FaultSweepFinalizes ==
    /\ sweep = "selected"
    /\ \/ pool.requestCount > 0 /\ FinalizeDay /\ sweep' = "finalizing"
       \/ pool.requestCount = 0 /\ sweep' = "idle" /\ UNCHANGED ledgerVars
    /\ UNCHANGED <<phase, gatewayVars, report, run, operator, verdicts>>

\* finalizeDay refuses while anything is unresolved; otherwise it is between
\* its transaction and its deleteAll.
SweepFinalizes ==
    /\ sweep = "selected"
    /\ \/ FinalizeDay /\ sweep' = "finalizing"
       \/ unresolved # [reserved |-> 0, uncertain |-> 0] /\ sweep' = "idle" /\ UNCHANGED ledgerVars
    /\ UNCHANGED <<phase, gatewayVars, report, run, operator, verdicts>>

SweepDeletes ==
    /\ sweep = "finalizing"
    /\ DeleteAll
    /\ sweep' = "deleted"
    /\ UNCHANGED <<phase, gatewayVars, report, run, operator, verdicts>>

\* The deleteAll or the whole job is lost; tomorrow's job tries again.
SweepFails ==
    /\ \/ sweep = "finalizing" /\ DeleteAllLost
       \/ sweep \in {"selected", "deleted"} /\ UNCHANGED ledgerVars
    /\ sweep' = "idle"
    /\ UNCHANGED <<phase, gatewayVars, report, run, operator, verdicts>>

SweepMarks ==
    /\ sweep = "deleted"
    /\ report' = "deleted"
    /\ sweep' = "idle"
    /\ UNCHANGED <<ledgerVars, phase, gatewayVars, run, operator, verdicts>>

-----------------------------------------------------------------------------

PhaseEnds ==
    /\ phase # "horizon"
    /\ phase' = PhaseAfter[phase]
    /\ UNCHANGED <<ledgerVars, gatewayVars, reconVars>>

HandlerStep(r) ==
    \/ Admit(r)
    \/ MarkUnknown(r)
    \/ GiveBack(r)
    \/ \E n \in Actuals : SettleAnswer(r, n)
    \/ MarkAnswer(r)
    \/ Audit(r)
    \/ HandlerDies(r)

RunStep(x) ==
    \/ StartRun(x)
    \/ ReadLocal(x)
    \/ Snapshot(x)
    \/ ReconcileOne(x)
    \/ Repair(x)
    \/ Candidates(x)
    \/ CheckCandidate(x)
    \/ SnapshotAgain(x)
    \/ Recount(x)
    \/ WriteReport(x)
    \/ RunFails(x)

OperatorStep(o) ==
    \/ OperatorLooks(o)
    \/ OperatorReconciles(o)
    \/ OperatorConfirms(o)
    \/ OperatorProjects(o)
    \/ OperatorFails(o)

ReconNext ==
    \/ \E r \in Requests : HandlerStep(r)
    \/ \E x \in Runs : RunStep(x)
    \/ \E o \in Operators : OperatorStep(o)
    \/ SweepSelects \/ SweepFinalizes \/ SweepDeletes \/ SweepFails \/ SweepMarks
    \/ PhaseEnds

\* Time passes, invocations come to an end, and a job that is repeated every
\* day does not fail every day.
ReconFairness ==
    /\ WF_vars(PhaseEnds)
    /\ \A x \in Runs : WF_vars(RunStep(x) /\ run[x].pc # "idle")
    /\ WF_vars(SweepSelects)
    /\ SF_vars(SweepFinalizes) /\ SF_vars(SweepDeletes) /\ SF_vars(SweepMarks)

ReconSpec == ReconInit /\ [][ReconNext]_vars /\ ReconFairness
-----------------------------------------------------------------------------
(* Properties.                                                             *)

Run == [pc : {"idle", "local", "snapshot", "reconcile", "candidates", "recount",
              "write", "ended"},
        local : Nat, openai : Nat, seen : SUBSET Requests, todo : SUBSET Requests,
        fix : SUBSET (Requests \X Nat), clear : {0, 1}]
OperatorCall == [pc : {"idle", "reconcile", "confirm", "project", "ended"},
                 req : Requests, disp : Disposition, tokens : Nat]

\* The rows and the local variables have their types.
ReconTypeOK ==
    /\ LedgerTypeOK
    /\ phase \in Phase
    /\ handler \in [Requests -> [pc : HandlerLocation, usage : Nat]]
    /\ row \in [Requests -> [status : RowStatus, tokens : Nat]]
    /\ report \in ReportStatus
    /\ run \in [Runs -> Run]
    /\ operator \in [Operators -> OperatorCall]
    /\ verdicts \in SUBSET (Requests \X Disposition)
    /\ sweep \in {"idle", "selected", "finalizing", "deleted"}

\* SPEC.md: reserve_unknown requests are excluded from automatic inference. Such
\* a request is resolved by an operator's call, never by a run, also not by one
\* whose snapshot is older than the mark.
AutomaticSkipsReserveUnknown ==
    [][\A r \in Requests :
          /\ entries[r].state = "uncertain" /\ entries[r].origin = "reserve_unknown"
          /\ entries'[r].state \in {"reconciled", "released"}
          => \E o \in Operators : operator[o].req = r /\ operator'[o] # operator[o]]_vars

\* Upstream may have worked on the request: its usage was settled or its outcome
\* marked, or its handler or its row tells so although the call was lost.
MayBeUsed(r) ==
    \/ entries[r].saved \cap {"settle", "markUncertain"} # {}
    \/ handler[r].pc \in {"lost", "completed", "uncertain", "orphaned"}
    \/ row[r].status \in {"uncertain", "orphaned"}

\* Tokens are given back, by a handler or on an operator's word, only for a
\* request that upstream never worked on: no verdict, however late and whichever
\* request it names, frees tokens that may have been spent, whenever a run starts.
GivenBackNeverUsed ==
    \A r \in Requests : entries[r].state = "released" => ~MayBeUsed(r)

\* An operator who is answered ok can rely on it: the ledger and the request's
\* row keep that disposition, whoever else asks for the other one and whatever
\* the handler, a run or a second operator does later.
OperatorVerdictsHold ==
    \A v \in verdicts :
        /\ entries[v[1]].state \in {StateFor(v[2]), "absent"}
        /\ row[v[1]].status \in {"none", IF v[2] = "consumed" THEN "completed" ELSE "failed"}

\* Tokens that D1 reports as used are charged in the ledger: a completed row
\* belongs to a settled request, with exactly the settled usage, or to one that
\* was reconciled as consumed; until the day is wiped.
CompletedIsCharged ==
    \A r \in Requests : row[r].status = "completed" =>
        \/ entries[r].state = "settled" /\ row[r].tokens = entries[r].actual
        \/ entries[r].state = "reconciled"
        \/ entries[r].state = "absent"

\* A day that is done has no reservation left to account for, also while late
\* handlers and a second run still work on it, and a day that is marked deleted
\* has nothing stored, also after a wipe or a mark that was lost.
ClosedDayIsEmpty ==
    /\ report = "done" => Pending = {}
    /\ report = "deleted" => InState("absent") = Requests

\* Once a day is done and no run is left that could reopen it, it is deleted,
\* however often the daily job is lost before, in or after its finalizeDay.
DoneDayIsDeleted ==
    (report = "done" /\ \A x \in Runs : run[x].pc \in {"idle", "ended"}) ~> (report = "deleted")
=============================================================================
