------------------------------- MODULE CpuGate -------------------------------
(***************************************************************************)
(* The production CPU gate: the slot object that admits one fixture at a   *)
(* time, the control routes of the gateway, and the runners that set up,   *)
(* measure, recover and close fixtures. A fixture is a relayed request of  *)
(* zero tokens on the QuotaController that RelayGrants describes.          *)
(*                                                                         *)
(* A control call is a process of its own: its runner can time out or die  *)
(* while the call goes on, so a setup or a close may arrive long after     *)
(* everybody forgot it. A runner keeps a journal on disk, one per host;    *)
(* only its latest entry can be open, so that is the one modelled.         *)
(***************************************************************************)
EXTENDS RelayGrants

CONSTANTS
    Runners,         \* hosts that run the gate, each with its own journal
    MaxDisturbances  \* bound on lost answers, failing calls and crashes

\* A fixture reserves and uses nothing.
ASSUME GateAssumption == 0 \in Actuals

VARIABLES
    slot,            \* RelayCpuGateSlotState; gen is kept while the slot is idle
    setups,          \* per operation, how far its one setup call came
    closes,          \* the close-operation calls under way
    runner,          \* what each runner does
    journal,         \* per host, the operation its journal holds open, if any
    disturbances     \* how many calls and runners failed so far

gateVars == <<slot, setups, closes, runner, journal, disturbances>>
cpuGateVars == <<vars, gateVars>>

\* An entry of the journal; gen is 0 until the generation is known.
NoOperation == [op |-> NoRequest, gen |-> 0]

\* A runner: where it is, the recovery it is in (phase) and the part of it that
\* called recoverFixture, the operation recovered, the generation read with it,
\* its own open operation, the fence answer, and how many closes it has left.
Off == [pc |-> "off", phase |-> "none", part |-> "none", target |-> NoRequest, gen |-> 0,
        entry |-> NoOperation, fence |-> "none", tries |-> 0]

CpuGateInit ==
    /\ RelayInit
    /\ slot = [kind |-> "idle", owner |-> NoRequest, gen |-> 0]
    /\ setups = [o \in Relayed |-> "none"]
    /\ closes = {}
    /\ runner = [x \in Runners |-> Off]
    /\ journal = [x \in Runners |-> NoOperation]
    /\ disturbances = 0

Disturbed == disturbances < MaxDisturbances /\ disturbances' = disturbances + 1
Undisturbed == UNCHANGED disturbances

-----------------------------------------------------------------------------
(* What the target object knows of an operation.                           *)

FixtureSize == [tokens |-> 0, upper |-> 0]

Absent(o) == grants[o].state = "none"
Live(o) == grants[o].state \in {"authorized", "attempted", "uncertain"}

\* A fixture that is over: its lease gone, grant and request in matching states.
TerminalFixture(o) ==
    /\ GrantLease(o) = {}
    /\ \/ grants[o].state = "settled" /\ entries[o].state = "settled"
       \/ grants[o].state \in {"released", "reconciled_unused"} /\ entries[o].state = "released"
       \/ grants[o].state = "reconciled_consumed" /\ entries[o].state \in {"reconciled", "settled"}

\* fenceRelayCpuGateSetup: an operation without a trace is barred, and "fenced"
\* answered; any other is left as it is.
Fence(o) ==
    \/ Absent(o) /\ FenceSetup(o)
    \/ ~Absent(o) /\ UNCHANGED vars

FenceAnswer(o) == IF Absent(o) THEN "fenced" ELSE "fixture"

\* reconcileRequest(o, "unused"), on behalf of a control route.
ReconcileUnused(o) ==
    /\ ReconcileRequest(o, "unused")
    /\ Terminalize(o, "unused")
    /\ UNCHANGED <<fenced, credentials, activations>>

-----------------------------------------------------------------------------
(* The slot object.                                                        *)

\* claimRelayCpuGateSlot: a free slot is taken under the next generation, a
\* slot the caller already holds is confirmed; otherwise the slot is busy.
Claims(o) ==
    \/ /\ slot.kind = "idle"
       /\ slot' = [kind |-> "held", owner |-> o, gen |-> slot.gen + 1]
    \/ slot.kind = "held" /\ slot.owner = o /\ UNCHANGED slot

Busy(o) == slot.kind # "idle" /\ ~(slot.kind = "held" /\ slot.owner = o)

\* Fault: the state the recovery itself produces is forgotten.
FaultProof(o, fence) ==
    \/ fence = "fenced" /\ Absent(o) /\ o \in fenced
    \/ fence = "fixture" /\ grants[o].state \in {"settled", "released"} /\ TerminalFixture(o)

\* What closeRelayCpuGateSlot must see at the target before it frees the slot.
Proof(o, fence) ==
    \/ fence = "fenced" /\ Absent(o) /\ o \in fenced
    \/ fence = "fixture" /\ ~Absent(o) /\ TerminalFixture(o)

Matches(c) == slot.owner = c.op /\ slot.gen = c.gen

-----------------------------------------------------------------------------
(* Runners: recovery. A step either moves the runner on or ends in the     *)
(* "blocked" result of the function it is in.                              *)

Moves(x, R) == runner' = [runner EXCEPT ![x] = R]

\* The runner turns to close its own operation, with n attempts to do so:
\* closeFixture of the loop, closeFixture of its finally, closeStage2Slot.
Closing(R, n) == [R EXCEPT !.pc = "closeread", !.phase = "close", !.part = "none", !.tries = n]

\* The record of a runner whose current recovery ended without proof.
AfterBlocked(R) ==
    IF R.phase = "run" THEN Closing(R, 2)
    ELSE IF R.phase = "close" /\ R.tries > 1 THEN Closing(R, R.tries - 1)
    ELSE Off

\* persistJournal follows every attempt to close.
Blocked(x, R) ==
    /\ Moves(x, AfterBlocked(R))
    /\ journal' = IF R.phase = "close" THEN [journal EXCEPT ![x] = R.entry] ELSE journal

\* The recovery proved everything closed: the series starts, or goes on when
\* it closed its operation at the first attempt.
Recovered(x, R) ==
    /\ Moves(x, IF R.phase = "start" \/ R.tries = 3
                THEN [Off EXCEPT !.pc = "idle"] ELSE Off)
    /\ journal' = IF R.phase = "close" THEN [journal EXCEPT ![x] = NoOperation] ELSE journal

Recover(R, part, o) == [R EXCEPT !.pc = "fence", !.part = part, !.target = o]

\* The loop over the open entries of the journal in recoverSharedOperation.
RecoverEntry(x, R) ==
    IF R.entry.op = NoRequest THEN Recovered(x, R)
    ELSE Moves(x, Recover(R, "entry", R.entry.op)) /\ UNCHANGED journal

\* recoverFixture answered "closed".
FixtureClosed(x, R) ==
    \/ /\ R.part = "owner"
       /\ closes' = closes \cup {[by |-> x, op |-> R.target, gen |-> R.gen, pc |-> "mark",
                                  fence |-> "none"]}
       /\ Moves(x, [R EXCEPT !.pc = "closing"])
       /\ UNCHANGED journal
    \/ /\ R.part \in {"entry", "lone"}
       /\ Recovered(x, R)
       /\ UNCHANGED closes
    \/ /\ R.part = "setup"
       /\ Moves(x, Closing(R, 2))
       /\ UNCHANGED <<journal, closes>>

\* A runner is started, for a series or to recover: it loads the journal.
StartRunner(x) ==
    /\ runner[x].pc = "off"
    /\ Moves(x, [Off EXCEPT !.pc = "read", !.phase = "start", !.entry = journal[x]])
    /\ UNCHANGED <<vars, slot, setups, closes, journal>> /\ Undisturbed

\* recoverSharedOperation reads the slot first, whoever owns it.
ReadSlot(x) ==
    LET R == runner[x]
        mine == slot.owner = R.entry.op
    IN  /\ R.pc = "read"
        /\ \/ slot.kind = "idle" /\ RecoverEntry(x, R)
           \/ /\ slot.kind # "idle"
              /\ mine => R.entry.gen \in {0, slot.gen}
              /\ Moves(x, [Recover(R, "owner", slot.owner) EXCEPT
                             !.gen = slot.gen,
                             !.entry.gen = IF mine THEN slot.gen ELSE @])
              /\ UNCHANGED journal
           \/ /\ slot.kind # "idle" /\ mine /\ R.entry.gen \notin {0, slot.gen}
              /\ Blocked(x, R)
        /\ UNCHANGED <<vars, slot, setups, closes>> /\ Undisturbed

\* recoverFixture: the fence ...
FenceTarget(x) ==
    LET R == runner[x] IN
    /\ R.pc = "fence"
    /\ Fence(R.target)
    /\ \/ /\ Moves(x, [R EXCEPT !.pc = "inspect", !.fence = FenceAnswer(R.target)])
          /\ UNCHANGED journal /\ Undisturbed
       \/ Blocked(x, R) /\ Disturbed
    /\ UNCHANGED <<slot, setups, closes>>

\* ... the inspection, which ends it for a fenced or finished operation ...
InspectTarget(x) ==
    LET R == runner[x]
        o == R.target
        closed == (Absent(o) /\ R.fence = "fenced") \/ TerminalFixture(o)
    IN  /\ R.pc = "inspect"
        /\ IF closed THEN FixtureClosed(x, R)
           ELSE /\ IF Live(o) THEN Moves(x, [R EXCEPT !.pc = "reconcile"]) /\ UNCHANGED journal
                              ELSE Blocked(x, R)
                /\ UNCHANGED closes
        /\ UNCHANGED <<vars, slot, setups>> /\ Undisturbed

\* ... the reconcile-unused route for a live one, whose reads before and after
\* only tell the caller whether it worked ...
ReconcileTarget(x) ==
    LET R == runner[x] IN
    /\ R.pc = "reconcile"
    /\ \/ /\ Live(R.target) /\ ReconcileUnused(R.target)
          /\ \/ /\ Moves(x, [R EXCEPT !.pc = "reinspect"])
                /\ UNCHANGED journal /\ Undisturbed
             \/ Blocked(x, R) /\ Disturbed
       \/ ~Live(R.target) /\ UNCHANGED vars /\ Blocked(x, R) /\ Undisturbed
    /\ UNCHANGED <<slot, setups, closes>>

\* ... and the second inspection.
ReinspectTarget(x) ==
    LET R == runner[x] IN
    /\ R.pc = "reinspect"
    /\ IF grants[R.target].state = "reconciled_unused" /\ TerminalFixture(R.target)
       THEN FixtureClosed(x, R) ELSE Blocked(x, R) /\ UNCHANGED closes
    /\ UNCHANGED <<vars, slot, setups>> /\ Undisturbed

\* After the close the slot must be seen idle.
RecheckSlot(x) ==
    LET R == runner[x] IN
    /\ R.pc = "recheck"
    /\ \/ /\ slot.kind = "idle"
          /\ IF R.entry.op = R.target THEN Recovered(x, R) ELSE RecoverEntry(x, R)
       \/ slot.kind # "idle" /\ Blocked(x, R)
    /\ UNCHANGED <<vars, slot, setups, closes>> /\ Undisturbed

-----------------------------------------------------------------------------
(* Runners: a series.                                                      *)

\* A fresh operation is written down before its setup is sent.
SendSetup(x, o) ==
    /\ runner[x].pc = "idle" /\ setups[o] = "none"
    /\ journal' = [journal EXCEPT ![x] = [op |-> o, gen |-> 0]]
    /\ setups' = [setups EXCEPT ![o] = "sent"]
    /\ Moves(x, [Off EXCEPT !.pc = "setup", !.phase = "run", !.entry.op = o])
    /\ UNCHANGED <<vars, slot, closes>> /\ Undisturbed

\* The series is over, or only a recovery was asked for.
StopRunner(x) ==
    /\ runner[x].pc = "idle"
    /\ Moves(x, Off)
    /\ journal' = [journal EXCEPT ![x] = NoOperation]
    /\ UNCHANGED <<vars, slot, setups, closes>> /\ Undisturbed

\* runFixtureLifecycle: without the grant in hand the operation is recovered;
\* the answer may be lost, and the call may still be on its way.
SetupReturns(x) ==
    LET R == runner[x] IN
    /\ R.pc = "setup"
    /\ \/ /\ setups[R.entry.op] = "ready"
          /\ Moves(x, [R EXCEPT !.pc = "own"]) /\ Undisturbed
       \/ /\ setups[R.entry.op] = "over"
          /\ Moves(x, Recover(R, "setup", R.entry.op)) /\ Undisturbed
       \/ /\ setups[R.entry.op] # "over"
          /\ Moves(x, Recover(R, "setup", R.entry.op)) /\ Disturbed
    /\ UNCHANGED <<vars, slot, setups, closes, journal>>

\* Ownership of the slot must be proven before anything is measured.
ProveOwnership(x) ==
    LET R == runner[x]
        held == [R.entry EXCEPT !.gen = slot.gen]
    IN  /\ R.pc = "own"
        /\ \/ /\ slot.kind = "held" /\ slot.owner = R.entry.op
              /\ Moves(x, [R EXCEPT !.pc = "measure", !.entry = held])
              /\ journal' = [journal EXCEPT ![x] = held]
           \/ /\ ~(slot.kind = "held" /\ slot.owner = R.entry.op)
              /\ Moves(x, Closing(R, 2))
              /\ UNCHANGED journal
        /\ UNCHANGED <<vars, slot, setups, closes>> /\ Undisturbed

\* The callbacks of the series are drained; a failed batch is closed without a
\* terminal report.
MeasureEnds(x) ==
    /\ runner[x].pc = "measure"
    /\ \/ Moves(x, [runner[x] EXCEPT !.pc = "terminal"])
       \/ Moves(x, Closing(runner[x], 2))
    /\ UNCHANGED <<vars, slot, setups, closes, journal>> /\ Undisturbed

FixtureReports == {[outcome |-> "settle", tokens |-> 0], ReleaseReport}

\* terminalizeFixture: settled when an activation was confirmed, else released.
TerminalizeFixture(x) ==
    LET R == runner[x]
        o == R.entry.op
    IN  /\ R.pc = "terminal"
        /\ \/ /\ \E report \in FixtureReports : FinishRelay(o, grants[o].gen, report)
              /\ Moves(x, Closing(R, 3))
           \/ grants[o].state \in TerminalGrantStates /\ UNCHANGED vars /\ Moves(x, Closing(R, 3))
           \/ UNCHANGED vars /\ Moves(x, Closing(R, 2))
        /\ UNCHANGED <<slot, setups, closes, journal>> /\ Undisturbed

\* closeOwnedOperation: an idle slot leaves the operation to prove closed, its
\* own slot is recovered, anything else blocks.
ReadOwnSlot(x) ==
    LET R == runner[x]
        own == slot.owner = R.entry.op /\ R.entry.gen \in {0, slot.gen}
    IN  /\ R.pc = "closeread"
        /\ \/ slot.kind = "idle" /\ Moves(x, Recover(R, "lone", R.entry.op)) /\ UNCHANGED journal
           \/ /\ slot.kind # "idle" /\ own
              /\ Moves(x, [R EXCEPT !.pc = "read", !.entry.gen = slot.gen])
              /\ UNCHANGED journal
           \/ slot.kind # "idle" /\ ~own /\ Blocked(x, R)
        /\ UNCHANGED <<vars, slot, setups, closes>> /\ Undisturbed

\* A control call of the runner fails without having had an effect.
CallFails(x) ==
    /\ runner[x].pc \in {"read", "fence", "inspect", "reconcile", "reinspect", "recheck", "own", "closeread"}
    /\ Blocked(x, runner[x]) /\ Disturbed
    /\ UNCHANGED <<vars, slot, setups, closes>>

Orphaned(x) == {[c EXCEPT !.by = IF @ = x THEN NoRequest ELSE @] : c \in closes}

\* The runner gives up on its close call, or dies; its calls go on.
CloseLost(x) ==
    /\ runner[x].pc = "closing"
    /\ closes' = Orphaned(x)
    /\ Blocked(x, runner[x]) /\ Disturbed
    /\ UNCHANGED <<vars, slot, setups>>

Crash(x) ==
    /\ runner[x].pc # "off"
    /\ closes' = Orphaned(x)
    /\ Moves(x, Off) /\ Disturbed
    /\ UNCHANGED <<vars, slot, setups, journal>>

-----------------------------------------------------------------------------
(* The control routes that take several steps.                             *)

SetupAt(o, pc) == setups' = [setups EXCEPT ![o] = pc]

\* handleSetup: the slot is claimed first ...
SetupClaims(o) ==
    /\ setups[o] = "sent"
    /\ \/ Claims(o) /\ SetupAt(o, "claimed")
       \/ Busy(o) /\ SetupAt(o, "over") /\ UNCHANGED slot
    /\ UNCHANGED <<vars, closes, runner, journal>> /\ Undisturbed

\* ... then the operation must have left no trace and no fence ...
SetupInspects(o) ==
    /\ setups[o] = "claimed"
    /\ SetupAt(o, IF Absent(o) /\ o \notin fenced THEN "inspected" ELSE "over")
    /\ UNCHANGED <<vars, slot, closes, runner, journal>> /\ Undisturbed

\* ... then the fixture is admitted like any relayed request ...
SetupAdmits(o) ==
    /\ setups[o] = "inspected"
    /\ \/ /\ \E limit \in Limits : AdmitRelay(o, FixtureSize, NoKey, limit)
          /\ SetupAt(o, IF grants'[o].state = "authorized" THEN "admitted" ELSE "over")
       \/ /\ \A limit \in Limits : ~Admissible(o, FixtureSize, NoKey, limit)
          /\ UNCHANGED vars /\ SetupAt(o, "over")
    /\ UNCHANGED <<slot, closes, runner, journal>> /\ Undisturbed

\* ... and its credential signed, or the admission taken back.
SetupSigns(o) ==
    /\ setups[o] = "admitted"
    /\ \/ UNCHANGED vars /\ SetupAt(o, "ready") /\ Undisturbed
       \/ /\ \/ ReconcileUnused(o)
             \/ ~Live(o) /\ UNCHANGED vars
          /\ SetupAt(o, "over") /\ Disturbed
    /\ UNCHANGED <<slot, closes, runner, journal>>

\* The handler throws, or the call never arrives.
SetupDies(o) ==
    /\ setups[o] \in {"sent", "claimed", "inspected", "admitted"}
    /\ SetupAt(o, "over") /\ Disturbed
    /\ UNCHANGED <<vars, slot, closes, runner, journal>>

Advances(c, pc) == closes' = (closes \ {c}) \cup {[c EXCEPT !.pc = pc]}

\* The answer of a close call reaches its runner, if it still waits for it.
CloseAnswers(c, closed) ==
    /\ closes' = closes \ {c}
    /\ \/ c.by = NoRequest /\ UNCHANGED <<runner, journal>>
       \/ /\ c.by # NoRequest /\ closed
          /\ Moves(c.by, [runner[c.by] EXCEPT !.pc = "recheck"]) /\ UNCHANGED journal
       \/ c.by # NoRequest /\ ~closed /\ Blocked(c.by, runner[c.by])

\* closeRelayCpuGateSlot, first transaction: the matching owner is marked closing.
CloseMarks(c) ==
    /\ c.pc = "mark"
    /\ \/ slot.kind = "idle" /\ CloseAnswers(c, TRUE) /\ UNCHANGED slot
       \/ slot.kind # "idle" /\ ~Matches(c) /\ CloseAnswers(c, FALSE) /\ UNCHANGED slot
       \/ /\ slot.kind # "idle" /\ Matches(c)
          /\ slot' = [slot EXCEPT !.kind = "closing"]
          /\ Advances(c, "fence") /\ UNCHANGED <<runner, journal>>
    /\ UNCHANGED <<vars, setups>> /\ Undisturbed

\* Outside of it, the fence and the inspection of the target.
CloseFences(c) ==
    /\ c.pc = "fence"
    /\ Fence(c.op)
    /\ closes' = (closes \ {c}) \cup {[c EXCEPT !.pc = "inspect", !.fence = FenceAnswer(c.op)]}
    /\ UNCHANGED <<slot, setups, runner, journal>> /\ Undisturbed

CloseInspects(c) ==
    /\ c.pc = "inspect"
    /\ \/ Proof(c.op, c.fence) /\ Advances(c, "free") /\ UNCHANGED <<runner, journal>>
       \/ ~Proof(c.op, c.fence) /\ CloseAnswers(c, FALSE)
    /\ UNCHANGED <<vars, slot, setups>> /\ Undisturbed

\* Second transaction: the slot is freed if it still waits for this close.
CloseFrees(c) ==
    /\ c.pc = "free"
    /\ \/ /\ slot.kind = "closing" /\ Matches(c)
          /\ slot' = [slot EXCEPT !.kind = "idle", !.owner = NoRequest]
          /\ CloseAnswers(c, TRUE)
       \/ ~(slot.kind = "closing" /\ Matches(c)) /\ CloseAnswers(c, FALSE) /\ UNCHANGED slot
    /\ UNCHANGED <<vars, setups>> /\ Undisturbed

\* An RPC of the close fails.
CloseDies(c) ==
    /\ CloseAnswers(c, FALSE) /\ Disturbed
    /\ UNCHANGED <<vars, slot, setups>>

-----------------------------------------------------------------------------
\* The measured callbacks, and those of a dead runner that arrive late.
FixtureCallback(o) ==
    /\ setups[o] = "ready"
    /\ \/ ActivateRelay(o, grants[o].gen)
       \/ RenewRelay(o, grants[o].gen)
       \/ \E report \in FixtureReports : FinishRelay(o, grants[o].gen, report)
    /\ UNCHANGED gateVars

TimePasses == Tick /\ UNCHANGED gateVars

RecoveryStep(x) ==
    \/ ReadSlot(x) \/ FenceTarget(x) \/ InspectTarget(x)
    \/ ReconcileTarget(x) \/ ReinspectTarget(x) \/ RecheckSlot(x)

SeriesStep(x) ==
    \/ SetupReturns(x) \/ ProveOwnership(x) \/ MeasureEnds(x)
    \/ TerminalizeFixture(x) \/ ReadOwnSlot(x) \/ StopRunner(x)

SetupStep(o) == SetupClaims(o) \/ SetupInspects(o) \/ SetupAdmits(o) \/ SetupSigns(o)

CloseStep(c) == CloseMarks(c) \/ CloseFences(c) \/ CloseInspects(c) \/ CloseFrees(c)

CpuGateNext ==
    \/ \E x \in Runners :
          \/ StartRunner(x) \/ RecoveryStep(x) \/ SeriesStep(x)
          \/ \E o \in Relayed : SendSetup(x, o)
          \/ CallFails(x) \/ CloseLost(x) \/ Crash(x)
    \/ \E o \in Relayed : SetupStep(o) \/ SetupDies(o) \/ FixtureCallback(o)
    \/ \E c \in closes : CloseStep(c) \/ CloseDies(c)
    \/ TimePasses

CpuGateSpec == CpuGateInit /\ [][CpuGateNext]_cpuGateVars

\* Handlers go on, a runner does its next step, and one that ended is started
\* again; nobody has to begin a series.
CpuGateFairness ==
    /\ \A x \in Runners :
          WF_cpuGateVars(StartRunner(x) \/ RecoveryStep(x) \/ SeriesStep(x))
    /\ \A o \in Relayed : WF_cpuGateVars(SetupStep(o))
    /\ WF_cpuGateVars(\E c \in closes : CloseStep(c))

FairCpuGateSpec == CpuGateSpec /\ CpuGateFairness
-----------------------------------------------------------------------------
(* Properties.                                                             *)

\* One fixture at a time, across hosts: whatever is admitted and not over owns
\* the slot, and so does a setup that can still be admitted. A worker paused
\* after its claim or after its inspection cannot admit once a close has given
\* the slot to another operation.
LiveFixtureOwnsSlot ==
    \A o \in Relayed :
        Live(o) \/ (setups[o] = "inspected" /\ o \notin fenced) => slot.owner = o

\* A runner that closes its own operation leaves another one, which took the
\* slot in the meantime, untouched.
ClosesOnlyItsOwn ==
    \A x \in Runners :
        runner[x].phase = "close" /\ runner[x].pc \in {"fence", "reconcile", "closing"}
        => runner[x].target = runner[x].entry.op

\* However calls and runners fail, a slot that was taken comes free again, as
\* long as somebody starts the runner anew: no order of claims, fences and
\* closes leaves a slot no recovery can close.
SlotComesFree == slot.kind # "idle" ~> slot.kind = "idle"
=============================================================================
