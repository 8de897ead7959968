---------------------------- MODULE GatewayProofs ----------------------------
(***************************************************************************)
(* Proofs about the direct routes. The first part is about ProxyRequest,   *)
(* for any number of handlers, faults and kills and any choice of sizes,   *)
(* keys, limits and usages: it keeps the books and the contract of         *)
(* AccountedRequest, and what a handler leaves behind is what its answer   *)
(* and its audit row say. The second is about Gateway, for any number of   *)
(* isolates, loaders and edits: what ProxyRequest guarantees survives the  *)
(* composition with the part in front of it, prepared bodies are given up, *)
(* a request whose body timed out is not sent, and cached rows are used    *)
(* for their TTL only.                                                     *)
(***************************************************************************)
EXTENDS Gateway, QuotaLedgerProofs

(***************************************************************************)
(* ProxyRequest: the inductive invariant, by request.                      *)
(***************************************************************************)

\* Locations before the lease, before the upstream call, after it, and those at
\* which the reservation stands untouched.
Early == {"idle", "reserve", "retry", "markUnknown", "acquire"}
Unsent == Early \cup {"abortLease", "abort", "refuse", "freeFailed", "call"}
Streamed == {"streaming", "fSettle", "fMark", "fFree", "fUncertain", "fLast"}
Sent == Streamed \cup {"waiting", "mark", "freeUncertain", "cSettle", "cMissing", "cFree",
                       "cMark", "cFreeLast"}
Reserved == {"acquire", "abortLease", "abort", "refuse", "call", "waiting", "mark", "cSettle",
             "cMissing", "cMark", "streaming", "fSettle", "fMark"}

\* The reported usage is confirmed, or there is none and the outcome is uncertain.
Concluded(r) ==
    \/ h[r].usage # NoUsage /\ entries[r].state = "settled" /\ entries[r].actual = h[r].usage
    \/ h[r].usage = NoUsage /\ entries[r].state = "uncertain"

\* What the entry of a request is while its handler is at each location.
EntryInv(r) ==
    /\ entries[r].state = "reserved" => entries[r].saved = {}
    /\ h[r].pc \in {"idle", "reserve"} => entries[r].state = "absent"
    /\ h[r].pc \in {"retry", "markUnknown"} => entries[r].state \in {"absent", "reserved"}
    /\ h[r].pc \in Reserved => entries[r].state = "reserved"
    /\ h[r].pc = "freeFailed" => entries[r].state = "released"
    /\ h[r].pc \in {"freeUncertain", "cFreeLast"} => entries[r].state = "uncertain"
    /\ h[r].pc \in {"cFree", "fFree"} => Concluded(r)
    /\ h[r].pc \in {"fUncertain", "fLast"} => entries[r].state \in {"reserved", "settled", "uncertain"}
    /\ h[r].pc = "fUncertain" /\ h[r].faults = 0 => entries[r].state = "reserved"
    /\ h[r].pc = "fLast" /\ h[r].faults = 0 => entries[r].state = "uncertain"

\* The local variables the paths after the reservation depend on.
LocalInv(r) ==
    /\ h[r].pc \in Unsent \cup {"freeFailed"} => r \notin sent
    /\ h[r].pc \in Sent => r \in sent
    /\ r \in sent => h[r].phase = "attempted"
    /\ h[r].pc \in {"idle", "reserve", "retry", "freeFailed", "freeUncertain"} =>
          h[r].resv = "none"
    /\ h[r].pc \in {"retry", "markUnknown"} => h[r].faults >= 1
    /\ h[r].pc \in {"acquire", "refuse", "call", "waiting", "mark"} => h[r].resv = "resolved"
    /\ h[r].pc \in Unsent \ {"refuse", "freeFailed"} => h[r].phase = "before"
    /\ h[r].pc \in Streamed => h[r].mode = "stream"
    /\ h[r].pc \in {"cSettle", "fSettle"} => h[r].usage \in Actuals
    /\ h[r].pc \in {"fUncertain", "fLast"} /\ h[r].faults = 0 => h[r].usage = NoUsage
    /\ h[r].pc \notin {"cSettle", "fSettle", "cFree", "fFree", "fUncertain", "fLast"} \cup Ended
          => h[r].usage = NoUsage

\* The catch block: what it finds, and what it leaves for the lease.
CatchInv(r) ==
    /\ h[r].pc = "catch" =>
          /\ h[r].resv # "unknown"
          /\ h[r].resv = "none" => entries[r].state # "reserved"
          /\ r \in sent => entries[r].state \in {"reserved", "uncertain"} /\ h[r].faults >= 1
          /\ h[r].faults = 0 => h[r].resv = "resolved" /\ h[r].phase = "before"
    /\ h[r].pc = "catchLease" =>
          /\ h[r].faults = 0 => entries[r].state # "reserved"
          /\ r \in sent /\ h[r].faults =< 1 => entries[r].state = "uncertain"

\* What an answered request leaves in the ledger and in its audit row.
ExitInv(r) ==
    /\ h[r].pc = "done" /\ h[r].faults = 0 =>
          /\ entries[r].state # "reserved"
          /\ h[r].usage # NoUsage =>
                entries[r].state = "settled" /\ entries[r].actual = h[r].usage
    /\ h[r].pc = "done" /\ r \in sent /\ h[r].mode = "json" /\ h[r].faults =< 1 =>
          entries[r].state \in {"settled", "uncertain"}
    /\ row[r].status = "completed" =>
          entries[r].state = "settled" /\ entries[r].actual = row[r].tokens
    /\ row[r].status = "failed" => h[r].pc = "done" /\ r \notin sent

RequestInv(r) == EntryInv(r) /\ LocalInv(r) /\ CatchInv(r) /\ ExitInv(r)

(***************************************************************************)
(* What the steps do to the handler and the entry of their request.        *)
(***************************************************************************)

ReservationState == {"none", "resolved", "unknown"}
Phase == {"before", "attempted"}

\* Each local variable may be replaced by a value of its type ...
LEMMA HandlerField ==
  ASSUME NEW x \in Handler
  PROVE  /\ \A p \in Location : [x EXCEPT !.pc = p] \in Handler
         /\ \A s \in ReservationState : [x EXCEPT !.resv = s] \in Handler
         /\ \A f \in Phase : [x EXCEPT !.phase = f] \in Handler
         /\ \A g \in Nat : [x EXCEPT !.gen = g] \in Handler
         /\ \A u \in Nat : [x EXCEPT !.usage = u] \in Handler
         /\ \A n \in Nat : [x EXCEPT !.faults = n] \in Handler
         /\ [x EXCEPT !.due = 0] \in Handler
<1>1. \A p \in Location : [x EXCEPT !.pc = p] \in Handler
  BY DEF Handler
<1>2. \A s \in ReservationState : [x EXCEPT !.resv = s] \in Handler
  BY DEF Handler, ReservationState
<1>3. \A f \in Phase : [x EXCEPT !.phase = f] \in Handler
  BY DEF Handler, Phase
<1>4. \A g \in Nat : [x EXCEPT !.gen = g] \in Handler
  BY DEF Handler
<1>5. \A u \in Nat : [x EXCEPT !.usage = u] \in Handler
  BY DEF Handler
<1>6. \A n \in Nat : [x EXCEPT !.faults = n] \in Handler
  BY DEF Handler
<1>7. [x EXCEPT !.due = 0] \in Handler
  BY DEF Handler
<1> QED BY <1>1, <1>2, <1>3, <1>4, <1>5, <1>6, <1>7

\* ... and so may the ones that a step replaces together with its location.
LEMMA HandlerUpdates ==
  ASSUME NEW x \in Handler, NEW p \in Location
  PROVE  /\ [x EXCEPT !.pc = p, !.due = 0] \in Handler
         /\ \A n \in Nat : [x EXCEPT !.pc = p, !.due = 0, !.faults = n] \in Handler
         /\ \A s \in ReservationState : [x EXCEPT !.pc = p, !.resv = s] \in Handler
         /\ \A s \in ReservationState, n \in Nat :
               [x EXCEPT !.pc = p, !.resv = s, !.faults = n] \in Handler
         /\ \A s \in ReservationState : [x EXCEPT !.pc = p, !.resv = s, !.due = 0] \in Handler
         /\ \A f \in Phase : [x EXCEPT !.pc = p, !.phase = f, !.due = 0] \in Handler
         /\ \A g \in Nat : [x EXCEPT !.pc = p, !.gen = g] \in Handler
         /\ \A u \in Nat : [x EXCEPT !.pc = p, !.usage = u, !.due = 0] \in Handler
<1> DEFINE y == [x EXCEPT !.pc = p]
<1>1. y \in Handler
  BY HandlerField, Zenon
<1>2. [x EXCEPT !.pc = p, !.due = 0] = [y EXCEPT !.due = 0]
  BY DEF Handler
<1>3. ASSUME NEW n \in Nat
      PROVE  [x EXCEPT !.pc = p, !.due = 0, !.faults = n] \in Handler
  <2> DEFINE z == [y EXCEPT !.due = 0]
  <2>1. [x EXCEPT !.pc = p, !.due = 0, !.faults = n] = [z EXCEPT !.faults = n]
    BY DEF Handler
  <2> HIDE DEF y
  <2>2. z \in Handler
    BY <1>1, HandlerField, Zenon
  <2> HIDE DEF z
  <2> QED BY <2>1, <2>2, HandlerField, Zenon
<1>4. ASSUME NEW s \in ReservationState
      PROVE  /\ [x EXCEPT !.pc = p, !.resv = s] \in Handler
             /\ \A n \in Nat : [x EXCEPT !.pc = p, !.resv = s, !.faults = n] \in Handler
             /\ [x EXCEPT !.pc = p, !.resv = s, !.due = 0] \in Handler
  <2> DEFINE z == [y EXCEPT !.resv = s]
  <2>1. /\ [x EXCEPT !.pc = p, !.resv = s] = z
        /\ \A n \in Nat : [x EXCEPT !.pc = p, !.resv = s, !.faults = n] = [z EXCEPT !.faults = n]
        /\ [x EXCEPT !.pc = p, !.resv = s, !.due = 0] = [z EXCEPT !.due = 0]
    BY DEF Handler
  <2> HIDE DEF y
  <2>2. z \in Handler
    BY <1>1, HandlerField, Zenon
  <2> HIDE DEF z
  <2> QED BY <2>1, <2>2, HandlerField, Zenon
<1>5. ASSUME NEW f \in Phase
      PROVE  [x EXCEPT !.pc = p, !.phase = f, !.due = 0] \in Handler
  <2> DEFINE z == [y EXCEPT !.phase = f]
  <2>1. [x EXCEPT !.pc = p, !.phase = f, !.due = 0] = [z EXCEPT !.due = 0]
    BY DEF Handler
  <2> HIDE DEF y
  <2>2. z \in Handler
    BY <1>1, HandlerField, Zenon
  <2> HIDE DEF z
  <2> QED BY <2>1, <2>2, HandlerField, Zenon
<1>6. ASSUME NEW g \in Nat
      PROVE  [x EXCEPT !.pc = p, !.gen = g] \in Handler
  <2>1. [x EXCEPT !.pc = p, !.gen = g] = [y EXCEPT !.gen = g]
    BY DEF Handler
  <2> HIDE DEF y
  <2> QED BY <1>1, <2>1, HandlerField, Zenon
<1>7. ASSUME NEW u \in Nat
      PROVE  [x EXCEPT !.pc = p, !.usage = u, !.due = 0] \in Handler
  <2> DEFINE z == [y EXCEPT !.usage = u]
  <2>1. [x EXCEPT !.pc = p, !.usage = u, !.due = 0] = [z EXCEPT !.due = 0]
    BY DEF Handler
  <2> HIDE DEF y
  <2>2. z \in Handler
    BY <1>1, HandlerField, Zenon
  <2> HIDE DEF z
  <2> QED BY <2>1, <2>2, HandlerField, Zenon
<1> HIDE DEF y
<1>8. [x EXCEPT !.pc = p, !.due = 0] \in Handler
  BY <1>1, <1>2, HandlerField, Zenon
<1> QED BY <1>3, <1>4, <1>5, <1>6, <1>7, <1>8

\* The handler goes on with its local variables, another pc and fault count.
Continues(r, location) ==
    /\ h' \in [Requests -> Handler]
    /\ \A q \in Requests \ {r} : h'[q] = h[q]
    /\ h'[r].pc = location /\ h'[r].due = 0
    /\ h'[r].mode = h[r].mode /\ h'[r].resv = h[r].resv /\ h'[r].phase = h[r].phase
    /\ h'[r].gen = h[r].gen /\ h'[r].usage = h[r].usage

\* A step to another location.
LEMMA GotoContinues ==
  ASSUME h \in [Requests -> Handler], NEW r \in Requests, NEW location \in Location,
         Goto(r, location)
  PROVE  Continues(r, location) /\ h'[r].faults = h[r].faults
<1> DEFINE x == [h[r] EXCEPT !.pc = location, !.due = 0]
<1>1. /\ x \in Handler /\ x.pc = location /\ x.due = 0
      /\ x.mode = h[r].mode /\ x.resv = h[r].resv /\ x.phase = h[r].phase
      /\ x.gen = h[r].gen /\ x.usage = h[r].usage /\ x.faults = h[r].faults
  <2>1. h[r] \in Handler
    OBVIOUS
  <2>2. x \in Handler
    BY <2>1, HandlerUpdates, Zenon
  <2> QED BY <2>1, <2>2 DEF Handler
<1>2. h' = [h EXCEPT ![r] = x]
  BY DEF Goto
<1> HIDE DEF x
<1> QED BY <1>1, <1>2 DEF Continues

\* A step whose RPC throws: one more fault.
LEMMA ThrowsContinues ==
  ASSUME h \in [Requests -> Handler], NEW r \in Requests, NEW location \in Location,
         Throws(r, location)
  PROVE  Continues(r, location) /\ h'[r].faults = h[r].faults + 1
<1>1. h[r] \in Handler /\ h[r].faults + 1 \in Nat
  BY DEF Handler
<1> DEFINE x == [h[r] EXCEPT !.pc = location, !.due = 0, !.faults = h[r].faults + 1]
<1>2. /\ x \in Handler /\ x.pc = location /\ x.due = 0
      /\ x.mode = h[r].mode /\ x.resv = h[r].resv /\ x.phase = h[r].phase
      /\ x.gen = h[r].gen /\ x.usage = h[r].usage /\ x.faults = h[r].faults + 1
  <2>1. x \in Handler
    BY <1>1, HandlerUpdates, Zenon
  <2> QED BY <1>1, <2>1 DEF Handler
<1>3. h' = [h EXCEPT ![r] = x]
  BY DEF Throws
<1> HIDE DEF x
<1> QED BY <1>2, <1>3 DEF Continues

\* A step whose RPC may throw without consequence (a swallowed error).
LEMMA GoesOnContinues ==
  ASSUME h \in [Requests -> Handler], NEW r \in Requests, NEW location \in Location,
         GoesOn(r, location)
  PROVE  Continues(r, location) /\ h'[r].faults >= h[r].faults
<1>1. h[r].faults \in Nat
  BY DEF Handler
<1> QED BY <1>1, GotoContinues, ThrowsContinues DEF GoesOn

\* A lifecycle call about r: its entry, when it is still reserved, takes the new
\* state; otherwise neither state nor usage changes.
Lifecycle(r, s) ==
    /\ \A q \in Requests \ {r} : entries'[q] = entries[q]
    /\ entries[r].state = "reserved" => entries'[r].state = s
    /\ entries[r].state # "reserved" =>
          entries'[r].state = entries[r].state /\ entries'[r].actual = entries[r].actual

\* What markUncertain makes of the entry ...
LEMMA CallMarkUncertainDoes ==
  ASSUME entries \in [Requests -> Entry], NEW r \in Requests, EntryInv(r), CallMarkUncertain(r)
  PROVE  Lifecycle(r, "uncertain")
<1>1. CASE entries[r].state = "reserved"
  <2>1. MarkUncertain(r)
    BY <1>1 DEF CallMarkUncertain, FirstCall, EntryInv
  <2>2. PICK o : entries' = [entries EXCEPT ![r].state = "uncertain", ![r].origin = o,
                                            ![r].saved = @ \cup {"markUncertain"}]
    BY <1>1, <2>1 DEF MarkUncertain, BecomeUncertain
  <2>3. entries'[r].state = "uncertain"
    BY <2>2 DEF Entry
  <2> QED BY <1>1, <2>2, <2>3 DEF Lifecycle
<1>2. CASE entries[r].state # "reserved"
  <2>1. entries' = entries \/ entries' = [entries EXCEPT ![r].saved = @ \cup {"markUncertain"}]
    BY <1>2 DEF CallMarkUncertain, MarkUncertain, RecordOnly, ledgerVars
  <2> QED BY <1>2, <2>1 DEF Lifecycle, Entry
<1> QED BY <1>1, <1>2

\* ... what markReserveOutcomeUnknown does, also to an entry that is not there,
LEMMA CallMarkUnknownDoes ==
  ASSUME entries \in [Requests -> Entry], NEW r \in Requests, EntryInv(r), CallMarkUnknown(r)
  PROVE  Lifecycle(r, "uncertain")
<1>1. CASE entries[r].state = "reserved"
  <2>1. MarkReserveOutcomeUnknown(r)
    BY <1>1 DEF CallMarkUnknown, FirstCall, EntryInv
  <2>2. PICK o : entries' = [entries EXCEPT ![r].state = "uncertain", ![r].origin = o,
                                       ![r].saved = @ \cup {"markReserveOutcomeUnknown"}]
    BY <1>1, <2>1 DEF MarkReserveOutcomeUnknown, BecomeUncertain
  <2>3. entries'[r].state = "uncertain"
    BY <2>2 DEF Entry
  <2> QED BY <1>1, <2>2, <2>3 DEF Lifecycle
<1>2. CASE entries[r].state # "reserved"
  <2>1. entries' = entries
        \/ entries' = [entries EXCEPT ![r].saved = @ \cup {"markReserveOutcomeUnknown"}]
    BY <1>2 DEF CallMarkUnknown, MarkReserveOutcomeUnknown, RecordOnly, ledgerVars
  <2> QED BY <1>2, <2>1 DEF Lifecycle, Entry
<1> QED BY <1>1, <1>2

\* ... release,
LEMMA CallReleaseDoes ==
  ASSUME entries \in [Requests -> Entry], NEW r \in Requests, EntryInv(r), CallRelease(r)
  PROVE  Lifecycle(r, "released")
<1>1. CASE entries[r].state = "reserved"
  <2>1. Release(r)
    BY <1>1 DEF CallRelease, FirstCall, EntryInv
  <2>2. entries' = [entries EXCEPT ![r].state = "released", ![r].saved = @ \cup {"release"}]
    BY <1>1, <2>1 DEF Release
  <2>3. entries'[r].state = "released"
    BY <2>2 DEF Entry
  <2> QED BY <1>1, <2>2, <2>3 DEF Lifecycle
<1>2. CASE entries[r].state # "reserved"
  <2>1. entries' = entries \/ entries' = [entries EXCEPT ![r].saved = @ \cup {"release"}]
    BY <1>2 DEF CallRelease, Release, RecordOnly, ledgerVars
  <2> QED BY <1>2, <2>1 DEF Lifecycle, Entry
<1> QED BY <1>1, <1>2

\* ... settle, which records the usage,
LEMMA CallSettleDoes ==
  ASSUME entries \in [Requests -> Entry], NEW r \in Requests, NEW n, EntryInv(r),
         entries[r].state = "reserved", CallSettle(r, n)
  PROVE  Lifecycle(r, "settled") /\ entries'[r].actual = n
<1>1. Settle(r, n)
  BY DEF CallSettle, FirstCall, EntryInv
<1>2. entries' = [entries EXCEPT ![r].state = "settled", ![r].actual = n,
                                 ![r].saved = @ \cup {"settle"}]
  BY <1>1 DEF Settle, Open
<1>3. entries'[r].state = "settled" /\ entries'[r].actual = n
  BY <1>2 DEF Entry
<1> QED BY <1>2, <1>3 DEF Lifecycle

\* A reservation, executed or not, leaves the entry of r as it was or new.
Reserves(r) ==
    /\ \A q \in Requests \ {r} : entries'[q] = entries[q]
    /\ \/ entries'[r] = entries[r]
       \/ entries'[r].state = "reserved" /\ entries'[r].saved = {}

\* ... and reserve, which finds the entry of an earlier attempt or creates it.
LEMMA CallReserveDoes ==
  ASSUME entries \in [Requests -> Entry], NEW r \in Requests, NEW limit,
         CallReserve(r, limit)
  PROVE  /\ Reserves(r)
         /\ Outcome(r, limit) = "reserved" => entries'[r].state = "reserved"
         /\ Outcome(r, limit) = "saved" => entries'[r] = entries[r] /\ entries[r].state # "absent"
         /\ Outcome(r, limit) \notin {"reserved", "saved"} => entries'[r] = entries[r]
<1>1. CASE Outcome(r, limit) = "reserved" /\ PutReservation(r, h[r].size, h[r].key, limit)
  BY <1>1 DEF PutReservation, NoEntry, Reserves
<1>2. CASE Outcome(r, limit) # "reserved" /\ UNCHANGED ledgerVars
  <2>1. entries' = entries
    BY <1>2 DEF ledgerVars
  <2>2. Outcome(r, limit) = "saved" => entries[r].state # "absent"
    BY <1>2 DEF Outcome, ReserveOutcome, EntryRequest
  <2> QED BY <1>2, <2>1, <2>2 DEF Reserves
<1> QED BY <1>1, <1>2 DEF CallReserve

(***************************************************************************)
(* Every step keeps the invariant of its request and the contract.         *)
(***************************************************************************)

\* Nothing but the request r is touched.
OnlyAbout(r) ==
    /\ h' \in [Requests -> Handler] /\ row' \in [Requests -> [status : RowStatus, tokens : Nat]]
    /\ sent' \in SUBSET Requests
    /\ \A q \in Requests \ {r} :
          /\ h'[q] = h[q] /\ entries'[q] = entries[q] /\ row'[q] = row[q]
          /\ q \in sent' <=> q \in sent

\* What the contract allows a request: to be held before it is sent, to be sent
\* once and while it is held, to be given back unsent, to be charged once sent.
Allowed(r) ==
    \/ /\ sent' = sent
       /\ \/ entries'[r].state = entries[r].state
          \/ entries[r].state = "absent" /\ entries'[r].state = "reserved" /\ r \notin sent
          \/ entries[r].state = "reserved" /\ entries'[r].state = "uncertain"
          \/ entries[r].state = "reserved" /\ entries'[r].state = "released" /\ r \notin sent
          \/ entries[r].state = "reserved" /\ entries'[r].state = "settled" /\ r \in sent
    \/ /\ sent' = sent \cup {r} /\ r \notin sent
       /\ entries[r].state = "reserved" /\ entries'[r].state = "reserved"

Kept(r) == OnlyAbout(r) /\ RequestInv(r)' /\ Allowed(r)

\* The types a step may rely on.
StateOK ==
    /\ h \in [Requests -> Handler] /\ entries \in [Requests -> Entry]
    /\ row \in [Requests -> [status : RowStatus, tokens : Nat]]
    /\ sent \in SUBSET Requests

\* An audit write is about one request, and it says what it was given or nothing.
LEMMA AuditSays ==
  ASSUME StateOK, NEW r \in Requests, NEW s \in RowStatus, NEW n \in Nat, Audit(r, s, n)
  PROVE  /\ row' \in [Requests -> [status : RowStatus, tokens : Nat]]
         /\ \A q \in Requests \ {r} : row'[q] = row[q]
         /\ row'[r] = row[r] \/ (row'[r].status = s /\ row'[r].tokens = n)
BY DEF Audit, StateOK

USE DEF Early, Unsent, Sent, Streamed, Reserved, Ended

\* The request arrives.
LEMMA StartKeeps ==
  ASSUME StateOK, NEW r \in Requests, RequestInv(r), Start(r)
  PROVE  Kept(r)
<1>1. entries' = entries /\ sent' = sent /\ h[r].pc = "idle"
  BY DEF Start, ledgerVars, At
<1>2. /\ row' \in [Requests -> [status : RowStatus, tokens : Nat]]
      /\ \A q \in Requests \ {r} : row'[q] = row[q]
  BY DEF Start, StateOK, RowStatus
<1>3. \/ Goto(r, "reserve") /\ (row'[r] = row[r] \/ row'[r].status = "in_flight")
      \/ Goto(r, "done") /\ row'[r].status = "failed"
  BY DEF Start, StateOK
<1>4. CASE Goto(r, "reserve") /\ (row'[r] = row[r] \/ row'[r].status = "in_flight")
  <2>1. Continues(r, "reserve") /\ h'[r].faults = h[r].faults
    BY <1>4, GotoContinues DEF StateOK, Location
  <2>2. RequestInv(r)'
    BY <1>1, <1>4, <2>1 DEF RequestInv, EntryInv, LocalInv, CatchInv, ExitInv, Continues, Concluded
  <2> QED BY <1>1, <1>2, <2>1, <2>2 DEF Kept, OnlyAbout, Allowed, StateOK, Continues
<1>5. CASE Goto(r, "done") /\ row'[r].status = "failed"
  <2>1. Continues(r, "done") /\ h'[r].faults = h[r].faults
    BY <1>5, GotoContinues DEF StateOK, Location, Ended
  <2>2. RequestInv(r)'
    BY <1>1, <1>5, <2>1 DEF RequestInv, EntryInv, LocalInv, CatchInv, ExitInv, Continues, Concluded
  <2> QED BY <1>1, <1>2, <2>1, <2>2 DEF Kept, OnlyAbout, Allowed, StateOK, Continues
<1> QED BY <1>3, <1>4, <1>5

\* The reservation is granted or refused, at the first attempt or the second.
LEMMA ReserveAnsweredKeeps ==
  ASSUME StateOK, NEW r \in Requests, RequestInv(r), ReserveAnswered(r)
  PROVE  Kept(r)
<1> USE DEF StateOK
<1>1. PICK limit \in Limits :
        /\ CallReserve(r, limit)
        /\ \/ /\ Outcome(r, limit) \in {"reserved", "saved"}
              /\ \E next \in AfterReserve(r) :
                    h' = [h EXCEPT ![r].pc = next, ![r].resv = "resolved"]
              /\ AuditNothing
           \/ /\ Outcome(r, limit) \notin {"reserved", "saved"}
              /\ Goto(r, "done")
              /\ Audit(r, "failed", 0)
  BY DEF ReserveAnswered
<1>2. sent' = sent /\ h[r].pc \in {"reserve", "retry"}
  BY DEF ReserveAnswered, At
<1>3. /\ Reserves(r)
      /\ Outcome(r, limit) = "reserved" => entries'[r].state = "reserved"
      /\ Outcome(r, limit) = "saved" => entries'[r] = entries[r] /\ entries[r].state # "absent"
      /\ Outcome(r, limit) \notin {"reserved", "saved"} => entries'[r] = entries[r]
  BY <1>1, CallReserveDoes
<1>4. CASE /\ Outcome(r, limit) \in {"reserved", "saved"}
           /\ \E next \in AfterReserve(r) :
                 h' = [h EXCEPT ![r].pc = next, ![r].resv = "resolved"]
           /\ AuditNothing
  <2>1. PICK next \in {"acquire", "abort"} : h' = [h EXCEPT ![r].pc = next, ![r].resv = "resolved"]
    BY <1>4 DEF AfterReserve
  <2> DEFINE x == [h[r] EXCEPT !.pc = next, !.resv = "resolved"]
  <2>2. h[r] \in Handler /\ next \in Location /\ "resolved" \in ReservationState
    BY DEF Location, ReservationState
  <2>3. x \in Handler
    BY <2>2, HandlerUpdates, Zenon
  <2>4. /\ x.pc = next /\ x.resv = "resolved" /\ x.phase = h[r].phase /\ x.mode = h[r].mode
        /\ x.usage = h[r].usage /\ x.faults = h[r].faults
    BY <2>2 DEF Handler
  <2>5. h' = [h EXCEPT ![r] = x]
    BY <2>1
  <2> HIDE DEF x
  <2>6. h'[r] = x /\ h' \in [Requests -> Handler] /\ \A q \in Requests \ {r} : h'[q] = h[q]
    BY <2>3, <2>5
  <2>7. entries'[r].state = "reserved" /\ entries'[r].saved = {} /\ row' = row
    BY <1>2, <1>3, <1>4 DEF RequestInv, EntryInv, Reserves, AuditNothing
  <2>8. RequestInv(r)'
    BY <1>2, <2>4, <2>6, <2>7 DEF RequestInv, EntryInv, LocalInv, CatchInv, ExitInv, Concluded
  <2> QED BY <1>2, <1>3, <2>6, <2>7, <2>8
          DEF Kept, OnlyAbout, Allowed, Reserves, RequestInv, EntryInv, LocalInv
<1>5. CASE /\ Outcome(r, limit) \notin {"reserved", "saved"}
           /\ Goto(r, "done")
           /\ Audit(r, "failed", 0)
  <2>1. Continues(r, "done") /\ h'[r].faults = h[r].faults
    BY <1>5, GotoContinues DEF Location
  <2>2. /\ row' \in [Requests -> [status : RowStatus, tokens : Nat]]
        /\ \A q \in Requests \ {r} : row'[q] = row[q]
        /\ row'[r] = row[r] \/ row'[r].status = "failed"
    BY <1>5, AuditSays DEF RowStatus
  <2>3. h[r].pc = "retry" => h[r].faults # 0
    BY DEF RequestInv, LocalInv, Handler
  <2>4. RequestInv(r)'
    BY <1>2, <1>3, <1>5, <2>1, <2>2, <2>3
       DEF RequestInv, EntryInv, LocalInv, CatchInv, ExitInv, Continues, Concluded
  <2> QED BY <1>2, <1>3, <1>5, <2>1, <2>2, <2>4 DEF Kept, OnlyAbout, Allowed, Reserves, Continues
<1> QED BY <1>1, <1>4, <1>5

\* It throws: retried once, then the outcome is unknown.
LEMMA ReserveThrowsKeeps ==
  ASSUME StateOK, NEW r \in Requests, RequestInv(r), ReserveThrows(r)
  PROVE  Kept(r)
<1> USE DEF StateOK
<1>1. Reserves(r)
  <2>1. PICK limit \in Limits : CallReserve(r, limit) \/ UNCHANGED ledgerVars
    BY DEF ReserveThrows
  <2>2. CASE UNCHANGED ledgerVars
    BY <2>2 DEF ledgerVars, Reserves
  <2> QED BY <2>1, <2>2, CallReserveDoes
<1>2. sent' = sent /\ row' = row
  BY DEF ReserveThrows
<1>3. CASE At(r, "reserve") /\ Throws(r, "retry")
  <2>1. Continues(r, "retry") /\ h'[r].faults = h[r].faults + 1 /\ h[r].faults \in Nat
    BY <1>3, ThrowsContinues DEF Location, Handler
  <2>2. RequestInv(r)'
    BY <1>1, <1>2, <1>3, <2>1
       DEF At, RequestInv, EntryInv, LocalInv, CatchInv, ExitInv, Continues, Concluded, Reserves
  <2> QED BY <1>1, <1>2, <1>3, <2>1, <2>2
          DEF At, Kept, OnlyAbout, Allowed, Reserves, Continues, RequestInv, EntryInv, LocalInv
<1>4. CASE /\ At(r, "retry")
           /\ h' = [h EXCEPT ![r].pc = "markUnknown", ![r].resv = "unknown", ![r].faults = @ + 1]
  <2>1. /\ h[r] \in Handler /\ "markUnknown" \in Location /\ "unknown" \in ReservationState
        /\ h[r].faults \in Nat /\ h[r].faults + 1 \in Nat
    BY DEF Location, ReservationState, Handler
  <2> DEFINE x == [h[r] EXCEPT !.pc = "markUnknown", !.resv = "unknown", !.faults = h[r].faults + 1]
  <2>2. x \in Handler
    BY <2>1, HandlerUpdates, Zenon
  <2>3. /\ x.pc = "markUnknown" /\ x.resv = "unknown" /\ x.phase = h[r].phase /\ x.mode = h[r].mode
        /\ x.usage = h[r].usage /\ x.faults = h[r].faults + 1
    BY <2>1 DEF Handler
  <2>4. h' = [h EXCEPT ![r] = x]
    BY <1>4
  <2> HIDE DEF x
  <2>5. h'[r] = x /\ h' \in [Requests -> Handler] /\ \A q \in Requests \ {r} : h'[q] = h[q]
    BY <2>2, <2>4
  <2>6. RequestInv(r)'
    BY <1>1, <1>2, <1>4, <2>1, <2>3, <2>5
       DEF At, RequestInv, EntryInv, LocalInv, CatchInv, ExitInv, Concluded, Reserves
  <2> QED BY <1>1, <1>2, <1>4, <2>5, <2>6
          DEF At, Kept, OnlyAbout, Allowed, Reserves, RequestInv, EntryInv, LocalInv
<1> QED BY <1>3, <1>4 DEF ReserveThrows

\* The unknown outcome is recorded, or that fails too.
LEMMA MarkUnknownKeeps ==
  ASSUME StateOK, NEW r \in Requests, RequestInv(r), MarkUnknown(r)
  PROVE  Kept(r)
<1> USE DEF StateOK
<1>1. h[r].pc = "markUnknown" /\ sent' = sent
  BY DEF MarkUnknown, At
<1>2. Lifecycle(r, "uncertain") \/ entries' = entries
  BY CallMarkUnknownDoes DEF MarkUnknown, RequestInv, ledgerVars
<1>3. Continues(r, "done") /\ h'[r].faults >= h[r].faults /\ h[r].faults \in Nat
  BY GoesOnContinues DEF MarkUnknown, GoesOn, Location, Handler
<1>4. /\ row' \in [Requests -> [status : RowStatus, tokens : Nat]]
      /\ \A q \in Requests \ {r} : row'[q] = row[q]
      /\ row'[r] = row[r] \/ row'[r].status = "failed"
  BY AuditSays DEF MarkUnknown, RowStatus
<1>5. RequestInv(r)'
  BY <1>1, <1>2, <1>3, <1>4
     DEF RequestInv, EntryInv, LocalInv, CatchInv, ExitInv, Continues, Concluded, Lifecycle
<1> QED BY <1>1, <1>2, <1>3, <1>4, <1>5
        DEF Kept, OnlyAbout, Allowed, Continues, Lifecycle, RequestInv, EntryInv, LocalInv

\* A place is granted or refused.
LEMMA AcquireAnsweredKeeps ==
  ASSUME StateOK, NEW r \in Requests, RequestInv(r), AcquireAnswered(r),
         leases' \in SUBSET LeaseIn(Requests)
  PROVE  Kept(r)
<1> USE DEF StateOK
<1>1. h[r].pc = "acquire" /\ sent' = sent /\ entries' = entries /\ row' = row
  BY DEF AcquireAnswered, At, ledgerVars
<1>2. CASE \E next \in AfterRefusal(r) : Goto(r, next)
  <2>1. PICK next \in {"refuse", "abort"} : Goto(r, next)
    BY <1>2 DEF AfterRefusal
  <2>2. Continues(r, next) /\ h'[r].faults = h[r].faults
    BY <2>1, GotoContinues DEF Location
  <2>3. RequestInv(r)'
    BY <1>1, <2>2 DEF RequestInv, EntryInv, LocalInv, CatchInv, ExitInv, Continues, Concluded
  <2> QED BY <1>1, <2>2, <2>3 DEF Kept, OnlyAbout, Allowed, Continues
<1>3. CASE \E l \in leases', next \in AfterAcquire(r) :
             l.req = r /\ h' = [h EXCEPT ![r].pc = next, ![r].gen = l.gen]
  <2>1. PICK l \in leases', next \in {"call", "abortLease"} :
          h' = [h EXCEPT ![r].pc = next, ![r].gen = l.gen]
    BY <1>3 DEF AfterAcquire
  <2>2. h[r] \in Handler /\ next \in Location /\ l.gen \in Nat
    BY DEF Location, LeaseIn
  <2> DEFINE x == [h[r] EXCEPT !.pc = next, !.gen = l.gen]
  <2>3. x \in Handler
    BY <2>2, HandlerUpdates, Zenon
  <2>4. /\ x.pc = next /\ x.resv = h[r].resv /\ x.phase = h[r].phase /\ x.mode = h[r].mode
        /\ x.usage = h[r].usage /\ x.faults = h[r].faults
    BY <2>2 DEF Handler
  <2>5. h' = [h EXCEPT ![r] = x]
    BY <2>1
  <2> HIDE DEF x
  <2>6. h'[r] = x /\ h' \in [Requests -> Handler] /\ \A q \in Requests \ {r} : h'[q] = h[q]
    BY <2>3, <2>5
  <2>7. RequestInv(r)'
    BY <1>1, <2>4, <2>6 DEF RequestInv, EntryInv, LocalInv, CatchInv, ExitInv, Concluded
  <2> QED BY <1>1, <2>6, <2>7 DEF Kept, OnlyAbout, Allowed
<1> QED BY <1>2, <1>3 DEF AcquireAnswered

\* Acquiring throws: the catch block finds a resolved reservation and nothing sent.
LEMMA AcquireThrowsKeeps ==
  ASSUME StateOK, NEW r \in Requests, RequestInv(r), AcquireThrows(r)
  PROVE  Kept(r)
<1> USE DEF StateOK
<1>1. h[r].pc = "acquire" /\ sent' = sent /\ entries' = entries /\ row' = row
  BY DEF AcquireThrows, At, ledgerVars
<1>2. Continues(r, "catch") /\ h'[r].faults = h[r].faults + 1 /\ h[r].faults \in Nat
  BY ThrowsContinues DEF AcquireThrows, Location, Handler
<1>3. RequestInv(r)'
  BY <1>1, <1>2 DEF RequestInv, EntryInv, LocalInv, CatchInv, ExitInv, Continues, Concluded
<1> QED BY <1>1, <1>2, <1>3 DEF Kept, OnlyAbout, Allowed, Continues

\* An aborted request gives back its lease ...
LEMMA AbortLeaseKeeps ==
  ASSUME StateOK, NEW r \in Requests, RequestInv(r), AbortLease(r)
  PROVE  Kept(r)
<1> USE DEF StateOK
<1>1. h[r].pc = "abortLease" /\ sent' = sent /\ entries' = entries /\ row' = row
  BY DEF AbortLease, At, ledgerVars
<1>2. Continues(r, "abort") /\ h'[r].faults >= h[r].faults /\ h[r].faults \in Nat
  BY GoesOnContinues DEF AbortLease, GoesOn, Location, Handler
<1>3. RequestInv(r)'
  BY <1>1, <1>2 DEF RequestInv, EntryInv, LocalInv, CatchInv, ExitInv, Continues, Concluded
<1> QED BY <1>1, <1>2, <1>3 DEF Kept, OnlyAbout, Allowed, Continues

\* ... and then its tokens.
LEMMA AbortKeeps ==
  ASSUME StateOK, NEW r \in Requests, RequestInv(r), Abort(r)
  PROVE  Kept(r)
<1> USE DEF StateOK
<1>1. h[r].pc = "abort" /\ sent' = sent
  BY DEF Abort, At
<1>2. Continues(r, "done") /\ h'[r].faults >= h[r].faults /\ h[r].faults \in Nat
  BY GoesOnContinues DEF Abort, GoesOn, Location, Handler
<1>3. \/ Lifecycle(r, "released")
      \/ entries' = entries /\ h'[r].faults = h[r].faults + 1
  BY CallReleaseDoes, ThrowsContinues DEF Abort, RequestInv, ledgerVars, Location
<1>4. /\ row' \in [Requests -> [status : RowStatus, tokens : Nat]]
      /\ \A q \in Requests \ {r} : row'[q] = row[q]
      /\ row'[r] = row[r] \/ row'[r].status = "failed"
  BY AuditSays DEF Abort, RowStatus
<1>5. RequestInv(r)'
  BY <1>1, <1>2, <1>3, <1>4
     DEF RequestInv, EntryInv, LocalInv, CatchInv, ExitInv, Continues, Concluded, Lifecycle
<1> QED BY <1>1, <1>2, <1>3, <1>4, <1>5
        DEF Kept, OnlyAbout, Allowed, Continues, Lifecycle, RequestInv, EntryInv, LocalInv

\* Two locals are replaced together with the location: reservationState, once the
\* reservation is dealt with, and the usage that upstream reported.
LEMMA ForgetsReservation ==
  ASSUME h \in [Requests -> Handler], NEW r \in Requests, NEW location \in Location,
         h' = [h EXCEPT ![r].pc = location, ![r].resv = "none", ![r].due = 0]
  PROVE  /\ h' \in [Requests -> Handler] /\ \A q \in Requests \ {r} : h'[q] = h[q]
         /\ h'[r].pc = location /\ h'[r].due = 0 /\ h'[r].resv = "none"
         /\ h'[r].mode = h[r].mode /\ h'[r].phase = h[r].phase /\ h'[r].gen = h[r].gen
         /\ h'[r].usage = h[r].usage /\ h'[r].faults = h[r].faults
<1> DEFINE x == [h[r] EXCEPT !.pc = location, !.resv = "none", !.due = 0]
<1>1. h[r] \in Handler /\ "none" \in ReservationState
  BY DEF ReservationState
<1>2. x \in Handler
  BY <1>1, HandlerUpdates, Zenon
<1>3. /\ x.pc = location /\ x.due = 0 /\ x.resv = "none" /\ x.mode = h[r].mode
      /\ x.phase = h[r].phase /\ x.gen = h[r].gen /\ x.usage = h[r].usage
      /\ x.faults = h[r].faults
  BY <1>1 DEF Handler
<1>4. h' = [h EXCEPT ![r] = x]
  OBVIOUS
<1> HIDE DEF x
<1> QED BY <1>2, <1>3, <1>4, ZenonT(60)

\* The answer's usage becomes a local variable.
LEMMA SeesUsage ==
  ASSUME h \in [Requests -> Handler], NEW r \in Requests, NEW location \in Location,
         NEW n \in Nat, h' = [h EXCEPT ![r].pc = location, ![r].usage = n, ![r].due = 0]
  PROVE  /\ h' \in [Requests -> Handler] /\ \A q \in Requests \ {r} : h'[q] = h[q]
         /\ h'[r].pc = location /\ h'[r].due = 0 /\ h'[r].usage = n
         /\ h'[r].mode = h[r].mode /\ h'[r].phase = h[r].phase /\ h'[r].gen = h[r].gen
         /\ h'[r].resv = h[r].resv /\ h'[r].faults = h[r].faults
<1> DEFINE x == [h[r] EXCEPT !.pc = location, !.usage = n, !.due = 0]
<1>1. h[r] \in Handler
  OBVIOUS
<1>2. x \in Handler
  BY <1>1, HandlerUpdates, Zenon
<1>3. /\ x.pc = location /\ x.due = 0 /\ x.usage = n /\ x.mode = h[r].mode
      /\ x.phase = h[r].phase /\ x.gen = h[r].gen /\ x.resv = h[r].resv
      /\ x.faults = h[r].faults
  BY <1>1 DEF Handler
<1>4. h' = [h EXCEPT ![r] = x]
  OBVIOUS
<1> HIDE DEF x
<1> QED BY <1>2, <1>3, <1>4, ZenonT(60)

\* upstreamAttempted is set when the legacy path or the fetch begins.
LEMMA AttemptsUpstream ==
  ASSUME h \in [Requests -> Handler], NEW r \in Requests, NEW location \in Location,
         h' = [h EXCEPT ![r].pc = location, ![r].phase = "attempted", ![r].due = 0]
  PROVE  /\ h' \in [Requests -> Handler] /\ \A q \in Requests \ {r} : h'[q] = h[q]
         /\ h'[r].pc = location /\ h'[r].due = 0 /\ h'[r].phase = "attempted"
         /\ h'[r].mode = h[r].mode /\ h'[r].usage = h[r].usage /\ h'[r].gen = h[r].gen
         /\ h'[r].resv = h[r].resv /\ h'[r].faults = h[r].faults
<1> DEFINE x == [h[r] EXCEPT !.pc = location, !.phase = "attempted", !.due = 0]
<1>1. h[r] \in Handler /\ "attempted" \in Phase
  BY DEF Phase
<1>2. x \in Handler
  BY <1>1, HandlerUpdates, Zenon
<1>3. /\ x.pc = location /\ x.due = 0 /\ x.phase = "attempted" /\ x.mode = h[r].mode
      /\ x.usage = h[r].usage /\ x.gen = h[r].gen /\ x.resv = h[r].resv
      /\ x.faults = h[r].faults
  BY <1>1 DEF Handler
<1>4. h' = [h EXCEPT ![r] = x]
  OBVIOUS
<1> HIDE DEF x
<1> QED BY <1>2, <1>3, <1>4, ZenonT(60)

\* Without a place the tokens are given back and 429 is answered.
LEMMA RefuseKeeps ==
  ASSUME StateOK, NEW r \in Requests, RequestInv(r), Refuse(r)
  PROVE  Kept(r)
<1> USE DEF StateOK
<1>1. h[r].pc = "refuse" /\ sent' = sent
  BY DEF Refuse, At
<1>2. /\ row' \in [Requests -> [status : RowStatus, tokens : Nat]]
      /\ \A q \in Requests \ {r} : row'[q] = row[q]
      /\ row'[r] = row[r] \/ (row'[r].status = "failed" /\ h[r].gen = NoGeneration)
  BY AuditSays DEF Refuse, RowStatus, AuditNothing
<1>3. CASE /\ CallRelease(r)
           /\ h' = [h EXCEPT ![r].pc = IF h[r].gen = NoGeneration THEN "done" ELSE "freeFailed",
                             ![r].resv = "none", ![r].due = 0]
  <2>1. Lifecycle(r, "released")
    BY <1>3, CallReleaseDoes DEF RequestInv
  <2>2. PICK p \in {"done", "freeFailed"} :
          /\ h[r].gen = NoGeneration => p = "done"
          /\ h' = [h EXCEPT ![r].pc = p, ![r].resv = "none", ![r].due = 0]
    BY <1>3
  <2>3. /\ h' \in [Requests -> Handler] /\ \A q \in Requests \ {r} : h'[q] = h[q]
        /\ h'[r].pc = p /\ h'[r].due = 0 /\ h'[r].resv = "none"
        /\ h'[r].mode = h[r].mode /\ h'[r].phase = h[r].phase /\ h'[r].gen = h[r].gen
        /\ h'[r].usage = h[r].usage /\ h'[r].faults = h[r].faults
    BY <2>2, ForgetsReservation DEF Location
  <2>4. row'[r] = row[r] \/ (row'[r].status = "failed" /\ p = "done")
    BY <1>2, <2>2
  <2>5. RequestInv(r)'
    BY <1>1, <2>1, <2>3, <2>4
       DEF RequestInv, EntryInv, LocalInv, CatchInv, ExitInv, Concluded, Lifecycle
  <2> QED BY <1>1, <1>2, <2>1, <2>3, <2>5
          DEF Kept, OnlyAbout, Allowed, Lifecycle, RequestInv, EntryInv, LocalInv
<1>4. CASE (CallRelease(r) \/ UNCHANGED ledgerVars) /\ Throws(r, "catch") /\ AuditNothing
  <2>1. Lifecycle(r, "released") \/ entries' = entries
    BY <1>4, CallReleaseDoes DEF RequestInv, ledgerVars
  <2>2. Continues(r, "catch") /\ h'[r].faults = h[r].faults + 1 /\ h[r].faults \in Nat
    BY <1>4, ThrowsContinues DEF Location, Handler
  <2>3. row' = row
    BY <1>4 DEF AuditNothing
  <2>4. RequestInv(r)'
    BY <1>1, <2>1, <2>2, <2>3
       DEF RequestInv, EntryInv, LocalInv, CatchInv, ExitInv, Concluded, Lifecycle, Continues
  <2> QED BY <1>1, <2>1, <2>2, <2>3, <2>4
          DEF Kept, OnlyAbout, Allowed, Lifecycle, Continues, RequestInv, EntryInv, LocalInv
<1> QED BY <1>3, <1>4 DEF Refuse

\* The request is sent, and from now on counts as attempted.
LEMMA CallKeeps ==
  ASSUME StateOK, NEW r \in Requests, RequestInv(r), Call(r)
  PROVE  Kept(r)
<1> USE DEF StateOK
<1>1. h[r].pc = "call" /\ entries' = entries /\ row' = row
  BY DEF Call, At, ledgerVars
<1>2. CASE UNCHANGED sent /\ \E p \in {"refuse", "catch"} : Goto(r, p)
  <2>1. PICK p \in {"refuse", "catch"} : Goto(r, p)
    BY <1>2
  <2>2. Continues(r, p) /\ h'[r].faults = h[r].faults
    BY <2>1, GotoContinues DEF Location
  <2>3. RequestInv(r)'
    BY <1>1, <1>2, <2>2 DEF RequestInv, EntryInv, LocalInv, CatchInv, ExitInv, Continues, Concluded
  <2> QED BY <1>1, <1>2, <2>2, <2>3 DEF Kept, OnlyAbout, Allowed, Continues
<1>3. CASE \/ /\ UNCHANGED sent
              /\ h' = [h EXCEPT ![r].pc = "refuse", ![r].phase = "attempted", ![r].due = 0]
           \/ /\ sent' = sent \cup {r}
              /\ h' = [h EXCEPT ![r].pc = "waiting", ![r].phase = "attempted", ![r].due = 0]
  <2>1. PICK p \in {"refuse", "waiting"} :
          /\ p = "refuse" => sent' = sent
          /\ p = "waiting" => sent' = sent \cup {r}
          /\ h' = [h EXCEPT ![r].pc = p, ![r].phase = "attempted", ![r].due = 0]
    BY <1>3
  <2>2. /\ h' \in [Requests -> Handler] /\ \A q \in Requests \ {r} : h'[q] = h[q]
        /\ h'[r].pc = p /\ h'[r].due = 0 /\ h'[r].phase = "attempted"
        /\ h'[r].mode = h[r].mode /\ h'[r].usage = h[r].usage /\ h'[r].gen = h[r].gen
        /\ h'[r].resv = h[r].resv /\ h'[r].faults = h[r].faults
    BY <2>1, AttemptsUpstream DEF Location
  <2>3. RequestInv(r)'
    BY <1>1, <2>1, <2>2 DEF RequestInv, EntryInv, LocalInv, CatchInv, ExitInv, Concluded
  <2> QED BY <1>1, <2>1, <2>2, <2>3
          DEF Kept, OnlyAbout, Allowed, RequestInv, EntryInv, LocalInv
<1> QED BY <1>2, <1>3 DEF Call

\* Upstream answers, fails or begins to stream.
LEMMA RespondKeeps ==
  ASSUME StateOK, NEW r \in Requests, RequestInv(r), Respond(r)
  PROVE  Kept(r)
<1> USE DEF StateOK
<1>1. h[r].pc = "waiting" /\ entries' = entries /\ row' = row /\ sent' = sent
  BY DEF Respond, At, ledgerVars
<1>2. CASE \E p \in {"mark", "cMark", "streaming", "cMissing"} :
             Goto(r, p) /\ (p = "streaming" => h[r].mode = "stream")
  <2>1. PICK p \in {"mark", "cMark", "streaming", "cMissing"} :
          Goto(r, p) /\ (p = "streaming" => h[r].mode = "stream")
    BY <1>2
  <2>2. Continues(r, p) /\ h'[r].faults = h[r].faults
    BY <2>1, GotoContinues DEF Location
  <2>3. RequestInv(r)'
    BY <1>1, <2>1, <2>2 DEF RequestInv, EntryInv, LocalInv, CatchInv, ExitInv, Continues, Concluded
  <2> QED BY <1>1, <2>2, <2>3 DEF Kept, OnlyAbout, Allowed, Continues
<1>3. CASE \E n \in Actuals : h' = [h EXCEPT ![r].pc = "cSettle", ![r].usage = n, ![r].due = 0]
  <2>1. PICK n \in Actuals : h' = [h EXCEPT ![r].pc = "cSettle", ![r].usage = n, ![r].due = 0]
    BY <1>3
  <2>2. n \in Nat
    BY ActualsAssumption
  <2>3. /\ h' \in [Requests -> Handler] /\ \A q \in Requests \ {r} : h'[q] = h[q]
        /\ h'[r].pc = "cSettle" /\ h'[r].due = 0 /\ h'[r].usage = n
        /\ h'[r].mode = h[r].mode /\ h'[r].phase = h[r].phase /\ h'[r].gen = h[r].gen
        /\ h'[r].resv = h[r].resv /\ h'[r].faults = h[r].faults
    BY <2>1, <2>2, SeesUsage DEF Location
  <2>4. RequestInv(r)'
    BY <1>1, <2>3 DEF RequestInv, EntryInv, LocalInv, CatchInv, ExitInv, Concluded
  <2> QED BY <1>1, <2>3, <2>4 DEF Kept, OnlyAbout, Allowed
<1> QED BY <1>2, <1>3 DEF Respond

\* A failure after sending is marked uncertain ...
LEMMA MarkKeeps ==
  ASSUME StateOK, NEW r \in Requests, RequestInv(r), Mark(r)
  PROVE  Kept(r)
<1> USE DEF StateOK
<1>1. h[r].pc = "mark" /\ row' = row /\ sent' = sent
  BY DEF Mark, At
<1>2. CASE /\ CallMarkUncertain(r)
           /\ h' = [h EXCEPT ![r].pc = "freeUncertain", ![r].resv = "none", ![r].due = 0]
  <2>1. Lifecycle(r, "uncertain")
    BY <1>2, CallMarkUncertainDoes DEF RequestInv
  <2>2. /\ h' \in [Requests -> Handler] /\ \A q \in Requests \ {r} : h'[q] = h[q]
        /\ h'[r].pc = "freeUncertain" /\ h'[r].due = 0 /\ h'[r].resv = "none"
        /\ h'[r].mode = h[r].mode /\ h'[r].phase = h[r].phase /\ h'[r].gen = h[r].gen
        /\ h'[r].usage = h[r].usage /\ h'[r].faults = h[r].faults
    BY <1>2, ForgetsReservation DEF Location
  <2>3. RequestInv(r)'
    BY <1>1, <2>1, <2>2
       DEF RequestInv, EntryInv, LocalInv, CatchInv, ExitInv, Concluded, Lifecycle
  <2> QED BY <1>1, <2>1, <2>2, <2>3
          DEF Kept, OnlyAbout, Allowed, Lifecycle, RequestInv, EntryInv
<1>3. CASE (CallMarkUncertain(r) \/ UNCHANGED ledgerVars) /\ Throws(r, "catch")
  <2>1. Lifecycle(r, "uncertain") \/ entries' = entries
    BY <1>3, CallMarkUncertainDoes DEF RequestInv, ledgerVars
  <2>2. Continues(r, "catch") /\ h'[r].faults = h[r].faults + 1 /\ h[r].faults \in Nat
    BY <1>3, ThrowsContinues DEF Location, Handler
  <2>3. RequestInv(r)'
    BY <1>1, <2>1, <2>2
       DEF RequestInv, EntryInv, LocalInv, CatchInv, ExitInv, Concluded, Lifecycle, Continues
  <2> QED BY <1>1, <2>1, <2>2, <2>3
          DEF Kept, OnlyAbout, Allowed, Lifecycle, Continues, RequestInv, EntryInv
<1> QED BY <1>2, <1>3 DEF Mark

\* ... and the lease is given back.
LEMMA FreeKeeps ==
  ASSUME StateOK, NEW r \in Requests, RequestInv(r), Free(r)
  PROVE  Kept(r)
<1> USE DEF StateOK
<1>1. h[r].pc \in {"freeFailed", "freeUncertain"} /\ entries' = entries /\ sent' = sent
  BY DEF Free, At, ledgerVars
<1>2. CASE /\ Goto(r, "done")
           /\ Audit(r, IF At(r, "freeFailed") THEN "failed" ELSE "uncertain", 0)
  <2>1. Continues(r, "done") /\ h'[r].faults = h[r].faults
    BY <1>2, GotoContinues DEF Location
  <2>2. /\ row' \in [Requests -> [status : RowStatus, tokens : Nat]]
        /\ \A q \in Requests \ {r} : row'[q] = row[q]
        /\ \/ row'[r] = row[r]
           \/ row'[r].status = (IF h[r].pc = "freeFailed" THEN "failed" ELSE "uncertain")
    BY <1>2, AuditSays DEF RowStatus, At
  <2>3. RequestInv(r)'
    BY <1>1, <2>1, <2>2 DEF RequestInv, EntryInv, LocalInv, CatchInv, ExitInv, Concluded, Continues
  <2> QED BY <1>1, <2>1, <2>2, <2>3 DEF Kept, OnlyAbout, Allowed, Continues
<1>3. CASE Throws(r, "catch") /\ AuditNothing
  <2>1. Continues(r, "catch") /\ h'[r].faults = h[r].faults + 1 /\ h[r].faults \in Nat
    BY <1>3, ThrowsContinues DEF Location, Handler
  <2>2. RequestInv(r)'
    BY <1>1, <1>3, <2>1
       DEF RequestInv, EntryInv, LocalInv, CatchInv, ExitInv, Concluded, Continues, AuditNothing
  <2> QED BY <1>1, <1>3, <2>1, <2>2 DEF Kept, OnlyAbout, Allowed, Continues, AuditNothing
<1> QED BY <1>2, <1>3 DEF Free

\* A complete answer is settled outside the catch block ...
LEMMA CompletedSettleKeeps ==
  ASSUME StateOK, NEW r \in Requests, RequestInv(r), CompletedSettle(r)
  PROVE  Kept(r)
<1> USE DEF StateOK
<1>1. /\ h[r].pc = "cSettle" /\ sent' = sent /\ entries[r].state = "reserved"
      /\ h[r].usage \in Nat
  BY ActualsAssumption DEF CompletedSettle, At, RequestInv, EntryInv, LocalInv
<1>2. CASE CallSettle(r, h[r].usage) /\ Goto(r, "cFree") /\ Audit(r, "completed", h[r].usage)
  <2>1. Lifecycle(r, "settled") /\ entries'[r].actual = h[r].usage
    BY <1>1, <1>2, CallSettleDoes DEF RequestInv
  <2>2. Continues(r, "cFree") /\ h'[r].faults = h[r].faults
    BY <1>2, GotoContinues DEF Location
  <2>3. /\ row' \in [Requests -> [status : RowStatus, tokens : Nat]]
        /\ \A q \in Requests \ {r} : row'[q] = row[q]
        /\ \/ row'[r] = row[r]
           \/ row'[r].status = "completed" /\ row'[r].tokens = h[r].usage
    BY <1>1, <1>2, AuditSays DEF RowStatus
  <2>4. RequestInv(r)'
    BY <1>1, <2>1, <2>2, <2>3
       DEF RequestInv, EntryInv, LocalInv, CatchInv, ExitInv, Concluded, Lifecycle, Continues, NoUsage
  <2> QED BY <1>1, <2>1, <2>2, <2>3, <2>4
          DEF Kept, OnlyAbout, Allowed, Lifecycle, Continues, RequestInv, LocalInv
<1>3. CASE /\ CallSettle(r, h[r].usage) \/ UNCHANGED ledgerVars
           /\ Throws(r, "escaped") /\ AuditNothing
  <2>1. Lifecycle(r, "settled") \/ entries' = entries
    BY <1>1, <1>3, CallSettleDoes DEF RequestInv, ledgerVars
  <2>2. Continues(r, "escaped")
    BY <1>3, ThrowsContinues DEF Location
  <2>3. RequestInv(r)'
    BY <1>1, <1>3, <2>1, <2>2
       DEF RequestInv, EntryInv, LocalInv, CatchInv, ExitInv, Lifecycle, Continues, AuditNothing
  <2> QED BY <1>1, <1>3, <2>1, <2>2, <2>3
          DEF Kept, OnlyAbout, Allowed, Lifecycle, Continues, AuditNothing, RequestInv, LocalInv
<1> QED BY <1>2, <1>3 DEF CompletedSettle

\* ... or marked uncertain when it has no usage ...
LEMMA CompletedMarkKeeps ==
  ASSUME StateOK, NEW r \in Requests, RequestInv(r), CompletedMark(r)
  PROVE  Kept(r)
<1> USE DEF StateOK
<1>1. h[r].pc \in {"cMissing", "cMark"} /\ sent' = sent
  BY DEF CompletedMark, At
<1>2. CASE /\ CallMarkUncertain(r)
           /\ \/ At(r, "cMissing") /\ Goto(r, "cFree") /\ Audit(r, "uncertain", 0)
              \/ At(r, "cMark") /\ Goto(r, "cFreeLast") /\ AuditNothing
  <2>1. Lifecycle(r, "uncertain")
    BY <1>2, CallMarkUncertainDoes DEF RequestInv
  <2>2. PICK p \in {"cFree", "cFreeLast"} : Continues(r, p) /\ h'[r].faults = h[r].faults
    BY <1>2, GotoContinues DEF Location
  <2>3. /\ row' \in [Requests -> [status : RowStatus, tokens : Nat]]
        /\ \A q \in Requests \ {r} : row'[q] = row[q]
        /\ row'[r] = row[r] \/ row'[r].status = "uncertain"
    BY <1>2, AuditSays DEF RowStatus, AuditNothing
  <2>4. RequestInv(r)'
    BY <1>1, <2>1, <2>2, <2>3
       DEF RequestInv, EntryInv, LocalInv, CatchInv, ExitInv, Concluded, Lifecycle, Continues
  <2> QED BY <1>1, <2>1, <2>2, <2>3, <2>4
          DEF Kept, OnlyAbout, Allowed, Lifecycle, Continues
<1>3. CASE /\ CallMarkUncertain(r) \/ UNCHANGED ledgerVars
           /\ Throws(r, "escaped") /\ AuditNothing
  <2>1. Lifecycle(r, "uncertain") \/ entries' = entries
    BY <1>3, CallMarkUncertainDoes DEF RequestInv, ledgerVars
  <2>2. Continues(r, "escaped")
    BY <1>3, ThrowsContinues DEF Location
  <2>3. RequestInv(r)'
    BY <1>1, <1>3, <2>1, <2>2
       DEF RequestInv, EntryInv, LocalInv, CatchInv, ExitInv, Lifecycle, Continues, AuditNothing
  <2> QED BY <1>1, <1>3, <2>1, <2>2, <2>3
          DEF Kept, OnlyAbout, Allowed, Lifecycle, Continues, AuditNothing
<1> QED BY <1>2, <1>3 DEF CompletedMark

\* ... and its lease given back.
LEMMA CompletedFreeKeeps ==
  ASSUME StateOK, NEW r \in Requests, RequestInv(r), CompletedFree(r)
  PROVE  Kept(r)
<1> USE DEF StateOK
<1>1. h[r].pc \in {"cFree", "cFreeLast"} /\ entries' = entries /\ sent' = sent
  BY DEF CompletedFree, At, ledgerVars
<1>2. CASE /\ Goto(r, "done")
           /\ IF At(r, "cFreeLast") THEN Audit(r, "uncertain", 0) ELSE AuditNothing
  <2>1. Continues(r, "done") /\ h'[r].faults = h[r].faults
    BY <1>2, GotoContinues DEF Location
  <2>2. /\ row' \in [Requests -> [status : RowStatus, tokens : Nat]]
        /\ \A q \in Requests \ {r} : row'[q] = row[q]
        /\ row'[r] = row[r] \/ row'[r].status = "uncertain"
    BY <1>2, AuditSays DEF RowStatus, AuditNothing
  <2>3. RequestInv(r)'
    BY <1>1, <2>1, <2>2 DEF RequestInv, EntryInv, LocalInv, CatchInv, ExitInv, Concluded, Continues
  <2> QED BY <1>1, <2>1, <2>2, <2>3 DEF Kept, OnlyAbout, Allowed, Continues
<1>3. CASE Throws(r, "escaped") /\ AuditNothing
  <2>1. Continues(r, "escaped")
    BY <1>3, ThrowsContinues DEF Location
  <2>2. RequestInv(r)'
    BY <1>1, <1>3, <2>1
       DEF RequestInv, EntryInv, LocalInv, CatchInv, ExitInv, Continues, AuditNothing
  <2> QED BY <1>1, <1>3, <2>1, <2>2 DEF Kept, OnlyAbout, Allowed, Continues, AuditNothing
<1> QED BY <1>2, <1>3 DEF CompletedFree

\* A renewal is answered, refused or throws.
LEMMA RenewKeeps ==
  ASSUME StateOK, NEW r \in Requests, RequestInv(r), Renew(r)
  PROVE  Kept(r)
<1> USE DEF StateOK
<1>1. h[r].pc = "streaming" /\ entries' = entries /\ sent' = sent /\ row' = row
  BY DEF Renew, At, ledgerVars
<1>2. \/ Continues(r, "streaming") /\ h'[r].faults = h[r].faults
      \/ Continues(r, "fUncertain") /\ h'[r].faults = h[r].faults
      \/ Continues(r, "fUncertain") /\ h'[r].faults = h[r].faults + 1
  BY GotoContinues, ThrowsContinues DEF Renew, Location
<1>3. h[r].faults \in Nat
  BY DEF Handler
<1>4. RequestInv(r)'
  BY <1>1, <1>2, <1>3 DEF RequestInv, EntryInv, LocalInv, CatchInv, ExitInv, Continues, Concluded
<1> QED BY <1>1, <1>2, <1>4 DEF Kept, OnlyAbout, Allowed, Continues

\* The stream ends with usage or without, or is cancelled.
LEMMA StreamEndsKeeps ==
  ASSUME StateOK, NEW r \in Requests, RequestInv(r), StreamEnds(r)
  PROVE  Kept(r)
<1> USE DEF StateOK
<1>1. h[r].pc = "streaming" /\ entries' = entries /\ row' = row /\ sent' = sent
  BY DEF StreamEnds, At, ledgerVars
<1>2. CASE \E p \in {"fMark", "fUncertain"} : Goto(r, p)
  <2>1. PICK p \in {"fMark", "fUncertain"} : Continues(r, p) /\ h'[r].faults = h[r].faults
    BY <1>2, GotoContinues DEF Location
  <2>2. RequestInv(r)'
    BY <1>1, <2>1 DEF RequestInv, EntryInv, LocalInv, CatchInv, ExitInv, Continues, Concluded
  <2> QED BY <1>1, <2>1, <2>2 DEF Kept, OnlyAbout, Allowed, Continues
<1>3. CASE \E n \in Actuals : h' = [h EXCEPT ![r].pc = "fSettle", ![r].usage = n, ![r].due = 0]
  <2>1. PICK n \in Actuals : h' = [h EXCEPT ![r].pc = "fSettle", ![r].usage = n, ![r].due = 0]
    BY <1>3
  <2>2. n \in Nat
    BY ActualsAssumption
  <2>3. /\ h' \in [Requests -> Handler] /\ \A q \in Requests \ {r} : h'[q] = h[q]
        /\ h'[r].pc = "fSettle" /\ h'[r].due = 0 /\ h'[r].usage = n
        /\ h'[r].mode = h[r].mode /\ h'[r].phase = h[r].phase /\ h'[r].gen = h[r].gen
        /\ h'[r].resv = h[r].resv /\ h'[r].faults = h[r].faults
    BY <2>1, <2>2, SeesUsage DEF Location
  <2>4. RequestInv(r)'
    BY <1>1, <2>3 DEF RequestInv, EntryInv, LocalInv, CatchInv, ExitInv, Concluded
  <2> QED BY <1>1, <2>3, <2>4 DEF Kept, OnlyAbout, Allowed
<1> QED BY <1>2, <1>3 DEF StreamEnds

\* The finalizer of a stream settles or marks ...
LEMMA FinalizeOutcomeKeeps ==
  ASSUME StateOK, NEW r \in Requests, RequestInv(r), FinalizeOutcome(r)
  PROVE  Kept(r)
<1> USE DEF StateOK
<1>1. /\ h[r].pc \in {"fSettle", "fMark"} /\ sent' = sent /\ entries[r].state = "reserved"
      /\ h[r].pc = "fSettle" => h[r].usage \in Nat
  BY ActualsAssumption DEF FinalizeOutcome, At, RequestInv, EntryInv, LocalInv
<1>2. CASE /\ At(r, "fSettle") /\ CallSettle(r, h[r].usage) /\ Goto(r, "fFree")
           /\ Audit(r, "completed", h[r].usage)
  <2>1. Lifecycle(r, "settled") /\ entries'[r].actual = h[r].usage
    BY <1>1, <1>2, CallSettleDoes DEF RequestInv
  <2>2. Continues(r, "fFree") /\ h'[r].faults = h[r].faults
    BY <1>2, GotoContinues DEF Location
  <2>3. /\ row' \in [Requests -> [status : RowStatus, tokens : Nat]]
        /\ \A q \in Requests \ {r} : row'[q] = row[q]
        /\ \/ row'[r] = row[r]
           \/ row'[r].status = "completed" /\ row'[r].tokens = h[r].usage
    BY <1>1, <1>2, AuditSays DEF RowStatus, At
  <2>4. RequestInv(r)'
    BY <1>1, <1>2, <2>1, <2>2, <2>3
       DEF RequestInv, EntryInv, LocalInv, CatchInv, ExitInv, Concluded, Lifecycle, Continues,
           NoUsage, At
  <2> QED BY <1>1, <2>1, <2>2, <2>3, <2>4
          DEF Kept, OnlyAbout, Allowed, Lifecycle, Continues, RequestInv, LocalInv
<1>3. CASE At(r, "fMark") /\ CallMarkUncertain(r) /\ Goto(r, "fFree") /\ Audit(r, "uncertain", 0)
  <2>1. Lifecycle(r, "uncertain")
    BY <1>3, CallMarkUncertainDoes DEF RequestInv
  <2>2. Continues(r, "fFree") /\ h'[r].faults = h[r].faults
    BY <1>3, GotoContinues DEF Location
  <2>3. /\ row' \in [Requests -> [status : RowStatus, tokens : Nat]]
        /\ \A q \in Requests \ {r} : row'[q] = row[q]
        /\ row'[r] = row[r] \/ row'[r].status = "uncertain"
    BY <1>3, AuditSays DEF RowStatus
  <2>4. RequestInv(r)'
    BY <1>1, <1>3, <2>1, <2>2, <2>3
       DEF RequestInv, EntryInv, LocalInv, CatchInv, ExitInv, Concluded, Lifecycle, Continues, At
  <2> QED BY <1>1, <2>1, <2>2, <2>3, <2>4
          DEF Kept, OnlyAbout, Allowed, Lifecycle, Continues, RequestInv, LocalInv
<1>4. CASE /\ Throws(r, "fUncertain") /\ AuditNothing
           /\ \/ At(r, "fSettle") /\ CallSettle(r, h[r].usage)
              \/ At(r, "fMark") /\ CallMarkUncertain(r)
              \/ UNCHANGED ledgerVars
  <2>1. Lifecycle(r, "settled") \/ Lifecycle(r, "uncertain") \/ entries' = entries
    BY <1>1, <1>4, CallSettleDoes, CallMarkUncertainDoes DEF RequestInv, ledgerVars
  <2>2. Continues(r, "fUncertain") /\ h'[r].faults = h[r].faults + 1 /\ h[r].faults \in Nat
    BY <1>4, ThrowsContinues DEF Location, Handler
  <2>3. RequestInv(r)'
    BY <1>1, <1>4, <2>1, <2>2
       DEF RequestInv, EntryInv, LocalInv, CatchInv, ExitInv, Lifecycle, Continues, AuditNothing
  <2> QED BY <1>1, <1>4, <2>1, <2>2, <2>3
          DEF Kept, OnlyAbout, Allowed, Lifecycle, Continues, AuditNothing, RequestInv, LocalInv
<1> QED BY <1>2, <1>3, <1>4 DEF FinalizeOutcome

\* ... gives back the lease ...
LEMMA FinalizeLeaseKeeps ==
  ASSUME StateOK, NEW r \in Requests, RequestInv(r), FinalizeLease(r)
  PROVE  Kept(r)
<1> USE DEF StateOK
<1>1. h[r].pc = "fFree" /\ entries' = entries /\ sent' = sent /\ row' = row
  BY DEF FinalizeLease, At, ledgerVars
<1>2. \/ Continues(r, "done") /\ h'[r].faults = h[r].faults
      \/ Continues(r, "fUncertain") /\ h'[r].faults = h[r].faults + 1
  BY GotoContinues, ThrowsContinues DEF FinalizeLease, Location
<1>3. h[r].faults \in Nat
  BY DEF Handler
<1>4. RequestInv(r)'
  BY <1>1, <1>2, <1>3 DEF RequestInv, EntryInv, LocalInv, CatchInv, ExitInv, Continues, Concluded
<1> QED BY <1>1, <1>2, <1>4 DEF Kept, OnlyAbout, Allowed, Continues

\* ... and marks uncertain what it could not settle.
LEMMA FinalizeUncertainKeeps ==
  ASSUME StateOK, NEW r \in Requests, RequestInv(r), FinalizeUncertain(r)
  PROVE  Kept(r)
<1> USE DEF StateOK
<1>1. sent' = sent /\ h[r].faults \in Nat
  BY DEF FinalizeUncertain, Handler
<1>2. CASE /\ At(r, "fUncertain")
           /\ \/ CallMarkUncertain(r) /\ GoesOn(r, "fLast")
              \/ UNCHANGED ledgerVars /\ Throws(r, "fLast")
           /\ Audit(r, "uncertain", 0)
  <2>1. Continues(r, "fLast") /\ h'[r].faults >= h[r].faults
    BY <1>2, GoesOnContinues DEF GoesOn, Location
  <2>2. \/ Lifecycle(r, "uncertain")
        \/ entries' = entries /\ h'[r].faults = h[r].faults + 1
    BY <1>2, CallMarkUncertainDoes, ThrowsContinues DEF RequestInv, ledgerVars, Location
  <2>3. /\ row' \in [Requests -> [status : RowStatus, tokens : Nat]]
        /\ \A q \in Requests \ {r} : row'[q] = row[q]
        /\ row'[r] = row[r] \/ row'[r].status = "uncertain"
    BY <1>2, AuditSays DEF RowStatus
  <2>4. RequestInv(r)'
    BY <1>1, <1>2, <2>1, <2>2, <2>3
       DEF RequestInv, EntryInv, LocalInv, CatchInv, ExitInv, Lifecycle, Continues, At
  <2> QED BY <1>1, <1>2, <2>1, <2>2, <2>3, <2>4
          DEF Kept, OnlyAbout, Allowed, Lifecycle, Continues, At, RequestInv, EntryInv
<1>3. CASE /\ At(r, "fLast")
           /\ GoesOn(r, "done") \/ Throws(r, "done")
           /\ UNCHANGED <<ledgerVars, sent, row>>
  <2>1. Continues(r, "done") /\ h'[r].faults >= h[r].faults
    BY <1>3, GoesOnContinues DEF GoesOn, Location
  <2>2. RequestInv(r)'
    BY <1>1, <1>3, <2>1
       DEF RequestInv, EntryInv, LocalInv, CatchInv, ExitInv, Continues, At, ledgerVars
  <2> QED BY <1>1, <1>3, <2>1, <2>2 DEF Kept, OnlyAbout, Allowed, Continues, ledgerVars
<1> QED BY <1>2, <1>3 DEF FinalizeUncertain

\* The catch block releases what was not sent and marks what may have been.
LEMMA CatchKeeps ==
  ASSUME StateOK, NEW r \in Requests, RequestInv(r), Catch(r)
  PROVE  Kept(r)
<1> USE DEF StateOK
<1>1. h[r].pc = "catch" /\ sent' = sent /\ h[r].faults \in Nat
  BY DEF Catch, At, Handler
<1>2. PICK p \in {"done", "catchLease"} :
        /\ AfterCatch(r) = p
        /\ Continues(r, p) /\ h'[r].faults >= h[r].faults
  BY GoesOnContinues DEF Catch, GoesOn, Location, AfterCatch
<1>3. \/ CatchQuota(r)
      \/ entries' = entries /\ h[r].resv = "resolved" /\ h'[r].faults = h[r].faults + 1
  BY <1>2, ThrowsContinues DEF Catch, ledgerVars, Location
<1>4. \/ h[r].resv = "resolved" /\ h[r].phase = "attempted" /\ Lifecycle(r, "uncertain")
      \/ h[r].resv = "resolved" /\ h[r].phase = "before" /\ Lifecycle(r, "released")
      \/ h[r].resv = "none" /\ entries' = entries
      \/ entries' = entries /\ h[r].resv = "resolved" /\ h'[r].faults = h[r].faults + 1
  BY <1>3, CallMarkUncertainDoes, CallReleaseDoes DEF CatchQuota, RequestInv, ledgerVars
<1>5. /\ row' \in [Requests -> [status : RowStatus, tokens : Nat]]
      /\ \A q \in Requests \ {r} : row'[q] = row[q]
      /\ \/ row'[r] = row[r]
         \/ /\ p = "done"
            /\ row'[r].status = (IF h[r].phase = "attempted" THEN "uncertain" ELSE "failed")
  BY <1>2, AuditSays DEF Catch, CatchStatus, RowStatus, AuditNothing
<1>6. RequestInv(r)'
  BY <1>1, <1>2, <1>4, <1>5
     DEF RequestInv, EntryInv, LocalInv, CatchInv, ExitInv, Lifecycle, Continues
<1> QED BY <1>1, <1>2, <1>4, <1>5, <1>6
        DEF Kept, OnlyAbout, Allowed, Lifecycle, Continues, RequestInv, LocalInv, CatchInv

\* It gives back the lease and writes the row.
LEMMA CatchLeaseKeeps ==
  ASSUME StateOK, NEW r \in Requests, RequestInv(r), CatchLease(r)
  PROVE  Kept(r)
<1> USE DEF StateOK
<1>1. h[r].pc = "catchLease" /\ sent' = sent /\ entries' = entries /\ h[r].faults \in Nat
  BY DEF CatchLease, At, Handler, ledgerVars
<1>2. Continues(r, "done") /\ h'[r].faults >= h[r].faults
  BY GoesOnContinues DEF CatchLease, GoesOn, Location
<1>3. h'[r].faults \in Nat
  BY <1>2 DEF Continues, Handler
<1>4. /\ row' \in [Requests -> [status : RowStatus, tokens : Nat]]
      /\ \A q \in Requests \ {r} : row'[q] = row[q]
      /\ \/ row'[r] = row[r]
         \/ row'[r].status = (IF h[r].phase = "attempted" THEN "uncertain" ELSE "failed")
  BY AuditSays DEF CatchLease, CatchStatus, RowStatus
<1>5. row'[r].status = "failed" => r \notin sent
  BY <1>4 DEF RequestInv, LocalInv, ExitInv
<1>6. RequestInv(r)'
  BY <1>1, <1>2, <1>3, <1>4, <1>5 DEF RequestInv, EntryInv, LocalInv, CatchInv, ExitInv, Continues
<1> QED BY <1>1, <1>2, <1>4, <1>6 DEF Kept, OnlyAbout, Allowed, Continues

\* A killed handler leaves everything as it is.
LEMMA KilledKeeps ==
  ASSUME StateOK, NEW r \in Requests, RequestInv(r), Killed(r)
  PROVE  Kept(r)
<1> USE DEF StateOK
<1>1. h[r].pc \notin Ended \cup {"idle"} /\ sent' = sent /\ entries' = entries /\ row' = row
  BY DEF Killed, ledgerVars
<1>2. Continues(r, "dead")
  BY GotoContinues DEF Killed, Location
<1>3. RequestInv(r)'
  BY <1>1, <1>2 DEF RequestInv, EntryInv, LocalInv, CatchInv, ExitInv, Continues
<1> QED BY <1>1, <1>2, <1>3 DEF Kept, OnlyAbout, Allowed, Continues

(***************************************************************************)
(* Leases. A handler that may be waiting for upstream has a lease in force *)
(* for as long as it can take to be renewed or given up: every step within *)
(* a renewal period, and four periods to a lease, so that a lease is       *)
(* renewed with a period to spare.                                         *)
(***************************************************************************)

\* The record of leases is a version 1 record within its limit.
StoreOK ==
    /\ legacy = {} /\ leases \in SUBSET LeaseIn(Requests)
    /\ IsFiniteSet(leases) /\ Cardinality(leases) =< MaxInFlight
    /\ nextGeneration \in Nat /\ now \in Nat

\* How many periods ago the lease of a handler can have been extended.
Age == [call |-> 0, waiting |-> 1, streaming |-> 2]

PlaceInv(r) ==
    /\ h[r].pc \in Early =>
          h[r].gen = NoGeneration /\ h[r].due = 0 /\ \A l \in leases : l.req # r
    /\ h[r].faults = 0 => \A l \in leases : l.req = r => l.gen = h[r].gen
    /\ h[r].pc \in {"abort", "done"} /\ h[r].faults = 0 => \A l \in leases : l.req # r
    /\ h[r].pc \in {"call", "waiting", "streaming"} =>
          \E l \in leases :
             /\ l.req = r /\ l.gen = h[r].gen
             /\ l.exp + Age[h[r].pc] + h[r].due >= now + LeaseTTL

\* A call about the lease of r takes nothing that is in force from the others.
LeaseStepOf(r) ==
    /\ StoreOK' /\ now' = now
    /\ \A l \in leases' : l.req # r => l \in leases
    /\ \A l \in leases : l.req # r /\ l.exp > now => l \in leases'

\* The active leases are stored ones; with nothing to migrate they are all that
\* have not run out, and any part of them may be stored.
LEMMA ActiveStored ==
  ASSUME StoreOK
  PROVE  /\ Active \subseteq leases /\ \A l \in leases : l.exp > now => l \in Active
         /\ Active \in SUBSET LeaseIn(Requests)
         /\ IsFiniteSet(Active) /\ Cardinality(Active) \in Nat
         /\ \A S \in SUBSET Active : IsFiniteSet(S) /\ Cardinality(S) =< MaxInFlight
<1>1. Normalized = leases
  BY DEF Normalized, StoreOK
<1>2. /\ Active \subseteq leases /\ \A l \in leases : l.exp > now => l \in Active
      /\ Active \in SUBSET LeaseIn(Requests)
  BY <1>1 DEF Active, WithoutExpired, StoreOK
<1>3. IsFiniteSet(leases) /\ Cardinality(leases) \in Nat /\ Cardinality(leases) =< MaxInFlight
  BY FS_CardinalityType DEF StoreOK
<1>4. ASSUME NEW S \in SUBSET Active
      PROVE  IsFiniteSet(S) /\ Cardinality(S) =< MaxInFlight /\ Cardinality(S) \in Nat
  <2>1. S \in SUBSET leases
    BY <1>2
  <2>2. IsFiniteSet(S) /\ Cardinality(S) =< Cardinality(leases) /\ Cardinality(S) \in Nat
    BY <1>3, <2>1, FS_Subset, FS_CardinalityType
  <2> QED BY <1>3, <2>2, MaxInFlightAssumption
<1> QED BY <1>2, <1>4

\* acquireInFlightLease: what r has afterwards it had before, or is new.
LEMMA AcquireLeaseDoes ==
  ASSUME StoreOK, NEW r \in Requests, AcquireLease(r)
  PROVE  /\ LeaseStepOf(r)
         /\ \A l \in leases' : l.req = r =>
               l \in leases \/ (l.gen = nextGeneration /\ l.exp = now + LeaseTTL)
<1> USE DEF SaveInFlight
<1> DEFINE new == NewLease(r, nextGeneration)
<1>1. CASE PruneOnly
  <2>1. leases' = Active /\ legacy' = {} /\ nextGeneration' = nextGeneration /\ now' = now
    BY <1>1 DEF PruneOnly
  <2>2. Active \in SUBSET Active
    OBVIOUS
  <2>3. StoreOK'
    BY <2>1, <2>2, ActiveStored DEF StoreOK
  <2> QED BY <2>1, <2>3, ActiveStored DEF LeaseStepOf
<1>2. CASE HasRoom /\ AppendLease(r)
  <2>1. /\ leases' = Active \cup {new} /\ legacy' = {}
        /\ nextGeneration' = nextGeneration + 1 /\ now' = now
    BY <1>2 DEF AppendLease
  <2>2. /\ new \in LeaseIn(Requests) /\ new.req = r /\ new.gen = nextGeneration
        /\ new.exp = now + LeaseTTL
    BY LeaseTTLAssumption DEF NewLease, LeaseIn, StoreOK
  <2> HIDE DEF new
  <2>3. IsFiniteSet(Active) /\ Cardinality(Active) \in Nat
    BY ActiveStored
  <2>4. /\ IsFiniteSet(Active \cup {new})
        /\ Cardinality(Active \cup {new}) =
              IF new \in Active THEN Cardinality(Active) ELSE Cardinality(Active) + 1
    BY <2>3, FS_AddElement, Zenon
  <2>5. Cardinality(Active \cup {new}) =< MaxInFlight
    BY <1>2, <2>3, <2>4, MaxInFlightAssumption DEF HasRoom
  <2>6. StoreOK'
    BY <2>1, <2>2, <2>4, <2>5, ActiveStored DEF StoreOK
  <2> QED BY <2>1, <2>2, <2>6, ActiveStored DEF LeaseStepOf
<1> QED BY <1>1, <1>2 DEF AcquireLease

\* renewInFlightLease: the lease of that generation is extended, if in force.
LEMMA RenewLeaseDoes ==
  ASSUME StoreOK, NEW r \in Requests, NEW g, RenewLease(r, g)
  PROVE  /\ LeaseStepOf(r)
         /\ \A l \in leases' : \E m \in leases : l.req = m.req /\ l.gen = m.gen
         /\ (\E l \in ActiveOf(r) : l.gen = g) =>
               \E l \in leases' : l.req = r /\ l.gen = g /\ l.exp = now + LeaseTTL
<1> USE DEF SaveInFlight
<1> DEFINE mine == {l \in ActiveOf(r) : l.gen = g}
           longer(l) == [l EXCEPT !.exp = now + LeaseTTL]
           fresh(l) == IF l \in mine THEN longer(l) ELSE l
<1>1. /\ leases' = Extended(mine) /\ legacy' = {} /\ now' = now
      /\ nextGeneration' = nextGeneration
  BY DEF RenewLease
<1>2. mine \subseteq Active /\ \A l \in mine : l.req = r /\ l.gen = g
  BY DEF ActiveOf
<1>3. leases' = {fresh(l) : l \in Active}
  BY <1>1, <1>2 DEF Extended
<1>4. \A l \in Active : /\ longer(l) \in LeaseIn(Requests) /\ longer(l).req = l.req
                        /\ longer(l).gen = l.gen /\ longer(l).exp = now + LeaseTTL
  BY ActiveStored, LeaseTTLAssumption DEF LeaseIn, StoreOK
<1> HIDE DEF longer, mine
<1>5. \A l \in Active : fresh(l) \in LeaseIn(Requests) /\ fresh(l).req = l.req /\ fresh(l).gen = l.gen
  BY <1>4, ActiveStored
<1>6. IsFiniteSet(leases') /\ Cardinality(leases') =< MaxInFlight
  <2> HIDE DEF fresh
  <2>1. IsFiniteSet(Active) /\ Cardinality(Active) \in Nat /\ Cardinality(Active) =< MaxInFlight
    <3>1. Active \in SUBSET Active
      OBVIOUS
    <3> QED BY <3>1, ActiveStored
  <2>2. [l \in Active |-> fresh(l)] \in Surjection(Active, leases')
    BY <1>3 DEF Surjection
  <2>3. IsFiniteSet(leases') /\ Cardinality(leases') =< Cardinality(Active)
    BY <2>1, <2>2, FS_Surjection
  <2>4. Cardinality(leases') \in Nat
    BY <2>3, FS_CardinalityType
  <2> QED BY <2>1, <2>3, <2>4, MaxInFlightAssumption
<1>7. StoreOK'
  BY <1>1, <1>3, <1>5, <1>6 DEF StoreOK
<1>8. LeaseStepOf(r)
  BY <1>1, <1>2, <1>3, <1>5, <1>7, ActiveStored DEF LeaseStepOf
<1>9. (\E l \in ActiveOf(r) : l.gen = g) =>
         \E l \in leases' : l.req = r /\ l.gen = g /\ l.exp = now + LeaseTTL
  BY <1>2, <1>3, <1>4 DEF mine
<1> QED BY <1>3, <1>5, <1>8, <1>9, ActiveStored

\* releaseInFlightLease: nothing of r that is of that generation is left.
LEMMA ReleaseHeldDoes ==
  ASSUME StoreOK, NEW r \in Requests, ReleaseHeld(r)
  PROVE  /\ LeaseStepOf(r) /\ leases' \subseteq leases
         /\ \A l \in leases' : l.req = r => l.gen # h[r].gen
<1> DEFINE kept == {l \in Active : ~Releasable(l, r, h[r].gen)}
<1>1. /\ leases' = kept /\ legacy' = {} /\ now' = now /\ nextGeneration' = nextGeneration
  BY DEF ReleaseHeld, ReleaseLease, SaveInFlight
<1>2. kept \in SUBSET Active /\ \A l \in Active : l.req # r => l \in kept
  BY DEF Releasable
<1>3. \A l \in kept : l.req = r => l.gen # h[r].gen
  BY ActiveStored DEF Releasable, LeaseIn, NoGeneration
<1> HIDE DEF kept
<1>4. StoreOK'
  BY <1>1, <1>2, ActiveStored DEF StoreOK
<1> QED BY <1>1, <1>2, <1>3, <1>4, ActiveStored DEF LeaseStepOf

\* The handler of r takes a step with the lease it has; a fault may be counted.
Moved(r) ==
    /\ h'[r].gen = h[r].gen /\ h'[r].due = 0
    /\ h'[r].faults \in Nat /\ h'[r].faults >= h[r].faults

\* A step that leaves the leases alone: to the upstream locations it goes in their
\* order, and to the end only where no lease can be left or an RPC threw.
LEMMA StaysPlaced ==
  ASSUME StateOK, StoreOK, NEW r \in Requests, PlaceInv(r), UNCHANGED leaseVars, Moved(r),
         h'[r].pc \in Early => h[r].pc \in Early,
         h'[r].pc \in {"abort", "done"} =>
            h[r].pc \in Early \cup {"abort"} \/ h[r].gen = NoGeneration \/ h'[r].faults # 0,
         h'[r].pc # "call",
         h'[r].pc = "waiting" => h[r].pc = "call",
         h'[r].pc = "streaming" => h[r].pc = "waiting"
  PROVE  PlaceInv(r)'
<1>1. leases' = leases /\ now' = now /\ now \in Nat /\ \A l \in leases : l.gen \in Nat /\ l.exp \in Nat
  BY DEF leaseVars, StoreOK, LeaseIn
<1>2. h[r].faults \in Nat /\ h[r].due \in 0..1
  BY DEF StateOK, Handler
<1>3. h'[r].faults = 0 => h[r].faults = 0
  BY <1>2 DEF Moved
<1>4. (h'[r].pc \in Early =>
         h'[r].gen = NoGeneration /\ h'[r].due = 0 /\ \A l \in leases' : l.req # r)
  BY <1>1 DEF PlaceInv, Moved
<1>5. h'[r].faults = 0 => \A l \in leases' : l.req = r => l.gen = h'[r].gen
  BY <1>1, <1>3 DEF PlaceInv, Moved
<1>6. h'[r].pc \in {"abort", "done"} /\ h'[r].faults = 0 => \A l \in leases' : l.req # r
  BY <1>1, <1>3 DEF PlaceInv, NoGeneration
<1>7. ASSUME h'[r].pc \in {"call", "waiting", "streaming"}
      PROVE  \E l \in leases' : /\ l.req = r /\ l.gen = h'[r].gen
                                /\ l.exp + Age[h'[r].pc] + h'[r].due >= now' + LeaseTTL
  <2>1. PICK l \in leases :
          l.req = r /\ l.gen = h[r].gen /\ l.exp + Age[h[r].pc] + h[r].due >= now + LeaseTTL
    BY <1>7 DEF PlaceInv
  <2>2. l.exp + Age[h'[r].pc] + 0 >= now + LeaseTTL
    BY <1>1, <1>2, <1>7, <2>1, LeaseTTLAssumption DEF Age
  <2> QED BY <1>1, <2>1, <2>2 DEF Moved
<1> QED BY <1>4, <1>5, <1>6, <1>7 DEF PlaceInv

\* A step that gives the lease back, and goes nowhere upstream.
LEMMA ReleasePlaced ==
  ASSUME StateOK, StoreOK, NEW r \in Requests, PlaceInv(r), ReleaseHeld(r), Moved(r),
         h'[r].pc \notin Early \cup {"call", "waiting", "streaming"}
  PROVE  PlaceInv(r)'
<1>1. h[r].faults \in Nat
  BY DEF StateOK, Handler
<1>2. h'[r].faults = 0 => h[r].faults = 0
  BY <1>1 DEF Moved
<1>3. /\ leases' \subseteq leases
      /\ \A l \in leases' : l.req = r => l.gen # h[r].gen
  BY ReleaseHeldDoes
<1>4. h'[r].faults = 0 => \A l \in leases' : l.req # r
  BY <1>2, <1>3 DEF PlaceInv
<1> QED BY <1>4 DEF PlaceInv

\* The step of another request, or one of no request's lease.
LEMMA OthersPlaced ==
  ASSUME StateOK, StoreOK, NEW r \in Requests, NEW q \in Requests, q # r, PlaceInv(q),
         h'[q] = h[q], LeaseStepOf(r)
  PROVE  PlaceInv(q)'
<1>1. \A l \in leases' : l.req = q => l \in leases
  BY DEF LeaseStepOf
<1>2. ASSUME h[q].pc \in {"call", "waiting", "streaming"}
      PROVE  \E l \in leases' : /\ l.req = q /\ l.gen = h[q].gen
                                /\ l.exp + Age[h[q].pc] + h[q].due >= now' + LeaseTTL
  <2>1. PICK l \in leases :
          l.req = q /\ l.gen = h[q].gen /\ l.exp + Age[h[q].pc] + h[q].due >= now + LeaseTTL
    BY <1>2 DEF PlaceInv
  <2>2. now \in Nat /\ l.exp \in Nat /\ h[q].due \in 0..1 /\ Age[h[q].pc] \in 0..2
    BY <1>2 DEF StoreOK, LeaseIn, StateOK, Handler, Age
  <2>3. l.exp > now
    BY <2>1, <2>2, LeaseTTLAssumption, ProxyAssumption
  <2> QED BY <2>1, <2>3 DEF LeaseStepOf
<1> QED BY <1>1, <1>2 DEF PlaceInv

\* Every way a step goes on is such a move.
LEMMA GotoMoves ==
  ASSUME StateOK, NEW r \in Requests, NEW p \in Location
  PROVE  /\ Goto(r, p) => Moved(r) /\ h'[r].pc = p
         /\ Throws(r, p) => Moved(r) /\ h'[r].pc = p /\ h'[r].faults # 0
         /\ GoesOn(r, p) => Moved(r) /\ h'[r].pc = p
<1>1. h[r].faults \in Nat /\ h \in [Requests -> Handler]
  BY DEF StateOK, Handler
<1>2. ASSUME Goto(r, p)
      PROVE  Moved(r) /\ h'[r].pc = p
  BY <1>1, <1>2, GotoContinues DEF Continues, Moved
<1>3. ASSUME Throws(r, p)
      PROVE  Moved(r) /\ h'[r].pc = p /\ h'[r].faults # 0
  BY <1>1, <1>3, ThrowsContinues DEF Continues, Moved
<1> QED BY <1>2, <1>3 DEF GoesOn

\* The steps that assign local variables, as moves of the handler.
LEMMA AssignsMove ==
  ASSUME StateOK, NEW r \in Requests, NEW p \in Location
  PROVE  /\ h' = [h EXCEPT ![r].pc = p, ![r].resv = "none", ![r].due = 0] =>
               Moved(r) /\ h'[r].pc = p
         /\ h' = [h EXCEPT ![r].pc = p, ![r].phase = "attempted", ![r].due = 0] =>
               Moved(r) /\ h'[r].pc = p
         /\ \A n \in Actuals :
               h' = [h EXCEPT ![r].pc = p, ![r].usage = n, ![r].due = 0] =>
                  Moved(r) /\ h'[r].pc = p
<1>1. h[r].faults \in Nat /\ h \in [Requests -> Handler]
  BY DEF StateOK, Handler
<1>2. ASSUME h' = [h EXCEPT ![r].pc = p, ![r].resv = "none", ![r].due = 0]
      PROVE  Moved(r) /\ h'[r].pc = p
  <2>1. h'[r].pc = p /\ h'[r].gen = h[r].gen /\ h'[r].due = 0 /\ h'[r].faults = h[r].faults
    BY <1>1, <1>2, ForgetsReservation
  <2> QED BY <1>1, <2>1 DEF Moved
<1>3. ASSUME h' = [h EXCEPT ![r].pc = p, ![r].phase = "attempted", ![r].due = 0]
      PROVE  Moved(r) /\ h'[r].pc = p
  <2>1. h'[r].pc = p /\ h'[r].gen = h[r].gen /\ h'[r].due = 0 /\ h'[r].faults = h[r].faults
    BY <1>1, <1>3, AttemptsUpstream
  <2> QED BY <1>1, <2>1 DEF Moved
<1>4. ASSUME NEW n \in Actuals, h' = [h EXCEPT ![r].pc = p, ![r].usage = n, ![r].due = 0]
      PROVE  Moved(r) /\ h'[r].pc = p
  <2>1. n \in Nat
    BY ActualsAssumption
  <2>2. h'[r].pc = p /\ h'[r].gen = h[r].gen /\ h'[r].due = 0 /\ h'[r].faults = h[r].faults
    BY <1>1, <1>4, <2>1, SeesUsage
  <2> QED BY <1>1, <2>2 DEF Moved
<1> QED BY <1>2, <1>3, <1>4

\* With no lease yet, the reservation may be tried twice.
LEMMA ReservesMove ==
  ASSUME StateOK, NEW r \in Requests, PlaceInv(r), ReserveAnswered(r) \/ ReserveThrows(r)
  PROVE  Moved(r) /\ h'[r].pc \in {"acquire", "abort", "done", "retry", "markUnknown"}
<1>1. h[r] \in Handler /\ h[r].faults \in Nat /\ h[r].due = 0
  BY DEF StateOK, Handler, PlaceInv, ReserveAnswered, ReserveThrows, At
<1>2. CASE \E p \in {"acquire", "abort"} : h' = [h EXCEPT ![r].pc = p, ![r].resv = "resolved"]
  <2>1. PICK p \in {"acquire", "abort"} : h' = [h EXCEPT ![r].pc = p, ![r].resv = "resolved"]
    BY <1>2
  <2>2. h'[r].pc = p /\ h'[r].gen = h[r].gen /\ h'[r].due = 0 /\ h'[r].faults = h[r].faults
    BY <1>1, <2>1 DEF StateOK, Handler
  <2> QED BY <1>1, <2>2 DEF Moved
<1>3. CASE h' = [h EXCEPT ![r].pc = "markUnknown", ![r].resv = "unknown", ![r].faults = @ + 1]
  <2>1. /\ h'[r].pc = "markUnknown" /\ h'[r].gen = h[r].gen /\ h'[r].due = 0
        /\ h'[r].faults = h[r].faults + 1
    BY <1>1, <1>3 DEF StateOK, Handler
  <2> QED BY <1>1, <2>1 DEF Moved
<1>4. CASE Goto(r, "done") \/ Throws(r, "retry")
  BY <1>4, GotoMoves DEF Location
<1> QED BY <1>2, <1>3, <1>4 DEF ReserveAnswered, ReserveThrows, AfterReserve

\* What every step of r does for the leases.
Placed(r) == LeaseStepOf(r) /\ PlaceInv(r)'

\* A step that touches no lease.
LEMMA QuietStep ==
  ASSUME StoreOK, UNCHANGED leaseVars, NEW r \in Requests
  PROVE  LeaseStepOf(r)
BY DEF leaseVars, LeaseStepOf, StoreOK

\* Up to the answer of upstream the place is what the acquisition gave.
LEMMA BeforeUpstreamPlaced ==
  ASSUME StateOK, StoreOK, NEW r \in Requests, PlaceInv(r),
         \/ Start(r) \/ ReserveAnswered(r) \/ ReserveThrows(r) \/ MarkUnknown(r) \/ Abort(r)
         \/ Refuse(r) \/ Call(r) \/ Respond(r)
  PROVE  Placed(r)
<1> USE DEF At, Location
<1>1. UNCHANGED leaseVars
  BY DEF Start, ReserveAnswered, ReserveThrows, MarkUnknown, Abort, Refuse, Call, Respond
<1>2. CASE Start(r)
  BY <1>1, <1>2, GotoMoves, QuietStep, StaysPlaced DEF Start, Placed
<1>3. CASE ReserveAnswered(r) \/ ReserveThrows(r)
  <2>1. h[r].pc \in Early
    BY <1>3 DEF ReserveAnswered, ReserveThrows
  <2> QED BY <1>1, <1>3, <2>1, ReservesMove, QuietStep, StaysPlaced DEF Placed
<1>4. CASE MarkUnknown(r)
  BY <1>1, <1>4, GotoMoves, QuietStep, StaysPlaced DEF MarkUnknown, Placed
<1>5. CASE Abort(r)
  BY <1>1, <1>5, GotoMoves, QuietStep, StaysPlaced DEF Abort, Placed
<1>6. CASE Refuse(r)
  <2>1. \/ Moved(r) /\ h'[r].pc = (IF h[r].gen = NoGeneration THEN "done" ELSE "freeFailed")
        \/ Moved(r) /\ h'[r].pc = "catch"
    BY <1>6, GotoMoves, AssignsMove DEF Refuse
  <2> QED BY <1>1, <1>6, <2>1, QuietStep, StaysPlaced DEF Refuse, Placed
<1>7. CASE Call(r)
  <2>1. Moved(r) /\ h'[r].pc \in {"refuse", "catch", "waiting"} /\ h[r].pc = "call"
    BY <1>7, GotoMoves, AssignsMove DEF Call
  <2> QED BY <1>1, <2>1, QuietStep, StaysPlaced DEF Placed
<1>8. CASE Respond(r)
  <2>1. /\ Moved(r) /\ h[r].pc = "waiting"
        /\ h'[r].pc \in {"mark", "cMark", "streaming", "cMissing", "cSettle"}
    <3>1. CASE \E p \in {"mark", "cMark", "streaming", "cMissing"} : Goto(r, p)
      BY <1>8, <3>1, GotoMoves DEF Respond
    <3>2. CASE \E n \in Actuals : h' = [h EXCEPT ![r].pc = "cSettle", ![r].usage = n, ![r].due = 0]
      BY <1>8, <3>2, AssignsMove DEF Respond
    <3> QED BY <1>8, <3>1, <3>2 DEF Respond
  <2> QED BY <1>1, <2>1, QuietStep, StaysPlaced DEF Placed
<1> QED BY <1>2, <1>3, <1>4, <1>5, <1>6, <1>7, <1>8

\* Deciding the outcome leaves the place alone; the handler stops using it.
LEMMA OutcomePlaced ==
  ASSUME StateOK, StoreOK, NEW r \in Requests, PlaceInv(r),
         \/ Mark(r) \/ CompletedSettle(r) \/ CompletedMark(r) \/ StreamEnds(r)
         \/ FinalizeOutcome(r) \/ Catch(r) \/ Killed(r)
  PROVE  Placed(r)
<1> USE DEF At, Location
<1>1. UNCHANGED leaseVars
  BY DEF Mark, CompletedSettle, CompletedMark, StreamEnds, FinalizeOutcome, Catch, Killed
<1>2. CASE Catch(r)
  <2>1. Moved(r) /\ h'[r].pc = (IF h[r].gen = NoGeneration THEN "done" ELSE "catchLease")
    BY <1>2, GotoMoves DEF Catch, AfterCatch
  <2> QED BY <1>1, <2>1, QuietStep, StaysPlaced DEF Placed
<1>3. CASE Mark(r) \/ StreamEnds(r) \/ Killed(r)
  <2>1. Moved(r) /\ h'[r].pc \in {"freeUncertain", "catch", "fSettle", "fMark", "fUncertain", "dead"}
    BY <1>3, GotoMoves, AssignsMove DEF Mark, StreamEnds, Killed
  <2> QED BY <1>1, <2>1, QuietStep, StaysPlaced DEF Placed
<1>4. CASE CompletedSettle(r) \/ CompletedMark(r) \/ FinalizeOutcome(r)
  <2>1. Moved(r) /\ h'[r].pc \in {"cFree", "cFreeLast", "escaped", "fFree", "fUncertain"}
    BY <1>4, GotoMoves DEF CompletedSettle, CompletedMark, FinalizeOutcome
  <2> QED BY <1>1, <2>1, QuietStep, StaysPlaced DEF Placed
<1> QED BY <1>2, <1>3, <1>4

\* Giving the place back ends its use.
LEMMA FreeingPlaced ==
  ASSUME StateOK, StoreOK, NEW r \in Requests, PlaceInv(r),
         \/ AbortLease(r) \/ Free(r) \/ CompletedFree(r) \/ FinalizeLease(r)
         \/ FinalizeUncertain(r) \/ CatchLease(r)
  PROVE  Placed(r)
<1> USE DEF At, Location
<1>1. Moved(r) /\ h'[r].pc \in {"abort", "done", "catch", "escaped", "fUncertain", "fLast"}
  BY GotoMoves DEF AbortLease, Free, CompletedFree, FinalizeLease, FinalizeUncertain, CatchLease
<1>2. CASE ReleaseHeld(r)
  BY <1>1, <1>2, ReleaseHeldDoes, ReleasePlaced DEF Placed
<1>3. CASE UNCHANGED leaseVars /\ (h'[r].pc \in {"catch", "escaped", "fUncertain", "fLast"}
                                    \/ h'[r].faults # 0)
  BY <1>1, <1>3, QuietStep, StaysPlaced DEF Placed
<1>4. ReleaseHeld(r) \/ (UNCHANGED leaseVars /\ (h'[r].pc \in {"catch", "escaped", "fUncertain", "fLast"}
                                                  \/ h'[r].faults # 0))
  BY GotoMoves DEF AbortLease, Free, CompletedFree, FinalizeLease, FinalizeUncertain, CatchLease
<1> QED BY <1>2, <1>3, <1>4

\* An acquisition gives a lease of full length, or nothing.
LEMMA AcquirePlaced ==
  ASSUME StateOK, StoreOK, NEW r \in Requests, PlaceInv(r), AcquireAnswered(r) \/ AcquireThrows(r)
  PROVE  Placed(r)
<1> USE DEF At, Location
<1>1. /\ h[r].pc = "acquire" /\ h[r] \in Handler /\ h[r].faults \in Nat /\ h[r].due = 0
      /\ \A l \in leases : l.req # r
  BY DEF AcquireAnswered, AcquireThrows, PlaceInv, StateOK, Handler
<1>2. CASE AcquireThrows(r)
  <2>1. Moved(r) /\ h'[r].pc = "catch" /\ h'[r].faults # 0
    BY <1>2, GotoMoves DEF AcquireThrows
  <2>2. LeaseStepOf(r)
    BY <1>2, AcquireLeaseDoes, QuietStep DEF AcquireThrows
  <2>3. PlaceInv(r)'
    BY <2>1 DEF PlaceInv
  <2> QED BY <2>2, <2>3 DEF Placed
<1>3. CASE AcquireAnswered(r)
  <2>1. /\ LeaseStepOf(r)
        /\ \A l \in leases' : l.req = r => l.gen = nextGeneration /\ l.exp = now + LeaseTTL
    BY <1>1, <1>3, AcquireLeaseDoes DEF AcquireAnswered
  <2>2. CASE \E l \in leases', next \in AfterAcquire(r) :
               l.req = r /\ h' = [h EXCEPT ![r].pc = next, ![r].gen = l.gen]
    <3>1. PICK l \in leases', next \in {"call", "abortLease"} :
            l.req = r /\ h' = [h EXCEPT ![r].pc = next, ![r].gen = l.gen]
      BY <2>2 DEF AfterAcquire
    <3>2. h'[r].pc = next /\ h'[r].gen = l.gen /\ h'[r].due = 0
      BY <1>1, <3>1 DEF Handler, StateOK
    <3>3. next = "call" => l.exp + Age[next] + 0 >= now' + LeaseTTL
      BY <2>1, <3>1, LeaseTTLAssumption DEF LeaseStepOf, StoreOK, Age
    <3>4. PlaceInv(r)'
      <4>1. \A m \in leases' : m.req = r => m.gen = h'[r].gen
        BY <2>1, <3>1, <3>2
      <4>2. next = "call" =>
              \E m \in leases' : /\ m.req = r /\ m.gen = h'[r].gen
                                 /\ m.exp + Age[h'[r].pc] + h'[r].due >= now' + LeaseTTL
        BY <3>1, <3>2, <3>3
      <4> QED BY <3>1, <3>2, <4>1, <4>2 DEF PlaceInv
    <3> QED BY <2>1, <3>4 DEF Placed
  <2>3. CASE (\A l \in leases' : l.req # r) /\ \E next \in AfterRefusal(r) : Goto(r, next)
    <3>1. PICK next \in {"refuse", "abort"} : Goto(r, next)
      BY <2>3 DEF AfterRefusal
    <3>2. Moved(r) /\ h'[r].pc = next
      BY <3>1, GotoMoves
    <3>3. PlaceInv(r)'
      BY <2>3, <3>2 DEF PlaceInv
    <3> QED BY <2>1, <3>3 DEF Placed
  <2> QED BY <1>3, <2>2, <2>3 DEF AcquireAnswered
<1> QED BY <1>2, <1>3

\* A stream goes on only under a lease that was just renewed.
LEMMA RenewPlaced ==
  ASSUME StateOK, StoreOK, NEW r \in Requests, PlaceInv(r), Renew(r)
  PROVE  Placed(r)
<1> USE DEF At, Location
<1>1. h[r].faults \in Nat
  BY DEF StateOK, Handler
<1>2. /\ Moved(r)
      /\ \/ h'[r].pc = "streaming" /\ \E l \in ActiveOf(r) : l.gen = h[r].gen
         \/ h'[r].pc = "fUncertain"
  BY GotoMoves DEF Renew
<1>3. h'[r].faults = 0 => h[r].faults = 0
  BY <1>1, <1>2 DEF Moved
<1>4. CASE UNCHANGED leaseVars /\ h'[r].pc = "fUncertain"
  BY <1>2, <1>4, QuietStep, StaysPlaced DEF Placed
<1>5. CASE RenewLease(r, h[r].gen)
  <2>1. /\ LeaseStepOf(r)
        /\ \A l \in leases' : \E m \in leases : l.req = m.req /\ l.gen = m.gen
        /\ (\E l \in ActiveOf(r) : l.gen = h[r].gen) =>
              \E l \in leases' : l.req = r /\ l.gen = h[r].gen /\ l.exp = now + LeaseTTL
    BY <1>5, RenewLeaseDoes
  <2>2. h'[r].faults = 0 => \A l \in leases' : l.req = r => l.gen = h'[r].gen
    BY <1>2, <1>3, <2>1 DEF PlaceInv, Moved
  <2>3. ASSUME h'[r].pc = "streaming"
        PROVE  \E l \in leases' : /\ l.req = r /\ l.gen = h'[r].gen
                                  /\ l.exp + 2 + 0 >= now' + LeaseTTL
    <3>1. PICK l \in leases' : l.req = r /\ l.gen = h[r].gen /\ l.exp = now + LeaseTTL
      BY <1>2, <2>1, <2>3
    <3>2. l.exp + 2 + 0 >= now' + LeaseTTL
      BY <2>1, <3>1, LeaseTTLAssumption DEF LeaseStepOf, StoreOK
    <3> QED BY <1>2, <3>1, <3>2 DEF Moved
  <2>4. PlaceInv(r)'
    BY <1>2, <2>2, <2>3 DEF PlaceInv, Moved, Age
  <2> QED BY <2>1, <2>4 DEF Placed
<1>6. RenewLease(r, h[r].gen) \/ (UNCHANGED leaseVars /\ h'[r].pc = "fUncertain")
  BY GotoMoves DEF Renew
<1> QED BY <1>4, <1>5, <1>6

(***************************************************************************)
(* The whole route.                                                        *)
(***************************************************************************)

\* What a handler asks of the ledger is what the ledger offers: an operation of
\* the QuotaController with arguments of their types, or nothing.
LEMMA CallsAreLedgerSteps ==
  ASSUME StateOK, NEW r \in Requests
  PROVE  /\ CallMarkUncertain(r) \/ CallMarkUnknown(r) \/ CallRelease(r) => [LedgerNext]_ledgerVars
         /\ \A n \in Actuals : CallSettle(r, n) => [LedgerNext]_ledgerVars
         /\ \A limit \in Limits : CallReserve(r, limit) => [LedgerNext]_ledgerVars
<1>1. CallMarkUncertain(r) \/ CallMarkUnknown(r) \/ CallRelease(r) => [LedgerNext]_ledgerVars
  BY DEF CallMarkUncertain, CallMarkUnknown, CallRelease, LedgerNext, RequestStep
<1>2. \A n \in Actuals : CallSettle(r, n) => [LedgerNext]_ledgerVars
  BY DEF CallSettle, LedgerNext, RequestStep
<1>3. ASSUME NEW limit \in Limits, CallReserve(r, limit)
      PROVE  [LedgerNext]_ledgerVars
  <2>1. h[r].size \in Sizes /\ h[r].key \in Keys \cup {NoKey}
    BY DEF StateOK, Handler
  <2>2. CASE Outcome(r, limit) = "reserved" /\ PutReservation(r, h[r].size, h[r].key, limit)
    BY <2>1, <2>2 DEF Outcome, Reserve, RequestStep, LedgerNext
  <2> QED BY <1>3, <2>2 DEF CallReserve
<1> QED BY <1>1, <1>2, <1>3

\* Every step of a handler is one operation of the ledger or none.
LEMMA StepIsLedgerStep ==
  ASSUME StateOK, \A r \in Requests : RequestInv(r), [ProxyNext]_vars
  PROVE  [LedgerNext]_ledgerVars
<1>1. CASE UNCHANGED vars \/ Tick
  BY <1>1 DEF vars, Tick
<1>2. ASSUME NEW r \in Requests, Start(r) \/ HandlerStep(r) \/ Renew(r) \/ Killed(r)
      PROVE  [LedgerNext]_ledgerVars
  <2>1. CASE Start(r) \/ Renew(r) \/ Killed(r)
    BY <2>1 DEF Start, Renew, Killed
  <2>2. CASE ReserveAnswered(r) \/ ReserveThrows(r)
    BY <2>2, CallsAreLedgerSteps DEF ReserveAnswered, ReserveThrows
  <2>3. CASE AcquireAnswered(r) \/ AcquireThrows(r) \/ AbortLease(r) \/ Call(r) \/ Respond(r)
             \/ Free(r) \/ CompletedFree(r) \/ StreamEnds(r) \/ FinalizeLease(r) \/ CatchLease(r)
    BY <2>3 DEF AcquireAnswered, AcquireThrows, AbortLease, Call, Respond, Free, CompletedFree,
                StreamEnds, FinalizeLease, CatchLease
  <2>4. CASE CompletedSettle(r) \/ FinalizeOutcome(r)
    <3>1. h[r].pc \in {"cSettle", "fSettle"} => h[r].usage \in Actuals
      BY DEF RequestInv, LocalInv
    <3> QED BY <2>4, <3>1, CallsAreLedgerSteps DEF CompletedSettle, FinalizeOutcome, At
  <2>5. CASE MarkUnknown(r) \/ Abort(r) \/ Refuse(r) \/ Mark(r) \/ CompletedMark(r)
             \/ FinalizeUncertain(r) \/ Catch(r)
    BY <2>5, CallsAreLedgerSteps DEF MarkUnknown, Abort, Refuse, Mark, CompletedMark,
       FinalizeUncertain, Catch, CatchQuota
  <2> QED BY <1>2, <2>1, <2>2, <2>3, <2>4, <2>5 DEF HandlerStep
<1> QED BY <1>1, <1>2 DEF ProxyNext

\* The inductive invariant.
ProxyInv ==
    /\ LedgerInv /\ StateOK /\ StoreOK
    /\ \A r \in Requests : RequestInv(r) /\ PlaceInv(r)

\* One handler's step keeps everything about its request and its lease.
LEMMA RequestKept ==
  ASSUME ProxyInv, NEW r \in Requests, Start(r) \/ HandlerStep(r) \/ Renew(r) \/ Killed(r)
  PROVE  Kept(r) /\ Placed(r)
<1>1. StateOK /\ StoreOK /\ RequestInv(r) /\ PlaceInv(r)
  BY DEF ProxyInv
<1>2. Placed(r)
  BY <1>1, BeforeUpstreamPlaced, OutcomePlaced, FreeingPlaced, AcquirePlaced, RenewPlaced
     DEF HandlerStep
<1>3. leases' \in SUBSET LeaseIn(Requests)
  BY <1>2 DEF Placed, LeaseStepOf, StoreOK
<1>4. Kept(r)
  <2>1. CASE Start(r) \/ Renew(r) \/ Killed(r)
    BY <1>1, <2>1, StartKeeps, RenewKeeps, KilledKeeps
  <2>2. CASE ReserveAnswered(r) \/ ReserveThrows(r) \/ MarkUnknown(r) \/ AcquireAnswered(r)
             \/ AcquireThrows(r) \/ AbortLease(r) \/ Abort(r) \/ Refuse(r)
    BY <1>1, <1>3, <2>2, ReserveAnsweredKeeps, ReserveThrowsKeeps, MarkUnknownKeeps,
       AcquireAnsweredKeeps, AcquireThrowsKeeps, AbortLeaseKeeps, AbortKeeps, RefuseKeeps
  <2>3. CASE Call(r) \/ Respond(r) \/ Mark(r) \/ Free(r)
             \/ CompletedSettle(r) \/ CompletedMark(r) \/ CompletedFree(r)
    BY <1>1, <2>3, CallKeeps, RespondKeeps, MarkKeeps, FreeKeeps, CompletedSettleKeeps,
       CompletedMarkKeeps, CompletedFreeKeeps
  <2>4. CASE StreamEnds(r) \/ FinalizeOutcome(r) \/ FinalizeLease(r) \/ FinalizeUncertain(r)
             \/ Catch(r) \/ CatchLease(r)
    BY <1>1, <2>4, StreamEndsKeeps, FinalizeOutcomeKeeps, FinalizeLeaseKeeps,
       FinalizeUncertainKeeps, CatchKeeps, CatchLeaseKeeps
  <2> QED BY <2>1, <2>2, <2>3, <2>4 DEF HandlerStep
<1> QED BY <1>2, <1>4

\* A step that keeps its own request keeps the whole invariant.
LEMMA KeptKeepsAll ==
  ASSUME ProxyInv, LedgerInv', NEW r \in Requests, Kept(r), Placed(r)
  PROVE  ProxyInv'
<1>1. StateOK' /\ StoreOK'
  BY DEF Kept, OnlyAbout, Placed, LeaseStepOf, StateOK, LedgerInv, LedgerTypeOK
<1>2. ASSUME NEW q \in Requests
      PROVE  RequestInv(q)' /\ PlaceInv(q)'
  <2>1. CASE q = r
    BY <2>1 DEF Kept, Placed
  <2>2. CASE q # r
    <3>1. /\ h'[q] = h[q] /\ entries'[q] = entries[q] /\ row'[q] = row[q]
          /\ q \in sent' <=> q \in sent
      BY <2>2 DEF Kept, OnlyAbout
    <3>2. RequestInv(q)'
      BY <3>1 DEF ProxyInv, RequestInv, EntryInv, LocalInv, CatchInv, ExitInv, Concluded
    <3>3. PlaceInv(q)'
      BY <2>2, <3>1, OthersPlaced DEF ProxyInv, Placed
    <3> QED BY <3>2, <3>3
  <2> QED BY <2>1, <2>2
<1> QED BY <1>1, <1>2 DEF ProxyInv

\* Time only makes the handlers that have a lease due for a step.
LEMMA TickKept ==
  ASSUME ProxyInv, Tick
  PROVE  /\ StateOK' /\ StoreOK' /\ entries' = entries /\ sent' = sent
         /\ \A r \in Requests : RequestInv(r)' /\ PlaceInv(r)'
<1>1. /\ entries' = entries /\ sent' = sent /\ row' = row /\ leases' = leases /\ legacy' = legacy
      /\ nextGeneration' = nextGeneration /\ now \in Nat /\ now' = now + 1
  BY DEF Tick, ledgerVars, ProxyInv, StoreOK
<1>2. ASSUME NEW r \in Requests
      PROVE  /\ h'[r] \in Handler
             /\ h'[r].pc = h[r].pc /\ h'[r].mode = h[r].mode /\ h'[r].resv = h[r].resv
             /\ h'[r].phase = h[r].phase /\ h'[r].gen = h[r].gen /\ h'[r].usage = h[r].usage
             /\ h'[r].faults = h[r].faults
             /\ h[r].due = 0 /\ h'[r].due \in {0, 1}
             /\ h'[r].due = 0 => h[r].gen = NoGeneration \/ h[r].pc \in Ended
             /\ h'[r].due = 1 => h[r].gen # NoGeneration
  <2>1. h[r] \in Handler /\ h[r].due = 0
    BY DEF ProxyInv, StateOK, Tick
  <2>2. CASE h[r].gen # NoGeneration /\ h[r].pc \notin Ended
    <3>1. h'[r] = [h[r] EXCEPT !.due = 1]
      BY <2>2 DEF Tick
    <3> QED BY <2>1, <2>2, <3>1 DEF Handler
  <2>3. CASE ~(h[r].gen # NoGeneration /\ h[r].pc \notin Ended)
    <3>1. h'[r] = h[r]
      BY <2>3 DEF Tick
    <3> QED BY <2>1, <2>3, <3>1
  <2> QED BY <2>2, <2>3
<1>3. h' \in [Requests -> Handler]
  <2>1. h' = [r \in Requests |-> h'[r]]
    BY DEF Tick
  <2> QED BY <1>2, <2>1
<1>4. StateOK' /\ StoreOK'
  BY <1>1, <1>3 DEF ProxyInv, StateOK, StoreOK
<1>5. ASSUME NEW r \in Requests
      PROVE  RequestInv(r)'
  <2>1. RequestInv(r)
    BY DEF ProxyInv
  <2> QED BY <1>1, <1>2, <2>1
          DEF RequestInv, EntryInv, LocalInv, CatchInv, ExitInv, Concluded
<1>6. ASSUME NEW r \in Requests
      PROVE  PlaceInv(r)'
  <2>1. PlaceInv(r) /\ \A l \in leases : l.gen \in Nat /\ l.exp \in Nat
    BY DEF ProxyInv, StoreOK, LeaseIn
  <2>2. ASSUME h[r].pc \in {"call", "waiting", "streaming"}
        PROVE  \E l \in leases : /\ l.req = r /\ l.gen = h[r].gen
                                 /\ l.exp + Age[h[r].pc] + h'[r].due >= now' + LeaseTTL
    <3>1. PICK l \in leases :
            l.req = r /\ l.gen = h[r].gen /\ l.exp + Age[h[r].pc] + h[r].due >= now + LeaseTTL
      BY <2>1, <2>2 DEF PlaceInv
    <3>2. h[r].due = 0 /\ h'[r].due = 1
      BY <1>2, <2>1, <2>2, <3>1 DEF NoGeneration
    <3>3. Age[h[r].pc] \in Nat
      BY <2>2 DEF Age
    <3> QED BY <1>1, <2>1, <3>1, <3>2, <3>3, LeaseTTLAssumption
  <2>3. h[r].pc \in Early => h'[r].due = 0
    BY <1>2, <2>1 DEF PlaceInv
  <2> QED BY <1>1, <1>2, <2>1, <2>2, <2>3 DEF PlaceInv
<1> QED BY <1>1, <1>4, <1>5, <1>6

\* Every step keeps the invariant.
LEMMA ProxyInvStep ==
  ASSUME ProxyInv, [ProxyNext]_vars
  PROVE  ProxyInv'
<1>1. LedgerInv'
  BY StepIsLedgerStep, LedgerInvStep DEF ProxyInv
<1>2. CASE UNCHANGED vars
  BY <1>1, <1>2
     DEF vars, ledgerVars, leaseVars, proxyVars, ProxyInv, StateOK, StoreOK, RequestInv, PlaceInv,
         EntryInv, LocalInv, CatchInv, ExitInv, Concluded
<1>3. CASE Tick
  BY <1>1, <1>3, TickKept DEF ProxyInv
<1>4. ASSUME NEW r \in Requests, Start(r) \/ HandlerStep(r) \/ Renew(r) \/ Killed(r)
      PROVE  ProxyInv'
  BY <1>1, <1>4, RequestKept, KeptKeepsAll
<1> QED BY <1>2, <1>3, <1>4 DEF ProxyNext

\* A handler starts with nothing held.
LEMMA NewHandlerType ==
  ASSUME NEW k \in Kinds, NEW size \in Sizes, NEW key \in Keys \cup {NoKey}
  PROVE  /\ NewHandler(k, size, key) \in Handler
         /\ NewHandler(k, size, key).pc = "idle" /\ NewHandler(k, size, key).resv = "none"
         /\ NewHandler(k, size, key).phase = "before" /\ NewHandler(k, size, key).faults = 0
         /\ NewHandler(k, size, key).gen = NoGeneration /\ NewHandler(k, size, key).due = 0
         /\ NewHandler(k, size, key).usage = NoUsage
BY DEF NewHandler, Handler, Location

\* The invariant holds before the first request.
LEMMA ProxyInvInit ==
  ASSUME ProxyInit
  PROVE  ProxyInv
<1>1. LedgerInv
  BY FreshLedger DEF ProxyInit
<1>2. \A r \in Requests :
        /\ h[r] \in Handler /\ h[r].pc = "idle" /\ h[r].resv = "none" /\ h[r].phase = "before"
        /\ h[r].faults = 0 /\ h[r].gen = NoGeneration /\ h[r].due = 0 /\ h[r].usage = NoUsage
  <2>1. ASSUME NEW r \in Requests
        PROVE  \E k \in Kinds, size \in Sizes, key \in Keys \cup {NoKey} :
                  h[r] = NewHandler(k, size, key)
    BY DEF ProxyInit
  <2> QED BY <2>1, NewHandlerType
<1>3. h \in [Requests -> Handler]
  <2>1. h = [r \in Requests |-> h[r]]
    BY DEF ProxyInit
  <2> QED BY <1>2, <2>1
<1>4. StateOK
  BY <1>1, <1>3 DEF ProxyInit, StateOK, LedgerInv, LedgerTypeOK, RowStatus
<1>5. StoreOK
  BY FS_EmptySet, MaxInFlightAssumption DEF ProxyInit, StoreOK
<1>6. \A r \in Requests : entries[r].state = "absent" /\ row[r].status = "none"
  BY DEF ProxyInit, LedgerInit, NoEntry
<1>7. \A r \in Requests : RequestInv(r)
  BY <1>2, <1>6 DEF ProxyInit, RequestInv, EntryInv, LocalInv, CatchInv, ExitInv
<1>8. \A r \in Requests : PlaceInv(r)
  BY <1>2 DEF ProxyInit, PlaceInv
<1> QED BY <1>1, <1>4, <1>5, <1>7, <1>8 DEF ProxyInv

\* What the invariant says of handlers that ended and of the rows they left ...
LEMMA ExitsFollow ==
  ProxyInv => CleanExit /\ AnsweredIsAccounted /\ AuditTellsOutcome
<1>1. ProxyInv => CleanExit
  BY DEF ProxyInv, CleanExit, RequestInv, ExitInv, PlaceInv, At
<1>2. ProxyInv => AnsweredIsAccounted
  BY DEF ProxyInv, AnsweredIsAccounted, OutcomeKnown, RequestInv, ExitInv, At, StateOK
<1>3. ProxyInv => AuditTellsOutcome
  BY DEF ProxyInv, AuditTellsOutcome, RequestInv, ExitInv
<1> QED BY <1>1, <1>2, <1>3

\* ... and of those that run: each has a lease of its own.
LEMMA BoundFollows ==
  ASSUME ProxyInv
  PROVE  UpstreamConcurrencyBounded
<1> DEFINE running == {r \in Requests : h[r].pc \in {"waiting", "streaming"}}
           held == {l \in leases : l.req \in running}
<1>1. IsFiniteSet(held) /\ Cardinality(held) =< Cardinality(leases)
  <2>1. held \in SUBSET leases
    OBVIOUS
  <2> QED BY <2>1, FS_Subset DEF ProxyInv, StoreOK
<1>2. \A r \in running : \E l \in held : l.req = r
  BY DEF ProxyInv, PlaceInv
<1> HIDE DEF running
<1>3. [l \in held |-> l.req] \in Surjection(held, running)
  BY <1>2 DEF Surjection
<1> HIDE DEF held
<1>4. IsFiniteSet(running) /\ Cardinality(running) =< Cardinality(held)
  BY <1>1, <1>3, FS_Surjection
<1>5. Cardinality(running) \in Nat /\ Cardinality(held) \in Nat /\ Cardinality(leases) \in Nat
  BY <1>1, <1>4, FS_CardinalityType DEF ProxyInv, StoreOK
<1>6. Cardinality(running) =< MaxInFlight
  BY <1>1, <1>4, <1>5, MaxInFlightAssumption DEF ProxyInv, StoreOK
<1> QED BY <1>6 DEF UpstreamConcurrencyBounded, running

\* The inductive invariant of the direct route.
THEOREM ProxyInvariant == ProxySpec => []ProxyInv
<1>1. ProxyInv /\ [ProxyNext]_vars => ProxyInv'
  BY ProxyInvStep
<1> QED BY <1>1, ProxyInvInit, PTL DEF ProxySpec

\* The ledger, the leases, the handlers and the audit rows keep their types.
THEOREM ProxyTypeCorrect == ProxySpec => []ProxyTypeOK
<1>1. ProxyInv => ProxyTypeOK
  BY DEF ProxyInv, ProxyTypeOK, LedgerInv, StateOK, StoreOK
<1> QED BY <1>1, ProxyInvariant, PTL

\* Seen from the QuotaController the direct route is a client of the ledger like
\* any other, so that what is proved of every ledger holds of its books.
THEOREM ProxyUsesLedger == ProxySpec => LedgerSpec
<1>1. ProxyInit => LedgerInit
  BY DEF ProxyInit
<1>2. ProxyInv /\ [ProxyNext]_vars => [LedgerNext]_ledgerVars
  BY StepIsLedgerStep DEF ProxyInv
<1> QED BY <1>1, <1>2, ProxyInvariant, PTL DEF ProxySpec, LedgerSpec

\* Hence the accounting invariants hold although handlers race, die, and have RPCs
\* that throw, executed or not.
THEOREM ProxyKeepsBooks ==
  ProxySpec => /\ [](LedgerBalanced /\ OvercommitOnlyByExcess /\ IdempotencyExclusive)
               /\ OutcomesAreFinal /\ StrictAdmissionCovered
BY ProxyUsesLedger, LedgerAlwaysBalanced, LedgerOvercommit, LedgerIdempotent, LedgerOutcomesFinal,
   LedgerStrictAdmission, PTL

\* What a handler whose RPCs all succeeded leaves behind: no open reservation, no
\* lease, and exactly the usage upstream reported.
THEOREM ExitsAreClean == ProxySpec => []CleanExit
BY ExitsFollow, ProxyInvariant, PTL

\* An answered request that was sent upstream is settled or uncertain, also when
\* one of its RPCs threw, executed or not.
THEOREM AnswersAreAccounted == ProxySpec => []AnsweredIsAccounted
BY ExitsFollow, ProxyInvariant, PTL

\* No audit row contradicts the ledger, however many RPCs and audit writes fail.
THEOREM AuditRowsAgree == ProxySpec => []AuditTellsOutcome
BY ExitsFollow, ProxyInvariant, PTL

\* No more upstream calls run than there may be leases: each of them has a lease
\* of its own in the record, which is within MAX_IN_FLIGHT_REQUESTS.
THEOREM UpstreamIsBounded == ProxySpec => []UpstreamConcurrencyBounded
<1>1. ProxyInv => UpstreamConcurrencyBounded
  BY BoundFollows
<1> QED BY <1>1, ProxyInvariant, PTL

(***************************************************************************)
(* The refinement of the contract.                                         *)
(***************************************************************************)

\* A step that the contract allows one request is a step of the contract.
LEMMA AllowedIsContractStep ==
  ASSUME StateOK, NEW q \in Requests, OnlyAbout(q), Allowed(q)
  PROVE  [Contract!ContractNext]_<<[r \in Requests |-> AccountOf(r)], sent>>
<1> DEFINE A == [r \in Requests |-> AccountOf(r)]
           B == [r \in Requests |-> AccountOf(r)']
<1>1. \A p \in Requests \ {q} : B[p] = A[p]
  BY DEF OnlyAbout, AccountOf
<1>2. ASSUME NEW to, B[q] = to
      PROVE  B = [A EXCEPT ![q] = to]
  <2> HIDE DEF AccountOf
  <2> QED BY <1>1, <1>2
<1>3. B[q] = A[q] => B = A
  <2> HIDE DEF AccountOf
  <2> QED BY <1>1
<1>4. CASE entries'[q].state = entries[q].state /\ sent' = sent
  <2>1. B[q] = A[q]
    BY <1>4 DEF AccountOf
  <2> QED BY <1>3, <1>4, <2>1
<1>5. CASE /\ sent' = sent /\ q \notin sent
           /\ entries[q].state = "absent" /\ entries'[q].state = "reserved"
  <2>1. A[q] = "none" /\ B[q] = "held"
    BY <1>5 DEF AccountOf
  <2>2. Contract!Hold(q)
    BY <1>2, <1>5, <2>1 DEF Contract!Hold, Contract!Moves
  <2> QED BY <2>2 DEF Contract!ContractNext
<1>6. CASE sent' = sent /\ entries[q].state = "reserved" /\ entries'[q].state = "uncertain"
  <2>1. A[q] = "held" /\ B[q] = "doubt"
    BY <1>6 DEF AccountOf
  <2>2. Contract!Doubt(q)
    BY <1>2, <1>6, <2>1 DEF Contract!Doubt, Contract!Moves
  <2> QED BY <2>2 DEF Contract!ContractNext
<1>7. CASE /\ sent' = sent /\ q \notin sent
           /\ entries[q].state = "reserved" /\ entries'[q].state = "released"
  <2>1. A[q] = "held" /\ B[q] = "free"
    BY <1>7 DEF AccountOf
  <2>2. Contract!Free(q)
    BY <1>2, <1>7, <2>1 DEF Contract!Free, Contract!Moves
  <2> QED BY <2>2 DEF Contract!ContractNext
<1>8. CASE /\ sent' = sent /\ q \in sent
           /\ entries[q].state = "reserved" /\ entries'[q].state = "settled"
  <2>1. A[q] = "held" /\ B[q] = "charged"
    BY <1>8 DEF AccountOf
  <2>2. Contract!Charge(q)
    BY <1>2, <1>8, <2>1 DEF Contract!Charge, Contract!Moves
  <2> QED BY <2>2 DEF Contract!ContractNext
<1>9. CASE /\ sent' = sent \cup {q} /\ q \notin sent
           /\ entries[q].state = "reserved" /\ entries'[q].state = "reserved"
  <2>1. A[q] = "held" /\ B[q] = A[q]
    BY <1>9 DEF AccountOf
  <2>2. Contract!Send(q)
    BY <1>3, <1>9, <2>1 DEF Contract!Send
  <2> QED BY <2>2 DEF Contract!ContractNext
<1> QED BY <1>4, <1>5, <1>6, <1>7, <1>8, <1>9 DEF Allowed

\* Every step keeps to the contract.
LEMMA ContractFollows ==
  ASSUME ProxyInv, [ProxyNext]_vars
  PROVE  [Contract!ContractNext]_<<[r \in Requests |-> AccountOf(r)], sent>>
<1>1. CASE UNCHANGED vars \/ Tick
  <2>1. entries' = entries /\ sent' = sent
    BY <1>1 DEF vars, ledgerVars, proxyVars, Tick
  <2>2. \A q \in Requests : AccountOf(q)' = AccountOf(q)
    BY <2>1 DEF AccountOf
  <2> QED BY <2>1, <2>2, Zenon
<1>2. ASSUME NEW q \in Requests, Start(q) \/ HandlerStep(q) \/ Renew(q) \/ Killed(q)
      PROVE  [Contract!ContractNext]_<<[r \in Requests |-> AccountOf(r)], sent>>
  <2>1. Kept(q)
    BY <1>2, RequestKept
  <2> QED BY <2>1, AllowedIsContractStep DEF Kept, ProxyInv
<1> QED BY <1>1, <1>2 DEF ProxyNext

\* The direct route implements the contract of a request, for any number of
\* requests, faults and kills: nothing is sent unaccounted, nothing that may have
\* been spent is given back, and nothing is charged twice.
THEOREM ProxyImplementsContract == ProxySpec => ImplementsContract
<1>1. ProxyInit => Contract!ContractInit
  BY DEF ProxyInit, LedgerInit, NoEntry, AccountOf, Contract!ContractInit
<1>2. ProxyInv /\ [ProxyNext]_vars =>
        [Contract!ContractNext]_<<[r \in Requests |-> AccountOf(r)], sent>>
  BY ContractFollows
<1> QED BY <1>1, <1>2, ProxyInvariant, PTL DEF ProxySpec, ImplementsContract, Contract!ContractSpec

(***************************************************************************)
(* Gateway: the inductive invariant.                                       *)
(***************************************************************************)

CacheRow == [value : Value, expiresAt : Nat]
Load == [stage : {"none", "asked", "read"}, table : Tables, start : Nat, value : Value]

CacheTypeOK ==
    /\ stored \in [Tables -> Value]
    /\ heldUntil \in [Tables -> [Value -> Nat]]
    /\ cached \in [Isolates -> [Tables -> CacheRow]]
    /\ load \in [Loaders -> Load]

\* A cache entry ends at most CacheTTL after its table last held its value, and
\* so will the entry a query that was answered is going to make.
EntryFresh(i, t) ==
    \A v \in Value : cached[i][t].value = v =>
        cached[i][t].expiresAt =< LastHeld(t, v, now) + CacheTTL
LoadFresh(c) ==
    /\ load[c].start =< now
    /\ \A t \in Tables, v \in Value :
          load[c].stage = "read" /\ load[c].table = t /\ load[c].value = v =>
              load[c].start =< LastHeld(t, v, now)

CacheInv ==
    /\ CacheTypeOK /\ now \in Nat
    /\ \A t \in Tables, v \in Value : heldUntil[t][v] =< now
    /\ \A i \in Isolates, t \in Tables : EntryFresh(i, t)
    /\ \A c \in Loaders : LoadFresh(c)

FrontTypeOK == front \in [Requests -> Front] /\ body \in [Requests -> Body]

\* A handler that waits for a row is in front of its reservation and waits for
\* the row of its place.
LoadInv(r) == load[r].stage # "none" => InFront(r, load[r].table)

\* The locations at which a handler that has not called upstream has no open body.
GivenUp == {"abort", "abortLease", "refuse", "markUnknown", "catch", "done",
            "freeFailed", "catchLease", "escaped"}

BodyInv(r) ==
    /\ h[r].pc \in GivenUp /\ h[r].phase = "before" => body[r] # "open"
    /\ body[r] = "cut" => h[r].pc # "call" /\ h[r].phase = "before"

\* The locations on the way to the upstream call.
Going == {"reserve", "retry", "acquire", "call"}

Recent(r, t) == front[r].asked[t] < LastHeld(t, "allow", now) + CacheTTL

\* What a handler has learnt on its way.
RecentInv(r) ==
    /\ front[r].pc \in {"policy", "state", "tokenize"} => Recent(r, "registry")
    /\ front[r].pc \in {"state", "tokenize"} /\ front[r].tools => Recent(r, "policy")
    /\ h[r].pc \in Going \/ r \in sent =>
          Recent(r, "registry") /\ (front[r].tools => Recent(r, "policy"))

GatewayInv ==
    /\ ProxyInv /\ CacheInv /\ FrontTypeOK
    /\ \A r \in Requests : LoadInv(r) /\ BodyInv(r) /\ RecentInv(r)

(***************************************************************************)
(* The caches.                                                             *)
(***************************************************************************)

\* What can happen to rows, caches and loads: one operation of PolicyCache, or
\* time passes.
CacheStep ==
    \/ UNCHANGED cacheVars /\ (now' = now \/ now' = now + 1)
    \/ /\ now' = now
       /\ \/ \E c \in Loaders, t \in Tables : LoadMiss(c, t, now)
          \/ \E c \in Loaders : RowRead(c) \/ LoadThrows(c)
          \/ \E c \in Loaders, t \in Tables, v \in Value : LoadFill(c, t, v, now)
          \/ \E i \in Isolates, t \in Tables, v \in Value : AdminWrites(i, t, v, now)
          \/ AdminInvalidates

\* No table is now known to have held a value less recently than before.
Later ==
    \A t \in Tables, v \in Value :
        /\ LastHeld(t, v, now) \in Nat /\ LastHeld(t, v, now)' \in Nat
        /\ LastHeld(t, v, now) =< LastHeld(t, v, now)'

\* Rows that nobody edits.
LEMMA RowsRest ==
  ASSUME CacheInv, UNCHANGED <<stored, heldUntil>>, now' = now \/ now' = now + 1
  PROVE  Later
BY DEF CacheInv, CacheTypeOK, LastHeld, Later

\* The entries and loads that stay as they are stay within their bounds.
LEMMA EntriesRest ==
  ASSUME CacheInv, Later, now' \in Nat, now' >= now
  PROVE  /\ \A i \in Isolates, t \in Tables : cached'[i][t] = cached[i][t] => EntryFresh(i, t)'
         /\ \A c \in Loaders : load'[c] = load[c] => LoadFresh(c)'
<1>1. CacheTTL \in Nat /\ now \in Nat
  BY PolicyAssumption DEF CacheInv
<1>2. ASSUME NEW i \in Isolates, NEW t \in Tables, cached'[i][t] = cached[i][t]
      PROVE  EntryFresh(i, t)'
  <2>1. EntryFresh(i, t) /\ cached[i][t].expiresAt \in Nat
    BY DEF CacheInv, CacheTypeOK, CacheRow
  <2> QED BY <1>1, <1>2, <2>1 DEF Later, EntryFresh
<1>3. ASSUME NEW c \in Loaders, load'[c] = load[c]
      PROVE  LoadFresh(c)'
  <2>1. LoadFresh(c) /\ load[c].start \in Nat
    BY DEF CacheInv, CacheTypeOK, Load
  <2> QED BY <1>1, <1>3, <2>1 DEF Later, LoadFresh
<1> QED BY <1>2, <1>3

\* Every step keeps the caches fresh, and time only goes on.
LEMMA CacheStepKeeps ==
  ASSUME CacheInv, CacheStep
  PROVE  CacheInv' /\ Later
<1>0. CacheTTL \in Nat /\ now \in Nat /\ now' \in Nat /\ now' >= now /\ CacheTypeOK
  BY PolicyAssumption DEF CacheInv, CacheStep
<1> USE DEF NoLoad, NotCached
<1>1. CASE UNCHANGED cacheVars /\ (now' = now \/ now' = now + 1)
  <2>1. UNCHANGED <<stored, heldUntil, cached, load>>
    BY <1>1 DEF cacheVars
  <2>2. Later
    BY <1>1, <2>1, RowsRest
  <2>3. CacheTypeOK'
    BY <1>0, <2>1 DEF CacheTypeOK
  <2>4. \A t \in Tables, v \in Value : heldUntil'[t][v] =< now'
    BY <1>0, <2>1 DEF CacheInv, CacheTypeOK
  <2> QED BY <1>0, <2>1, <2>2, <2>3, <2>4, EntriesRest DEF CacheInv
<1>2. ASSUME now' = now, NEW c \in Loaders, UNCHANGED <<stored, heldUntil, cached>>,
             NEW new \in Load, load' = [load EXCEPT ![c] = new], LoadFresh(c)'
      PROVE  CacheInv' /\ Later
  <2>1. Later
    BY <1>2, RowsRest
  <2>2. CacheTypeOK'
    BY <1>0, <1>2 DEF CacheTypeOK
  <2>3. \A t \in Tables, v \in Value : heldUntil'[t][v] =< now'
    BY <1>2 DEF CacheInv
  <2>4. \A d \in Loaders : LoadFresh(d)'
    <3>1. \A d \in Loaders \ {c} : load'[d] = load[d]
      BY <1>0, <1>2 DEF CacheTypeOK
    <3> QED BY <1>0, <1>2, <2>1, <3>1, EntriesRest
  <2> QED BY <1>0, <1>2, <2>1, <2>2, <2>3, <2>4, EntriesRest DEF CacheInv
<1>3. ASSUME now' = now, NEW c \in Loaders, NEW t \in Tables, LoadMiss(c, t, now)
      PROVE  CacheInv' /\ Later
  <2> DEFINE new == [stage |-> "asked", table |-> t, start |-> now, value |-> "deny"]
  <2>1. new \in Load /\ new.start = now /\ new.stage = "asked"
    BY <1>0 DEF Load, Value
  <2>2. load' = [load EXCEPT ![c] = new] /\ UNCHANGED <<stored, heldUntil, cached>>
    BY <1>3 DEF LoadMiss
  <2> HIDE DEF new
  <2>3. LoadFresh(c)'
    BY <1>0, <1>3, <2>1, <2>2 DEF LoadFresh, CacheTypeOK
  <2> QED BY <1>2, <1>3, <2>1, <2>2, <2>3
<1>4. ASSUME now' = now, NEW c \in Loaders, RowRead(c)
      PROVE  CacheInv' /\ Later
  <2> DEFINE new == [load[c] EXCEPT !.stage = "read", !.value = stored[load[c].table]]
  <2>1. load[c] \in Load /\ load[c].table \in Tables /\ stored[load[c].table] \in Value
    BY <1>0 DEF CacheTypeOK, Load
  <2>2. /\ new \in Load /\ new.start = load[c].start /\ new.table = load[c].table
        /\ new.value = stored[load[c].table]
    BY <2>1 DEF Load
  <2>3. load' = [load EXCEPT ![c] = new] /\ UNCHANGED <<stored, heldUntil, cached>>
    BY <1>4 DEF RowRead
  <2> HIDE DEF new
  <2>4. load[c].start =< now
    BY DEF CacheInv, LoadFresh
  <2>5. LoadFresh(c)'
    BY <1>0, <1>4, <2>2, <2>3, <2>4 DEF LoadFresh, CacheTypeOK, LastHeld
  <2> QED BY <1>2, <1>4, <2>2, <2>3, <2>5
<1>5. ASSUME now' = now, NEW c \in Loaders, LoadThrows(c)
      PROVE  CacheInv' /\ Later
  <2>1. NoLoad \in Load /\ NoLoad.start = 0 /\ NoLoad.stage = "none"
    BY DEF Load, Tables, Value
  <2>2. load' = [load EXCEPT ![c] = NoLoad] /\ UNCHANGED <<stored, heldUntil, cached>>
    BY <1>5 DEF LoadThrows
  <2> HIDE DEF NoLoad
  <2>3. LoadFresh(c)'
    BY <1>0, <1>5, <2>1, <2>2 DEF LoadFresh, CacheTypeOK
  <2> QED BY <1>2, <1>5, <2>1, <2>2, <2>3
<1>6. ASSUME now' = now, NEW c \in Loaders, NEW t \in Tables, NEW v \in Value, LoadFill(c, t, v, now)
      PROVE  CacheInv' /\ Later
  <2> DEFINE new == [value |-> v, expiresAt |-> Expiry(c, now)]
             mine == [cached[HomeOf[c]] EXCEPT ![t] = new]
  <2>1. load[c].start \in Nat /\ load[c].stage = "read" /\ load[c].table = t /\ load[c].value = v
    BY <1>0, <1>6 DEF CacheTypeOK, Load, LoadFill
  <2>2. new \in CacheRow /\ new.value = v /\ new.expiresAt = load[c].start + CacheTTL
    BY <1>0, <2>1 DEF CacheRow, Expiry
  <2>3. /\ cached' = [cached EXCEPT ![HomeOf[c]] = mine] /\ load' = [load EXCEPT ![c] = NoLoad]
        /\ UNCHANGED <<stored, heldUntil>>
    BY <1>6 DEF LoadFill
  <2> HIDE DEF new, NoLoad
  <2>4. Later
    BY <1>6, <2>3, RowsRest
  <2>5. HomeOf[c] \in Isolates /\ cached[HomeOf[c]] \in [Tables -> CacheRow]
    BY <1>0, PolicyAssumption DEF CacheTypeOK
  <2>6. /\ mine \in [Tables -> CacheRow] /\ mine[t] = new
        /\ \A s \in Tables \ {t} : mine[s] = cached[HomeOf[c]][s]
    BY <2>2, <2>5
  <2> HIDE DEF mine
  <2>7. NoLoad \in Load /\ NoLoad.start = 0 /\ NoLoad.stage = "none"
    BY DEF Load, Tables, Value, NoLoad
  <2>8. CacheTypeOK'
    BY <1>0, <2>3, <2>6, <2>7 DEF CacheTypeOK
  <2>9. ASSUME NEW i \in Isolates, NEW s \in Tables
        PROVE  EntryFresh(i, s)'
    <3>1. CASE i = HomeOf[c] /\ s = t
      <4>1. cached'[i][s] = new
        BY <1>0, <2>3, <2>5, <2>6, <3>1 DEF CacheTypeOK
      <4>2. load[c].start =< LastHeld(t, v, now)
        BY <2>1 DEF CacheInv, LoadFresh
      <4>3. LastHeld(t, v, now) \in Nat /\ LastHeld(t, v, now)' = LastHeld(t, v, now)
        BY <1>6, <2>3, <2>4 DEF Later, LastHeld
      <4> QED BY <1>0, <2>1, <2>2, <3>1, <4>1, <4>2, <4>3 DEF EntryFresh
    <3>2. CASE ~(i = HomeOf[c] /\ s = t)
      <4>1. cached'[i][s] = cached[i][s]
        BY <1>0, <2>3, <2>5, <2>6, <3>2 DEF CacheTypeOK
      <4> QED BY <1>0, <2>4, <4>1, EntriesRest
    <3> QED BY <3>1, <3>2
  <2>10. ASSUME NEW d \in Loaders
         PROVE  LoadFresh(d)'
    <3>1. CASE d = c
      BY <1>0, <2>3, <2>7, <3>1 DEF LoadFresh, CacheTypeOK
    <3>2. CASE d # c
      <4>1. load'[d] = load[d]
        BY <1>0, <2>3, <3>2 DEF CacheTypeOK
      <4> QED BY <1>0, <2>4, <4>1, EntriesRest
    <3> QED BY <3>1, <3>2
  <2>11. \A s \in Tables, w \in Value : heldUntil'[s][w] =< now'
    BY <1>6, <2>3 DEF CacheInv
  <2> QED BY <1>0, <2>4, <2>8, <2>9, <2>10, <2>11 DEF CacheInv
<1>7. ASSUME now' = now, NEW t \in Tables, NEW v \in Value, NEW i \in Isolates,
             AdminWrites(i, t, v, now)
      PROVE  CacheInv' /\ Later
  <2> DEFINE mine == [heldUntil[t] EXCEPT ![stored[t]] = now]
  <2>1. /\ stored' = [stored EXCEPT ![t] = v] /\ heldUntil' = [heldUntil EXCEPT ![t] = mine]
        /\ UNCHANGED <<cached, load>>
    BY <1>7 DEF AdminWrites
  <2>2. stored[t] \in Value /\ heldUntil[t] \in [Value -> Nat]
    BY <1>0 DEF CacheTypeOK
  <2>3. /\ mine \in [Value -> Nat] /\ mine[stored[t]] = now
        /\ \A w \in Value \ {stored[t]} : mine[w] = heldUntil[t][w]
    BY <1>0, <2>2
  <2> HIDE DEF mine
  <2>4. CacheTypeOK'
    BY <1>0, <2>1, <2>3 DEF CacheTypeOK
  <2>5. \A s \in Tables, w \in Value : heldUntil'[s][w] =< now'
    BY <1>0, <1>7, <2>1, <2>2, <2>3 DEF CacheInv, CacheTypeOK
  <2>6. Later
    <3>1. ASSUME NEW s \in Tables, NEW w \in Value
          PROVE  /\ LastHeld(s, w, now) \in Nat /\ LastHeld(s, w, now)' \in Nat
                 /\ LastHeld(s, w, now) =< LastHeld(s, w, now)'
      <4>1. heldUntil[s][w] \in Nat /\ heldUntil[s][w] =< now
        BY <1>0 DEF CacheInv, CacheTypeOK
      <4>2. CASE s = t
        <5>1. stored'[s] = v /\ heldUntil'[s] = mine
          BY <1>0, <2>1, <4>2 DEF CacheTypeOK
        <5> QED BY <1>0, <1>7, <2>2, <2>3, <4>1, <4>2, <5>1 DEF LastHeld
      <4>3. CASE s # t
        <5>1. stored'[s] = stored[s] /\ heldUntil'[s] = heldUntil[s]
          BY <1>0, <2>1, <4>3 DEF CacheTypeOK
        <5> QED BY <1>0, <1>7, <4>1, <5>1 DEF LastHeld
      <4> QED BY <4>2, <4>3
    <3> QED BY <3>1 DEF Later
  <2> QED BY <1>0, <2>1, <2>4, <2>5, <2>6, EntriesRest DEF CacheInv
<1>8. ASSUME now' = now, AdminInvalidates
      PROVE  CacheInv' /\ Later
  <2> DEFINE emptied == [t \in Tables |-> NotCached]
  <2>1. /\ cached' = cached \/ cached' = [cached EXCEPT ![admin] = emptied]
        /\ UNCHANGED <<stored, heldUntil, load>>
    BY <1>8 DEF AdminInvalidates
  <2>2. Later
    BY <1>8, <2>1, RowsRest
  <2>3. NotCached \in CacheRow /\ NotCached.expiresAt = 0
    BY DEF CacheRow, Value
  <2> HIDE DEF NotCached
  <2>4. emptied \in [Tables -> CacheRow] /\ \A t \in Tables : emptied[t] = NotCached
    BY <2>3
  <2> HIDE DEF emptied
  <2>5. CacheTypeOK'
    BY <1>0, <2>1, <2>4 DEF CacheTypeOK
  <2>6. ASSUME NEW i \in Isolates, NEW t \in Tables
        PROVE  EntryFresh(i, t)'
    <3>1. cached'[i] = cached[i] \/ cached'[i] = emptied
      BY <1>0, <2>1 DEF CacheTypeOK
    <3>2. CASE cached'[i] = cached[i]
      BY <1>0, <2>2, <3>2, EntriesRest
    <3>3. CASE cached'[i] = emptied
      BY <1>0, <2>2, <2>3, <2>4, <3>3 DEF EntryFresh, Later
    <3> QED BY <3>1, <3>2, <3>3
  <2>7. \A t \in Tables, v \in Value : heldUntil'[t][v] =< now'
    BY <1>8, <2>1 DEF CacheInv
  <2> QED BY <1>0, <2>1, <2>2, <2>5, <2>6, <2>7, EntriesRest DEF CacheInv
<1> QED BY <1>1, <1>3, <1>4, <1>5, <1>6, <1>7, <1>8 DEF CacheStep

\* A row that a loader gets, from the cache or from D1, was there less than
\* CacheTTL before the loader asked.
LEMMA LoadedIsRecent ==
  ASSUME CacheInv, NEW r \in Requests, NEW t \in Tables, NEW v \in Value, Loaded(r, t, v, now)
  PROVE  AskedAt(r) \in Nat /\ AskedAt(r) < LastHeld(t, v, now) + CacheTTL
<1>1. /\ r \in Loaders /\ CacheTTL \in Nat \ {0} /\ now \in Nat /\ HomeOf[r] \in Isolates
      /\ load[r] \in Load /\ cached[HomeOf[r]][t] \in CacheRow
  BY GatewayAssumption, PolicyAssumption DEF CacheInv, CacheTypeOK
<1>2. LastHeld(t, v, now) \in Nat
  BY <1>1 DEF CacheInv, CacheTypeOK, LastHeld
<1>3. CASE LoadHit(r, t, v, now)
  <2>1. /\ cached[HomeOf[r]][t].expiresAt > now /\ cached[HomeOf[r]][t].value = v
        /\ AskedAt(r) = now
    BY <1>3 DEF LoadHit, Current, CacheEntry, AskedAt
  <2>2. cached[HomeOf[r]][t].expiresAt =< LastHeld(t, v, now) + CacheTTL
    BY <1>1, <2>1 DEF CacheInv, EntryFresh
  <2> QED BY <1>1, <1>2, <2>1, <2>2 DEF CacheRow
<1>4. CASE LoadFill(r, t, v, now)
  <2>1. /\ load[r].stage = "read" /\ load[r].table = t /\ load[r].value = v
        /\ AskedAt(r) = load[r].start
    BY <1>4 DEF LoadFill, AskedAt
  <2>2. load[r].start =< LastHeld(t, v, now)
    BY <1>1, <2>1 DEF CacheInv, LoadFresh
  <2> QED BY <1>1, <1>2, <2>1, <2>2 DEF Load
<1> QED BY <1>3, <1>4 DEF Loaded

(***************************************************************************)
(* Steps in front of the reservation.                                      *)
(***************************************************************************)

USE DEF Early, Unsent, Sent, Streamed, Reserved, Ended

\* A step in front of the reservation, as ProxyRequest sees it: an idle handler
\* stays, is answered, goes to its reservation or throws, and its row becomes
\* in_flight or, with the answer, failed.
FrontMove(r) ==
    /\ h[r].pc = "idle" /\ UNCHANGED <<ledgerVars, leaseVars, sent>>
    /\ row' \in [Requests -> [status : RowStatus, tokens : Nat]]
    /\ \A q \in Requests \ {r} : row'[q] = row[q]
    /\ \/ h' = h /\ (row'[r] = row[r] \/ row'[r].status = "in_flight")
       \/ Goto(r, "reserve") /\ row'[r] = row[r]
       \/ Goto(r, "done") /\ (row'[r] = row[r] \/ row'[r].status = "failed")
       \/ Throws(r, "catch") /\ row'[r] = row[r]

\* Such a step keeps what ProxyRequest knows of the request and its place.
LEMMA FrontMoveKept ==
  ASSUME ProxyInv, NEW r \in Requests, FrontMove(r)
  PROVE  Kept(r) /\ Placed(r) /\ LedgerInv'
<1>0. /\ StateOK /\ StoreOK /\ RequestInv(r) /\ PlaceInv(r) /\ h[r].pc = "idle"
      /\ entries' = entries /\ sent' = sent /\ UNCHANGED leaseVars
      /\ row' \in [Requests -> [status : RowStatus, tokens : Nat]]
      /\ \A q \in Requests \ {r} : row'[q] = row[q]
  BY DEF ProxyInv, FrontMove, ledgerVars
<1>1. LedgerInv'
  BY LedgerInvStep DEF ProxyInv, FrontMove
<1>2. h \in [Requests -> Handler]
  BY <1>0 DEF StateOK
<1>3. CASE h' = h /\ (row'[r] = row[r] \/ row'[r].status = "in_flight")
  <2>1. RequestInv(r)'
    BY <1>0, <1>3 DEF RequestInv, EntryInv, LocalInv, CatchInv, ExitInv, Concluded
  <2>2. PlaceInv(r)'
    BY <1>0, <1>3 DEF PlaceInv, leaseVars
  <2> QED BY <1>0, <1>1, <1>2, <1>3, <2>1, <2>2, QuietStep
          DEF Kept, OnlyAbout, Allowed, Placed, StateOK
<1>4. CASE Goto(r, "reserve") /\ row'[r] = row[r]
  <2>1. Continues(r, "reserve") /\ h'[r].faults = h[r].faults
    BY <1>2, <1>4, GotoContinues DEF Location
  <2>2. RequestInv(r)'
    BY <1>0, <1>4, <2>1 DEF RequestInv, EntryInv, LocalInv, CatchInv, ExitInv, Continues, Concluded
  <2>3. PlaceInv(r)'
    BY <1>0, <1>4, GotoMoves, StaysPlaced DEF Location
  <2> QED BY <1>0, <1>1, <2>1, <2>2, <2>3, QuietStep
          DEF Kept, OnlyAbout, Allowed, Placed, StateOK, Continues
<1>5. CASE Goto(r, "done") /\ (row'[r] = row[r] \/ row'[r].status = "failed")
  <2>1. Continues(r, "done") /\ h'[r].faults = h[r].faults
    BY <1>2, <1>5, GotoContinues DEF Location
  <2>2. RequestInv(r)'
    BY <1>0, <1>5, <2>1 DEF RequestInv, EntryInv, LocalInv, CatchInv, ExitInv, Continues, Concluded
  <2>3. PlaceInv(r)'
    BY <1>0, <1>5, GotoMoves, StaysPlaced DEF Location
  <2> QED BY <1>0, <1>1, <2>1, <2>2, <2>3, QuietStep
          DEF Kept, OnlyAbout, Allowed, Placed, StateOK, Continues
<1>6. CASE Throws(r, "catch") /\ row'[r] = row[r]
  <2>1. Continues(r, "catch") /\ h'[r].faults = h[r].faults + 1 /\ h[r].faults \in Nat
    BY <1>2, <1>6, ThrowsContinues DEF Location, Handler
  <2>2. RequestInv(r)'
    BY <1>0, <1>6, <2>1 DEF RequestInv, EntryInv, LocalInv, CatchInv, ExitInv, Continues, Concluded
  <2>3. PlaceInv(r)'
    BY <1>0, <1>6, GotoMoves, StaysPlaced DEF Location
  <2> QED BY <1>0, <1>1, <2>1, <2>2, <2>3, QuietStep
          DEF Kept, OnlyAbout, Allowed, Placed, StateOK, Continues
<1> QED BY <1>3, <1>4, <1>5, <1>6 DEF FrontMove

\* Every step in front is such a step.
LEMMA FrontStepMoves ==
  ASSUME StateOK, NEW r \in Requests, LoadInv(r), FrontStep(r)
  PROVE  FrontMove(r)
<1> USE DEF StateOK
<1>1. CASE Route(r) \/ PrepareAnswered(r) \/ BodyRead(r) \/ RefuseTools(r)
  BY <1>1 DEF Route, PrepareAnswered, BodyRead, RefuseTools, FrontMove, InFront, At, TurnsDown,
              FrontThrows, Passes, Rests
<1>2. CASE Asks(r)
  BY <1>2 DEF Asks, InFront, At, FrontMove, vars, proxyVars
<1>3. CASE Answers(r)
  BY <1>3 DEF Answers, RowRead, LoadInv, InFront, At, FrontMove, vars, proxyVars
<1>4. CASE QueryThrows(r)
  BY <1>4 DEF QueryThrows, LoadThrows, LoadInv, InFront, At, FrontThrows, FrontMove, Rests
<1>5. CASE Classify(r)
  BY <1>5 DEF Classify, InFront, At, TurnsDown, Learns, Rests, FrontMove
<1>6. CASE ApplyPolicy(r)
  <2>1. /\ h[r].pc = "idle" /\ UNCHANGED <<ledgerVars, leaseVars, sent>>
        /\ \/ Goto(r, "done") /\ row' = row
           \/ h' = h /\ row' \in {row, [row EXCEPT ![r].status = "in_flight"]}
    BY <1>6 DEF ApplyPolicy, InFront, At, TurnsDown, Learns, Rests
  <2>2. [row EXCEPT ![r].status = "in_flight"] \in [Requests -> [status : RowStatus, tokens : Nat]]
    BY DEF RowStatus
  <2> QED BY <2>1, <2>2 DEF FrontMove
<1>7. CASE LearnState(r) \/ ResolveBudget(r)
  <2>1. /\ h[r].pc = "idle" /\ UNCHANGED <<ledgerVars, leaseVars, sent>>
        /\ \/ Goto(r, "done") /\ Audit(r, "failed", 0)
           \/ (h' = h \/ Goto(r, "reserve") \/ Throws(r, "catch")) /\ row' = row
    BY <1>7 DEF LearnState, ResolveBudget, InFront, At, TurnsDown, FrontThrows, Passes, Rests
  <2>2. "failed" \in RowStatus
    BY DEF RowStatus
  <2>3. CASE Goto(r, "done") /\ Audit(r, "failed", 0)
    BY <2>1, <2>2, <2>3, AuditSays DEF FrontMove
  <2> QED BY <2>1, <2>3 DEF FrontMove
<1> QED BY <1>1, <1>2, <1>3, <1>4, <1>5, <1>6, <1>7 DEF FrontStep

\* A step in front is at most one step of the handler's own load, and a load that
\* is under way keeps the handler where it is.
LEMMA FrontLoads ==
  ASSUME StateOK, CacheInv, NEW r \in Requests, LoadInv(r), FrontStep(r)
  PROVE  /\ CacheStep /\ \A q \in Requests \ {r} : load'[q] = load[q]
         /\ load'[r].stage # "none" => InFront(r, load'[r].table) /\ h' = h /\ front' = front
<1>0. now' = now /\ r \in Loaders /\ load \in [Loaders -> Load] /\ load[r] \in Load
  <2>1. UNCHANGED leaseVars
    BY FrontStepMoves DEF FrontMove
  <2> QED BY <2>1, GatewayAssumption DEF CacheInv, CacheTypeOK, leaseVars
<1>1. CASE Route(r) \/ PrepareAnswered(r) \/ BodyRead(r) \/ RefuseTools(r) \/ LearnState(r)
           \/ ResolveBudget(r)
  <2>1. /\ UNCHANGED cacheVars
        /\ front[r].pc \in {"start", "prepare", "read", "tools", "state", "tokenize"}
    BY <1>1 DEF Route, PrepareAnswered, BodyRead, RefuseTools, LearnState, ResolveBudget, InFront
  <2>2. load[r].stage = "none"
    BY <1>0, <2>1 DEF LoadInv, InFront, Load, Tables
  <2> QED BY <1>0, <2>1, <2>2 DEF CacheStep, cacheVars
<1>2. CASE Asks(r)
  <2>1. PICK t \in Tables : InFront(r, t) /\ LoadMiss(r, t, now)
    BY <1>2 DEF Asks
  <2>2. h' = h /\ front' = front
    BY <1>2 DEF Asks, vars, proxyVars
  <2>3. \A q \in Requests \ {r} : load'[q] = load[q]
    BY <1>0, <2>1, GatewayAssumption DEF LoadMiss
  <2>4. load'[r].table = t
    BY <1>0, <2>1 DEF LoadMiss
  <2> QED BY <1>0, <2>1, <2>2, <2>3, <2>4 DEF CacheStep
<1>3. CASE Answers(r)
  <2>1. RowRead(r) /\ h' = h /\ front' = front
    BY <1>3 DEF Answers, vars, proxyVars
  <2>2. \A q \in Requests \ {r} : load'[q] = load[q]
    BY <1>0, <2>1, GatewayAssumption DEF RowRead
  <2>3. load'[r].table = load[r].table /\ load[r].stage # "none"
    BY <1>0, <2>1 DEF RowRead, Load
  <2> QED BY <1>0, <2>1, <2>2, <2>3 DEF CacheStep, LoadInv
<1>4. CASE QueryThrows(r)
  <2>1. LoadThrows(r)
    BY <1>4 DEF QueryThrows
  <2>2. /\ \A q \in Requests \ {r} : load'[q] = load[q]
        /\ load'[r].stage = "none"
    BY <1>0, <2>1, GatewayAssumption DEF LoadThrows, NoLoad
  <2> QED BY <1>0, <2>1, <2>2 DEF CacheStep
<1>5. ASSUME NEW t \in Tables, NEW v \in Value, Loaded(r, t, v, now)
      PROVE  CacheStep /\ load'[r].stage = "none" /\ \A q \in Requests \ {r} : load'[q] = load[q]
  <2>1. CASE LoadHit(r, t, v, now)
    BY <1>0, <2>1 DEF LoadHit, CacheStep, cacheVars
  <2>2. CASE LoadFill(r, t, v, now)
    <3>1. load' = [load EXCEPT ![r] = NoLoad]
      BY <2>2 DEF LoadFill
    <3> QED BY <1>0, <2>2, <3>1, GatewayAssumption DEF CacheStep, NoLoad
  <2> QED BY <1>5, <2>1, <2>2 DEF Loaded
<1>6. CASE Classify(r) \/ ApplyPolicy(r)
  BY <1>5, <1>6 DEF Classify, ApplyPolicy, Tables
<1> QED BY <1>1, <1>2, <1>3, <1>4, <1>6 DEF FrontStep

\* What a step in front does to the place, the knowledge and the body of its handler.
FrontOutcome(r) ==
    \/ /\ front' = [front EXCEPT ![r].pc = "through"] /\ body' = Cancelled(r)
       /\ h'[r].pc \in {"done", "catch"}
    \/ h' = h /\ front' = front /\ body' = body
    \/ /\ front[r].pc \in {"start", "read"} /\ h' = h /\ body' = body
       /\ \E p \in {"prepare", "read", "registry"} : front' = [front EXCEPT ![r].pc = p]
    \/ /\ h' = h /\ front' = [front EXCEPT ![r].pc = "registry"]
       /\ body' = [body EXCEPT ![r] = "open"]
    \/ /\ h' = h /\ body' = body /\ Loaded(r, "registry", "allow", now)
       /\ front' = [front EXCEPT ![r].pc = "policy", ![r].asked["registry"] = AskedAt(r)]
    \/ /\ h' = h /\ body' = body /\ front[r].pc = "policy"
       /\ \E v \in Value, p \in {"tools", "state"} :
             /\ Loaded(r, "policy", v, now) /\ (p = "state" /\ front[r].tools => v = "allow")
             /\ front' = [front EXCEPT ![r].pc = p, ![r].asked["policy"] = AskedAt(r)]
    \/ /\ h' = h /\ body' = body /\ front[r].pc = "state"
       /\ front' = [front EXCEPT ![r].pc = "tokenize"]
    \/ /\ h'[r].pc = "reserve" /\ body' = body /\ front[r].pc = "tokenize"
       /\ front' = [front EXCEPT ![r].pc = "through"]

\* Every step in front has one of these outcomes.
LEMMA FrontOutcomes ==
  ASSUME StateOK, NEW r \in Requests, FrontStep(r)
  PROVE  FrontOutcome(r)
<1>1. /\ \A p \in {"done", "reserve"} : Goto(r, p) => h'[r].pc = p
      /\ Throws(r, "catch") => h'[r].pc = "catch"
  BY GotoMoves DEF Location
<1> USE DEF InFront, TurnsDown, FrontThrows, Passes, Advance
<1>2. CASE Route(r) \/ BodyRead(r)
  BY <1>1, <1>2 DEF Route, BodyRead, FrontOutcome
<1>3. CASE PrepareAnswered(r) \/ RefuseTools(r)
  BY <1>1, <1>3 DEF PrepareAnswered, RefuseTools, FrontOutcome
<1>4. CASE Asks(r) \/ Answers(r)
  BY <1>4 DEF Asks, Answers, vars, proxyVars, FrontOutcome
<1>5. CASE QueryThrows(r)
  BY <1>1, <1>5 DEF QueryThrows, FrontOutcome
<1>6. CASE Classify(r)
  BY <1>1, <1>6 DEF Classify, Learns, FrontOutcome
<1>7. CASE ApplyPolicy(r)
  BY <1>1, <1>7 DEF ApplyPolicy, Learns, FrontOutcome
<1>8. CASE LearnState(r) \/ ResolveBudget(r)
  BY <1>1, <1>8 DEF LearnState, ResolveBudget, FrontOutcome
<1> QED BY <1>2, <1>3, <1>4, <1>5, <1>6, <1>7, <1>8 DEF FrontStep

Place == {"start", "prepare", "read", "registry", "policy", "tools", "state", "tokenize", "through"}

\* A handler in front moves to another place ...
LEMMA FrontMovesOn ==
  ASSUME FrontTypeOK, NEW r \in Requests, NEW p \in Place, front' = [front EXCEPT ![r].pc = p]
  PROVE  /\ front' \in [Requests -> Front] /\ \A q \in Requests \ {r} : front'[q] = front[q]
         /\ front'[r].pc = p /\ front'[r].tools = front[r].tools /\ front'[r].asked = front[r].asked
<1> DEFINE x == [front[r] EXCEPT !.pc = p]
<1>1. /\ x \in Front /\ x.pc = p /\ x.tools = front[r].tools /\ x.asked = front[r].asked
  BY DEF FrontTypeOK, Front, Place
<1>2. front' = [front EXCEPT ![r] = x]
  OBVIOUS
<1> HIDE DEF x
<1> QED BY <1>1, <1>2 DEF FrontTypeOK

\* ... and remembers when it asked for what it has learnt.
LEMMA FrontLearns ==
  ASSUME FrontTypeOK, NEW r \in Requests, NEW p \in Place, NEW t \in Tables, NEW n \in Nat,
         front' = [front EXCEPT ![r].pc = p, ![r].asked[t] = n]
  PROVE  /\ front' \in [Requests -> Front] /\ \A q \in Requests \ {r} : front'[q] = front[q]
         /\ front'[r].pc = p /\ front'[r].tools = front[r].tools
         /\ front'[r].asked = [front[r].asked EXCEPT ![t] = n]
<1> DEFINE asked == [front[r].asked EXCEPT ![t] = n]
           x == [front[r] EXCEPT !.pc = p, !.asked = asked]
<1>0. asked \in [Tables -> Nat]
  BY DEF FrontTypeOK, Front
<1>1. front' = [front EXCEPT ![r] = x]
  OBVIOUS
<1> HIDE DEF asked
<1>2. x \in Front /\ x.pc = p /\ x.tools = front[r].tools /\ x.asked = asked
  BY <1>0 DEF FrontTypeOK, Front, Place
<1> HIDE DEF x
<1> QED BY <1>1, <1>2, ZenonT(60) DEF FrontTypeOK, asked

\* What a handler asked for recently stays recent.
LEMMA StaysRecent ==
  ASSUME FrontTypeOK, Later, NEW r \in Requests, NEW t \in Tables, Recent(r, t),
         front'[r].asked[t] = front[r].asked[t]
  PROVE  Recent(r, t)'
<1>1. front[r].asked[t] \in Nat /\ CacheTTL \in Nat
  BY PolicyAssumption DEF FrontTypeOK, Front
<1>2. "allow" \in Value
  BY DEF Value
<1> QED BY <1>1, <1>2 DEF Recent, Later

\* A step in front keeps types, bodies and knowledge.
LEMMA FrontKeeps ==
  ASSUME ProxyInv, CacheInv, FrontTypeOK, NEW r \in Requests, LoadInv(r), BodyInv(r), RecentInv(r),
         FrontStep(r), Later
  PROVE  /\ FrontTypeOK' /\ BodyInv(r)' /\ RecentInv(r)'
         /\ \A q \in Requests \ {r} : front'[q] = front[q] /\ body'[q] = body[q]
<1>0. /\ StateOK /\ h[r].pc = "idle" /\ h[r].phase = "before" /\ r \notin sent /\ sent' = sent
      /\ now' = now
  BY FrontStepMoves DEF ProxyInv, FrontMove, RequestInv, LocalInv, leaseVars
<1>1. FrontOutcome(r)
  BY <1>0, FrontOutcomes
<1> USE DEF Place, Tables
<1>2. \A t \in Tables : Recent(r, t) /\ front'[r].asked[t] = front[r].asked[t] => Recent(r, t)'
  BY StaysRecent
<1>3. CASE /\ front' = [front EXCEPT ![r].pc = "through"] /\ body' = Cancelled(r)
           /\ h'[r].pc \in {"done", "catch"}
  <2>1. /\ body' \in [Requests -> Body] /\ body'[r] # "open"
        /\ \A q \in Requests \ {r} : body'[q] = body[q]
    BY <1>3 DEF Cancelled, FrontTypeOK, Body
  <2>2. h'[r].phase = "before"
    <3>1. Goto(r, "done") \/ Throws(r, "catch")
      BY <1>0, <1>3, FrontStepMoves, GotoMoves DEF FrontMove, Location
    <3> QED BY <1>0, <3>1, GotoContinues, ThrowsContinues DEF Continues, Location, StateOK
  <2> QED BY <1>0, <1>3, <2>1, <2>2, FrontMovesOn DEF FrontTypeOK, BodyInv, RecentInv, Going
<1>4. CASE h' = h /\ front' = front /\ body' = body
  BY <1>0, <1>2, <1>4 DEF FrontTypeOK, BodyInv, RecentInv
<1>5. CASE /\ front[r].pc \in {"start", "read"} /\ h' = h /\ body' = body
           /\ \E p \in {"prepare", "read", "registry"} : front' = [front EXCEPT ![r].pc = p]
  BY <1>0, <1>5, FrontMovesOn DEF FrontTypeOK, BodyInv, RecentInv, Going
<1>6. CASE /\ h' = h /\ front' = [front EXCEPT ![r].pc = "registry"]
           /\ body' = [body EXCEPT ![r] = "open"]
  <2>1. /\ body' \in [Requests -> Body] /\ body'[r] = "open"
        /\ \A q \in Requests \ {r} : body'[q] = body[q]
    BY <1>6 DEF FrontTypeOK, Body
  <2> QED BY <1>0, <1>6, <2>1, FrontMovesOn DEF FrontTypeOK, BodyInv, RecentInv, Going, GivenUp
<1>7. CASE /\ h' = h /\ body' = body /\ Loaded(r, "registry", "allow", now)
           /\ front' = [front EXCEPT ![r].pc = "policy", ![r].asked["registry"] = AskedAt(r)]
  <2>1. AskedAt(r) \in Nat /\ AskedAt(r) < LastHeld("registry", "allow", now) + CacheTTL
    BY <1>7, LoadedIsRecent DEF Value
  <2>2. /\ front' \in [Requests -> Front] /\ \A q \in Requests \ {r} : front'[q] = front[q]
        /\ front'[r].pc = "policy" /\ front'[r].tools = front[r].tools
        /\ front'[r].asked = [front[r].asked EXCEPT !["registry"] = AskedAt(r)]
    BY <1>7, <2>1, FrontLearns
  <2>3. front'[r].asked["registry"] = AskedAt(r)
    BY <2>2 DEF FrontTypeOK, Front
  <2>4. Recent(r, "registry")'
    <3>1. /\ LastHeld("registry", "allow", now) \in Nat /\ LastHeld("registry", "allow", now)' \in Nat
          /\ LastHeld("registry", "allow", now) =< LastHeld("registry", "allow", now)'
      BY DEF Later, Value
    <3> QED BY <2>1, <2>3, <3>1, PolicyAssumption DEF Recent
  <2> QED BY <1>0, <1>7, <2>2, <2>4 DEF FrontTypeOK, BodyInv, RecentInv, Going
<1>8. CASE /\ h' = h /\ body' = body /\ front[r].pc = "policy"
           /\ \E v \in Value, p \in {"tools", "state"} :
                 /\ Loaded(r, "policy", v, now) /\ (p = "state" /\ front[r].tools => v = "allow")
                 /\ front' = [front EXCEPT ![r].pc = p, ![r].asked["policy"] = AskedAt(r)]
  <2>1. PICK v \in Value, p \in {"tools", "state"} :
          /\ Loaded(r, "policy", v, now) /\ (p = "state" /\ front[r].tools => v = "allow")
          /\ front' = [front EXCEPT ![r].pc = p, ![r].asked["policy"] = AskedAt(r)]
    BY <1>8
  <2>2. AskedAt(r) \in Nat /\ AskedAt(r) < LastHeld("policy", v, now) + CacheTTL
    BY <2>1, LoadedIsRecent
  <2>3. /\ front' \in [Requests -> Front] /\ \A q \in Requests \ {r} : front'[q] = front[q]
        /\ front'[r].pc = p /\ front'[r].tools = front[r].tools
        /\ front'[r].asked = [front[r].asked EXCEPT !["policy"] = AskedAt(r)]
    <3>1. CASE p = "tools"
      <4>1. front' = [front EXCEPT ![r].pc = "tools", ![r].asked["policy"] = AskedAt(r)]
        BY <2>1, <3>1
      <4> QED BY <2>2, <3>1, <4>1, FrontLearns, ZenonT(60)
    <3>2. CASE p = "state"
      <4>1. front' = [front EXCEPT ![r].pc = "state", ![r].asked["policy"] = AskedAt(r)]
        BY <2>1, <3>2
      <4> QED BY <2>2, <3>2, <4>1, FrontLearns, ZenonT(60)
    <3> QED BY <3>1, <3>2
  <2>4. /\ front'[r].asked["policy"] = AskedAt(r)
        /\ front'[r].asked["registry"] = front[r].asked["registry"]
    BY <2>3 DEF FrontTypeOK, Front
  <2>5. Recent(r, "registry")'
    BY <1>2, <1>8, <2>4 DEF RecentInv
  <2>6. p = "state" /\ front[r].tools => Recent(r, "policy")'
    <3>1. /\ LastHeld("policy", v, now) \in Nat /\ LastHeld("policy", v, now)' \in Nat
          /\ LastHeld("policy", v, now) =< LastHeld("policy", v, now)'
      BY DEF Later
    <3> QED BY <2>1, <2>2, <2>4, <3>1, PolicyAssumption DEF Recent
  <2> QED BY <1>0, <1>8, <2>3, <2>5, <2>6 DEF FrontTypeOK, BodyInv, RecentInv, Going
<1>9. CASE /\ h' = h /\ body' = body /\ front[r].pc = "state"
           /\ front' = [front EXCEPT ![r].pc = "tokenize"]
  BY <1>0, <1>2, <1>9, FrontMovesOn DEF FrontTypeOK, BodyInv, RecentInv, Going
<1>10. CASE /\ h'[r].pc = "reserve" /\ body' = body /\ front[r].pc = "tokenize"
            /\ front' = [front EXCEPT ![r].pc = "through"]
  <2>1. Goto(r, "reserve")
    BY <1>0, <1>10, FrontStepMoves, GotoMoves DEF FrontMove, Location
  <2>2. h'[r].phase = "before"
    BY <1>0, <2>1, GotoContinues DEF Continues, Location, StateOK
  <2> QED BY <1>0, <1>2, <1>10, <2>2, FrontMovesOn DEF FrontTypeOK, BodyInv, RecentInv, GivenUp
<1> QED BY <1>1, <1>3, <1>4, <1>5, <1>6, <1>7, <1>8, <1>9, <1>10 DEF FrontOutcome

(***************************************************************************)
(* Steps from the reservation on.                                          *)
(***************************************************************************)

\* Which way a handler goes: to the call from its lease, upstream from the call,
\* and to the locations after it only from where it has given up its body.
Path(r) ==
    /\ h[r].phase = "attempted" => h'[r].phase = "attempted"
    /\ h'[r].phase = "attempted" => h[r].phase = "attempted" \/ h[r].pc = "call"
    /\ h'[r].pc = "call" => h[r].pc = "acquire"
    /\ h'[r].pc \in Going => h[r].pc \in Going
    /\ h'[r].pc = "freeFailed" => h[r].pc = "refuse"
    /\ h'[r].pc = "catchLease" => h[r].pc = "catch"
    /\ h'[r].pc = "escaped" => h[r].phase = "attempted"
    /\ sent' = sent \/ (sent' = sent \cup {r} /\ h[r].pc = "call")

\* A step that only goes to a location.
Steps(r, p) == h'[r].pc = p /\ h'[r].phase = h[r].phase

\* So do the ways a handler goes on.
LEMMA StepsTo ==
  ASSUME StateOK, NEW r \in Requests, NEW p \in Location, Goto(r, p) \/ Throws(r, p) \/ GoesOn(r, p)
  PROVE  Steps(r, p)
BY GotoContinues, ThrowsContinues, GoesOnContinues DEF Continues, StateOK, Steps

\* So do steps that assign other local variables.
LEMMA AssignsStep ==
  ASSUME StateOK, NEW r \in Requests, NEW p \in Location
  PROVE  /\ \A s : h' = [h EXCEPT ![r].pc = p, ![r].resv = s] => Steps(r, p)
         /\ \A g : h' = [h EXCEPT ![r].pc = p, ![r].gen = g] => Steps(r, p)
         /\ \A n : h' = [h EXCEPT ![r].pc = p, ![r].usage = n, ![r].due = 0] => Steps(r, p)
<1>1. h[r] \in Handler /\ h \in [Requests -> Handler]
  BY DEF StateOK
<1>2. ASSUME NEW x, x.pc = p /\ x.phase = h[r].phase, h' = [h EXCEPT ![r] = x]
      PROVE  Steps(r, p)
  BY <1>1, <1>2 DEF Steps
<1>3. ASSUME NEW s, h' = [h EXCEPT ![r].pc = p, ![r].resv = s]
      PROVE  Steps(r, p)
  <2> DEFINE x == [h[r] EXCEPT !.pc = p, !.resv = s]
  <2>1. x.pc = p /\ x.phase = h[r].phase /\ h' = [h EXCEPT ![r] = x]
    BY <1>1, <1>3 DEF Handler
  <2> HIDE DEF x
  <2> QED BY <1>2, <2>1
<1>4. ASSUME NEW g, h' = [h EXCEPT ![r].pc = p, ![r].gen = g]
      PROVE  Steps(r, p)
  <2> DEFINE x == [h[r] EXCEPT !.pc = p, !.gen = g]
  <2>1. x.pc = p /\ x.phase = h[r].phase /\ h' = [h EXCEPT ![r] = x]
    BY <1>1, <1>4 DEF Handler
  <2> HIDE DEF x
  <2> QED BY <1>2, <2>1
<1>5. ASSUME NEW n, h' = [h EXCEPT ![r].pc = p, ![r].usage = n, ![r].due = 0]
      PROVE  Steps(r, p)
  <2> DEFINE x == [h[r] EXCEPT !.pc = p, !.usage = n, !.due = 0]
  <2>1. x.pc = p /\ x.phase = h[r].phase /\ h' = [h EXCEPT ![r] = x]
    BY <1>1, <1>5 DEF Handler
  <2> HIDE DEF x
  <2> QED BY <1>2, <2>1
<1> QED BY <1>3, <1>4, <1>5

\* Every step of a handler follows the path.
LEMMA HandlerPath ==
  ASSUME StateOK, NEW r \in Requests, RequestInv(r), HandlerStep(r) \/ Renew(r)
  PROVE  Path(r)
<1> USE DEF Steps, Path, Going, At, Location
<1>1. \A p \in Location : Goto(r, p) \/ Throws(r, p) \/ GoesOn(r, p) => Steps(r, p)
  BY StepsTo
<1>2. h[r] \in Handler /\ h \in [Requests -> Handler]
  BY DEF StateOK
<1>3. CASE ReserveAnswered(r)
  <2>1. h[r].pc \in Going /\ sent' = sent
    BY <1>3 DEF ReserveAnswered
  <2>2. \/ Goto(r, "done")
        \/ \E p \in {"acquire", "abort"} : h' = [h EXCEPT ![r].pc = p, ![r].resv = "resolved"]
    BY <1>3 DEF ReserveAnswered, AfterReserve
  <2>3. Steps(r, "done") \/ Steps(r, "acquire") \/ Steps(r, "abort")
    <3> HIDE DEF Steps
    <3> QED BY <1>1, <2>2, AssignsStep
  <2> QED BY <2>1, <2>3
<1>4. CASE ReserveThrows(r)
  <2>1. \/ Steps(r, "retry") /\ h[r].pc = "reserve"
        \/ h'[r].pc = "markUnknown" /\ h'[r].phase = h[r].phase
    BY <1>1, <1>2, <1>4 DEF ReserveThrows, Handler
  <2> QED BY <1>4, <2>1 DEF ReserveThrows
<1>5. CASE MarkUnknown(r) \/ AbortLease(r) \/ Abort(r)
  BY <1>1, <1>5 DEF MarkUnknown, AbortLease, Abort
<1>6. CASE AcquireAnswered(r) \/ AcquireThrows(r)
  <2>1. h[r].pc = "acquire" /\ sent' = sent
    BY <1>6 DEF AcquireAnswered, AcquireThrows
  <2>2. \/ Throws(r, "catch") \/ Goto(r, "refuse") \/ Goto(r, "abort")
        \/ \E l \in leases', p \in {"call", "abortLease"} :
              h' = [h EXCEPT ![r].pc = p, ![r].gen = l.gen]
    BY <1>6 DEF AcquireAnswered, AcquireThrows, AfterAcquire, AfterRefusal
  <2>3. \/ Steps(r, "catch") \/ Steps(r, "refuse") \/ Steps(r, "abort")
        \/ Steps(r, "call") \/ Steps(r, "abortLease")
    <3> HIDE DEF Steps
    <3> QED BY <1>1, <2>2, AssignsStep
  <2> QED BY <2>1, <2>3
<1>7. CASE Refuse(r)
  <2>1. h[r].pc = "refuse" /\ sent' = sent
    BY <1>7 DEF Refuse
  <2>2. h'[r].pc \in {"done", "freeFailed", "catch"} /\ h'[r].phase = h[r].phase
    BY <1>1, <1>2, <1>7 DEF Refuse, Handler
  <2> QED BY <2>1, <2>2
<1>8. CASE Call(r)
  <2>1. h[r].pc = "call" /\ (sent' = sent \/ sent' = sent \cup {r})
    BY <1>8 DEF Call
  <2>2. /\ h'[r].pc \in {"refuse", "catch", "waiting"}
        /\ h'[r].phase = h[r].phase \/ h'[r].phase = "attempted"
    BY <1>1, <1>2, <1>8 DEF Call, Handler
  <2> QED BY <2>1, <2>2
<1>9. CASE Respond(r) \/ StreamEnds(r)
  <2>1. h[r].pc \in {"waiting", "streaming"} /\ sent' = sent
    BY <1>9 DEF Respond, StreamEnds
  <2> DEFINE ends == {"mark", "cMark", "streaming", "cMissing", "fMark", "fUncertain"}
  <2>2. \/ \E p \in ends : Goto(r, p)
        \/ \E p \in {"cSettle", "fSettle"}, n \in Actuals :
              h' = [h EXCEPT ![r].pc = p, ![r].usage = n, ![r].due = 0]
    BY <1>9 DEF Respond, StreamEnds
  <2>3. \E p \in ends \cup {"cSettle", "fSettle"} : Steps(r, p)
    <3> HIDE DEF Steps
    <3> QED BY <1>1, <2>2, AssignsStep
  <2> QED BY <2>1, <2>3
<1>10. CASE Mark(r)
  <2>1. sent' = sent /\ h'[r].pc \in {"freeUncertain", "catch"} /\ h'[r].phase = h[r].phase
    BY <1>1, <1>2, <1>10 DEF Mark, Handler
  <2> QED BY <2>1
<1>11. CASE Free(r) \/ FinalizeOutcome(r) \/ FinalizeLease(r) \/ FinalizeUncertain(r) \/ Renew(r)
  BY <1>1, <1>11 DEF Free, FinalizeOutcome, FinalizeLease, FinalizeUncertain, Renew
<1>12. CASE CompletedSettle(r) \/ CompletedMark(r) \/ CompletedFree(r)
  <2>1. h[r].phase = "attempted"
    BY <1>12 DEF CompletedSettle, CompletedMark, CompletedFree, RequestInv, LocalInv
  <2> QED BY <1>1, <1>12, <2>1 DEF CompletedSettle, CompletedMark, CompletedFree
<1>13. CASE Catch(r) \/ CatchLease(r)
  BY <1>1, <1>13 DEF Catch, CatchLease, AfterCatch
<1> QED BY <1>3, <1>4, <1>5, <1>6, <1>7, <1>8, <1>9, <1>10, <1>11, <1>12, <1>13 DEF HandlerStep

\* A handler that goes on gives up its body with its first step off the way to
\* upstream, and does not get to the call when the timer fired.
LEMMA RestKeeps ==
  ASSUME ProxyInv, FrontTypeOK, Later, NEW r \in Requests, BodyInv(r), RecentInv(r), HandlesRest(r)
  PROVE  /\ FrontTypeOK' /\ BodyInv(r)' /\ RecentInv(r)'
         /\ \A q \in Requests \ {r} : front'[q] = front[q] /\ body'[q] = body[q]
<1>0. /\ StateOK /\ RequestInv(r) /\ front' = front /\ Path(r)
      /\ h[r].phase \in Phase /\ h'[r].phase \in Phase
  <2>1. StateOK /\ RequestInv(r) /\ front' = front /\ (HandlerStep(r) \/ Renew(r))
    BY DEF ProxyInv, HandlesRest
  <2>2. Kept(r)
    BY <2>1, RequestKept
  <2> QED BY <2>1, <2>2, HandlerPath DEF Kept, OnlyAbout, StateOK, Handler, Phase
<1>1. body' = Cancelled(r) \/ body' = body
  BY DEF HandlesRest
<1>2. /\ body' \in [Requests -> Body] /\ \A q \in Requests \ {r} : body'[q] = body[q]
      /\ body'[r] = "open" => body[r] = "open"
      /\ body'[r] = "cut" => body[r] = "cut"
  BY <1>1 DEF FrontTypeOK, Cancelled, Body
<1>3. ASSUME h'[r].pc \in GivenUp, h'[r].phase = "before"
      PROVE  body'[r] # "open"
  <2>1. CASE h'[r].pc \in GivesUpAt
    <3>1. body' = Cancelled(r)
      BY <1>3, <2>1 DEF HandlesRest
    <3> QED BY <3>1 DEF FrontTypeOK, Cancelled
  <2>2. CASE h'[r].pc \notin GivesUpAt
    <3>1. h[r].pc \in GivenUp /\ h[r].phase = "before"
      BY <1>0, <1>3, <2>2 DEF Path, GivesUpAt, GivenUp, Phase
    <3> QED BY <1>2, <3>1 DEF BodyInv
  <2> QED BY <2>1, <2>2
<1>4. ASSUME body'[r] = "cut"
      PROVE  h'[r].pc # "call" /\ h'[r].phase = "before"
  <2>1. TimedOut(r) /\ h[r].pc # "call" /\ h[r].phase = "before"
    BY <1>2, <1>4 DEF BodyInv, TimedOut
  <2>2. h'[r].phase = "before"
    BY <1>0, <2>1 DEF Path, Phase
  <2>3. h'[r].pc # "call"
    BY <1>0, <2>1 DEF HandlesRest, LooksAtTimer, At, Path
  <2> QED BY <2>2, <2>3
<1>5. \A t \in Tables : Recent(r, t) => Recent(r, t)'
  BY <1>0, StaysRecent
<1>6. h'[r].pc \in Going \/ r \in sent' => h[r].pc \in Going \/ r \in sent
  BY <1>0 DEF Path, Going
<1> QED BY <1>0, <1>2, <1>3, <1>4, <1>5, <1>6 DEF FrontTypeOK, BodyInv, RecentInv, Tables

\* The timer and the end of the body find the handler where they find it.
LEMMA TimerKeeps ==
  ASSUME StateOK, FrontTypeOK, NEW r \in Requests, BodyInv(r), PrepareTimeout(r) \/ BodyEnds(r)
  PROVE  /\ FrontTypeOK' /\ BodyInv(r)' /\ \A q \in Requests \ {r} : body'[q] = body[q]
<1>1. h' = h /\ front' = front
  BY DEF PrepareTimeout, BodyEnds, vars, proxyVars
<1>2. CASE body' = [body EXCEPT ![r] = "closed"]
  BY <1>1, <1>2 DEF FrontTypeOK, Body, BodyInv
<1>3. CASE body' = [body EXCEPT ![r] = "cut"] /\ ~PastChecks(r) /\ body[r] = "open"
  <2>1. h[r].pc # "call" /\ h[r].phase = "before"
    BY <1>3 DEF PastChecks, StateOK, Handler
  <2>2. body'[r] = "cut" /\ body' \in [Requests -> Body] /\ \A q \in Requests \ {r} : body'[q] = body[q]
    BY <1>3 DEF FrontTypeOK, Body
  <2> QED BY <1>1, <2>1, <2>2 DEF FrontTypeOK, BodyInv
<1> QED BY <1>2, <1>3 DEF PrepareTimeout, BodyEnds

(***************************************************************************)
(* The invariant.                                                          *)
(***************************************************************************)

\* A request whose handler, load, place and body a step leaves alone.
LEMMA UntouchedKept ==
  ASSUME FrontTypeOK, Later, NEW q \in Requests, LoadInv(q), BodyInv(q), RecentInv(q),
         h'[q].pc = h[q].pc, h'[q].phase = h[q].phase, front'[q] = front[q], body'[q] = body[q],
         load'[q] = load[q], q \in sent' <=> q \in sent
  PROVE  LoadInv(q)' /\ BodyInv(q)' /\ RecentInv(q)'
<1>1. \A t \in Tables : Recent(q, t) => Recent(q, t)'
  BY StaysRecent
<1> QED BY <1>1 DEF LoadInv, InFront, At, BodyInv, RecentInv, Tables

\* The step of one request keeps the invariant of all.
LEMMA OneKeepsAll ==
  ASSUME GatewayInv, NEW r \in Requests, ProxyInv', CacheStep, FrontTypeOK', OnlyAbout(r),
         LoadInv(r)', BodyInv(r)', RecentInv(r)',
         \A q \in Requests \ {r} : front'[q] = front[q] /\ body'[q] = body[q] /\ load'[q] = load[q]
  PROVE  GatewayInv'
<1>1. CacheInv' /\ Later
  BY CacheStepKeeps DEF GatewayInv
<1>2. ASSUME NEW q \in Requests
      PROVE  LoadInv(q)' /\ BodyInv(q)' /\ RecentInv(q)'
  <2>1. CASE q = r
    BY <2>1
  <2>2. CASE q # r
    BY <1>1, <2>2, UntouchedKept DEF GatewayInv, OnlyAbout
  <2> QED BY <2>1, <2>2
<1> QED BY <1>1, <1>2 DEF GatewayInv

\* So does a step in front of the reservation ...
LEMMA FrontStepKeeps ==
  ASSUME GatewayInv, NEW r \in Requests, FrontStep(r)
  PROVE  GatewayInv'
<1>1. ProxyInv /\ CacheInv /\ FrontTypeOK /\ LoadInv(r) /\ BodyInv(r) /\ RecentInv(r) /\ StateOK
  BY DEF GatewayInv, ProxyInv
<1>2. Kept(r) /\ ProxyInv'
  BY <1>1, FrontStepMoves, FrontMoveKept, KeptKeepsAll
<1>3. /\ CacheStep /\ \A q \in Requests \ {r} : load'[q] = load[q]
      /\ load'[r].stage # "none" => InFront(r, load'[r].table) /\ h' = h /\ front' = front
  BY <1>1, FrontLoads
<1>4. Later
  BY <1>1, <1>3, CacheStepKeeps
<1>5. LoadInv(r)'
  BY <1>3 DEF LoadInv, InFront, At
<1> QED BY <1>1, <1>2, <1>3, <1>4, <1>5, FrontKeeps, OneKeepsAll DEF Kept

\* ... and one behind it.
LEMMA HandlesRestKeeps ==
  ASSUME GatewayInv, NEW r \in Requests, HandlesRest(r)
  PROVE  GatewayInv'
<1>1. ProxyInv /\ CacheInv /\ FrontTypeOK /\ LoadInv(r) /\ BodyInv(r) /\ RecentInv(r) /\ StateOK
      /\ LedgerInv /\ \A q \in Requests : RequestInv(q)
  BY DEF GatewayInv, ProxyInv
<1>2. /\ HandlerStep(r) \/ Renew(r)
      /\ UNCHANGED <<cacheVars, front>>
  BY DEF HandlesRest
<1>3. Kept(r) /\ Placed(r) /\ ProxyInv'
  BY <1>1, <1>2, RequestKept, ProxyInvStep DEF ProxyNext
<1>4. CacheStep /\ load' = load
  BY <1>2, <1>3 DEF Placed, LeaseStepOf, CacheStep, cacheVars
<1>5. Later
  BY <1>1, <1>4, CacheStepKeeps
<1>6. LoadInv(r)'
  <2>1. h[r].pc # "idle"
    BY <1>2 DEF HandlerStep, At, Renew, ReserveAnswered, ReserveThrows, MarkUnknown, AcquireAnswered,
       AcquireThrows, AbortLease, Abort, Refuse, Call, Respond, Mark, Free, CompletedSettle,
       CompletedMark, CompletedFree, StreamEnds, FinalizeOutcome, FinalizeLease, FinalizeUncertain,
       Catch, CatchLease
  <2> QED BY <1>1, <1>4, <2>1 DEF LoadInv, InFront, At
<1> QED BY <1>1, <1>3, <1>4, <1>5, <1>6, RestKeeps, OneKeepsAll DEF Kept

\* The death of a handler, and the clock, touch nothing in front.
LEMMA QuietKeeps ==
  ASSUME GatewayInv, [ProxyNext]_vars, CacheStep, front' = front, body' = body,
         \A q \in Requests : load'[q] = load[q],
         \A q \in Requests : /\ h'[q].phase = h[q].phase /\ (q \in sent' <=> q \in sent)
                             /\ h'[q].pc = h[q].pc \/ (h'[q].pc = "dead" /\ h[q].pc # "idle")
  PROVE  GatewayInv'
<1>1. ProxyInv' /\ CacheInv' /\ Later /\ FrontTypeOK
  BY ProxyInvStep, CacheStepKeeps DEF GatewayInv
<1>2. ASSUME NEW q \in Requests
      PROVE  LoadInv(q)' /\ BodyInv(q)' /\ RecentInv(q)'
  <2>1. LoadInv(q) /\ BodyInv(q) /\ RecentInv(q)
    BY DEF GatewayInv
  <2>2. CASE h'[q].pc = h[q].pc
    BY <1>1, <2>1, <2>2, UntouchedKept
  <2>3. CASE h'[q].pc = "dead" /\ h[q].pc # "idle"
    <3>1. \A t \in Tables : Recent(q, t) => Recent(q, t)'
      BY <1>1, StaysRecent
    <3> QED BY <2>1, <2>3, <3>1
            DEF LoadInv, InFront, At, BodyInv, RecentInv, GivenUp, Going, Tables
  <2> QED BY <2>2, <2>3
<1> QED BY <1>1, <1>2 DEF GatewayInv, FrontTypeOK

\* To ProxyRequest every step is one of its own or one in front of it.
LEMMA StepsOfProxy ==
  ASSUME [GatewayNext]_allVars, \A r \in Requests : ~FrontStep(r)
  PROVE  [ProxyNext]_vars
<1>1. ASSUME NEW r \in Requests, HandlesRest(r) \/ Dies(r) \/ PrepareTimeout(r) \/ BodyEnds(r)
      PROVE  [ProxyNext]_vars
  BY <1>1 DEF HandlesRest, Dies, PrepareTimeout, BodyEnds, ProxyNext
<1>2. CASE Passing \/ Edits \/ \E c \in Loaders \ Requests : OtherLoads(c)
  BY <1>2 DEF Passing, Edits, OtherLoads, ProxyNext
<1>3. CASE UNCHANGED allVars
  BY <1>3 DEF allVars
<1> QED BY <1>1, <1>2, <1>3 DEF GatewayNext, ProxyStep

\* Every step keeps the invariant.
LEMMA GatewayInvStep ==
  ASSUME GatewayInv, [GatewayNext]_allVars
  PROVE  GatewayInv'
<1>1. ASSUME NEW r \in Requests, FrontStep(r) \/ HandlesRest(r)
      PROVE  GatewayInv'
  BY <1>1, FrontStepKeeps, HandlesRestKeeps
<1>2. ASSUME NEW r \in Requests, Dies(r)
      PROVE  GatewayInv'
  <2>1. /\ Killed(r) /\ UNCHANGED <<cacheVars, front, body>>
        /\ UNCHANGED <<ledgerVars, leaseVars, sent, row>>
        /\ Goto(r, "dead") /\ h[r].pc # "idle" /\ h \in [Requests -> Handler]
    BY <1>2 DEF Dies, Killed, GatewayInv, ProxyInv, StateOK
  <2>2. Continues(r, "dead")
    BY <2>1, GotoContinues DEF Location
  <2>3. CacheStep /\ load' = load /\ [ProxyNext]_vars
    BY <2>1 DEF CacheStep, cacheVars, leaseVars, ProxyNext
  <2> QED BY <2>1, <2>2, <2>3, QuietKeeps DEF Continues
<1>3. ASSUME NEW r \in Requests, PrepareTimeout(r) \/ BodyEnds(r)
      PROVE  GatewayInv'
  <2>1. UNCHANGED <<vars, cacheVars, front>>
    BY <1>3 DEF PrepareTimeout, BodyEnds
  <2>2. /\ h' = h /\ front' = front /\ load' = load /\ now' = now /\ sent' = sent
        /\ entries' = entries /\ row' = row
    BY <2>1 DEF vars, proxyVars, cacheVars, leaseVars, ledgerVars
  <2>3. CacheStep /\ ProxyInv' /\ OnlyAbout(r)
    BY <2>1, <2>2, ProxyInvStep DEF CacheStep, GatewayInv, ProxyInv, StateOK, OnlyAbout
  <2>4. Later
    BY <2>3, CacheStepKeeps DEF GatewayInv
  <2>5. /\ FrontTypeOK' /\ BodyInv(r)' /\ \A q \in Requests \ {r} : body'[q] = body[q]
    BY <1>3, TimerKeeps DEF GatewayInv, ProxyInv
  <2>6. LoadInv(r)'
    BY <2>2 DEF GatewayInv, LoadInv, InFront, At
  <2>7. RecentInv(r)'
    <3>1. \A t \in Tables : Recent(r, t) => Recent(r, t)'
      BY <2>2, <2>4, StaysRecent DEF GatewayInv
    <3>2. RecentInv(r)
      BY DEF GatewayInv
    <3> QED BY <2>2, <3>1, <3>2 DEF RecentInv, Tables
  <2> QED BY <2>2, <2>3, <2>5, <2>6, <2>7, OneKeepsAll
<1>4. CASE Passing
  <2>1. Tick /\ UNCHANGED <<cacheVars, front, body>> /\ now' = now + 1 /\ sent' = sent
    BY <1>4 DEF Passing, Tick
  <2>2. ASSUME NEW q \in Requests
        PROVE  h'[q].pc = h[q].pc /\ h'[q].phase = h[q].phase
    <3>1. h[q] \in Handler
      BY DEF GatewayInv, ProxyInv, StateOK
    <3>2. h'[q] = h[q] \/ h'[q] = [h[q] EXCEPT !.due = 1]
      BY <2>1 DEF Tick
    <3> QED BY <3>1, <3>2 DEF Handler
  <2>3. CacheStep /\ load' = load
    BY <2>1 DEF CacheStep, cacheVars
  <2> QED BY <2>1, <2>2, <2>3, QuietKeeps DEF ProxyNext
<1>5. CASE Edits \/ \E c \in Loaders \ Requests : OtherLoads(c)
  <2>1. /\ UNCHANGED <<vars, front, body>>
        /\ now' = now /\ h' = h /\ sent' = sent
    BY <1>5 DEF Edits, OtherLoads, vars, leaseVars, proxyVars
  <2>2. CacheStep
    BY <1>5, <2>1, PolicyAssumption DEF Edits, OtherLoads, CacheStep, Tables
  <2>3. \A q \in Requests : load'[q] = load[q]
    <3>1. load \in [Loaders -> Load] /\ Requests \subseteq Loaders
      BY GatewayAssumption DEF GatewayInv, CacheInv, CacheTypeOK
    <3> QED BY <1>5, <3>1 DEF Edits, OtherLoads, AdminWrites, AdminInvalidates, LoadMiss, RowRead,
            LoadThrows, LoadFill
  <2> QED BY <2>1, <2>2, <2>3, QuietKeeps
<1>6. CASE UNCHANGED allVars
  <2>1. UNCHANGED <<vars, cacheVars, front, body>> /\ h' = h /\ now' = now /\ sent' = sent /\ load' = load
    BY <1>6 DEF allVars, vars, leaseVars, proxyVars, cacheVars
  <2>2. CacheStep
    BY <2>1 DEF CacheStep
  <2> QED BY <2>1, <2>2, QuietKeeps
<1> QED BY <1>1, <1>2, <1>3, <1>4, <1>5, <1>6 DEF GatewayNext, ProxyStep

\* The invariant holds with empty caches and no request on its way.
LEMMA GatewayInvInit ==
  ASSUME GatewayInit
  PROVE  GatewayInv
<1>1. ProxyInv /\ now = 0 /\ sent = {}
  BY ProxyInvInit DEF GatewayInit, ProxyInit
<1>2. CacheInv
  <2>1. CacheTypeOK /\ heldUntil = [t \in Tables |-> [v \in Value |-> 0]]
    BY DEF GatewayInit, CacheInit, CacheTypeOK, CacheRow, Load, NotCached, NoLoad, Tables, Value
  <2>2. ASSUME NEW t \in Tables, NEW v \in Value
        PROVE  heldUntil[t][v] = 0 /\ LastHeld(t, v, now) = 0
    BY <1>1, <2>1 DEF LastHeld
  <2>3. \A i \in Isolates, t \in Tables : EntryFresh(i, t)
    BY <2>2, PolicyAssumption DEF GatewayInit, CacheInit, EntryFresh, NotCached
  <2>4. \A c \in Loaders : LoadFresh(c)
    BY <1>1, <2>2 DEF GatewayInit, CacheInit, LoadFresh, NoLoad
  <2> QED BY <1>1, <2>1, <2>2, <2>3, <2>4 DEF CacheInv
<1>3. FrontTypeOK /\ \A r \in Requests : front[r].pc = "start"
  BY DEF GatewayInit, FrontTypeOK, Front, Body
<1>4. \A r \in Requests : h[r].pc = "idle" /\ body[r] = "none" /\ load[r].stage = "none"
  <2>1. \A r \in Requests : h[r].pc = "idle"
    BY DEF GatewayInit, ProxyInit, NewHandler
  <2> QED BY <2>1, GatewayAssumption DEF GatewayInit, CacheInit, NoLoad
<1>5. \A r \in Requests : LoadInv(r) /\ BodyInv(r) /\ RecentInv(r)
  BY <1>1, <1>3, <1>4 DEF LoadInv, BodyInv, RecentInv, GivenUp, Going
<1> QED BY <1>1, <1>2, <1>3, <1>5 DEF GatewayInv

\* The inductive invariant of the gateway: ProxyRequest's, fresh caches, bodies
\* given up with the first step off the way to upstream, and rows that are recent
\* from the place where they are learnt until the request is sent.
THEOREM GatewayInvariant == GatewaySpec => []GatewayInv
<1>1. GatewayInv /\ [GatewayNext]_allVars => GatewayInv'
  BY GatewayInvStep
<1> QED BY <1>1, GatewayInvInit, PTL DEF GatewaySpec

\* A request answered without an upstream call has given up its prepared body, on
\* whichever early return, refusal or exception it left.
THEOREM BodiesAreGivenUp == GatewaySpec => []BodyClosedBeforeAnswer
<1>1. GatewayInv => BodyClosedBeforeAnswer
  BY DEF GatewayInv, BodyClosedBeforeAnswer, BodyInv, GivenUp
<1> QED BY <1>1, GatewayInvariant, PTL

\* A prepare timer that fires before the lease is answered stops the request
\* before upstream; if nothing failed, its tokens are back when it is answered.
THEOREM TimeoutsStopRequests == GatewaySpec => []TimedOutNeverSent
<1>1. ASSUME GatewayInv
      PROVE  TimedOutNeverSent
  <2>1. ASSUME NEW r \in Requests, TimedOut(r)
        PROVE  r \notin sent
    BY <1>1, <2>1 DEF GatewayInv, BodyInv, TimedOut, ProxyInv, RequestInv, LocalInv
  <2>2. \A r \in Requests : At(r, "done") /\ h[r].faults = 0 => entries[r].state # "reserved"
    BY <1>1, ExitsFollow DEF GatewayInv, CleanExit
  <2> QED BY <2>1, <2>2 DEF TimedOutNeverSent
<1> QED BY <1>1, GatewayInvariant, PTL

\* For any number of isolates, loaders and edits: what is sent was allowed by rows
\* that D1 held less than CacheTTL before the request asked for them.
THEOREM RowsAreRecent == GatewaySpec => []SentUnderRecentRows
<1>1. GatewayInv => SentUnderRecentRows
  BY DEF GatewayInv, SentUnderRecentRows, RecentInv, Recent, Tables, ProxyInv, StateOK
<1> QED BY <1>1, GatewayInvariant, PTL

\* What is proved of the direct route holds behind the two ways into it: handlers
\* leave clean, answers are accounted, rows agree and upstream calls are bounded.
THEOREM GatewayKeepsProxy ==
  GatewaySpec => [](CleanExit /\ AnsweredIsAccounted /\ AuditTellsOutcome /\ UpstreamConcurrencyBounded)
<1>1. GatewayInv => CleanExit /\ AnsweredIsAccounted /\ AuditTellsOutcome /\ UpstreamConcurrencyBounded
  BY ExitsFollow, BoundFollows DEF GatewayInv
<1> QED BY <1>1, GatewayInvariant, PTL

\* Nothing in front of the reservation touches the ledger, so the gateway with its
\* caches, its prepare call and its timer is a client of the ledger too.
THEOREM GatewayUsesLedger == GatewaySpec => LedgerSpec
<1>1. GatewayInit => LedgerInit
  BY DEF GatewayInit, ProxyInit
<1>2. ASSUME GatewayInv, [GatewayNext]_allVars
      PROVE  [LedgerNext]_ledgerVars
  <2>1. StateOK /\ \A r \in Requests : RequestInv(r) /\ LoadInv(r)
    BY <1>2 DEF GatewayInv, ProxyInv
  <2>2. ASSUME NEW q \in Requests, FrontStep(q)
        PROVE  [LedgerNext]_ledgerVars
    BY <2>1, <2>2, FrontStepMoves DEF FrontMove
  <2>3. CASE \A q \in Requests : ~FrontStep(q)
    BY <1>2, <2>1, <2>3, StepsOfProxy, StepIsLedgerStep
  <2> QED BY <2>2, <2>3
<1> QED BY <1>1, <1>2, GatewayInvariant, PTL DEF GatewaySpec, LedgerSpec

\* Both direct routes, from the first line of handleProxy on, implement the
\* contract of a request.
THEOREM GatewayImplementsContract == GatewaySpec => ImplementsContract
<1>1. GatewayInit => Contract!ContractInit
  BY DEF GatewayInit, ProxyInit, LedgerInit, NoEntry, AccountOf, Contract!ContractInit
<1>2. ASSUME GatewayInv, [GatewayNext]_allVars
      PROVE  [Contract!ContractNext]_<<[r \in Requests |-> AccountOf(r)], sent>>
  <2>1. ASSUME NEW q \in Requests, FrontStep(q)
        PROVE  [Contract!ContractNext]_<<[r \in Requests |-> AccountOf(r)], sent>>
    <3>1. ProxyInv /\ StateOK /\ LoadInv(q)
      BY <1>2 DEF GatewayInv, ProxyInv
    <3>2. Kept(q)
      BY <2>1, <3>1, FrontStepMoves, FrontMoveKept
    <3> QED BY <3>1, <3>2, AllowedIsContractStep DEF Kept
  <2>2. CASE \A q \in Requests : ~FrontStep(q)
    BY <1>2, <2>2, StepsOfProxy, ContractFollows DEF GatewayInv
  <2> QED BY <2>1, <2>2
<1>3. GatewayInv /\ [GatewayNext]_allVars =>
        [Contract!ContractNext]_<<[r \in Requests |-> AccountOf(r)], sent>>
  BY <1>2
<1> QED BY <1>1, <1>3, GatewayInvariant, PTL
        DEF GatewaySpec, ImplementsContract, Contract!ContractSpec

\* A reservation that was given back is of a request that was not sent upstream, and
\* usage is charged only for one that was.
GivenBackNeverSent ==
    \A r \in Requests : /\ entries[r].state = "released" => r \notin sent
                        /\ entries[r].state = "settled" => r \in sent

\* The ledger's records agree with what went upstream, whatever timers, failing RPCs
\* and kills do: a consequence of the contract.
THEOREM GatewaySpendsWhatItSends == GatewaySpec => []GivenBackNeverSent
<1> DEFINE A == [r \in Requests |-> AccountOf(r)]
           gone == sent
           Agree == \A r \in Requests : (A[r] = "free" => r \notin gone) /\ (A[r] = "charged" => r \in gone)
<1>1. Contract!ContractInit => Agree
  BY DEF Contract!ContractInit
<1>2. Agree /\ [Contract!ContractNext]_<<A, gone>> => Agree'
  <2> SUFFICES ASSUME Agree, [Contract!ContractNext]_<<A, gone>>
               PROVE  Agree'
    OBVIOUS
  <2>1. DOMAIN A = Requests
    OBVIOUS
  <2>2. ASSUME NEW q \in Requests,
               \/ Contract!Hold(q) \/ Contract!Send(q) \/ Contract!Doubt(q) \/ Contract!Free(q)
               \/ Contract!Charge(q) \/ Contract!Resolve(q)
        PROVE  Agree'
    <3>1. \/ gone' = gone \cup {q} /\ A' = A /\ A[q] # "free"
          \/ /\ gone' = gone
             /\ \E to : /\ A' = [A EXCEPT ![q] = to]
                        /\ (to = "free" => q \notin gone) /\ (to = "charged" => q \in gone)
      BY <2>2 DEF Contract!Hold, Contract!Send, Contract!Doubt, Contract!Free, Contract!Charge,
                  Contract!Resolve, Contract!Moves
    <3> HIDE DEF A, gone
    <3> QED BY <2>1, <3>1
  <2>3. CASE Contract!Forget
    BY <2>3 DEF Contract!Forget
  <2>4. CASE UNCHANGED <<A, gone>>
    BY <2>4
  <2> QED BY <2>2, <2>3, <2>4 DEF Contract!ContractNext
<1>3. Agree => GivenBackNeverSent
  BY DEF GivenBackNeverSent, AccountOf
<1>4. Contract!ContractSpec => []Agree
  <2> HIDE DEF Agree
  <2> QED BY <1>1, <1>2, PTL DEF Contract!ContractSpec
<1> HIDE DEF Agree
<1> QED BY <1>3, <1>4, GatewayImplementsContract, PTL DEF ImplementsContract
=============================================================================
