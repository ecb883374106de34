--------------------------- MODULE ExecutionEngine --------------------------
(***************************************************************************)
(* The runtime of src/engines/execution-engine.ts on the live venue, with  *)
(* what it talks to: the event store it journals to before it acts, the    *)
(* risk reservation and fills ledger it keeps informed, the pipeline that  *)
(* calls it, and the venue at the far end of a network that delays, loses  *)
(* and answers late.  Every asynchronous call is at least two steps, the   *)
(* request and the continuation, with anything allowed in between.         *)
(*                                                                         *)
(* The kernel is the live one (kernel.ts:261 makes the store durable): a   *)
(* failed write of a critical event throws after the memory was changed.   *)
(***************************************************************************)
EXTENDS OrderState, Naturals

CONSTANTS
  Intents,        \* decision ids
  Pairs,          \* venue pairs
  PairOf,         \* the pair each intent trades
  Qty,            \* ordered quantity, in lots
  Refusals,       \* how the venue may end an order it does not fill
  DiskMayFail,    \* whether an append to the event log can fail
  LatePlacement,  \* whether a request may reach the venue after its caller gave up
  MaxCrashes      \* bound on restarts

ASSUME EngineAssumption ==
  /\ PairOf \in [Intents -> Pairs]
  /\ Qty \in Nat \ {0}
  /\ Refusals \subseteq {"cancelled", "rejected"}
  /\ DiskMayFail \in BOOLEAN
  /\ LatePlacement \in BOOLEAN
  /\ MaxCrashes \in Nat

VARIABLES
  mem,       \* the engine's tracked orders
  journal,   \* what the event log on disk says of each order
  booked,    \* cumulative quantity the fills ledger has recorded
  hold,      \* state of the order's risk reservation
  call,      \* where the pipeline run of the intent stands
  wire,      \* the placement request and its answer on the network
  reply,     \* the view of the order the placement answers with
  venue,     \* the order at the venue
  position,  \* pairs with a live position at the venue
  placed,    \* how many times placeOrder was called (history)
  crashes    \* restarts so far

engineVars == <<mem, journal, booked, hold, call>>
venueVars  == <<venue, position>>
vars0 == <<engineVars, wire, reply, venueVars, placed, crashes>>

-----------------------------------------------------------------------------
(* Data *)

None == "NONE"

\* Raw order statuses of the venue; "other" stands for those mapStatus does not
\* name.  None: the venue never heard of the order.
RawStatus == {"open", "other", "open_partially_filled", "filled", "cancelled", "rejected"}
VenueOrder == [status: RawStatus \union {None}, filled: 0 .. Qty]
Unheard == [status |-> None, filled |-> 0]
Live(v) == v.status \in {"open", "other", "open_partially_filled"}

\* A variant that takes a partial fill for a fill.
MapStatusFilled(raw) ==
  CASE raw = "open"      -> "SUBMITTED"
    [] raw \in {"open_partially_filled", "filled"} -> "FILLED"
    [] raw = "cancelled" -> "CANCELLED"
    [] raw = "rejected"  -> "REJECTED"
    [] OTHER             -> "ACKNOWLEDGED"

MapStatus(raw) ==
  CASE raw = "open"                  -> "SUBMITTED"
    [] raw = "open_partially_filled" -> "PARTIALLY_FILLED"
    [] raw = "filled"                -> "FILLED"
    [] raw = "cancelled"             -> "CANCELLED"
    [] raw = "rejected"              -> "REJECTED"
    [] OTHER                         -> "ACKNOWLEDGED"

\* The broker's view of an order, as the engine and the reconciler see it.
BrokerStatus == {"SUBMITTED", "ACKNOWLEDGED", "PARTIALLY_FILLED", "FILLED",
                 "CANCELLED", "REJECTED"}
View == [status: BrokerStatus \union {None}, filled: 0 .. Qty]
NoView == [status |-> None, filled |-> 0]
ToBrokerOrder(o) == [status |-> MapStatus(o.status), filled |-> o.filled]

\* acked: the venue's order id is known.  late: in this status for over 10 s.
\* contract: expectedPrice and maxSlippageBps are known.  cancel: the single
\* post-breach cancel request.
Order == [status: OrderStatus \union {None}, filled: 0 .. Qty, acked: BOOLEAN,
          late: BOOLEAN, contract: BOOLEAN, cancel: {"no", "sent", "acked", "over"}]
NoOrder == [status |-> None, filled |-> 0, acked |-> FALSE, late |-> FALSE,
            contract |-> FALSE, cancel |-> "no"]

\* The per-decision index a restart builds from the log.
Log == [registered: BOOLEAN, submitted: BOOLEAN,
        last: OrderStatus \union {None}, acked: BOOLEAN, booked: 0 .. Qty]
NoLog == [registered |-> FALSE, submitted |-> FALSE, last |-> None,
          acked |-> FALSE, booked |-> 0]

HoldState == {None, "ACTIVE", "COMMITTED", "RELEASED", "EXPIRED"}

\* Whether an append reaches the disk.
Writes == IF DiskMayFail THEN BOOLEAN ELSE {TRUE}

\* What chance decides while a broker update is folded: each write's outcome,
\* and whether a new fill is outside the slippage band.
Luck == [move: Writes, breach: BOOLEAN, note: Writes, fill: Writes]

-----------------------------------------------------------------------------
(* The synchronous code, as functions of one order's cell: its memory, its *)
(* journal, its ledger entry, and whether an exception is in flight.       *)

Cell == [ord: Order, log: Log, booked: 0 .. Qty, threw: BOOLEAN]
CellOf(i) == [ord |-> mem[i], log |-> journal[i], booked |-> booked[i], threw |-> FALSE]

\* A variant without the durable mode.
ThrowsNever(w) == FALSE

\* appendCritical in durable mode: a write that did not reach the disk throws.
Throws(w) == ~ w

\* Memory moves first; a failed append throws with the move already made.
Transition(x, to, w) ==
  IF x.ord.status = to THEN x
  ELSE IF ~ CanTransition(x.ord.status, to) THEN [x EXCEPT !.threw = TRUE]
  ELSE [x EXCEPT !.ord = [@ EXCEPT !.status = to, !.late = FALSE],
                 !.log = IF w THEN [@ EXCEPT !.last = to, !.acked = x.ord.acked] ELSE @,
                 !.threw = Throws(w)]

\* registerApproved: the map first, the append second.
Registered(i, w) ==
  [CellOf(i) EXCEPT !.ord = [NoOrder EXCEPT !.status = "RISK_APPROVED"],
                    !.log.registered = w, !.threw = Throws(w)]

CancelRemainder(x) ==
  IF /\ x.ord.filled < Qty /\ x.ord.acked /\ x.ord.cancel = "no"
     /\ x.ord.status \in {"SUBMITTED", "ACKNOWLEDGED", "PARTIALLY_FILLED"}
  THEN [x EXCEPT !.ord.cancel = "sent"]
  ELSE x

EnforceSlippage(x, w) ==
  IF ~ (x.ord.contract /\ w.breach) THEN x
  ELSE IF Throws(w.note) THEN [x EXCEPT !.threw = TRUE]
  ELSE CancelRemainder(x)

\* A variant that takes the order's cumulative quantity for a new fill.
RecordFillCumulative(x, w) ==
  IF x.threw THEN x
  ELSE [x EXCEPT !.booked = @ + x.ord.filled,
                 !.log.booked = IF w.fill THEN x.booked + x.ord.filled ELSE @]

\* A variant that keeps what it booked in memory only.
RecordFillUnlogged(x, w) ==
  IF x.threw THEN x
  ELSE IF x.ord.filled <= x.booked THEN [x EXCEPT !.threw = TRUE]
  ELSE [x EXCEPT !.booked = x.ord.filled]

\* The fill hook: FillsLedger.record refuses a fold without a new quantity.
RecordFill(x, w) ==
  IF x.threw THEN x
  ELSE IF x.ord.filled <= x.booked THEN [x EXCEPT !.threw = TRUE]
  ELSE [x EXCEPT !.booked = x.ord.filled,
                 !.log.booked = IF w.fill THEN x.ord.filled ELSE @]

\* Quantity and order id are taken before the move is asserted.
ApplyBrokerUpdate(x, u, w) ==
  LET seen  == [x EXCEPT !.ord.acked = TRUE, !.ord.filled = u.filled]
      moved == Transition(seen, u.status, w.move)
  IN  IF moved.threw \/ u.filled <= x.ord.filled
      THEN moved
      ELSE RecordFill(EnforceSlippage(moved, w), w)

\* submit's catch block; an illegal move out of it escapes to the caller.
Unresolved(x, w) ==
  IF x.threw THEN Transition([x EXCEPT !.threw = FALSE], "UNKNOWN", w) ELSE x

\* RiskReservationManager.commit and release touch an ACTIVE hold only.
Retired(h, to) == IF h = "ACTIVE" THEN to ELSE h

\* A variant that gives the hold up on every error.
SettledOnError(h, x) ==
  LET s == x.ord.status IN
  IF x.threw THEN Retired(h, "RELEASED")
  ELSE IF s \in {"FILLED", "POSITION_OPEN", "PROTECTED"} THEN Retired(h, "COMMITTED")
  ELSE IF s \in {"REJECTED", "CANCELLED", "EXPIRED"} THEN Retired(h, "RELEASED")
  ELSE h

\* What the pipeline does with the hold once submit resolved or threw.
Settled(h, x) ==
  LET s == x.ord.status IN
  IF x.threw THEN (IF s = "UNKNOWN" THEN h ELSE Retired(h, "RELEASED"))
  ELSE IF s \in {"FILLED", "POSITION_OPEN", "PROTECTED"} THEN Retired(h, "COMMITTED")
  ELSE IF s \in {"REJECTED", "CANCELLED", "EXPIRED"} THEN Retired(h, "RELEASED")
  ELSE h

Store(i, x) ==
  /\ mem' = [mem EXCEPT ![i] = x.ord]
  /\ journal' = [journal EXCEPT ![i] = x.log]
  /\ booked' = [booked EXCEPT ![i] = x.booked]

-----------------------------------------------------------------------------
(* The pipeline and the engine *)

\* Risk approval: a hold is placed, then the run awaits the challenger.
Approve(i) ==
  /\ call[i] = "idle"
  /\ call' = [call EXCEPT ![i] = "approved"]
  /\ hold' = [hold EXCEPT ![i] = "ACTIVE"]
  /\ UNCHANGED <<mem, journal, booked, wire, reply, venueVars, placed, crashes>>

\* RiskReservationManager.sweepExpired, run by another lane's reserve.
HoldExpires(i) ==
  /\ hold[i] = "ACTIVE"
  /\ hold' = [hold EXCEPT ![i] = "EXPIRED"]
  /\ UNCHANGED <<mem, journal, booked, call, wire, reply, venueVars, placed, crashes>>

\* registerApproved threw, or assertSubmittable found the store unhealthy (the
\* failed append made it so) or the submission gate closed.
SubmitRefused(i) ==
  /\ call[i] = "approved"
  /\ \E w \in Writes, blocked \in BOOLEAN :
       /\ Registered(i, w).threw \/ blocked
       /\ Store(i, Registered(i, w))
  /\ hold' = [hold EXCEPT ![i] = Retired(@, "RELEASED")]
  /\ call' = [call EXCEPT ![i] = "done"]
  /\ UNCHANGED <<wire, reply, venueVars, placed, crashes>>

\* The synchronous part of submit from a cell in RISK_APPROVED: journal
\* SUBMITTING, then call placeOrder; the append's failure stops it in between.
Submission(i, x) ==
  \E w \in Writes, sub \in Writes :
    LET y == Transition([x EXCEPT !.ord.contract = TRUE], "SUBMITTING", w) IN
    IF y.threw
    THEN /\ Store(i, y)
         /\ hold' = [hold EXCEPT ![i] = Settled(@, y)]
         /\ call' = [call EXCEPT ![i] = "done"]
         /\ UNCHANGED <<wire, reply, placed>>
    ELSE /\ Store(i, [y EXCEPT !.log.submitted = sub])
         /\ call' = [call EXCEPT ![i] = "waiting"]
         /\ wire' = [wire EXCEPT ![i] = "sent"]
         /\ reply' = [reply EXCEPT ![i] = NoView]
         /\ placed' = [placed EXCEPT ![i] = @ + 1]
         /\ UNCHANGED hold

Submit(i) ==
  /\ call[i] = "approved"
  /\ \E w \in Writes :
       /\ ~ Registered(i, w).threw
       /\ Submission(i, Registered(i, w))
  /\ UNCHANGED <<venueVars, crashes>>

\* A variant that does not look at the status first.
ResubmitUnchecked(i) ==
  /\ call[i] = "done"
  /\ journal[i].registered
  /\ mem[i].status # None
  /\ Submission(i, CellOf(i))
  /\ UNCHANGED <<venueVars, crashes>>

\* A second submit of the same decision, by a caller whose registerApproved
\* returned or after a restart; assertSubmittable lets it through only while
\* the order is still RISK_APPROVED.
Resubmit(i) ==
  /\ call[i] = "done"
  /\ journal[i].registered
  /\ mem[i].status = "RISK_APPROVED"
  /\ Submission(i, CellOf(i))
  /\ UNCHANGED <<venueVars, crashes>>

\* placeOrder answered in time.
PlacementAnswered(i) ==
  /\ call[i] = "waiting"
  /\ wire[i] = "answered"
  /\ \E w \in Luck, w2 \in Writes :
       LET y == Unresolved(ApplyBrokerUpdate(CellOf(i), reply[i], w), w2) IN
       /\ Store(i, y)
       /\ hold' = [hold EXCEPT ![i] = Settled(@, y)]
  /\ call' = [call EXCEPT ![i] = "done"]
  /\ UNCHANGED <<wire, reply, venueVars, placed, crashes>>

\* placeOrder threw or ten seconds passed; the late answer is discarded.
PlacementTimesOut(i) ==
  /\ call[i] = "waiting"
  /\ LatePlacement \/ wire[i] # "sent"
  /\ \E w \in Writes :
       LET y == Transition(CellOf(i), "UNKNOWN", w) IN
       /\ Store(i, y)
       /\ hold' = [hold EXCEPT ![i] = Settled(@, y)]
  /\ call' = [call EXCEPT ![i] = "done"]
  /\ UNCHANGED <<wire, reply, venueVars, placed, crashes>>

\* The continuation of cancel once the venue confirmed it.
CancelConfirmed(i) ==
  /\ mem[i].cancel = "acked"
  /\ \E w \in Writes :
       LET y == Transition(CellOf(i), "CANCELLED", w)
       IN  Store(i, [y EXCEPT !.ord.cancel = "over"])
  /\ UNCHANGED <<hold, call, wire, reply, venueVars, placed, crashes>>

\* More than ten seconds since the order became SUBMITTING.
TenSecondsPass(i) ==
  /\ mem[i].status = "SUBMITTING" /\ ~ mem[i].late
  /\ mem' = [mem EXCEPT ![i] = [@ EXCEPT !.late = TRUE]]
  /\ UNCHANGED <<journal, booked, hold, call, wire, reply, venueVars, placed, crashes>>

-----------------------------------------------------------------------------
(* Crash and restart *)

\* scanOrderEvents: the status an order is revived with, None if it is not.
Revived(log) ==
  LET s == IF log.last = None THEN "RISK_APPROVED" ELSE log.last IN
  IF ~ log.registered \/ s \in Terminal THEN None
  ELSE IF s = "SUBMITTING" \/ (s = "RISK_APPROVED" /\ log.submitted) THEN "UNKNOWN"
  ELSE s

\* hydrate: quantities and the slippage contract are not in the log.
Hydrated(log) ==
  IF Revived(log) = None THEN NoOrder
  ELSE [NoOrder EXCEPT !.status = Revived(log), !.acked = log.acked]

\* The process dies and boots again; reservations and pending calls are gone.
Crash ==
  /\ crashes < MaxCrashes
  /\ LatePlacement \/ \A i \in Intents : wire[i] # "sent"
  /\ crashes' = crashes + 1
  /\ mem' = [i \in Intents |-> Hydrated(journal[i])]
  /\ booked' = [i \in Intents |-> journal[i].booked]
  /\ hold' = [i \in Intents |-> None]
  /\ call' = [i \in Intents |-> IF call[i] = "idle" THEN "idle" ELSE "done"]
  /\ UNCHANGED <<journal, wire, reply, venueVars, placed>>

-----------------------------------------------------------------------------
(* The network and the venue *)

\* The request arrives; the venue is idempotent on client_order_id.
PlacementLands(i) ==
  /\ wire[i] = "sent"
  /\ wire' = [wire EXCEPT ![i] = "landed"]
  /\ IF venue[i] = Unheard
     THEN \E s \in {"open", "other"} : venue' = [venue EXCEPT ![i].status = s]
     ELSE UNCHANGED venue
  /\ UNCHANGED <<engineVars, reply, position, placed, crashes>>

PlacementLost(i) ==
  /\ wire[i] = "sent"
  /\ wire' = [wire EXCEPT ![i] = "lost"]
  /\ UNCHANGED <<engineVars, reply, venueVars, placed, crashes>>

\* The venue writes its answer; the view ages while it travels.
VenueAnswers(i) ==
  /\ wire[i] = "landed"
  /\ wire' = [wire EXCEPT ![i] = "answered"]
  /\ reply' = [reply EXCEPT ![i] = ToBrokerOrder(venue[i])]
  /\ UNCHANGED <<engineVars, venueVars, placed, crashes>>

VenueRelabels(i) ==
  /\ venue[i].status = "open"
  /\ venue' = [venue EXCEPT ![i].status = "other"]
  /\ UNCHANGED <<engineVars, wire, reply, position, placed, crashes>>

VenueFills(i) ==
  /\ Live(venue[i]) /\ venue[i].filled < Qty
  /\ LET n == venue[i].filled + 1 IN
       venue' = [venue EXCEPT ![i] =
         [status |-> IF n = Qty THEN "filled" ELSE "open_partially_filled", filled |-> n]]
  /\ position' = position \union {PairOf[i]}
  /\ UNCHANGED <<engineVars, wire, reply, placed, crashes>>

\* An IOC remainder is cancelled, or an unfilled order rejected.
VenueRefuses(i) ==
  /\ Live(venue[i])
  /\ \E s \in Refusals :
       /\ s = "rejected" => venue[i].filled = 0
       /\ venue' = [venue EXCEPT ![i].status = s]
  /\ UNCHANGED <<engineVars, wire, reply, position, placed, crashes>>

\* cancelOrder: confirmed while the order is live, an error afterwards.
VenueCancels(i) ==
  /\ mem[i].cancel = "sent"
  /\ IF Live(venue[i])
     THEN /\ venue' = [venue EXCEPT ![i].status = "cancelled"]
          /\ mem' = [mem EXCEPT ![i] = [@ EXCEPT !.cancel = "acked"]]
     ELSE /\ mem' = [mem EXCEPT ![i] = [@ EXCEPT !.cancel = "over"]]
          /\ UNCHANGED venue
  /\ UNCHANGED <<journal, booked, hold, call, wire, reply, position, placed, crashes>>

\* A stop, a target or the operator closes the position at the venue.
PositionCloses(p) ==
  /\ p \in position
  /\ position' = position \ {p}
  /\ UNCHANGED <<engineVars, wire, reply, venue, placed, crashes>>

-----------------------------------------------------------------------------
EngineInit ==
  /\ mem = [i \in Intents |-> NoOrder]
  /\ journal = [i \in Intents |-> NoLog]
  /\ booked = [i \in Intents |-> 0]
  /\ hold = [i \in Intents |-> None]
  /\ call = [i \in Intents |-> "idle"]
  /\ wire = [i \in Intents |-> "none"]
  /\ reply = [i \in Intents |-> NoView]
  /\ venue = [i \in Intents |-> Unheard]
  /\ position = {}
  /\ placed = [i \in Intents |-> 0]
  /\ crashes = 0

\* Every step but the crash, which the reconciler shares.
EngineStep ==
  \/ \E i \in Intents :
       \/ Approve(i) \/ HoldExpires(i) \/ SubmitRefused(i) \/ Submit(i) \/ Resubmit(i)
       \/ PlacementAnswered(i) \/ PlacementTimesOut(i) \/ CancelConfirmed(i)
       \/ TenSecondsPass(i) \/ PlacementLands(i) \/ PlacementLost(i) \/ VenueAnswers(i)
       \/ VenueRelabels(i) \/ VenueFills(i) \/ VenueRefuses(i) \/ VenueCancels(i)
  \/ \E p \in Pairs : PositionCloses(p)

EngineTypeOK ==
  /\ mem \in [Intents -> Order]
  /\ journal \in [Intents -> Log]
  /\ booked \in [Intents -> 0 .. Qty]
  /\ hold \in [Intents -> HoldState]
  /\ call \in [Intents -> {"idle", "approved", "waiting", "done"}]
  /\ wire \in [Intents -> {"none", "sent", "landed", "answered", "lost"}]
  /\ reply \in [Intents -> View]
  /\ venue \in [Intents -> VenueOrder]
  /\ position \subseteq Pairs
  /\ placed \in [Intents -> Nat]
  /\ crashes \in 0 .. MaxCrashes

=============================================================================
