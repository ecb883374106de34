--------------------------- MODULE Restart_proofs ---------------------------
(***************************************************************************)
(* What the engine holds of an order, in memory and in the log, against    *)
(* what the venue has: that it is true, and that a restart finds it again. *)
(***************************************************************************)
EXTENDS Reconciler_proofs

(***************************************************************************)
(* The engine may be late about an order, and is never wrong about it.     *)
(* Whatever it holds of an order (in memory, in the log, in an answer on   *)
(* its way) was true of the venue once, and what was true once of a fill   *)
(* or a refusal stays true: a venue only fills further, and a filled or    *)
(* rejected order does not change again.                                   *)
(***************************************************************************)

\* What a status says of the order r at the venue.
Holds(s, r) ==
  /\ s \in {"FILLED", "POSITION_OPEN"} => r.status = "filled"
  /\ s = "REJECTED" => r.status = "rejected"
  /\ s = "PARTIALLY_FILLED" => r.filled > 0

\* A view, and a cell, that say nothing untrue of r.
ViewTrue(u, r) == u.filled <= r.filled /\ Holds(u.status, r)
CellTrue(x, r) ==
  /\ Holds(x.ord.status, r) /\ Holds(x.log.last, r)
  /\ x.ord.filled <= r.filled /\ x.booked <= r.filled /\ x.log.booked <= r.filled

\* What time may make of an order at the venue.
Grows(r, r2) ==
  /\ r.filled <= r2.filled
  /\ r.status \in {"filled", "rejected"} => r2.status = r.status

LEMMA TruthLasts ==
  ASSUME NEW r \in VenueOrder, NEW r2 \in VenueOrder, EngineAssumption, Grows(r, r2)
  PROVE  /\ \A u \in View : ViewTrue(u, r) => ViewTrue(u, r2)
         /\ \A x \in Cell : CellTrue(x, r) => CellTrue(x, r2)
<1>1. \A s : Holds(s, r) => Holds(s, r2)
  BY DEF Grows, Holds, VenueOrder, EngineAssumption
<1>2. \A n \in 0 .. Qty : n <= r.filled => n <= r2.filled
  BY DEF Grows, VenueOrder, EngineAssumption
<1>3. \A u \in View : u.filled \in 0 .. Qty
  BY DEF View
<1>4. \A x \in Cell : x.ord.filled \in 0 .. Qty /\ x.booked \in 0 .. Qty /\ x.log.booked \in 0 .. Qty
  BY DEF Cell, Order, Log
<1> QED BY <1>1, <1>2, <1>3, <1>4 DEF ViewTrue, CellTrue

\* These say nothing of the venue.
LEMMA Mute ==
  ASSUME NEW r, NEW s \in {None, "RISK_APPROVED", "SUBMITTING", "UNKNOWN", "CANCELLED"}
  PROVE  Holds(s, r)
BY DEF Holds, None

LEMMA TransitionTrue ==
  ASSUME NEW r, NEW x \in Cell, NEW to, NEW w, CellTrue(x, r), Holds(to, r)
  PROVE  CellTrue(Transition(x, to, w), r)
<1>1. x.ord \in Order /\ x.log \in Log
  BY DEF Cell
<1>2. CASE x.ord.status = to
  BY <1>2 DEF Transition
<1>3. CASE x.ord.status # to /\ ~ CanTransition(x.ord.status, to)
  <2>1. /\ Transition(x, to, w).ord = x.ord
        /\ Transition(x, to, w).log = x.log
        /\ Transition(x, to, w).booked = x.booked
    BY <1>3 DEF Transition, Cell
  <2> QED BY <2>1 DEF CellTrue
<1>4. CASE x.ord.status # to /\ CanTransition(x.ord.status, to)
  <2> DEFINE y == Transition(x, to, w)
             l == [x.log EXCEPT !.last = to, !.acked = x.ord.acked]
  <2>1. /\ y.ord = [x.ord EXCEPT !.status = to, !.late = FALSE]
        /\ y.log = IF w THEN l ELSE x.log
        /\ y.booked = x.booked
    BY <1>4 DEF Transition, Cell
  <2>2. y.ord.status = to /\ y.ord.filled = x.ord.filled
    BY <1>1, <2>1 DEF Order
  <2>3. l.last = to /\ l.booked = x.log.booked
    BY <1>1 DEF Log
  <2> HIDE DEF y, l
  <2>4. CellTrue(y, r)
    BY <2>1, <2>2, <2>3 DEF CellTrue
  <2> QED BY <2>4 DEF y
<1> QED BY <1>2, <1>3, <1>4

\* Folding a true view into a true cell: the ledger books what the view says.
LEMMA ApplyTrue ==
  ASSUME EngineAssumption, NEW r, NEW x \in Cell, NEW u \in View, NEW w \in Luck,
         CellTrue(x, r), ViewTrue(u, r)
  PROVE  CellTrue(ApplyBrokerUpdate(x, u, w), r)
<1> DEFINE seen  == [x EXCEPT !.ord.acked = TRUE, !.ord.filled = u.filled]
           moved == Transition(seen, u.status, w.move)
           slipped == EnforceSlippage(moved, w)
           hooked == RecordFill(slipped, w)
<1>1. /\ u.status \in OrderStatus \union {None}
      /\ u.filled \in 0 .. Qty
      /\ w.move \in BOOLEAN /\ w.fill \in BOOLEAN
  BY Words, ChanceType DEF View, Luck
<1>2. /\ seen \in Cell /\ seen.ord.status = x.ord.status /\ seen.ord.filled = u.filled
      /\ seen.log = x.log /\ seen.booked = x.booked
  BY <1>1 DEF Cell, Order
<1>3. CellTrue(seen, r)
  BY <1>2 DEF CellTrue, ViewTrue
<1> HIDE DEF seen
<1>4. moved \in Cell /\ CellTrue(moved, r)
  BY <1>1, <1>2, <1>3, TransitionType, TransitionTrue DEF ViewTrue
<1> HIDE DEF moved
<1>5. /\ slipped \in Cell
      /\ slipped.ord.status = moved.ord.status /\ slipped.ord.filled = moved.ord.filled
      /\ slipped.log = moved.log /\ slipped.booked = moved.booked
  BY <1>4 DEF EnforceSlippage, CancelRemainder, Cell, Order
<1>6. CellTrue(slipped, r)
  BY <1>4, <1>5 DEF CellTrue
<1> HIDE DEF slipped
<1>7. /\ hooked.ord = slipped.ord
      /\ hooked.booked \in {slipped.booked, slipped.ord.filled}
      /\ hooked.log.last = slipped.log.last
      /\ hooked.log.booked \in {slipped.log.booked, slipped.ord.filled}
  BY <1>5 DEF RecordFill, Cell, Log
<1>8. CellTrue(hooked, r)
  BY <1>6, <1>7 DEF CellTrue
<1>9. ApplyBrokerUpdate(x, u, w) \in {moved, hooked}
  BY DEF ApplyBrokerUpdate, moved, seen, hooked, slipped
<1> QED BY <1>4, <1>8, <1>9

LEMMA UnresolvedTrue ==
  ASSUME NEW r, NEW x \in Cell, NEW w, CellTrue(x, r)
  PROVE  CellTrue(Unresolved(x, w), r)
<1> DEFINE caught == [x EXCEPT !.threw = FALSE]
<1>1. caught \in Cell /\ caught.ord = x.ord /\ caught.log = x.log /\ caught.booked = x.booked
  BY DEF Cell
<1>2. CellTrue(caught, r)
  BY <1>1 DEF CellTrue
<1> HIDE DEF caught
<1>3. CellTrue(Transition(caught, "UNKNOWN", w), r)
  BY <1>1, <1>2, Mute, TransitionTrue
<1> QED BY <1>3 DEF Unresolved, caught

LEMMA MissingTrue ==
  ASSUME NEW r, NEW x \in Cell, NEW w \in BOOLEAN, NEW w2 \in BOOLEAN, CellTrue(x, r)
  PROVE  CellTrue(Missing(x, w, w2), r)
<1> DEFINE y == IF x.ord.status = "SUBMITTING" THEN Transition(x, "UNKNOWN", w) ELSE x
<1>1. y \in Cell
  BY Words, TransitionType
<1>2. CellTrue(y, r)
  BY Mute, TransitionTrue
<1>3. Missing(x, w, w2) \in {y, Transition(y, "CANCELLED", w2)}
  BY DEF Missing, y
<1> HIDE DEF y
<1>4. CellTrue(Transition(y, "CANCELLED", w2), r)
  BY <1>1, <1>2, Mute, TransitionTrue
<1> QED BY <1>2, <1>3, <1>4

\* A fill is lifted to a position only on the word of a view that says FILLED.
LEMMA FoundTrue ==
  ASSUME EngineAssumption, NEW r, NEW x \in Cell, NEW u \in View, NEW w \in Luck,
         NEW live \in BOOLEAN, NEW w2 \in BOOLEAN, CellTrue(x, r), ViewTrue(u, r)
  PROVE  CellTrue(Lifted(Folded(x, u, w), u, live, w2), r)
<1> DEFINE y == Folded(x, u, w)
<1>1. CellTrue(y, r)
  BY ApplyTrue DEF Folded
<1>2. y \in Cell
  BY FoundType
<1> HIDE DEF y
<1>3. CASE u.status = "FILLED"
  <2>1. Holds("POSITION_OPEN", r)
    BY <1>3 DEF ViewTrue, Holds
  <2>2. CellTrue(Transition(y, "POSITION_OPEN", w2), r)
    BY <1>1, <1>2, <2>1, TransitionTrue
  <2>3. CellTrue(Lifted(y, u, live, w2), r)
    BY <1>1, <2>2 DEF Lifted
  <2> QED BY <2>3 DEF y
<1>4. CASE u.status # "FILLED"
  <2>1. Lifted(y, u, live, w2) = y
    BY <1>4 DEF Lifted
  <2> QED BY <1>1, <2>1 DEF y
<1> QED BY <1>3, <1>4

-----------------------------------------------------------------------------
(* The inductive invariant *)

\* A part-filled order has a fill behind it.
Heard(i) == venue[i].status = "open_partially_filled" => venue[i].filled > 0

\* Answers of lookups on their way back.
AnswersTrue(i) ==
  \A c \in Cycles : i \in cycle[c].asked => ViewTrue(cycle[c].answer.order, venue[i])

OrderTrue(i) ==
  CellTrue(CellOf(i), venue[i]) /\ ViewTrue(reply[i], venue[i]) /\ Heard(i) /\ AnswersTrue(i)

TruthInv == TypeOK /\ \A i \in Intents : OrderTrue(i)

\* What a lookup, or the answer to a placement, says now is true now.
LEMMA AnswerTrue ==
  ASSUME TruthInv, NEW i \in Intents
  PROVE  /\ ToBrokerOrder(venue[i]) \in View /\ ViewTrue(ToBrokerOrder(venue[i]), venue[i])
         /\ ViewTrue(NoView, venue[i])
<1>1. venue[i] \in VenueOrder /\ Heard(i)
  BY DEF TruthInv, TypeOK, EngineTypeOK, OrderTrue
<1>2. MapStatus(venue[i].status) \in BrokerStatus
  BY DEF MapStatus, BrokerStatus
<1>3. Holds(MapStatus(venue[i].status), venue[i])
  BY <1>1 DEF Heard, Holds, MapStatus, VenueOrder, RawStatus
<1>4. venue[i].filled \in 0 .. Qty /\ venue[i].filled <= venue[i].filled /\ 0 <= venue[i].filled
  BY <1>1, EngineAssumption DEF VenueOrder, EngineAssumption
<1>5. ViewTrue(NoView, venue[i])
  BY <1>4, Mute DEF ViewTrue, NoView
<1> QED BY <1>2, <1>3, <1>4, <1>5 DEF ViewTrue, ToBrokerOrder, View

\* The cycles wait for no other answers than before.
SameAnswers ==
  \A c \in Cycles : \A j \in cycle'[c].asked :
    j \in cycle[c].asked /\ cycle'[c].answer = cycle[c].answer

\* A handler that leaves a true cell keeps the invariant.
LEMMA HandledTrue ==
  ASSUME TruthInv, TypeOK', NEW i \in Intents, NEW y \in Cell, Store(i, y),
         CellTrue(y, venue[i]), UNCHANGED venue,
         UNCHANGED reply \/ reply' = [reply EXCEPT ![i] = NoView], SameAnswers
  PROVE  TruthInv'
<1>1. /\ mem' = [mem EXCEPT ![i] = y.ord]
      /\ journal' = [journal EXCEPT ![i] = y.log]
      /\ booked' = [booked EXCEPT ![i] = y.booked]
  BY DEF Store
<1>2. /\ mem'[i] = y.ord /\ journal'[i] = y.log /\ booked'[i] = y.booked
      /\ \A j \in Intents \ {i} :
           mem'[j] = mem[j] /\ journal'[j] = journal[j] /\ booked'[j] = booked[j]
  BY <1>1 DEF TruthInv, TypeOK, EngineTypeOK
<1>3. \A j \in Intents : reply'[j] \in {reply[j], NoView}
  BY DEF TruthInv, TypeOK, EngineTypeOK
<1>4. ASSUME NEW j \in Intents PROVE OrderTrue(j)'
  <2>1. CellTrue(CellOf(j), venue[j])'
    <3>1. CASE j = i
      BY <1>2, <3>1 DEF CellTrue, CellOf
    <3>2. CASE j # i
      BY <1>2, <3>2 DEF TruthInv, OrderTrue, CellTrue, CellOf
    <3> QED BY <3>1, <3>2
  <2>2. ViewTrue(reply[j], venue[j])'
    <3>1. ViewTrue(NoView, venue[j]) /\ ViewTrue(reply[j], venue[j])
      BY AnswerTrue DEF TruthInv, OrderTrue
    <3> QED BY <1>3, <3>1
  <2>3. Heard(j)' /\ AnswersTrue(j)'
    BY DEF TruthInv, OrderTrue, Heard, AnswersTrue, SameAnswers
  <2> QED BY <2>1, <2>2, <2>3 DEF OrderTrue
<1> QED BY <1>4 DEF TruthInv

\* Time passing at the venue keeps it too.
LEMMA VenueTrue ==
  ASSUME TruthInv, TypeOK', UNCHANGED <<journal, booked, reply, cycle>>,
         \A j \in Intents : mem'[j].status = mem[j].status /\ mem'[j].filled = mem[j].filled,
         \A j \in Intents : Grows(venue[j], venue'[j]) /\ Heard(j)'
  PROVE  TruthInv'
<1>1. ASSUME NEW j \in Intents PROVE OrderTrue(j)'
  <2>1. /\ venue[j] \in VenueOrder /\ venue'[j] \in VenueOrder
        /\ reply[j] \in View /\ CellOf(j) \in Cell
        /\ \A c \in Cycles : cycle[c].answer.order \in View
    BY CellOfType DEF TruthInv, TypeOK, EngineTypeOK, CycleState, Answer
  <2>2. CellTrue(CellOf(j), venue'[j]) /\ ViewTrue(reply[j], venue'[j])
    BY <2>1, TruthLasts, EngineAssumption DEF TruthInv, OrderTrue
  <2>3. CellTrue(CellOf(j), venue[j])'
    BY <2>2 DEF CellTrue, CellOf
  <2>4. AnswersTrue(j)'
    BY <2>1, TruthLasts, EngineAssumption DEF TruthInv, OrderTrue, AnswersTrue
  <2> QED BY <2>2, <2>3, <2>4 DEF OrderTrue
<1> QED BY <1>1 DEF TruthInv

LEMMA SubmissionTrue ==
  ASSUME TruthInv, TypeOK', NEW i \in Intents, NEW x \in Cell, Submission(i, x),
         CellTrue(x, venue[i]), UNCHANGED <<venue, cycle>>
  PROVE  TruthInv'
<1> DEFINE x1 == [x EXCEPT !.ord.contract = TRUE]
<1>1. /\ x1 \in Cell /\ x1.log = x.log /\ x1.booked = x.booked
      /\ x1.ord.status = x.ord.status /\ x1.ord.filled = x.ord.filled
  BY DEF Cell, Order
<1>2. CellTrue(x1, venue[i])
  BY <1>1 DEF CellTrue
<1> HIDE DEF x1
<1>3. PICK w \in Writes, sub \in Writes :
        LET y == Transition(x1, "SUBMITTING", w) IN
        \/ Store(i, y) /\ UNCHANGED reply
        \/ Store(i, [y EXCEPT !.log.submitted = sub]) /\ reply' = [reply EXCEPT ![i] = NoView]
  BY DEF Submission, x1
<1> DEFINE y == Transition(x1, "SUBMITTING", w)
           z == [y EXCEPT !.log.submitted = sub]
<1>4. y \in Cell /\ CellTrue(y, venue[i])
  BY <1>1, <1>2, ChanceType, Words, Mute, TransitionType, TransitionTrue
<1> HIDE DEF y
<1>5. /\ z \in Cell /\ z.ord = y.ord /\ z.booked = y.booked
      /\ z.log.last = y.log.last /\ z.log.booked = y.log.booked
  BY <1>4, ChanceType DEF Cell, Log
<1>6. CellTrue(z, venue[i])
  BY <1>4, <1>5 DEF CellTrue
<1> HIDE DEF z
<1>7. \/ Store(i, y) /\ UNCHANGED reply
      \/ Store(i, z) /\ reply' = [reply EXCEPT ![i] = NoView]
  BY <1>3 DEF y, z
<1>8. SameAnswers
  BY DEF SameAnswers
<1> QED BY <1>4, <1>5, <1>6, <1>7, <1>8, HandledTrue

LEMMA RegisteredTrue ==
  ASSUME TruthInv, NEW i \in Intents, NEW w \in BOOLEAN
  PROVE  Registered(i, w) \in Cell /\ CellTrue(Registered(i, w), venue[i])
<1>1. CellOf(i) \in Cell /\ CellTrue(CellOf(i), venue[i]) /\ venue[i] \in VenueOrder
  BY CellOfType DEF TruthInv, OrderTrue, TypeOK, EngineTypeOK
<1>2. /\ Registered(i, w).ord = [NoOrder EXCEPT !.status = "RISK_APPROVED"]
      /\ Registered(i, w).log = [CellOf(i).log EXCEPT !.registered = w]
      /\ Registered(i, w).booked = CellOf(i).booked
  BY <1>1 DEF Registered, Cell
<1>3. /\ Registered(i, w).ord.status = "RISK_APPROVED"
      /\ Registered(i, w).ord.filled = 0
  BY <1>2 DEF NoOrder
<1>4. /\ Registered(i, w).log.last = CellOf(i).log.last
      /\ Registered(i, w).log.booked = CellOf(i).log.booked
  BY <1>1, <1>2 DEF Cell, Log
<1>5. 0 <= venue[i].filled
  BY <1>1, EngineAssumption DEF VenueOrder, EngineAssumption
<1>6. Registered(i, w) \in Cell
  BY RegisteredType, EngineAssumption DEF TruthInv
<1> QED BY <1>1, <1>2, <1>3, <1>4, <1>5, <1>6, Mute DEF CellTrue

LEMMA EngineStepTrue ==
  ASSUME TruthInv, TypeOK', EngineStep, UNCHANGED cycle
  PROVE  TruthInv'
<1>0. SameAnswers /\ \A i \in Intents : CellOf(i) \in Cell /\ CellTrue(CellOf(i), venue[i])
  BY CellOfType DEF SameAnswers, TruthInv, OrderTrue
<1>1. ASSUME NEW i \in Intents, SubmitRefused(i) PROVE TruthInv'
  <2>1. PICK w \in Writes : Store(i, Registered(i, w))
    BY <1>1 DEF SubmitRefused
  <2>2. UNCHANGED <<venue, reply>>
    BY <1>1 DEF SubmitRefused, venueVars
  <2>3. Registered(i, w) \in Cell /\ CellTrue(Registered(i, w), venue[i])
    BY ChanceType, RegisteredTrue
  <2> QED BY <1>0, <2>1, <2>2, <2>3, HandledTrue
<1>2. ASSUME NEW i \in Intents, Submit(i) PROVE TruthInv'
  <2>1. PICK w \in Writes : Submission(i, Registered(i, w))
    BY <1>2 DEF Submit
  <2>2. UNCHANGED venue
    BY <1>2 DEF Submit, venueVars
  <2>3. Registered(i, w) \in Cell /\ CellTrue(Registered(i, w), venue[i])
    BY ChanceType, RegisteredTrue
  <2> QED BY <2>1, <2>2, <2>3, SubmissionTrue
<1>3. ASSUME NEW i \in Intents, Resubmit(i) PROVE TruthInv'
  BY <1>0, <1>3, SubmissionTrue DEF Resubmit, venueVars
<1>4. ASSUME NEW i \in Intents, PlacementAnswered(i) PROVE TruthInv'
  <2>1. PICK w \in Luck, w2 \in Writes :
          Store(i, Unresolved(ApplyBrokerUpdate(CellOf(i), reply[i], w), w2))
    BY <1>4 DEF PlacementAnswered
  <2> DEFINE x == ApplyBrokerUpdate(CellOf(i), reply[i], w)
  <2>2. reply[i] \in View /\ ViewTrue(reply[i], venue[i])
    BY DEF TruthInv, OrderTrue, TypeOK, EngineTypeOK
  <2>3. x \in Cell /\ CellTrue(x, venue[i])
    BY <1>0, <2>2, ApplyType, ApplyTrue, EngineAssumption
  <2> HIDE DEF x
  <2>4. Unresolved(x, w2) \in Cell /\ CellTrue(Unresolved(x, w2), venue[i])
    BY <2>3, ChanceType, UnresolvedType, UnresolvedTrue
  <2>5. Store(i, Unresolved(x, w2)) /\ UNCHANGED <<venue, reply>>
    BY <1>4, <2>1 DEF x, PlacementAnswered, venueVars
  <2> QED BY <1>0, <2>4, <2>5, HandledTrue
<1>5. ASSUME NEW i \in Intents, PlacementTimesOut(i) PROVE TruthInv'
  <2>1. PICK w \in Writes : Store(i, Transition(CellOf(i), "UNKNOWN", w))
    BY <1>5 DEF PlacementTimesOut
  <2>2. /\ Transition(CellOf(i), "UNKNOWN", w) \in Cell
        /\ CellTrue(Transition(CellOf(i), "UNKNOWN", w), venue[i])
    BY <1>0, ChanceType, Words, Mute, TransitionType, TransitionTrue
  <2>3. UNCHANGED <<venue, reply>>
    BY <1>5 DEF PlacementTimesOut, venueVars
  <2> QED BY <1>0, <2>1, <2>2, <2>3, HandledTrue
<1>6. ASSUME NEW i \in Intents, CancelConfirmed(i) PROVE TruthInv'
  <2>1. PICK w \in Writes :
          Store(i, [Transition(CellOf(i), "CANCELLED", w) EXCEPT !.ord.cancel = "over"])
    BY <1>6 DEF CancelConfirmed
  <2> DEFINE y == Transition(CellOf(i), "CANCELLED", w)
             z == [y EXCEPT !.ord.cancel = "over"]
  <2>2. y \in Cell /\ CellTrue(y, venue[i])
    BY <1>0, ChanceType, Words, Mute, TransitionType, TransitionTrue
  <2> HIDE DEF y
  <2>3. /\ z \in Cell /\ z.log = y.log /\ z.booked = y.booked
        /\ z.ord.status = y.ord.status /\ z.ord.filled = y.ord.filled
    BY <2>2 DEF Cell, Order
  <2>4. CellTrue(z, venue[i])
    BY <2>2, <2>3 DEF CellTrue
  <2>5. Store(i, z) /\ UNCHANGED <<venue, reply>>
    BY <1>6, <2>1 DEF y, CancelConfirmed, venueVars
  <2> HIDE DEF z
  <2> QED BY <1>0, <2>3, <2>4, <2>5, HandledTrue
<1>7. ASSUME NEW i \in Intents, VenueAnswers(i) PROVE TruthInv'
  <2>1. /\ reply' = [reply EXCEPT ![i] = ToBrokerOrder(venue[i])]
        /\ UNCHANGED <<mem, journal, booked, venue>>
    BY <1>7 DEF VenueAnswers, engineVars, venueVars
  <2>2. \A j \in Intents : reply'[j] = reply[j] \/ (j = i /\ reply'[j] = ToBrokerOrder(venue[i]))
    BY <2>1 DEF TruthInv, TypeOK, EngineTypeOK
  <2>3. ASSUME NEW j \in Intents PROVE OrderTrue(j)'
    <3>1. ViewTrue(reply[j], venue[j])'
      BY <2>1, <2>2, AnswerTrue DEF TruthInv, OrderTrue
    <3>2. CellTrue(CellOf(j), venue[j])'
      BY <2>1 DEF TruthInv, OrderTrue, CellOf
    <3>3. Heard(j)' /\ AnswersTrue(j)'
      BY <2>1 DEF TruthInv, OrderTrue, Heard, AnswersTrue
    <3> QED BY <3>1, <3>2, <3>3 DEF OrderTrue
  <2> QED BY <2>3 DEF TruthInv
<1>8. ASSUME NEW i \in Intents,
             PlacementLands(i) \/ VenueRelabels(i) \/ VenueFills(i) \/ VenueRefuses(i) \/ VenueCancels(i)
      PROVE  TruthInv'
  <2>1. venue \in [Intents -> VenueOrder] /\ mem \in [Intents -> Order] /\ Qty \in Nat
    BY EngineAssumption DEF TruthInv, TypeOK, EngineTypeOK, EngineAssumption
  <2>2. UNCHANGED <<journal, booked, reply>>
    BY <1>8 DEF PlacementLands, VenueRelabels, VenueFills, VenueRefuses, VenueCancels, engineVars
  <2>3. \A j \in Intents : mem'[j].status = mem[j].status /\ mem'[j].filled = mem[j].filled
    BY <1>8, <2>1
    DEF PlacementLands, VenueRelabels, VenueFills, VenueRefuses, VenueCancels, engineVars, Order
  <2>4. \A j \in Intents \ {i} : venue'[j] = venue[j]
    BY <1>8, <2>1
    DEF PlacementLands, VenueRelabels, VenueFills, VenueRefuses, VenueCancels
  <2>5. Heard(i)
    BY DEF TruthInv, OrderTrue
  <2>6. Grows(venue[i], venue'[i]) /\ Heard(i)'
    <3>1. CASE PlacementLands(i)
      BY <2>1, <2>5, <3>1 DEF PlacementLands, Grows, Heard, VenueOrder, Unheard, None
    <3>2. CASE VenueRelabels(i)
      BY <2>1, <3>2 DEF VenueRelabels, Grows, Heard, VenueOrder
    <3>3. CASE VenueFills(i)
      <4> DEFINE n == venue[i].filled + 1
      <4>1. /\ venue'[i] = [status |-> IF n = Qty THEN "filled" ELSE "open_partially_filled", filled |-> n]
            /\ Live(venue[i])
        BY <2>1, <3>3 DEF VenueFills
      <4>2. venue[i].filled \in Nat
        BY <2>1 DEF VenueOrder
      <4> QED BY <4>1, <4>2 DEF Grows, Heard, Live
    <3>4. CASE VenueRefuses(i)
      BY <2>1, <3>4, EngineAssumption
      DEF VenueRefuses, Grows, Heard, VenueOrder, Live, EngineAssumption
    <3>5. CASE VenueCancels(i)
      BY <2>1, <2>5, <3>5 DEF VenueCancels, Grows, Heard, VenueOrder, Live
    <3> QED BY <1>8, <3>1, <3>2, <3>3, <3>4, <3>5
  <2>7. \A j \in Intents \ {i} : Grows(venue[j], venue'[j]) /\ Heard(j)'
    BY <2>1, <2>4 DEF Grows, Heard, VenueOrder, TruthInv, OrderTrue
  <2> QED BY <2>2, <2>3, <2>6, <2>7, VenueTrue
<1>9. ASSUME UNCHANGED <<journal, booked, reply, venue>>,
             \A j \in Intents : mem'[j].status = mem[j].status /\ mem'[j].filled = mem[j].filled
      PROVE  TruthInv'
  <2>1. \A j \in Intents : Grows(venue[j], venue'[j]) /\ Heard(j)'
    BY <1>9, EngineAssumption
    DEF Grows, Heard, VenueOrder, TruthInv, OrderTrue, TypeOK, EngineTypeOK, EngineAssumption
  <2> QED BY <1>9, <2>1, VenueTrue
<1>10. ASSUME NEW i \in Intents,
              Approve(i) \/ HoldExpires(i) \/ TenSecondsPass(i) \/ PlacementLost(i)
       PROVE  TruthInv'
  <2>1. UNCHANGED <<journal, booked, reply, venue>>
    BY <1>10 DEF Approve, HoldExpires, TenSecondsPass, PlacementLost, engineVars, venueVars
  <2>2. mem \in [Intents -> Order]
    BY DEF TruthInv, TypeOK, EngineTypeOK
  <2>3. \A j \in Intents : mem'[j].status = mem[j].status /\ mem'[j].filled = mem[j].filled
    BY <1>10, <2>2 DEF Approve, HoldExpires, TenSecondsPass, PlacementLost, engineVars, Order
  <2> QED BY <1>9, <2>1, <2>3
<1>11. ASSUME NEW p \in Pairs, PositionCloses(p) PROVE TruthInv'
  BY <1>9, <1>11 DEF PositionCloses, engineVars
<1> QED
  BY <1>1, <1>2, <1>3, <1>4, <1>5, <1>6, <1>7, <1>8, <1>10, <1>11 DEF EngineStep

LEMMA CycleStepTrue ==
  ASSUME TruthInv, TypeOK', NEW c \in Cycles, CycleStep(c)
  PROVE  TruthInv'
<1>0. cycle \in [Cycles -> CycleState]
  BY DEF TruthInv, TypeOK
<1>1. ASSUME UNCHANGED vars0, \A j \in Intents : AnswersTrue(j)' PROVE TruthInv'
  <2>1. UNCHANGED <<mem, journal, booked, reply, venue>>
    BY <1>1 DEF vars0, engineVars, venueVars
  <2> QED BY <1>1, <2>1 DEF TruthInv, OrderTrue, CellOf, Heard
<1>2. ASSUME UNCHANGED vars0, SameAnswers PROVE TruthInv'
  <2>1. \A j \in Intents : AnswersTrue(j)'
    BY <1>2 DEF vars0, venueVars, SameAnswers, TruthInv, OrderTrue, AnswersTrue
  <2> QED BY <1>1, <1>2, <2>1
<1>3. CASE CycleBegins(c) \/ CyclePositions(c) \/ CycleEnds(c)
  <2>1. CASE CycleBegins(c)
    <3>1. cycle' = [cycle EXCEPT ![c] = [IdleCycle EXCEPT !.pc = "positions", !.todo = Open]]
      BY <2>1 DEF CycleBegins
    <3>2. cycle'[c].asked = {} /\ \A d \in Cycles \ {c} : cycle'[d] = cycle[d]
      BY <1>0, <3>1 DEF IdleCycle
    <3>3. SameAnswers
      BY <3>2 DEF SameAnswers
    <3> QED BY <1>2, <2>1, <3>3 DEF CycleBegins
  <2>2. CASE CyclePositions(c)
    <3>1. PICK ok \in BOOLEAN :
            cycle' = [cycle EXCEPT ![c].pc = "loop", ![c].evidence = ok,
                                   ![c].held = IF ok THEN position ELSE {}]
      BY <2>2 DEF CyclePositions
    <3>2. \A d \in Cycles : cycle'[d].asked = cycle[d].asked /\ cycle'[d].answer = cycle[d].answer
      BY <1>0, <3>1 DEF CycleState
    <3>3. SameAnswers
      BY <3>2 DEF SameAnswers
    <3> QED BY <1>2, <2>2, <3>3 DEF CyclePositions
  <2>3. CASE CycleEnds(c)
    <3>1. cycle' = [cycle EXCEPT ![c] = IdleCycle]
      BY <2>3 DEF CycleEnds
    <3>2. cycle'[c].asked = {} /\ \A d \in Cycles \ {c} : cycle'[d] = cycle[d]
      BY <1>0, <3>1 DEF IdleCycle
    <3>3. SameAnswers
      BY <3>2 DEF SameAnswers
    <3> QED BY <1>2, <2>3, <3>3 DEF CycleEnds
  <2> QED BY <1>3, <2>1, <2>2, <2>3
<1>4. ASSUME NEW i \in Intents, LookupFails(c, i) PROVE TruthInv'
  <2>1. SameAnswers
    BY <1>0, <1>4 DEF LookupFails, CycleState, SameAnswers
  <2> QED BY <1>2, <1>4, <2>1 DEF LookupFails
<1>5. ASSUME NEW i \in Intents, CycleLooksUp(c, i) PROVE TruthInv'
  <2>1. /\ cycle'[c].asked = {i} /\ cycle'[c].answer = Truth(i)
        /\ \A d \in Cycles \ {c} : cycle'[d] = cycle[d]
    BY <1>0, <1>5 DEF CycleLooksUp, CycleState
  <2>2. ViewTrue(Truth(i).order, venue[i])
    BY AnswerTrue DEF Truth
  <2>3. UNCHANGED vars0 /\ UNCHANGED venue
    BY <1>5 DEF CycleLooksUp, vars0, venueVars
  <2>4. \A j \in Intents : AnswersTrue(j)'
    BY <2>1, <2>2, <2>3 DEF TruthInv, OrderTrue, AnswersTrue
  <2> QED BY <1>1, <2>3, <2>4
<1>6. ASSUME Done(c) PROVE SameAnswers
  BY <1>0, <1>6 DEF Done, SameAnswers, CycleState
<1>7. ASSUME NEW i \in Intents, AppliesNotFound(c, i) PROVE TruthInv'
  <2>1. SameAnswers
    BY <1>6, <1>7 DEF AppliesNotFound
  <2>2. CASE UNCHANGED vars0
    BY <1>2, <2>1, <2>2
  <2>3. CASE ~ HeldAsMissing(c, i)
    <3>1. PICK w \in Writes, w2 \in Writes : Store(i, Missing(CellOf(i), w, w2))
      BY <1>7, <2>3 DEF AppliesNotFound
    <3>2. CellOf(i) \in Cell /\ CellTrue(CellOf(i), venue[i])
      BY CellOfType DEF TruthInv, OrderTrue
    <3>3. Missing(CellOf(i), w, w2) \in Cell /\ CellTrue(Missing(CellOf(i), w, w2), venue[i])
      BY <3>2, ChanceType, MissingType, MissingTrue
    <3>4. UNCHANGED <<venue, reply>>
      BY <1>7, <2>3 DEF AppliesNotFound, venueVars
    <3> QED BY <2>1, <3>1, <3>3, <3>4, HandledTrue
  <2> QED BY <1>7, <2>2, <2>3 DEF AppliesNotFound
<1>8. ASSUME NEW i \in Intents, AppliesFound(c, i) PROVE TruthInv'
  <2> DEFINE u == cycle[c].answer.order
             live == HasPosition(c, i)
  <2>1. PICK w \in Luck, w2 \in Writes : Store(i, Lifted(Folded(CellOf(i), u, w), u, live, w2))
    BY <1>8 DEF AppliesFound
  <2>2. u \in View /\ live \in BOOLEAN
    BY <1>0 DEF CycleState, Answer, HasPosition
  <2>3. ViewTrue(u, venue[i])
    BY <1>8 DEF AppliesFound, TruthInv, OrderTrue, AnswersTrue
  <2> HIDE DEF u, live
  <2> DEFINE y == Lifted(Folded(CellOf(i), u, w), u, live, w2)
  <2>4. CellOf(i) \in Cell /\ CellTrue(CellOf(i), venue[i])
    BY CellOfType DEF TruthInv, OrderTrue
  <2>5. y \in Cell /\ CellTrue(y, venue[i])
    BY <2>2, <2>3, <2>4, ChanceType, FoundType, FoundTrue, EngineAssumption
  <2>6. Store(i, y) /\ UNCHANGED <<venue, reply>> /\ SameAnswers
    BY <1>6, <1>8, <2>1 DEF AppliesFound, venueVars
  <2> HIDE DEF y
  <2> QED BY <2>5, <2>6, HandledTrue
<1> QED BY <1>3, <1>4, <1>5, <1>7, <1>8 DEF CycleStep

\* A restart believes the log, and the log was true.
LEMMA RestartTrue ==
  ASSUME TruthInv, TypeOK', Restart
  PROVE  TruthInv'
<1>1. /\ \A i \in Intents : mem'[i] = Hydrated(journal[i]) /\ booked'[i] = journal[i].booked
      /\ \A c \in Cycles : cycle'[c].asked = {}
      /\ UNCHANGED <<journal, reply, venue>>
  BY DEF Restart, Crash, IdleCycle, venueVars
<1>2. ASSUME NEW i \in Intents PROVE OrderTrue(i)'
  <2>1. CellTrue(CellOf(i), venue[i]) /\ journal[i] \in Log /\ venue[i] \in VenueOrder
    BY DEF TruthInv, OrderTrue, TypeOK, EngineTypeOK
  <2>2. Holds(journal[i].last, venue[i]) /\ journal[i].booked <= venue[i].filled
    BY <2>1 DEF CellTrue, CellOf
  <2>3. /\ Hydrated(journal[i]).filled = 0
        /\ Hydrated(journal[i]).status = Revived(journal[i])
    BY DEF Hydrated, NoOrder
  <2>4. Revived(journal[i]) \in {None, "RISK_APPROVED", "UNKNOWN", journal[i].last}
    BY DEF Revived
  <2>5. Holds(Revived(journal[i]), venue[i])
    BY <2>2, <2>4, Mute
  <2>6. 0 <= venue[i].filled
    BY <2>1, EngineAssumption DEF VenueOrder, EngineAssumption
  <2>7. CellTrue(CellOf(i), venue[i])'
    BY <1>1, <2>2, <2>3, <2>5, <2>6 DEF CellTrue, CellOf
  <2>8. ViewTrue(reply[i], venue[i])' /\ Heard(i)' /\ AnswersTrue(i)'
    BY <1>1 DEF TruthInv, OrderTrue, Heard, AnswersTrue
  <2> QED BY <2>7, <2>8 DEF OrderTrue
<1> QED BY <1>2 DEF TruthInv

-----------------------------------------------------------------------------
(* The theorems. *)

LEMMA TruthInvInit == Init => TruthInv
<1> SUFFICES ASSUME Init PROVE TruthInv
  OBVIOUS
<1>1. TypeOK
  BY AuditInvInit DEF AuditInv
<1>2. ASSUME NEW i \in Intents PROVE OrderTrue(i)
  <2>1. /\ mem[i] = NoOrder /\ journal[i] = NoLog /\ booked[i] = 0
        /\ reply[i] = NoView /\ venue[i] = Unheard
        /\ \A c \in Cycles : cycle[c].asked = {}
    BY DEF Init, EngineInit, IdleCycle
  <2>2. Holds(None, venue[i])
    BY Mute
  <2>3. CellTrue(CellOf(i), venue[i]) /\ ViewTrue(reply[i], venue[i])
    BY <2>1, <2>2 DEF CellTrue, CellOf, ViewTrue, NoOrder, NoLog, NoView, Unheard
  <2>4. Heard(i)
    BY <2>1 DEF Heard, Unheard, None
  <2> QED BY <2>1, <2>3, <2>4 DEF OrderTrue, AnswersTrue
<1> QED BY <1>1, <1>2 DEF TruthInv

LEMMA TruthInvStep == TruthInv /\ [Next]_vars => TruthInv'
<1> SUFFICES ASSUME TruthInv, [Next]_vars PROVE TruthInv'
  OBVIOUS
<1>1. CASE UNCHANGED vars
  BY <1>1
  DEF TruthInv, OrderTrue, CellOf, CellTrue, ViewTrue, Heard, AnswersTrue, Holds, TypeOK,
      EngineTypeOK, vars, vars0, engineVars, venueVars
<1>2. CASE Next
  <2>1. TypeOK /\ EngineAssumption
    BY EngineAssumption DEF TruthInv
  <2>2. TypeOK'
    BY <1>2, <2>1, EngineStepType, CycleStepType, RestartType DEF Next
  <2> QED BY <1>2, <2>2, EngineStepTrue, CycleStepTrue, RestartTrue DEF Next
<1> QED BY <1>1, <1>2

\* An order is called filled, rejected or partly filled only if the venue's order
\* is: no stale, reordered or repeated answer and no restart invents a status
\* (reconciler.ts:180-202, execution-engine.ts:182-215).
THEOREM StatusNeverInvented == Spec => []StatusTruth
<1>1. TruthInv => StatusTruth
  BY DEF TruthInv, OrderTrue, CellTrue, CellOf, Holds, StatusTruth
<1> QED BY <1>1, TruthInvInit, TruthInvStep, PTL DEF Spec

\* The fills ledger never holds more of an order than the venue has filled
\* (fills-ledger.ts:166-197).
THEOREM LedgerNeverAhead == Spec => []FillsNeverInvented
<1>1. TruthInv => FillsNeverInvented
  BY DEF TruthInv, OrderTrue, CellTrue, CellOf, FillsNeverInvented
<1> QED BY <1>1, TruthInvInit, TruthInvStep, PTL DEF Spec

-----------------------------------------------------------------------------
(***************************************************************************)
(* What the event log gives back.  A restart at any instant revives every  *)
(* order that was asked of the venue and is not over in memory: AuditInv   *)
(* says that such an order has a status in the log and not a final one;    *)
(* what is added here is that the log also holds its registration, without *)
(* which a scan of the log drops the order.  And while appends succeed,    *)
(* every fill the engine knows of is in the ledger, in memory and in the   *)
(* log, and no restart takes it back.                                      *)
(***************************************************************************)

\* Only registerApproved writes the registration.
SameRegistration(x, y) == y.log.registered = x.log.registered

LEMMA TransitionRegisters ==
  ASSUME NEW x \in Cell, NEW to, NEW w
  PROVE  SameRegistration(x, Transition(x, to, w))
<1>1. x.log \in Log
  BY DEF Cell
<1>2. CASE x.ord.status = to
  BY <1>2 DEF Transition, SameRegistration
<1>3. CASE x.ord.status # to /\ ~ CanTransition(x.ord.status, to)
  <2>1. Transition(x, to, w).log = x.log
    BY <1>3 DEF Transition, Cell
  <2> QED BY <2>1 DEF SameRegistration
<1>4. CASE x.ord.status # to /\ CanTransition(x.ord.status, to)
  <2>1. Transition(x, to, w).log =
          IF w THEN [x.log EXCEPT !.last = to, !.acked = x.ord.acked] ELSE x.log
    BY <1>4 DEF Transition, Cell
  <2>2. [x.log EXCEPT !.last = to, !.acked = x.ord.acked].registered = x.log.registered
    BY <1>1 DEF Log
  <2> QED BY <2>1, <2>2 DEF SameRegistration
<1> QED BY <1>2, <1>3, <1>4

LEMMA ApplyRegisters ==
  ASSUME EngineAssumption, NEW x \in Cell, NEW u \in View, NEW w \in Luck
  PROVE  SameRegistration(x, ApplyBrokerUpdate(x, u, w))
<1> DEFINE seen  == [x EXCEPT !.ord.acked = TRUE, !.ord.filled = u.filled]
           moved == Transition(seen, u.status, w.move)
           slipped == EnforceSlippage(moved, w)
           hooked == RecordFill(slipped, w)
<1>1. /\ u.status \in OrderStatus \union {None}
      /\ u.filled \in 0 .. Qty
      /\ w.move \in BOOLEAN
  BY Words, ChanceType DEF View, Luck
<1>2. seen \in Cell /\ seen.log = x.log
  BY <1>1 DEF Cell, Order
<1> HIDE DEF seen
<1>3. moved \in Cell /\ SameRegistration(seen, moved)
  BY <1>1, <1>2, TransitionType, TransitionRegisters
<1> HIDE DEF moved
<1>4. slipped \in Cell /\ slipped.log = moved.log
  BY <1>3 DEF EnforceSlippage, CancelRemainder, Cell, Order
<1> HIDE DEF slipped
<1>5. hooked.log.registered = slipped.log.registered
  BY <1>4 DEF RecordFill, Cell, Log
<1>6. ApplyBrokerUpdate(x, u, w) \in {moved, hooked}
  BY DEF ApplyBrokerUpdate, moved, seen, hooked, slipped
<1> QED BY <1>2, <1>3, <1>4, <1>5, <1>6 DEF SameRegistration

LEMMA UnresolvedRegisters ==
  ASSUME NEW x \in Cell, NEW w
  PROVE  SameRegistration(x, Unresolved(x, w))
<1> DEFINE caught == [x EXCEPT !.threw = FALSE]
<1>1. caught \in Cell /\ caught.log = x.log
  BY DEF Cell
<1> HIDE DEF caught
<1>2. SameRegistration(caught, Transition(caught, "UNKNOWN", w))
  BY <1>1, TransitionRegisters
<1> QED BY <1>1, <1>2 DEF Unresolved, SameRegistration, caught

LEMMA MissingRegisters ==
  ASSUME NEW x \in Cell, NEW w \in BOOLEAN, NEW w2 \in BOOLEAN
  PROVE  SameRegistration(x, Missing(x, w, w2))
<1> DEFINE y == IF x.ord.status = "SUBMITTING" THEN Transition(x, "UNKNOWN", w) ELSE x
<1>1. y \in Cell
  BY Words, TransitionType
<1>2. SameRegistration(x, y)
  BY TransitionRegisters DEF SameRegistration
<1>3. Missing(x, w, w2) \in {y, Transition(y, "CANCELLED", w2)}
  BY DEF Missing, y
<1> HIDE DEF y
<1>4. SameRegistration(y, Transition(y, "CANCELLED", w2))
  BY <1>1, TransitionRegisters
<1> QED BY <1>2, <1>3, <1>4 DEF SameRegistration

LEMMA FoundRegisters ==
  ASSUME EngineAssumption, NEW x \in Cell, NEW u \in View, NEW w \in Luck,
         NEW live \in BOOLEAN, NEW w2 \in BOOLEAN
  PROVE  SameRegistration(x, Lifted(Folded(x, u, w), u, live, w2))
<1> DEFINE y == Folded(x, u, w)
<1>1. SameRegistration(x, y)
  BY ApplyRegisters DEF Folded, SameRegistration
<1>2. y \in Cell
  BY FoundType
<1> HIDE DEF y
<1>3. SameRegistration(y, Transition(y, "POSITION_OPEN", w2))
  BY <1>2, TransitionRegisters
<1>4. Lifted(y, u, live, w2) \in {y, Transition(y, "POSITION_OPEN", w2)}
  BY DEF Lifted
<1>5. SameRegistration(x, Lifted(y, u, live, w2))
  BY <1>1, <1>3, <1>4 DEF SameRegistration
<1> QED BY <1>5 DEF y

-----------------------------------------------------------------------------
(* The inductive invariant: what was placed was registered in the log. *)

RegisteredFirst == \A i \in Intents : placed[i] > 0 => journal[i].registered

LEMMA KeepsRegistration ==
  ASSUME TypeOK, RegisteredFirst, NEW i \in Intents, NEW y \in Cell, Store(i, y),
         SameRegistration(CellOf(i), y), UNCHANGED placed
  PROVE  RegisteredFirst'
<1>1. journal' = [journal EXCEPT ![i] = y.log]
  BY DEF Store
<1>2. y.log.registered = journal[i].registered
  BY DEF SameRegistration, CellOf
<1> QED BY <1>1, <1>2 DEF RegisteredFirst, TypeOK, EngineTypeOK

LEMMA SubmissionRegisters ==
  ASSUME TypeOK, RegisteredFirst, NEW i \in Intents, NEW x \in Cell, Submission(i, x),
         x.log.registered
  PROVE  RegisteredFirst'
<1> DEFINE x1 == [x EXCEPT !.ord.contract = TRUE]
<1>1. x1 \in Cell /\ x1.log = x.log
  BY DEF Cell, Order
<1> HIDE DEF x1
<1>2. PICK w \in Writes, sub \in Writes :
        LET y == Transition(x1, "SUBMITTING", w) IN
        IF y.threw
        THEN Store(i, y) /\ UNCHANGED placed
        ELSE Store(i, [y EXCEPT !.log.submitted = sub]) /\ placed' = [placed EXCEPT ![i] = @ + 1]
  BY DEF Submission, x1
<1> DEFINE y == Transition(x1, "SUBMITTING", w)
           z == [y EXCEPT !.log.submitted = sub]
<1>3. y \in Cell /\ y.log.registered
  BY <1>1, ChanceType, Words, TransitionType, TransitionRegisters DEF SameRegistration
<1> HIDE DEF y
<1>4. z.log.registered
  BY <1>3 DEF Cell, Log
<1> HIDE DEF z
<1>5. ASSUME NEW v, v.log.registered, Store(i, v),
             \A j \in Intents : j # i => placed'[j] = placed[j]
      PROVE  RegisteredFirst'
  <2>1. journal' = [journal EXCEPT ![i] = v.log]
    BY <1>5 DEF Store
  <2> QED BY <1>5, <2>1 DEF RegisteredFirst, TypeOK, EngineTypeOK
<1>6. \/ Store(i, y) /\ UNCHANGED placed
      \/ Store(i, z) /\ placed' = [placed EXCEPT ![i] = @ + 1]
  BY <1>2 DEF y, z
<1>7. \A j \in Intents : j # i => placed'[j] = placed[j]
  BY <1>6 DEF TypeOK, EngineTypeOK
<1>8. CASE Store(i, y)
  BY <1>3, <1>5, <1>7, <1>8
<1>9. CASE Store(i, z)
  BY <1>4, <1>5, <1>7, <1>9
<1> QED BY <1>6, <1>8, <1>9

LEMMA RegisteredFirstStep ==
  ASSUME AuditInv, RegisteredFirst, [Next]_vars
  PROVE  RegisteredFirst'
<1>0. TypeOK
  BY DEF AuditInv
<1>1. ASSUME UNCHANGED <<journal, placed>> PROVE RegisteredFirst'
  BY <1>1 DEF RegisteredFirst
<1>2. ASSUME NEW i \in Intents, SubmitRefused(i) PROVE RegisteredFirst'
  <2>1. PICK w \in Writes : Store(i, Registered(i, w))
    BY <1>2 DEF SubmitRefused
  <2>2. placed[i] = 0 /\ UNCHANGED placed
    BY <1>2 DEF SubmitRefused, AuditInv, DecisionOK, Untouched
  <2>3. journal' = [journal EXCEPT ![i] = Registered(i, w).log]
    BY <2>1 DEF Store
  <2> QED BY <1>0, <2>2, <2>3 DEF RegisteredFirst, TypeOK, EngineTypeOK
<1>3. ASSUME NEW i \in Intents, Submit(i) PROVE RegisteredFirst'
  <2>1. PICK w \in Writes : ~ Registered(i, w).threw /\ Submission(i, Registered(i, w))
    BY <1>3 DEF Submit
  <2>2. CellOf(i) \in Cell /\ Registered(i, w) \in Cell
    BY <1>0, ChanceType, CellOfType, RegisteredType, EngineAssumption
  <2>3. Registered(i, w).threw = Throws(w) /\ Registered(i, w).log = [CellOf(i).log EXCEPT !.registered = w]
    BY <2>2 DEF Registered, Cell
  <2>4. CellOf(i).log \in Log /\ w \in BOOLEAN
    BY <2>2, ChanceType DEF Cell
  <2>5. Registered(i, w).log.registered = w
    BY <2>3, <2>4 DEF Log
  <2>6. w = TRUE
    BY <2>1, <2>3, <2>4 DEF Throws
  <2>7. Registered(i, w).log.registered
    BY <2>5, <2>6
  <2> QED BY <1>0, <2>1, <2>2, <2>7, SubmissionRegisters
<1>4. ASSUME NEW i \in Intents, Resubmit(i) PROVE RegisteredFirst'
  <2>1. CellOf(i) \in Cell /\ CellOf(i).log.registered
    BY <1>0, <1>4, CellOfType DEF Resubmit, CellOf
  <2> QED BY <1>0, <1>4, <2>1, SubmissionRegisters DEF Resubmit
<1>5. ASSUME NEW i \in Intents, PlacementAnswered(i) PROVE RegisteredFirst'
  <2>1. PICK w \in Luck, w2 \in Writes :
          Store(i, Unresolved(ApplyBrokerUpdate(CellOf(i), reply[i], w), w2))
    BY <1>5 DEF PlacementAnswered
  <2> DEFINE x == ApplyBrokerUpdate(CellOf(i), reply[i], w)
  <2>2. CellOf(i) \in Cell /\ reply[i] \in View
    BY <1>0, CellOfType DEF TypeOK, EngineTypeOK
  <2>3. x \in Cell /\ SameRegistration(CellOf(i), x)
    BY <2>2, ApplyType, ApplyRegisters, EngineAssumption
  <2> HIDE DEF x
  <2>4. Unresolved(x, w2) \in Cell /\ SameRegistration(CellOf(i), Unresolved(x, w2))
    BY <2>3, ChanceType, UnresolvedType, UnresolvedRegisters DEF SameRegistration
  <2>5. Store(i, Unresolved(x, w2)) /\ UNCHANGED placed
    BY <1>5, <2>1 DEF x, PlacementAnswered
  <2> QED BY <1>0, <2>4, <2>5, KeepsRegistration
<1>6. ASSUME NEW i \in Intents, PlacementTimesOut(i) PROVE RegisteredFirst'
  <2>1. PICK w \in Writes : Store(i, Transition(CellOf(i), "UNKNOWN", w))
    BY <1>6 DEF PlacementTimesOut
  <2>2. CellOf(i) \in Cell
    BY <1>0, CellOfType
  <2>3. /\ Transition(CellOf(i), "UNKNOWN", w) \in Cell
        /\ SameRegistration(CellOf(i), Transition(CellOf(i), "UNKNOWN", w))
    BY <2>2, ChanceType, Words, TransitionType, TransitionRegisters
  <2> QED BY <1>0, <1>6, <2>1, <2>3, KeepsRegistration DEF PlacementTimesOut
<1>7. ASSUME NEW i \in Intents, CancelConfirmed(i) PROVE RegisteredFirst'
  <2>1. PICK w \in Writes :
          Store(i, [Transition(CellOf(i), "CANCELLED", w) EXCEPT !.ord.cancel = "over"])
    BY <1>7 DEF CancelConfirmed
  <2> DEFINE y == Transition(CellOf(i), "CANCELLED", w)
             z == [y EXCEPT !.ord.cancel = "over"]
  <2>2. CellOf(i) \in Cell
    BY <1>0, CellOfType
  <2>3. y \in Cell /\ SameRegistration(CellOf(i), y)
    BY <2>2, ChanceType, Words, TransitionType, TransitionRegisters
  <2> HIDE DEF y
  <2>4. z \in Cell /\ z.log = y.log
    BY <2>3 DEF Cell, Order
  <2>5. SameRegistration(CellOf(i), z)
    BY <2>3, <2>4 DEF SameRegistration
  <2>6. Store(i, z) /\ UNCHANGED placed
    BY <1>7, <2>1 DEF y, CancelConfirmed
  <2> HIDE DEF z
  <2> QED BY <1>0, <2>4, <2>5, <2>6, KeepsRegistration
<1>8. CASE EngineStep
  <2>1. ASSUME NEW i \in Intents,
               \/ Approve(i) \/ HoldExpires(i) \/ TenSecondsPass(i) \/ PlacementLands(i)
               \/ PlacementLost(i) \/ VenueAnswers(i) \/ VenueRelabels(i) \/ VenueFills(i)
               \/ VenueRefuses(i) \/ VenueCancels(i)
        PROVE  RegisteredFirst'
    BY <1>1, <2>1 DEF Approve, HoldExpires, TenSecondsPass, PlacementLands, PlacementLost,
         VenueAnswers, VenueRelabels, VenueFills, VenueRefuses, VenueCancels, engineVars
  <2>2. ASSUME NEW p \in Pairs, PositionCloses(p) PROVE RegisteredFirst'
    BY <1>1, <2>2 DEF PositionCloses, engineVars
  <2> QED BY <1>2, <1>3, <1>4, <1>5, <1>6, <1>7, <1>8, <2>1, <2>2 DEF EngineStep
<1>9. ASSUME NEW c \in Cycles, CycleStep(c) PROVE RegisteredFirst'
  <2>1. CASE UNCHANGED vars0
    BY <1>1, <2>1 DEF vars0, engineVars
  <2>2. ASSUME NEW i \in Intents, AppliesNotFound(c, i), ~ UNCHANGED vars0
        PROVE  RegisteredFirst'
    <3>1. PICK w \in Writes, w2 \in Writes : Store(i, Missing(CellOf(i), w, w2))
      BY <2>2 DEF AppliesNotFound
    <3>2. UNCHANGED placed
      BY <2>2 DEF AppliesNotFound
    <3>3. CellOf(i) \in Cell
      BY <1>0, CellOfType
    <3>4. /\ Missing(CellOf(i), w, w2) \in Cell
          /\ SameRegistration(CellOf(i), Missing(CellOf(i), w, w2))
      BY <3>3, ChanceType, MissingType, MissingRegisters
    <3> QED BY <1>0, <3>1, <3>2, <3>4, KeepsRegistration
  <2>3. ASSUME NEW i \in Intents, AppliesFound(c, i) PROVE RegisteredFirst'
    <3> DEFINE u == cycle[c].answer.order
               live == HasPosition(c, i)
    <3>1. PICK w \in Luck, w2 \in Writes :
            Store(i, Lifted(Folded(CellOf(i), u, w), u, live, w2))
      BY <2>3 DEF AppliesFound
    <3>2. u \in View /\ live \in BOOLEAN
      BY <1>0 DEF TypeOK, CycleState, Answer, HasPosition
    <3> HIDE DEF u, live
    <3> DEFINE y == Lifted(Folded(CellOf(i), u, w), u, live, w2)
    <3>3. CellOf(i) \in Cell
      BY <1>0, CellOfType
    <3>4. y \in Cell /\ SameRegistration(CellOf(i), y)
      BY <3>2, <3>3, ChanceType, FoundType, FoundRegisters, EngineAssumption
    <3>5. Store(i, y) /\ UNCHANGED placed
      BY <2>3, <3>1 DEF AppliesFound
    <3> HIDE DEF y
    <3> QED BY <1>0, <3>4, <3>5, KeepsRegistration
  <2>4. \/ UNCHANGED vars0
        \/ \E i \in Intents : AppliesNotFound(c, i) \/ AppliesFound(c, i)
    BY <1>9 DEF CycleStep, CycleBegins, CyclePositions, CycleEnds, CycleLooksUp, LookupFails
  <2> QED BY <2>1, <2>2, <2>3, <2>4
<1>10. CASE Restart
  BY <1>1, <1>10 DEF Restart, Crash
<1>11. CASE UNCHANGED vars
  BY <1>1, <1>11 DEF vars, vars0, engineVars
<1> QED BY <1>8, <1>9, <1>10, <1>11 DEF Next

\* Whatever appends fail and wherever the process dies, a restart revives every
\* order the venue was asked to place and that is not over in memory: neither its
\* registration nor its status can be missing from the log
\* (execution-engine.ts:70-87, 120-148, 162-177, 260-283).
THEOREM NoOrderForgotten == Spec => []RestartRemembers
<1>1. Init => AuditInv /\ RegisteredFirst
  <2>1. Init => RegisteredFirst
    BY DEF Init, EngineInit, RegisteredFirst
  <2> QED BY <2>1, AuditInvInit
<1>2. AuditInv /\ RegisteredFirst /\ [Next]_vars => (AuditInv /\ RegisteredFirst)'
  BY AuditInvStep, RegisteredFirstStep
<1>3. AuditInv /\ RegisteredFirst => RestartRemembers
  <2> SUFFICES ASSUME AuditInv, RegisteredFirst, NEW i \in Intents, placed[i] > 0,
                      mem[i].status \notin Terminal \union {None}
               PROVE  Revived(journal[i]) # None
    BY DEF RestartRemembers
  <2>1. journal[i].registered
    BY DEF RegisteredFirst
  <2>2. journal[i].last # None /\ journal[i].last \notin Terminal
    BY DEF AuditInv, DecisionOK, PlacedOnce, Journalled
  <2> QED BY <2>1, <2>2, Words DEF Revived
<1> QED BY <1>1, <1>2, <1>3, PTL DEF Spec

-----------------------------------------------------------------------------
(* What the fills ledger and the log know of a fill while appends succeed. *)

\* Statuses an order of the runtime goes through.
Walk == BrokerStatus \union {None, "RISK_APPROVED", "SUBMITTING", "UNKNOWN", "POSITION_OPEN"}

Filled == {"FILLED", "POSITION_OPEN"}

\* A view reports the whole quantity just when it says FILLED.
ViewFull(u) == u.status = "FILLED" <=> u.filled = Qty

\* An order held for filled is booked, and so is one that has seen its whole
\* quantity, unless it is over.
CellBooked(x) ==
  /\ x.log.booked = x.booked
  /\ x.ord.status \in Walk /\ x.log.last \in Walk
  /\ x.ord.status \in Filled \/ x.log.last \in Filled => x.booked = Qty
  /\ x.ord.filled = Qty => x.booked = Qty \/ x.ord.status \in Terminal

\* The synchronous code books no less than was booked.
Books(x, y) == CellBooked(y) /\ y.booked >= x.booked

LEMMA DiskWorks ==
  ASSUME ~ DiskMayFail
  PROVE  Writes = {TRUE} /\ \A w \in Luck : w.move = TRUE /\ w.note = TRUE /\ w.fill = TRUE
BY DEF Writes, Luck

LEMMA Walks ==
  /\ Walk \subseteq OrderStatus \union {None}
  /\ Filled \subseteq Walk
  /\ "FILLED" \notin Terminal /\ "POSITION_OPEN" \notin Terminal
  /\ \A s \in Walk \ {None} :
       /\ CanTransition(s, "POSITION_OPEN") => s = "FILLED"
       /\ s \in {"RISK_APPROVED"} \union Filled \union Terminal \/ CanTransition(s, "FILLED")
<1>1. Walk \subseteq OrderStatus \union {None} /\ Filled \subseteq Walk
  BY DEF Walk, Filled, BrokerStatus, OrderStatus
<1>2. /\ Allowed["FILLED"] # {} /\ Allowed["POSITION_OPEN"] # {}
      /\ Allowed["CANCELLED"] = {} /\ Allowed["REJECTED"] = {}
  BY DEF Allowed, OrderStatus
<1>3. ASSUME NEW s \in Walk \ {None}
      PROVE  /\ CanTransition(s, "POSITION_OPEN") => s = "FILLED"
             /\ \/ s \in {"RISK_APPROVED", "FILLED", "POSITION_OPEN", "CANCELLED", "REJECTED"}
                \/ CanTransition(s, "FILLED")
  BY DEF Walk, BrokerStatus, CanTransition, Allowed, OrderStatus
<1>4. {"CANCELLED", "REJECTED"} \subseteq Terminal
  BY <1>2 DEF Terminal, OrderStatus
<1> QED BY <1>1, <1>2, <1>3, <1>4 DEF Terminal, Filled

\* A move to a status that claims no fill.
LEMMA TransitionBooks ==
  ASSUME NEW x \in Cell, CellBooked(x), x.ord.status # None,
         NEW to \in Walk \ Filled
  PROVE  /\ Books(x, Transition(x, to, TRUE))
         /\ Transition(x, to, TRUE).ord.status # None
<1>1. x.ord \in Order /\ x.log \in Log /\ x.booked \in Nat
  BY EngineAssumption DEF Cell, EngineAssumption
<1>2. CASE x.ord.status = to
  BY <1>1, <1>2 DEF Transition, Books
<1>3. CASE x.ord.status # to /\ ~ CanTransition(x.ord.status, to)
  <2> DEFINE y == Transition(x, to, TRUE)
  <2>1. y.ord = x.ord /\ y.log = x.log /\ y.booked = x.booked
    BY <1>3 DEF Transition, Cell
  <2> HIDE DEF y
  <2>2. Books(x, y) /\ y.ord.status # None
    BY <1>1, <2>1 DEF Books, CellBooked
  <2> QED BY <2>2 DEF y
<1>4. CASE x.ord.status # to /\ CanTransition(x.ord.status, to)
  <2>1. x.ord.status \in OrderStatus
    BY <1>1 DEF Order
  <2>2. x.ord.status \notin Terminal /\ to # None
    BY <1>4, <2>1, Moves, Words
  <2> DEFINE y == Transition(x, to, TRUE)
  <2>3. /\ y.ord = [x.ord EXCEPT !.status = to, !.late = FALSE]
        /\ y.log = [x.log EXCEPT !.last = to, !.acked = x.ord.acked]
        /\ y.booked = x.booked
    BY <1>4 DEF Transition, Cell
  <2>4. /\ y.ord.status = to /\ y.ord.filled = x.ord.filled
        /\ y.log.last = to /\ y.log.booked = x.log.booked
    BY <1>1, <2>3 DEF Order, Log
  <2> HIDE DEF y
  <2>5. Books(x, y) /\ y.ord.status # None
    BY <1>1, <2>2, <2>3, <2>4 DEF Books, CellBooked
  <2> QED BY <2>5 DEF y
<1> QED BY <1>2, <1>3, <1>4

\* A fill that is new and lands in a legal move is booked in memory and in the log.
LEMMA ApplyBooks ==
  ASSUME ~ DiskMayFail, NEW x \in Cell, CellBooked(x), ~ x.threw, x.ord.status # None,
         NEW u \in View, ViewFull(u), NEW w \in Luck,
         u.status = "FILLED" => x.ord.status # "RISK_APPROVED"
  PROVE  /\ Books(x, ApplyBrokerUpdate(x, u, w))
         /\ ApplyBrokerUpdate(x, u, w).ord.status # None
<1> DEFINE seen  == [x EXCEPT !.ord.acked = TRUE, !.ord.filled = u.filled]
           moved == Transition(seen, u.status, w.move)
           slipped == EnforceSlippage(moved, w)
           hooked == RecordFill(slipped, w)
           y == ApplyBrokerUpdate(x, u, w)
<1>1. /\ Qty \in Nat \ {0} /\ x.ord \in Order /\ x.log \in Log
      /\ x.booked \in 0 .. Qty /\ x.ord.filled \in 0 .. Qty
      /\ u.filled \in 0 .. Qty /\ u.status \in BrokerStatus \union {None}
      /\ x.ord.status \in OrderStatus /\ x.ord.status \in Walk
      /\ w.move = TRUE /\ w.note = TRUE /\ w.fill = TRUE
  BY DiskWorks, EngineAssumption DEF EngineAssumption, Cell, Order, View, CellBooked
<1>2. /\ seen \in Cell /\ seen.ord.status = x.ord.status /\ seen.ord.filled = u.filled
      /\ seen.log = x.log /\ seen.booked = x.booked /\ ~ seen.threw
  BY <1>1 DEF Cell, Order
<1> HIDE DEF seen
<1>3. CASE x.ord.status # u.status /\ ~ CanTransition(x.ord.status, u.status)
  <2>1. /\ moved.ord = seen.ord /\ moved.log = seen.log /\ moved.booked = seen.booked
        /\ moved.threw
    BY <1>2, <1>3 DEF Transition, Cell
  <2>2. y = moved
    BY <2>1 DEF ApplyBrokerUpdate, seen
  <2>3. u.filled = Qty => x.booked = Qty \/ x.ord.status \in Terminal
    BY <1>1, <1>3, Walks DEF ViewFull, CellBooked
  <2> HIDE DEF moved, y
  <2> QED BY <1>1, <1>2, <2>1, <2>2, <2>3 DEF Books, CellBooked, y
<1>4. CASE x.ord.status = u.status \/ CanTransition(x.ord.status, u.status)
  <2>1. /\ moved \in Cell
        /\ moved.ord.status = u.status /\ moved.ord.filled = u.filled
        /\ moved.log.last \in {x.log.last, u.status} /\ moved.log.booked = x.log.booked
        /\ moved.booked = x.booked /\ ~ moved.threw
    <3>1. CASE x.ord.status = u.status
      BY <1>2, <3>1 DEF Transition
    <3>2. CASE x.ord.status # u.status /\ CanTransition(x.ord.status, u.status)
      <4>1. /\ moved.ord = [seen.ord EXCEPT !.status = u.status, !.late = FALSE]
            /\ moved.log = [seen.log EXCEPT !.last = u.status, !.acked = seen.ord.acked]
            /\ moved.booked = seen.booked /\ moved.threw = FALSE
        BY <1>1, <1>2, <3>2 DEF Transition, Cell, Throws
      <4>2. seen.ord \in Order /\ seen.log \in Log
        BY <1>2 DEF Cell
      <4>3. moved \in Cell
        BY <1>1, <1>2, Words, TransitionType
      <4> QED BY <1>2, <4>1, <4>2, <4>3 DEF Order, Log
    <3> QED BY <1>4, <3>1, <3>2
  <2>2. u.status # None
    BY <1>1, <1>4, Moves, Words
  <2> HIDE DEF moved
  <2>3. CASE u.filled <= x.ord.filled
    <3>1. y = moved
      BY <2>3 DEF ApplyBrokerUpdate, moved, seen
    <3>2. u.status \in Terminal \/ (u.filled = Qty => x.booked = Qty)
      <4>1. u.filled = Qty => x.ord.filled = Qty
        BY <1>1, <2>3
      <4>2. x.ord.status \in Terminal => x.ord.status = u.status
        BY <1>1, <1>4, Moves
      <4> QED BY <4>1, <4>2 DEF CellBooked
    <3>3. u.status \in Filled => u.status = "FILLED"
      BY <1>1 DEF Filled, BrokerStatus, None
    <3>4. u.status \in Filled => x.booked = Qty
      BY <3>2, <3>3, Walks DEF ViewFull
    <3>5. u.status \in Walk
      BY <1>1 DEF Walk
    <3>6. Books(x, moved)
      BY <1>1, <2>1, <3>2, <3>4, <3>5 DEF Books, CellBooked
    <3> HIDE DEF y
    <3> QED BY <2>1, <2>2, <3>1, <3>6 DEF y
  <2>4. CASE ~ (u.filled <= x.ord.filled)
    <3>1. y = hooked
      BY <2>1, <2>4 DEF ApplyBrokerUpdate, moved, seen
    <3>2. /\ slipped \in Cell /\ ~ slipped.threw
          /\ slipped.ord.status = moved.ord.status /\ slipped.ord.filled = moved.ord.filled
          /\ slipped.log = moved.log /\ slipped.booked = moved.booked
      BY <1>1, <2>1 DEF EnforceSlippage, CancelRemainder, Cell, Order, Throws
    <3> HIDE DEF slipped
    <3>3. /\ hooked.ord = slipped.ord /\ hooked.log.last = slipped.log.last
          /\ hooked.booked = hooked.log.booked
          /\ hooked.booked = IF u.filled <= x.booked THEN x.booked ELSE u.filled
      <4>1. slipped.log \in Log /\ slipped.log.booked = slipped.booked
        BY <2>1, <3>2 DEF Cell, CellBooked
      <4>2. slipped.ord.filled = u.filled /\ slipped.booked = x.booked
        BY <2>1, <3>2
      <4> QED BY <1>1, <3>2, <4>1, <4>2 DEF RecordFill, Cell, Log
    <3> HIDE DEF hooked
    <3>4. u.status \in Filled => u.filled = Qty
      BY <1>1 DEF Filled, BrokerStatus, None, ViewFull
    <3>5. u.filled = Qty => hooked.booked = Qty
      BY <1>1, <3>3
    <3>6. u.status \in Walk
      BY <1>1 DEF Walk
    <3>7. hooked.booked >= x.booked /\ (x.booked = Qty => hooked.booked = Qty)
      BY <1>1, <3>3
    <3>8. Books(x, hooked)
      BY <1>1, <2>1, <3>2, <3>3, <3>4, <3>5, <3>6, <3>7 DEF Books, CellBooked
    <3> HIDE DEF y
    <3> QED BY <2>1, <2>2, <3>1, <3>2, <3>3, <3>8 DEF y
  <2> QED BY <2>3, <2>4
<1> QED BY <1>3, <1>4

LEMMA CaughtBooks ==
  ASSUME NEW x \in Cell, CellBooked(x), x.ord.status # None
  PROVE  Books(x, Unresolved(x, TRUE)) /\ Unresolved(x, TRUE).ord.status # None
<1> DEFINE caught == [x EXCEPT !.threw = FALSE]
<1>1. /\ caught \in Cell /\ caught.ord = x.ord /\ caught.log = x.log
      /\ caught.booked = x.booked /\ x.booked \in 0 .. Qty
  BY DEF Cell
<1>2. CellBooked(caught)
  BY <1>1 DEF CellBooked
<1>3. Books(x, x)
  BY <1>1, EngineAssumption DEF Books, EngineAssumption
<1> HIDE DEF caught
<1>4. "UNKNOWN" \in Walk \ Filled
  BY DEF Walk, Filled
<1>5. /\ Books(caught, Transition(caught, "UNKNOWN", TRUE))
      /\ Transition(caught, "UNKNOWN", TRUE).ord.status # None
  BY <1>1, <1>2, <1>4, TransitionBooks
<1>6. Books(x, Transition(caught, "UNKNOWN", TRUE))
  BY <1>1, <1>5 DEF Books
<1> QED BY <1>3, <1>5, <1>6 DEF Unresolved, caught

LEMMA BooksFurther ==
  ASSUME NEW x \in Cell, NEW y \in Cell, NEW z \in Cell, Books(x, y), Books(y, z)
  PROVE  Books(x, z)
BY EngineAssumption DEF Books, Cell, EngineAssumption

LEMMA MissingBooks ==
  ASSUME NEW x \in Cell, CellBooked(x), x.ord.status # None
  PROVE  Books(x, Missing(x, TRUE, TRUE))
<1> DEFINE y == IF x.ord.status = "SUBMITTING" THEN Transition(x, "UNKNOWN", TRUE) ELSE x
<1>1. {"UNKNOWN", "CANCELLED"} \subseteq Walk \ Filled
  BY DEF Walk, BrokerStatus, Filled
<1>2. y \in Cell
  BY Words, TransitionType
<1>3. Books(x, y) /\ CellBooked(y) /\ y.ord.status # None
  <2>1. CASE x.ord.status = "SUBMITTING"
    BY <1>1, <2>1, TransitionBooks DEF Books
  <2>2. CASE x.ord.status # "SUBMITTING"
    <3>1. x.booked \in 0 .. Qty
      BY DEF Cell
    <3>2. Books(x, x)
      BY <3>1, EngineAssumption DEF Books, EngineAssumption
    <3> QED BY <2>2, <3>2
  <2> QED BY <2>1, <2>2
<1>4. Missing(x, TRUE, TRUE) \in {y, Transition(y, "CANCELLED", TRUE)}
  BY DEF Missing, y
<1> HIDE DEF y
<1>5. Books(y, Transition(y, "CANCELLED", TRUE)) /\ Transition(y, "CANCELLED", TRUE) \in Cell
  BY <1>1, <1>2, <1>3, Words, TransitionType, TransitionBooks
<1>6. Books(x, Transition(y, "CANCELLED", TRUE))
  BY <1>2, <1>3, <1>5, BooksFurther
<1> QED BY <1>3, <1>4, <1>6

\* A fill is lifted to a position only once it is FILLED, and booked.
LEMMA FoundBooks ==
  ASSUME ~ DiskMayFail, NEW x \in Cell, CellBooked(x), ~ x.threw, x.ord.status # None,
         NEW u \in View, ViewFull(u), NEW w \in Luck, NEW live \in BOOLEAN,
         u.status = "FILLED" => x.ord.status # "RISK_APPROVED"
  PROVE  Books(x, Lifted(Folded(x, u, w), u, live, TRUE))
<1> DEFINE y == Folded(x, u, w)
<1>1. x.booked \in Nat /\ y \in Cell
  BY FoundType, EngineAssumption DEF Cell, EngineAssumption
<1>2. Books(x, y) /\ y.ord.status # None
  BY <1>1, ApplyBooks DEF Folded, Books
<1> HIDE DEF y
<1>3. CASE Lifted(y, u, live, TRUE) = y
  BY <1>2, <1>3 DEF y
<1>4. CASE ~ y.threw /\ CanTransition(y.ord.status, "POSITION_OPEN")
  <2> DEFINE z == Transition(y, "POSITION_OPEN", TRUE)
  <2>1. y.ord \in Order /\ y.log \in Log /\ y.booked \in Nat /\ CellBooked(y)
    BY <1>1, <1>2, EngineAssumption DEF Cell, EngineAssumption, Books
  <2>2. y.ord.status = "FILLED" /\ y.booked = Qty
    BY <1>2, <1>4, <2>1, Walks DEF CellBooked, Filled
  <2>3. /\ z.ord = [y.ord EXCEPT !.status = "POSITION_OPEN", !.late = FALSE]
        /\ z.log = [y.log EXCEPT !.last = "POSITION_OPEN", !.acked = y.ord.acked]
        /\ z.booked = y.booked
    BY <1>1, <1>4, <2>2 DEF Transition, Cell
  <2>4. /\ z.ord.status = "POSITION_OPEN" /\ z.ord.filled = y.ord.filled
        /\ z.log.last = "POSITION_OPEN" /\ z.log.booked = y.log.booked
    BY <2>1, <2>3 DEF Order, Log
  <2>5. "POSITION_OPEN" \in Walk
    BY DEF Walk
  <2> HIDE DEF z
  <2>6. CellBooked(z) /\ z.booked = y.booked
    BY <2>1, <2>2, <2>3, <2>4, <2>5 DEF CellBooked
  <2>7. Books(x, z)
    BY <1>2, <2>6 DEF Books
  <2>8. Lifted(y, u, live, TRUE) \in {y, z}
    BY DEF Lifted, z
  <2> QED BY <1>2, <2>7, <2>8 DEF y
<1> QED BY <1>3, <1>4 DEF Lifted

\* A view says FILLED just when the venue does, and the venue knows only of orders
\* that were placed.
Reached(i) == venue[i] # Unheard \/ wire[i] # "none" => placed[i] > 0
Told(i) ==
  /\ ViewFull(reply[i]) /\ Reached(i)
  /\ venue[i].status = "filled" <=> venue[i].filled = Qty
  /\ \A c \in Cycles : i \in cycle[c].asked => ViewFull(cycle[c].answer.order)

AllTold == \A i \in Intents : Told(i)
AllBooked == \A i \in Intents : CellBooked(CellOf(i))
BookInv == AuditInv /\ TruthInv /\ AllTold /\ AllBooked

\* The conclusion of every step.
StillBooked == AllBooked' /\ \A i \in Intents : booked'[i] >= booked[i]

LEMMA AnswerFull ==
  ASSUME TypeOK, NEW i \in Intents, Told(i)
  PROVE  ViewFull(ToBrokerOrder(venue[i])) /\ ViewFull(NoView)
BY EngineAssumption DEF EngineAssumption, Told, ViewFull, ToBrokerOrder, MapStatus, NoView,
     None, TypeOK, EngineTypeOK, VenueOrder, RawStatus

\* A step that leaves venue, views and cycles alone.
LEMMA ToldKept ==
  ASSUME TypeOK, AllTold, UNCHANGED <<venue, reply, cycle, wire, placed>>
  PROVE  AllTold'
BY DEF AllTold, Told, Reached

LEMMA ToldStep ==
  ASSUME TypeOK, TypeOK', AllTold, [Next]_vars
  PROVE  AllTold'
<1>1. ASSUME NEW i \in Intents, NEW x, Submission(i, x), UNCHANGED <<venueVars, cycle>>
      PROVE  AllTold'
  <2>1. CASE UNCHANGED <<wire, reply, placed>>
    BY <1>1, <2>1, ToldKept DEF venueVars
  <2>2. CASE /\ wire' = [wire EXCEPT ![i] = "sent"]
             /\ reply' = [reply EXCEPT ![i] = NoView]
             /\ placed' = [placed EXCEPT ![i] = @ + 1]
    <3>1. /\ \A j \in Intents : reply'[j] \in {reply[j], NoView} /\ placed'[j] >= placed[j]
          /\ \A j \in Intents \ {i} : wire'[j] = wire[j]
          /\ placed'[i] > 0
      BY <2>2 DEF TypeOK, EngineTypeOK
    <3>2. ASSUME NEW j \in Intents PROVE Told(j)'
      <4>1. ViewFull(reply[j])'
        BY <3>1, AnswerFull DEF AllTold, Told
      <4>2. Reached(j)'
        BY <1>1, <3>1 DEF AllTold, Told, Reached, venueVars, TypeOK, EngineTypeOK
      <4> QED BY <1>1, <4>1, <4>2 DEF AllTold, Told, venueVars
    <3> QED BY <3>2 DEF AllTold
  <2> QED BY <1>1, <2>1, <2>2 DEF Submission
\* A step of the venue on one order.
<1>2. ASSUME NEW i \in Intents, NEW r \in VenueOrder, venue' = [venue EXCEPT ![i] = r],
             r.status = "filled" <=> r.filled = Qty,
             venue[i] # Unheard \/ wire[i] # "none",
             UNCHANGED <<reply, cycle, placed>>, \A j \in Intents : wire'[j] # "none" => wire[j] # "none"
      PROVE  AllTold'
  <2>1. venue'[i] = r /\ \A j \in Intents \ {i} : venue'[j] = venue[j]
    BY <1>2 DEF TypeOK, EngineTypeOK
  <2>2. ASSUME NEW j \in Intents PROVE Told(j)'
    <3>1. Reached(j)'
      BY <1>2, <2>1 DEF AllTold, Told, Reached
    <3> QED BY <1>2, <2>1, <3>1 DEF AllTold, Told
  <2> QED BY <2>2 DEF AllTold
<1>3. ASSUME NEW i \in Intents, PlacementLands(i), UNCHANGED cycle PROVE AllTold'
  <2>1. /\ \A j \in Intents : wire'[j] # "none" => wire[j] # "none"
        /\ wire[i] # "none" /\ UNCHANGED <<reply, placed>>
    BY <1>3 DEF PlacementLands, TypeOK, EngineTypeOK
  <2>2. CASE venue[i] = Unheard
    <3>1. PICK s \in {"open", "other"} : venue' = [venue EXCEPT ![i].status = s]
      BY <1>3, <2>2 DEF PlacementLands
    <3> DEFINE r == [venue[i] EXCEPT !.status = s]
    <3>2. r \in VenueOrder /\ r.status # "filled" /\ r.filled = 0
      BY <2>2, EngineAssumption DEF EngineAssumption, Unheard, VenueOrder, RawStatus
    <3>3. venue' = [venue EXCEPT ![i] = r]
      BY <3>1
    <3>4. r.filled # Qty
      BY <3>2, EngineAssumption DEF EngineAssumption
    <3> HIDE DEF r
    <3> QED BY <1>2, <1>3, <2>1, <3>2, <3>3, <3>4
  <2>3. CASE venue[i] # Unheard
    <3>1. UNCHANGED venue
      BY <1>3, <2>3 DEF PlacementLands
    <3> QED BY <1>3, <2>1, <3>1 DEF AllTold, Told, Reached
  <2> QED BY <2>2, <2>3
<1>4. ASSUME NEW i \in Intents, PlacementLost(i), UNCHANGED cycle PROVE AllTold'
  <2>1. \A j \in Intents : wire'[j] # "none" => wire[j] # "none"
    BY <1>4 DEF PlacementLost, TypeOK, EngineTypeOK
  <2> QED BY <1>4, <2>1 DEF PlacementLost, venueVars, AllTold, Told, Reached
<1>5. ASSUME NEW i \in Intents, VenueAnswers(i), UNCHANGED cycle PROVE AllTold'
  <2>1. \A j \in Intents : wire'[j] # "none" => wire[j] # "none"
    BY <1>5 DEF VenueAnswers, TypeOK, EngineTypeOK
  <2>2. \A j \in Intents : reply'[j] = IF j = i THEN ToBrokerOrder(venue[i]) ELSE reply[j]
    BY <1>5 DEF VenueAnswers, TypeOK, EngineTypeOK
  <2>3. \A j \in Intents : ViewFull(reply[j])'
    BY <2>2, AnswerFull DEF AllTold, Told
  <2> QED BY <1>5, <2>1, <2>3 DEF VenueAnswers, venueVars, AllTold, Told, Reached
<1>6. ASSUME NEW i \in Intents, UNCHANGED cycle,
             VenueRelabels(i) \/ VenueRefuses(i) \/ (VenueCancels(i) /\ Live(venue[i]))
      PROVE  AllTold'
  <2>1. PICK s \in {"other", "cancelled", "rejected"} : venue' = [venue EXCEPT ![i].status = s]
    <3>1. CASE VenueRelabels(i)
      BY <3>1 DEF VenueRelabels
    <3>2. CASE VenueRefuses(i)
      BY <3>2, EngineAssumption DEF VenueRefuses, EngineAssumption
    <3>3. CASE VenueCancels(i) /\ Live(venue[i])
      BY <3>3 DEF VenueCancels
    <3> QED BY <1>6, <3>1, <3>2, <3>3
  <2>2. Live(venue[i]) /\ UNCHANGED <<reply, placed, wire>>
    BY <1>6 DEF VenueRelabels, VenueRefuses, VenueCancels, Live
  <2>3. venue[i] \in VenueOrder /\ venue[i].filled # Qty /\ venue[i] # Unheard
    BY <2>2 DEF AllTold, Told, TypeOK, EngineTypeOK, Live, Unheard, None
  <2> DEFINE r == [venue[i] EXCEPT !.status = s]
  <2>4. r \in VenueOrder /\ r.status # "filled" /\ r.filled # Qty
    BY <2>3 DEF VenueOrder, RawStatus
  <2>5. venue' = [venue EXCEPT ![i] = r]
    BY <2>1
  <2> HIDE DEF r
  <2> QED BY <1>2, <1>6, <2>2, <2>3, <2>4, <2>5
<1>7. ASSUME NEW i \in Intents, VenueFills(i), UNCHANGED cycle PROVE AllTold'
  <2> DEFINE n == venue[i].filled + 1
             r == [status |-> IF n = Qty THEN "filled" ELSE "open_partially_filled", filled |-> n]
  <2>1. venue' = [venue EXCEPT ![i] = r] /\ UNCHANGED <<reply, placed, wire>>
    BY <1>7 DEF VenueFills
  <2>2. r \in VenueOrder /\ (r.status = "filled" <=> r.filled = Qty)
    BY <1>7, EngineAssumption DEF VenueFills, EngineAssumption, TypeOK, EngineTypeOK, VenueOrder, RawStatus
  <2>3. venue[i] # Unheard
    BY <1>7 DEF VenueFills, Live, Unheard, None
  <2> HIDE DEF r
  <2> QED BY <1>2, <1>7, <2>1, <2>2, <2>3
<1>8. CASE EngineStep /\ UNCHANGED cycle
  <2>1. ASSUME NEW i \in Intents,
               \/ Approve(i) \/ HoldExpires(i) \/ SubmitRefused(i) \/ PlacementAnswered(i)
               \/ PlacementTimesOut(i) \/ CancelConfirmed(i) \/ TenSecondsPass(i)
        PROVE  UNCHANGED <<venue, reply, wire, placed>>
    BY <2>1 DEF Approve, HoldExpires, SubmitRefused, PlacementAnswered, PlacementTimesOut,
         CancelConfirmed, TenSecondsPass, venueVars
  <2>2. ASSUME NEW i \in Intents, VenueCancels(i), ~ Live(venue[i])
        PROVE  UNCHANGED <<venue, reply, wire, placed>>
    BY <2>2 DEF VenueCancels
  <2>3. ASSUME NEW p \in Pairs, PositionCloses(p)
        PROVE  UNCHANGED <<venue, reply, wire, placed>>
    BY <2>3 DEF PositionCloses
  <2>4. ASSUME NEW i \in Intents, Submit(i) \/ Resubmit(i) PROVE AllTold'
    BY <1>1, <1>8, <2>4 DEF Submit, Resubmit
  <2> QED BY <1>3, <1>4, <1>5, <1>6, <1>7, <1>8, <2>1, <2>2, <2>3, <2>4, ToldKept DEF EngineStep
<1>9. ASSUME NEW c \in Cycles, CycleStep(c) PROVE AllTold'
  <2>1. UNCHANGED <<venue, reply, wire, placed>>
    BY <1>9 DEF CycleStep, CycleBegins, CyclePositions, CycleLooksUp, LookupFails,
         AppliesNotFound, AppliesFound, CycleEnds, vars0, venueVars
  <2>2. ASSUME \A d \in Cycles : \A j \in cycle'[d].asked : ViewFull(cycle'[d].answer.order)
        PROVE  AllTold'
    BY <2>1, <2>2 DEF AllTold, Told, Reached
  <2>3. cycle \in [Cycles -> CycleState] /\ cycle[c] \in CycleState
    BY DEF TypeOK
  <2>4. \A d \in Cycles : \A j \in cycle[d].asked : j \in Intents /\ ViewFull(cycle[d].answer.order)
    BY <2>3 DEF AllTold, Told, CycleState
  <2>5. \A d \in Cycles \ {c} : cycle'[d] = cycle[d]
    BY <1>9, <2>3 DEF CycleStep, CycleBegins, CyclePositions, CycleLooksUp, LookupFails,
         AppliesNotFound, AppliesFound, CycleEnds, Done
  <2>6. \A j \in cycle'[c].asked : ViewFull(cycle'[c].answer.order)
    <3>1. CASE \/ CycleBegins(c) \/ CyclePositions(c) \/ CycleEnds(c)
               \/ \E i \in Intents : LookupFails(c, i) \/ AppliesNotFound(c, i) \/ AppliesFound(c, i)
      <4>1. cycle'[c].asked \in {{}, cycle[c].asked} /\ (cycle'[c].asked # {} => cycle'[c].answer = cycle[c].answer)
        <5>1. CASE CycleBegins(c) \/ CycleEnds(c)
          <6>1. cycle'[c] = IdleCycle \/ cycle'[c] = [IdleCycle EXCEPT !.pc = "positions", !.todo = Open]
            BY <2>3, <5>1 DEF CycleBegins, CycleEnds
          <6>2. CASE cycle'[c] = IdleCycle
            BY <6>2 DEF IdleCycle
          <6>3. CASE cycle'[c] = [IdleCycle EXCEPT !.pc = "positions", !.todo = Open]
            <7>1. cycle'[c].asked = IdleCycle.asked
              BY <6>3 DEF IdleCycle
            <7> QED BY <7>1 DEF IdleCycle
          <6> QED BY <6>1, <6>2, <6>3
        <5>2. CASE CyclePositions(c)
          <6>1. PICK ok \in BOOLEAN :
                  cycle' = [cycle EXCEPT ![c].pc = "loop", ![c].evidence = ok,
                                         ![c].held = IF ok THEN position ELSE {}]
            BY <5>2 DEF CyclePositions
          <6>2. cycle'[c].asked = cycle[c].asked /\ cycle'[c].answer = cycle[c].answer
            BY <2>3, <6>1 DEF CycleState
          <6> QED BY <6>2
        <5>3. ASSUME NEW i \in Intents, LookupFails(c, i)
              PROVE  cycle'[c].asked = cycle[c].asked /\ cycle'[c].answer = cycle[c].answer
          BY <2>3, <5>3 DEF LookupFails, CycleState
        <5>4. ASSUME NEW i \in Intents, AppliesNotFound(c, i) \/ AppliesFound(c, i)
              PROVE  cycle'[c].asked = {}
          <6>1. Done(c)
            BY <5>4 DEF AppliesNotFound, AppliesFound
          <6> QED BY <2>3, <6>1 DEF Done, CycleState
        <5> QED BY <3>1, <5>1, <5>2, <5>3, <5>4
      <4> QED BY <2>4, <4>1
    <3>2. ASSUME NEW i \in Intents, CycleLooksUp(c, i)
          PROVE  \A j \in cycle'[c].asked : ViewFull(cycle'[c].answer.order)
      <4>1. cycle'[c].answer = Truth(i)
        BY <2>3, <3>2 DEF CycleLooksUp, CycleState
      <4>2. Truth(i).order \in {NoView, ToBrokerOrder(venue[i])}
        BY DEF Truth
      <4> QED BY <4>1, <4>2, AnswerFull DEF AllTold
    <3> QED BY <1>9, <3>1, <3>2 DEF CycleStep
  <2> QED BY <2>2, <2>4, <2>5, <2>6
<1>10. CASE Restart
  <2>1. UNCHANGED <<venue, reply, wire, placed>> /\ \A c \in Cycles : cycle'[c].asked = {}
    BY <1>10 DEF Restart, Crash, venueVars, IdleCycle
  <2> QED BY <2>1 DEF AllTold, Told, Reached
<1>11. CASE UNCHANGED vars
  BY <1>11, ToldKept DEF vars, vars0, venueVars
<1> QED BY <1>8, <1>9, <1>10, <1>11 DEF Next

-----------------------------------------------------------------------------

\* What an answer says of an order that is still to be submitted.
LEMMA NotFilledYet ==
  ASSUME AuditInv, TruthInv, NEW i \in Intents, Told(i), NEW u \in View,
         ViewTrue(u, venue[i]), u.status = "FILLED"
  PROVE  mem[i].status # "RISK_APPROVED"
<1>1. venue[i].status = "filled"
  BY DEF ViewTrue, Holds
<1>2. placed[i] > 0
  BY <1>1 DEF Told, Reached, Unheard, None
<1>3. journal[i].last # None
  BY <1>2 DEF AuditInv, DecisionOK, PlacedOnce
<1> QED BY <1>3 DEF AuditInv, DecisionOK, Journalled

LEMMA HandledBooked ==
  ASSUME TypeOK, AllBooked, NEW i \in Intents, NEW y \in Cell, Store(i, y), Books(CellOf(i), y)
  PROVE  StillBooked
<1>1. /\ mem'[i] = y.ord /\ journal'[i] = y.log /\ booked'[i] = y.booked
      /\ \A j \in Intents \ {i} :
           mem'[j] = mem[j] /\ journal'[j] = journal[j] /\ booked'[j] = booked[j]
  BY DEF Store, TypeOK, EngineTypeOK
<1>2. \A j \in Intents : booked[j] \in Nat
  BY EngineAssumption DEF TypeOK, EngineTypeOK, EngineAssumption
<1>3. \A j \in Intents : booked'[j] >= booked[j]
  BY <1>1, <1>2 DEF Books, CellOf
<1>4. ASSUME NEW j \in Intents PROVE CellBooked(CellOf(j))'
  <2>1. CASE j = i
    BY <1>1, <2>1 DEF CellBooked, CellOf, Books
  <2>2. CASE j # i
    BY <1>1, <2>2 DEF AllBooked, CellBooked, CellOf
  <2> QED BY <2>1, <2>2
<1> QED BY <1>3, <1>4 DEF StillBooked, AllBooked

LEMMA UnhandledBooked ==
  ASSUME TypeOK, AllBooked, UNCHANGED <<journal, booked>>,
         \A j \in Intents : mem'[j].status = mem[j].status /\ mem'[j].filled = mem[j].filled
  PROVE  StillBooked
<1>1. \A j \in Intents : booked[j] \in Nat
  BY EngineAssumption DEF TypeOK, EngineTypeOK, EngineAssumption
<1> QED BY <1>1 DEF StillBooked, AllBooked, CellBooked, CellOf

\* A decision being registered has no fill and no log.
LEMMA RegisteredBooked ==
  ASSUME BookInv, NEW i \in Intents, call[i] = "approved"
  PROVE  /\ Registered(i, TRUE) \in Cell /\ Books(CellOf(i), Registered(i, TRUE))
         /\ Registered(i, TRUE).ord.status = "RISK_APPROVED"
<1>1. mem[i] = NoOrder /\ journal[i] = NoLog /\ booked[i] = 0 /\ TypeOK
  <2>1. mem[i] = NoOrder /\ journal[i] = NoLog /\ TypeOK
    BY DEF BookInv, AuditInv, DecisionOK, Untouched
  <2>2. booked[i] = journal[i].booked
    BY DEF BookInv, AllBooked, CellBooked, CellOf
  <2> QED BY <2>1, <2>2 DEF NoLog
<1>2. CellOf(i) \in Cell /\ Registered(i, TRUE) \in Cell
  BY <1>1, CellOfType, RegisteredType, EngineAssumption
<1> DEFINE y == Registered(i, TRUE)
<1>3. /\ y.ord = [NoOrder EXCEPT !.status = "RISK_APPROVED"]
      /\ y.log = [NoLog EXCEPT !.registered = TRUE] /\ y.booked = 0
  BY <1>1, <1>2 DEF Registered, CellOf
<1>4. y.ord.status = "RISK_APPROVED" /\ y.ord.filled = 0 /\ y.log.last = None /\ y.log.booked = 0
  BY <1>3 DEF NoOrder, NoLog
<1>5. Qty # 0 /\ CellOf(i).booked = 0
  BY <1>1, EngineAssumption DEF EngineAssumption, CellOf
<1> HIDE DEF y
<1>6. Books(CellOf(i), y)
  BY <1>3, <1>4, <1>5 DEF Books, CellBooked, Walk, Filled, None
<1> QED BY <1>2, <1>4, <1>6 DEF y

LEMMA SubmissionBooked ==
  ASSUME BookInv, ~ DiskMayFail, NEW i \in Intents, NEW x \in Cell, Books(CellOf(i), x),
         x.ord.status = "RISK_APPROVED", Submission(i, x)
  PROVE  StillBooked
<1> DEFINE x1 == [x EXCEPT !.ord.contract = TRUE]
<1>1. /\ x1 \in Cell /\ x1.log = x.log /\ x1.booked = x.booked
      /\ x1.ord.status = x.ord.status /\ x1.ord.filled = x.ord.filled
  BY DEF Cell, Order
<1>2. CellBooked(x1) /\ x1.ord.status # None
  BY <1>1 DEF Books, CellBooked, None
<1> HIDE DEF x1
<1>3. PICK w \in Writes, sub \in Writes :
        LET y == Transition(x1, "SUBMITTING", w) IN
        \/ Store(i, y)
        \/ Store(i, [y EXCEPT !.log.submitted = sub])
  BY DEF Submission, x1
<1>4. w = TRUE /\ sub \in BOOLEAN /\ "SUBMITTING" \in Walk \ Filled
  <2>1. w = TRUE /\ sub = TRUE
    <3>1. Writes = {TRUE}
      BY DiskWorks
    <3> QED BY <3>1
  <2>2. "SUBMITTING" \in Walk \ Filled
    BY DEF Walk, Filled
  <2> QED BY <2>1, <2>2
<1> DEFINE y == Transition(x1, "SUBMITTING", TRUE)
           z == [y EXCEPT !.log.submitted = sub]
<1>5. y \in Cell /\ Books(x1, y)
  BY <1>1, <1>2, <1>4, Words, TransitionType, TransitionBooks
<1> HIDE DEF y
<1>6. /\ z \in Cell /\ z.ord = y.ord /\ z.booked = y.booked
      /\ z.log.last = y.log.last /\ z.log.booked = y.log.booked
  BY <1>4, <1>5 DEF Cell, Log
<1>7. TypeOK /\ CellOf(i).booked \in Nat /\ x.booked \in Nat /\ y.booked \in Nat
  BY <1>5, EngineAssumption DEF BookInv, AuditInv, TypeOK, EngineTypeOK, CellOf, Cell, EngineAssumption
<1>8. Books(CellOf(i), y)
  BY <1>1, <1>5, <1>7 DEF Books
<1>9. Books(CellOf(i), z)
  BY <1>6, <1>8 DEF Books, CellBooked
<1> HIDE DEF z
<1>10. Store(i, y) \/ Store(i, z)
  BY <1>3, <1>4 DEF y, z
<1> QED BY <1>5, <1>6, <1>7, <1>8, <1>9, <1>10, HandledBooked DEF BookInv

LEMMA EngineStepBooked ==
  ASSUME BookInv, ~ DiskMayFail, EngineStep
  PROVE  StillBooked
<1>0. /\ TypeOK /\ AllBooked
      /\ \A i \in Intents : CellOf(i) \in Cell /\ CellBooked(CellOf(i)) /\ ~ CellOf(i).threw
  BY CellOfType DEF BookInv, AuditInv, AllBooked, CellOf
<1>1. ASSUME NEW i \in Intents, SubmitRefused(i) PROVE StillBooked
  <2>1. Store(i, Registered(i, TRUE)) /\ call[i] = "approved"
    BY <1>1, DiskWorks DEF SubmitRefused
  <2> QED BY <1>0, <2>1, RegisteredBooked, HandledBooked
<1>2. ASSUME NEW i \in Intents, Submit(i) PROVE StillBooked
  <2>1. Submission(i, Registered(i, TRUE)) /\ call[i] = "approved"
    BY <1>2, DiskWorks DEF Submit
  <2> QED BY <2>1, RegisteredBooked, SubmissionBooked
<1>3. ASSUME NEW i \in Intents, Resubmit(i) PROVE StillBooked
  <2>1. Submission(i, CellOf(i)) /\ CellOf(i).ord.status = "RISK_APPROVED"
    BY <1>3 DEF Resubmit, CellOf
  <2>2. CellOf(i).booked \in 0 .. Qty
    BY <1>0 DEF Cell
  <2>3. Books(CellOf(i), CellOf(i))
    BY <1>0, <2>2, EngineAssumption DEF Books, EngineAssumption
  <2> QED BY <1>0, <2>1, <2>3, SubmissionBooked
<1>4. ASSUME NEW i \in Intents, PlacementAnswered(i) PROVE StillBooked
  <2>1. PICK w \in Luck : Store(i, Unresolved(ApplyBrokerUpdate(CellOf(i), reply[i], w), TRUE))
    BY <1>4, DiskWorks DEF PlacementAnswered
  <2> DEFINE x == ApplyBrokerUpdate(CellOf(i), reply[i], w)
  <2>2. /\ reply[i] \in View /\ ViewTrue(reply[i], venue[i]) /\ Told(i) /\ ViewFull(reply[i])
        /\ CellOf(i).ord = mem[i]
    BY DEF BookInv, TruthInv, OrderTrue, TypeOK, EngineTypeOK, AllTold, Told, CellOf
  <2>3. mem[i].status # None
    BY <1>4 DEF PlacementAnswered, BookInv, AuditInv, DecisionOK, Untracked
  <2>4. reply[i].status = "FILLED" => mem[i].status # "RISK_APPROVED"
    BY <2>2, NotFilledYet DEF BookInv
  <2>5. Books(CellOf(i), x) /\ x.ord.status # None
    BY <1>0, <2>2, <2>3, <2>4, ApplyBooks
  <2>6. x \in Cell
    BY <1>0, <2>2, ApplyType, EngineAssumption
  <2> HIDE DEF x
  <2>7. Books(x, Unresolved(x, TRUE)) /\ Unresolved(x, TRUE) \in Cell
    BY <2>5, <2>6, CaughtBooks, UnresolvedType DEF Books
  <2>8. Books(CellOf(i), Unresolved(x, TRUE))
    BY <1>0, <2>5, <2>6, <2>7, BooksFurther
  <2>9. Store(i, Unresolved(x, TRUE))
    BY <2>1 DEF x
  <2> QED BY <1>0, <2>7, <2>8, <2>9, HandledBooked
<1>5. ASSUME NEW i \in Intents, PlacementTimesOut(i) PROVE StillBooked
  <2>1. Store(i, Transition(CellOf(i), "UNKNOWN", TRUE))
    BY <1>5, DiskWorks DEF PlacementTimesOut
  <2>2. CellOf(i).ord.status # None
    BY <1>5 DEF PlacementTimesOut, BookInv, AuditInv, DecisionOK, Untracked, CellOf
  <2>3. "UNKNOWN" \in Walk \ Filled
    BY DEF Walk, Filled
  <2>4. /\ Transition(CellOf(i), "UNKNOWN", TRUE) \in Cell
        /\ Books(CellOf(i), Transition(CellOf(i), "UNKNOWN", TRUE))
    BY <1>0, <2>2, <2>3, Words, TransitionType, TransitionBooks
  <2> QED BY <1>0, <2>1, <2>4, HandledBooked
<1>6. ASSUME NEW i \in Intents, CancelConfirmed(i) PROVE StillBooked
  <2> DEFINE y == Transition(CellOf(i), "CANCELLED", TRUE)
             z == [y EXCEPT !.ord.cancel = "over"]
  <2>1. Store(i, z)
    BY <1>6, DiskWorks DEF CancelConfirmed
  <2>2. CellOf(i).ord.status # None
    BY <1>6 DEF CancelConfirmed, BookInv, AuditInv, DecisionOK, Untracked, CellOf, NoOrder
  <2>3. "CANCELLED" \in Walk \ Filled
    BY DEF Walk, Filled, BrokerStatus
  <2>4. y \in Cell /\ Books(CellOf(i), y)
    BY <1>0, <2>2, <2>3, Words, TransitionType, TransitionBooks
  <2> HIDE DEF y
  <2>5. /\ z \in Cell /\ z.log = y.log /\ z.booked = y.booked
        /\ z.ord.status = y.ord.status /\ z.ord.filled = y.ord.filled
    BY <2>4 DEF Cell, Order
  <2>6. Books(CellOf(i), z)
    BY <2>4, <2>5 DEF Books, CellBooked
  <2> HIDE DEF z
  <2> QED BY <1>0, <2>1, <2>5, <2>6, HandledBooked
<1>7. ASSUME NEW i \in Intents,
             \/ Approve(i) \/ HoldExpires(i) \/ PlacementLands(i)
             \/ PlacementLost(i) \/ VenueAnswers(i) \/ VenueRelabels(i) \/ VenueFills(i)
             \/ VenueRefuses(i)
      PROVE  UNCHANGED <<mem, journal, booked>>
  BY <1>7 DEF Approve, HoldExpires, PlacementLands, PlacementLost, VenueAnswers,
       VenueRelabels, VenueFills, VenueRefuses, engineVars
<1>8. ASSUME NEW i \in Intents, TenSecondsPass(i) \/ VenueCancels(i) PROVE StillBooked
  <2>1. UNCHANGED <<journal, booked>>
    BY <1>8 DEF TenSecondsPass, VenueCancels
  <2>2. \/ mem' = [mem EXCEPT ![i] = [@ EXCEPT !.late = TRUE]]
        \/ \E s \in {"acked", "over"} : mem' = [mem EXCEPT ![i] = [@ EXCEPT !.cancel = s]]
    BY <1>8 DEF TenSecondsPass, VenueCancels
  <2>3. \A j \in Intents : mem'[j].status = mem[j].status /\ mem'[j].filled = mem[j].filled
    <3>1. mem[i] \in Order /\ mem \in [Intents -> Order]
      BY <1>0 DEF TypeOK, EngineTypeOK
    <3>2. CASE mem' = [mem EXCEPT ![i] = [@ EXCEPT !.late = TRUE]]
      BY <3>1, <3>2 DEF Order
    <3>3. ASSUME NEW s, mem' = [mem EXCEPT ![i] = [@ EXCEPT !.cancel = s]]
          PROVE  \A j \in Intents : mem'[j].status = mem[j].status /\ mem'[j].filled = mem[j].filled
      BY <3>1, <3>3 DEF Order
    <3> QED BY <2>2, <3>2, <3>3
  <2> QED BY <1>0, <2>1, <2>3, UnhandledBooked
<1>9. ASSUME NEW p \in Pairs, PositionCloses(p) PROVE UNCHANGED <<mem, journal, booked>>
  BY <1>9 DEF PositionCloses, engineVars
<1> QED BY <1>0, <1>1, <1>2, <1>3, <1>4, <1>5, <1>6, <1>7, <1>8, <1>9, UnhandledBooked DEF EngineStep

LEMMA CycleStepBooked ==
  ASSUME BookInv, ~ DiskMayFail, NEW c \in Cycles, CycleStep(c)
  PROVE  StillBooked
<1>0. /\ TypeOK /\ AllBooked
      /\ \A i \in Intents : CellOf(i) \in Cell /\ CellBooked(CellOf(i)) /\ ~ CellOf(i).threw
  BY CellOfType DEF BookInv, AuditInv, AllBooked, CellOf
<1>1. CASE UNCHANGED vars0
  BY <1>0, <1>1, UnhandledBooked DEF vars0, engineVars
<1>2. ASSUME NEW i \in Intents, i \in cycle[c].asked PROVE CellOf(i).ord.status # None
  BY <1>2 DEF BookInv, AuditInv, DecisionOK, Untracked, CellOf
<1>3. ASSUME NEW i \in Intents, AppliesNotFound(c, i), ~ UNCHANGED vars0 PROVE StillBooked
  <2>1. Store(i, Missing(CellOf(i), TRUE, TRUE)) /\ i \in cycle[c].asked
    BY <1>3, DiskWorks DEF AppliesNotFound
  <2>2. /\ Missing(CellOf(i), TRUE, TRUE) \in Cell
        /\ Books(CellOf(i), Missing(CellOf(i), TRUE, TRUE))
    BY <1>0, <1>2, <2>1, MissingType, MissingBooks
  <2> QED BY <1>0, <2>1, <2>2, HandledBooked
<1>4. ASSUME NEW i \in Intents, AppliesFound(c, i) PROVE StillBooked
  <2> DEFINE u == cycle[c].answer.order
             live == HasPosition(c, i)
  <2>1. PICK w \in Luck : Store(i, Lifted(Folded(CellOf(i), u, w), u, live, TRUE))
    BY <1>4, DiskWorks DEF AppliesFound
  <2>2. u \in View /\ live \in BOOLEAN /\ i \in cycle[c].asked
    BY <1>0, <1>4 DEF TypeOK, CycleState, Answer, HasPosition, AppliesFound
  <2>3. ViewTrue(u, venue[i]) /\ ViewFull(u) /\ Told(i)
    BY <2>2 DEF BookInv, TruthInv, OrderTrue, AnswersTrue, AllTold, Told
  <2> HIDE DEF u, live
  <2>4. u.status = "FILLED" => CellOf(i).ord.status # "RISK_APPROVED"
    BY <2>2, <2>3, NotFilledYet DEF BookInv, CellOf
  <2> DEFINE y == Lifted(Folded(CellOf(i), u, w), u, live, TRUE)
  <2>5. y \in Cell /\ Books(CellOf(i), y)
    BY <1>0, <1>2, <2>2, <2>3, <2>4, FoundType, FoundBooks, EngineAssumption
  <2> HIDE DEF y
  <2>6. Store(i, y)
    BY <2>1 DEF y
  <2> QED BY <1>0, <2>5, <2>6, HandledBooked
<1>5. \/ UNCHANGED vars0
      \/ \E i \in Intents : AppliesNotFound(c, i) \/ AppliesFound(c, i)
  BY DEF CycleStep, CycleBegins, CyclePositions, CycleEnds, CycleLooksUp, LookupFails
<1> QED BY <1>1, <1>3, <1>4, <1>5

\* The log gives back what was booked, and a status no better than it had.
LEMMA RestartBooked ==
  ASSUME BookInv, Restart
  PROVE  StillBooked
<1>1. /\ UNCHANGED journal
      /\ mem' = [i \in Intents |-> Hydrated(journal[i])]
      /\ booked' = [i \in Intents |-> journal[i].booked]
  BY DEF Restart, Crash
<1>2. ASSUME NEW i \in Intents
      PROVE  CellBooked(CellOf(i))' /\ booked'[i] >= booked[i]
  <2>1. CellBooked(CellOf(i)) /\ journal[i].booked = booked[i] /\ booked[i] \in 0 .. Qty
    BY DEF BookInv, AllBooked, CellBooked, CellOf, AuditInv, TypeOK, EngineTypeOK
  <2>2. journal[i].last \in Walk /\ (journal[i].last \in Filled => booked[i] = Qty)
    BY <2>1 DEF CellBooked, CellOf
  <2>3. Revived(journal[i]) \in {None, "RISK_APPROVED", "UNKNOWN", journal[i].last}
    BY DEF Revived
  <2>4. Hydrated(journal[i]).filled = 0 /\ Hydrated(journal[i]).status = Revived(journal[i])
    BY DEF Hydrated, NoOrder
  <2>5. Qty # 0 /\ booked[i] >= booked[i]
    BY <2>1, EngineAssumption DEF EngineAssumption
  <2>6. {None, "RISK_APPROVED", "UNKNOWN"} \subseteq Walk \ Filled
    BY DEF Walk, Filled, None
  <2> QED BY <1>1, <2>1, <2>2, <2>3, <2>4, <2>5, <2>6 DEF CellBooked, CellOf
<1> QED BY <1>2 DEF StillBooked, AllBooked

LEMMA BookInvInit == Init => BookInv
<1> SUFFICES ASSUME Init PROVE AllTold /\ AllBooked
  BY AuditInvInit, TruthInvInit DEF BookInv
<1>1. ASSUME NEW i \in Intents PROVE Told(i) /\ CellBooked(CellOf(i))
  <2>1. /\ mem[i] = NoOrder /\ journal[i] = NoLog /\ booked[i] = 0 /\ venue[i] = Unheard
        /\ reply[i] = NoView /\ wire[i] = "none" /\ \A c \in Cycles : cycle[c].asked = {}
    BY DEF Init, EngineInit, IdleCycle
  <2>2. Qty # 0
    BY EngineAssumption DEF EngineAssumption
  <2> QED BY <2>1, <2>2 DEF Told, Reached, ViewFull, NoView, Unheard, None, CellBooked, CellOf,
            NoOrder, NoLog, Walk, Filled
<1> QED BY <1>1 DEF AllTold, AllBooked

LEMMA BookInvStep ==
  ASSUME BookInv, ~ DiskMayFail, [Next]_vars
  PROVE  BookInv' /\ StillBooked
<1>1. AuditInv' /\ TruthInv'
  BY AuditInvStep, TruthInvStep DEF BookInv
<1>2. AllTold'
  BY <1>1, ToldStep DEF BookInv, AuditInv
<1>3. ASSUME UNCHANGED vars PROVE StillBooked
  BY <1>3, UnhandledBooked DEF vars, vars0, engineVars, BookInv, AuditInv
<1>4. StillBooked
  BY <1>3, EngineStepBooked, CycleStepBooked, RestartBooked DEF Next
<1> QED BY <1>1, <1>2, <1>4 DEF BookInv, StillBooked

\* While appends to the log succeed, an order known to be filled has its whole
\* quantity in the fills ledger, whatever answers overlap and wherever the process
\* dies: the fold that moves the status books the fill, and the log gives both back
\* (execution-engine.ts:202-207, fills-ledger.ts:153-197).
THEOREM FillsAreBooked == ~ DiskMayFail => (Spec => []FilledIsBooked)
<1> SUFFICES ASSUME ~ DiskMayFail PROVE Spec => []FilledIsBooked
  OBVIOUS
<1>1. BookInv /\ [Next]_vars => BookInv'
  BY BookInvStep
<1>2. BookInv => FilledIsBooked
  BY DEF BookInv, AllBooked, CellBooked, CellOf, Filled, FilledIsBooked
<1> QED BY <1>1, <1>2, BookInvInit, PTL DEF Spec

\* Under the same premise nothing takes a booked quantity back, a restart included
\* (fills-ledger.ts:153-164).
THEOREM BookingsStay == ~ DiskMayFail => (Spec => BookingsNeverRegress)
<1> SUFFICES ASSUME ~ DiskMayFail PROVE Spec => BookingsNeverRegress
  OBVIOUS
<1>1. BookInv /\ [Next]_vars => BookInv'
  BY BookInvStep
<1>2. BookInv /\ [Next]_vars => (\A i \in Intents : booked'[i] >= booked[i])
  BY BookInvStep DEF StillBooked
<1> QED BY <1>1, <1>2, BookInvInit, PTL DEF Spec, BookingsNeverRegress

=============================================================================
