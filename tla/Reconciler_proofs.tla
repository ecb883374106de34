-------------------------- MODULE Reconciler_proofs -------------------------
(***************************************************************************)
(* What holds of the engine and the reconciler for every set of decisions, *)
(* pairs and cycles, every quantity and any number of restarts.            *)
(***************************************************************************)
EXTENDS Reconciler, TLAPS

(* The synchronous code, cell by cell. *)

\* A move leaves a well-typed cell, whatever the status asked for.
LEMMA TransitionType ==
  ASSUME NEW x \in Cell, NEW to \in OrderStatus \union {None}, NEW w \in BOOLEAN
  PROVE  Transition(x, to, w) \in Cell
<1>1. x.ord \in Order /\ x.log \in Log
  BY DEF Cell
<1>2. [x.ord EXCEPT !.status = to, !.late = FALSE] \in Order
  BY <1>1 DEF Order
<1>3. [x.log EXCEPT !.last = to, !.acked = x.ord.acked] \in Log
  BY <1>1 DEF Order, Log
<1>4. CASE w
  BY <1>1, <1>2, <1>3, <1>4 DEF Transition, Cell, Throws
<1>5. CASE ~ w
  BY <1>1, <1>2, <1>5 DEF Transition, Cell, Throws
<1> QED BY <1>4, <1>5

LEMMA ApplyType ==
  ASSUME NEW x \in Cell, NEW u \in View, NEW w \in Luck, EngineAssumption
  PROVE  ApplyBrokerUpdate(x, u, w) \in Cell
<1> DEFINE seen  == [x EXCEPT !.ord.acked = TRUE, !.ord.filled = u.filled]
           moved == Transition(seen, u.status, w.move)
<1>1. /\ u.status \in OrderStatus \union {None}
      /\ u.filled \in 0 .. Qty
      /\ w.move \in BOOLEAN /\ w.note \in BOOLEAN /\ w.fill \in BOOLEAN
  BY DEF View, BrokerStatus, OrderStatus, Luck, Writes
<1>2. seen \in Cell
  BY <1>1 DEF Cell, Order
<1>3. moved \in Cell
  BY <1>1, <1>2, TransitionType
<1>4. EnforceSlippage(moved, w) \in Cell
  <2> HIDE DEF moved
  <2> QED BY <1>1, <1>3 DEF EnforceSlippage, CancelRemainder, Cell, Order
<1>5. ASSUME NEW y \in Cell PROVE RecordFill(y, w) \in Cell
  BY <1>1, ZenonT(60) DEF RecordFill, Cell, Order, Log
<1> QED
  <2> HIDE DEF moved
  <2>1. RecordFill(EnforceSlippage(moved, w), w) \in Cell
    BY <1>4, <1>5
  <2>2. ApplyBrokerUpdate(x, u, w) \in {moved, RecordFill(EnforceSlippage(moved, w), w)}
    BY DEF ApplyBrokerUpdate, moved
  <2> QED BY <1>3, <2>1, <2>2

\* A registered, folded, missing or found order is a cell again.
LEMMA CellOfType ==
  ASSUME TypeOK, NEW i \in Intents
  PROVE  CellOf(i) \in Cell
BY DEF TypeOK, EngineTypeOK, CellOf, Cell

LEMMA RegisteredType ==
  ASSUME TypeOK, EngineAssumption, NEW i \in Intents, NEW w \in BOOLEAN
  PROVE  Registered(i, w) \in Cell
<1>1. NoOrder \in Order /\ "RISK_APPROVED" \in OrderStatus
  BY DEF NoOrder, Order, OrderStatus, EngineAssumption
<1>2. [NoOrder EXCEPT !.status = "RISK_APPROVED"] \in Order
  BY <1>1 DEF Order
<1> QED BY <1>2, CellOfType, ZenonT(60) DEF Registered, Cell, Log, Throws

LEMMA UnresolvedType ==
  ASSUME NEW x \in Cell, NEW w \in BOOLEAN
  PROVE  Unresolved(x, w) \in Cell
<1>1. [x EXCEPT !.threw = FALSE] \in Cell /\ "UNKNOWN" \in OrderStatus \union {None}
  BY DEF Cell, OrderStatus
<1> QED BY <1>1, TransitionType DEF Unresolved

LEMMA MissingType ==
  ASSUME NEW x \in Cell, NEW w \in BOOLEAN, NEW w2 \in BOOLEAN
  PROVE  Missing(x, w, w2) \in Cell
<1>1. {"UNKNOWN", "CANCELLED"} \subseteq OrderStatus \union {None}
  BY DEF OrderStatus
<1> QED BY <1>1, TransitionType DEF Missing

LEMMA FoundType ==
  ASSUME EngineAssumption, NEW x \in Cell, NEW u \in View, NEW w \in Luck,
         NEW w2 \in BOOLEAN, NEW live \in BOOLEAN
  PROVE  /\ Folded(x, u, w) \in Cell
         /\ Lifted(Folded(x, u, w), u, live, w2) \in Cell
<1>1. "POSITION_OPEN" \in OrderStatus \union {None}
  BY DEF OrderStatus
<1>2. Folded(x, u, w) \in Cell
  BY ApplyType DEF Folded
<1> QED BY <1>1, <1>2, TransitionType DEF Lifted

\* What a restart revives has the type of an order.
LEMMA HydratedType ==
  ASSUME EngineAssumption, NEW log \in Log
  PROVE  Hydrated(log) \in Order
<1>1. Revived(log) \in OrderStatus \union {None}
  BY DEF Revived, Log, OrderStatus
<1>2. NoOrder \in Order
  BY DEF NoOrder, Order, EngineAssumption
<1> QED BY <1>1, <1>2 DEF Hydrated, Order, Log

\* Storing a cell keeps the three maps typed.
LEMMA StoreType ==
  ASSUME TypeOK, NEW i \in Intents, NEW y \in Cell, Store(i, y)
  PROVE  /\ mem' \in [Intents -> Order]
         /\ journal' \in [Intents -> Log]
         /\ booked' \in [Intents -> 0 .. Qty]
BY DEF TypeOK, EngineTypeOK, Store, Cell

LEMMA ChanceType == Writes \subseteq BOOLEAN /\ Luck \subseteq [move: BOOLEAN, breach: BOOLEAN, note: BOOLEAN, fill: BOOLEAN]
BY DEF Writes, Luck

LEMMA HoldTypes ==
  ASSUME NEW h \in HoldState, NEW x \in Cell
  PROVE  /\ Settled(h, x) \in HoldState
         /\ Retired(h, "RELEASED") \in HoldState
         /\ Retired(h, "COMMITTED") \in HoldState
BY DEF Settled, Retired, HoldState

-----------------------------------------------------------------------------
(* Type correctness of every action. *)

LEMMA SubmissionType ==
  ASSUME TypeOK, EngineAssumption, NEW i \in Intents, NEW x \in Cell, Submission(i, x),
         UNCHANGED <<venueVars, crashes, cycle>>
  PROVE  TypeOK'
<1>1. [x EXCEPT !.ord.contract = TRUE] \in Cell /\ "SUBMITTING" \in OrderStatus \union {None}
  BY DEF Cell, Order, OrderStatus
<1>2. PICK w \in Writes, sub \in Writes :
        LET y == Transition([x EXCEPT !.ord.contract = TRUE], "SUBMITTING", w) IN
        IF y.threw
        THEN /\ Store(i, y)
             /\ hold' = [hold EXCEPT ![i] = Settled(@, y)]
             /\ call' = [call EXCEPT ![i] = "done"]
             /\ UNCHANGED <<wire, reply, placed>>
        ELSE /\ Store(i, [y EXCEPT !.log.submitted = sub])
             /\ call' = [call EXCEPT ![i] = "waiting"]
             /\ wire' = [wire EXCEPT ![i] = "sent"]
             /\ reply' = [reply EXCEPT ![i] = NoView]
             /\ placed' = [placed EXCEPT ![i] = @ + 1]
             /\ UNCHANGED hold
  BY DEF Submission
<1> DEFINE y == Transition([x EXCEPT !.ord.contract = TRUE], "SUBMITTING", w)
<1>3. y \in Cell
  BY <1>1, ChanceType, TransitionType
<1>4. [y EXCEPT !.log.submitted = sub] \in Cell
  BY <1>3, ChanceType DEF Cell, Log
<1>5. NoView \in View
  BY DEF NoView, View, EngineAssumption
<1> HIDE DEF y
<1>6. CASE y.threw
  <2>1. Store(i, y) /\ hold' = [hold EXCEPT ![i] = Settled(@, y)]
    BY <1>2, <1>6 DEF y
  <2>2. hold' \in [Intents -> HoldState]
    BY <2>1, <1>3, HoldTypes DEF TypeOK, EngineTypeOK
  <2>3. /\ call' = [call EXCEPT ![i] = "done"]
        /\ UNCHANGED <<wire, reply, placed>>
    BY <1>2, <1>6 DEF y
  <2>4. /\ mem' \in [Intents -> Order] /\ journal' \in [Intents -> Log]
        /\ booked' \in [Intents -> 0 .. Qty]
    BY <2>1, <1>3, StoreType
  <2> QED BY <2>2, <2>3, <2>4 DEF TypeOK, EngineTypeOK, venueVars
<1>7. CASE ~ y.threw
  <2>1. Store(i, [y EXCEPT !.log.submitted = sub])
    BY <1>2, <1>7 DEF y
  <2>2. /\ mem' \in [Intents -> Order] /\ journal' \in [Intents -> Log]
        /\ booked' \in [Intents -> 0 .. Qty]
    BY <2>1, <1>4, StoreType
  <2>3. /\ call' = [call EXCEPT ![i] = "waiting"]
        /\ wire' = [wire EXCEPT ![i] = "sent"]
        /\ reply' = [reply EXCEPT ![i] = NoView]
        /\ placed' = [placed EXCEPT ![i] = @ + 1]
        /\ UNCHANGED hold
    BY <1>2, <1>7 DEF y
  <2> QED BY <2>2, <2>3, <1>5 DEF TypeOK, EngineTypeOK, venueVars
<1> QED BY <1>6, <1>7

LEMMA EngineStepType ==
  ASSUME TypeOK, EngineAssumption, EngineStep, UNCHANGED cycle
  PROVE  TypeOK'
<1> USE DEF venueVars, engineVars
<1>1. ASSUME NEW i \in Intents, Approve(i) PROVE TypeOK'
  BY <1>1 DEF Approve, TypeOK, EngineTypeOK, HoldState
<1>2. ASSUME NEW i \in Intents, HoldExpires(i) PROVE TypeOK'
  BY <1>2 DEF HoldExpires, TypeOK, EngineTypeOK, HoldState
<1>3. ASSUME NEW i \in Intents, SubmitRefused(i) PROVE TypeOK'
  <2>1. PICK w \in Writes : Store(i, Registered(i, w))
    BY <1>3 DEF SubmitRefused
  <2>2. /\ mem' \in [Intents -> Order] /\ journal' \in [Intents -> Log]
        /\ booked' \in [Intents -> 0 .. Qty]
    BY <2>1, ChanceType, RegisteredType, StoreType
  <2>3. hold' \in [Intents -> HoldState]
    BY <1>3 DEF SubmitRefused, TypeOK, EngineTypeOK, HoldState, Retired
  <2> QED BY <1>3, <2>2, <2>3 DEF SubmitRefused, TypeOK, EngineTypeOK
<1>4. ASSUME NEW i \in Intents, Submit(i) PROVE TypeOK'
  <2>1. PICK w \in Writes : Submission(i, Registered(i, w))
    BY <1>4 DEF Submit
  <2> QED BY <1>4, <2>1, ChanceType, RegisteredType, SubmissionType DEF Submit
<1>5. ASSUME NEW i \in Intents, Resubmit(i) PROVE TypeOK'
  BY <1>5, CellOfType, SubmissionType DEF Resubmit
<1>6. ASSUME NEW i \in Intents, PlacementAnswered(i) PROVE TypeOK'
  <2>1. PICK w \in Luck, w2 \in Writes :
          LET y == Unresolved(ApplyBrokerUpdate(CellOf(i), reply[i], w), w2) IN
          /\ Store(i, y)
          /\ hold' = [hold EXCEPT ![i] = Settled(@, y)]
    BY <1>6 DEF PlacementAnswered
  <2> DEFINE y == Unresolved(ApplyBrokerUpdate(CellOf(i), reply[i], w), w2)
  <2>2. y \in Cell
    <3>1. reply[i] \in View
      BY DEF TypeOK, EngineTypeOK
    <3> QED BY <3>1, CellOfType, ApplyType, UnresolvedType, ChanceType
  <2> HIDE DEF y
  <2>3. Store(i, y) /\ hold' = [hold EXCEPT ![i] = Settled(@, y)]
    BY <2>1 DEF y
  <2>4. /\ mem' \in [Intents -> Order] /\ journal' \in [Intents -> Log]
        /\ booked' \in [Intents -> 0 .. Qty]
    BY <2>2, <2>3, StoreType
  <2>5. hold' \in [Intents -> HoldState]
    BY <2>2, <2>3, HoldTypes DEF TypeOK, EngineTypeOK
  <2> QED BY <1>6, <2>4, <2>5 DEF PlacementAnswered, TypeOK, EngineTypeOK
<1>7. ASSUME NEW i \in Intents, PlacementTimesOut(i) PROVE TypeOK'
  <2>1. PICK w \in Writes :
          LET y == Transition(CellOf(i), "UNKNOWN", w) IN
          /\ Store(i, y)
          /\ hold' = [hold EXCEPT ![i] = Settled(@, y)]
    BY <1>7 DEF PlacementTimesOut
  <2> DEFINE y == Transition(CellOf(i), "UNKNOWN", w)
  <2>2. y \in Cell
    <3>1. "UNKNOWN" \in OrderStatus \union {None}
      BY DEF OrderStatus
    <3> QED BY <3>1, CellOfType, TransitionType, ChanceType
  <2> HIDE DEF y
  <2>3. Store(i, y) /\ hold' = [hold EXCEPT ![i] = Settled(@, y)]
    BY <2>1 DEF y
  <2>4. /\ mem' \in [Intents -> Order] /\ journal' \in [Intents -> Log]
        /\ booked' \in [Intents -> 0 .. Qty]
    BY <2>2, <2>3, StoreType
  <2>5. hold' \in [Intents -> HoldState]
    BY <2>2, <2>3, HoldTypes DEF TypeOK, EngineTypeOK
  <2> QED BY <1>7, <2>4, <2>5 DEF PlacementTimesOut, TypeOK, EngineTypeOK
<1>8. ASSUME NEW i \in Intents, CancelConfirmed(i) PROVE TypeOK'
  <2>1. PICK w \in Writes :
          Store(i, [Transition(CellOf(i), "CANCELLED", w) EXCEPT !.ord.cancel = "over"])
    BY <1>8 DEF CancelConfirmed
  <2>2. Transition(CellOf(i), "CANCELLED", w) \in Cell
    <3>1. "CANCELLED" \in OrderStatus \union {None}
      BY DEF OrderStatus
    <3> QED BY <3>1, CellOfType, TransitionType, ChanceType
  <2>3. [Transition(CellOf(i), "CANCELLED", w) EXCEPT !.ord.cancel = "over"] \in Cell
    BY <2>2 DEF Cell, Order
  <2>4. /\ mem' \in [Intents -> Order] /\ journal' \in [Intents -> Log]
        /\ booked' \in [Intents -> 0 .. Qty]
    BY <2>1, <2>3, StoreType
  <2> QED BY <1>8, <2>4 DEF CancelConfirmed, TypeOK, EngineTypeOK
<1>9. ASSUME NEW i \in Intents, TenSecondsPass(i) PROVE TypeOK'
  <2>1. [mem[i] EXCEPT !.late = TRUE] \in Order
    <3>1. mem[i] \in Order
      BY DEF TypeOK, EngineTypeOK
    <3> QED BY <3>1 DEF Order
  <2> QED BY <1>9, <2>1 DEF TenSecondsPass, TypeOK, EngineTypeOK
<1>10. ASSUME NEW i \in Intents, PlacementLands(i) PROVE TypeOK'
  <2>1. venue' \in [Intents -> VenueOrder]
    BY <1>10, SMTT(60) DEF PlacementLands, TypeOK, EngineTypeOK, VenueOrder, RawStatus
  <2> QED BY <1>10, <2>1 DEF PlacementLands, TypeOK, EngineTypeOK
<1>11. ASSUME NEW i \in Intents, PlacementLost(i) PROVE TypeOK'
  BY <1>11 DEF PlacementLost, TypeOK, EngineTypeOK
<1>12. ASSUME NEW i \in Intents, VenueAnswers(i) PROVE TypeOK'
  <2>1. ToBrokerOrder(venue[i]) \in View
    BY DEF TypeOK, EngineTypeOK, VenueOrder, ToBrokerOrder, MapStatus, View, BrokerStatus
  <2> QED BY <1>12, <2>1 DEF VenueAnswers, TypeOK, EngineTypeOK
<1>13. ASSUME NEW i \in Intents, VenueRelabels(i) PROVE TypeOK'
  <2>1. venue' \in [Intents -> VenueOrder]
    BY <1>13 DEF VenueRelabels, TypeOK, EngineTypeOK, VenueOrder, RawStatus
  <2> QED BY <1>13, <2>1 DEF VenueRelabels, TypeOK, EngineTypeOK
<1>14. ASSUME NEW i \in Intents, VenueFills(i) PROVE TypeOK'
  <2>1. /\ venue[i].filled + 1 \in 0 .. Qty
        /\ PairOf[i] \in Pairs
    BY <1>14 DEF VenueFills, TypeOK, EngineTypeOK, VenueOrder, EngineAssumption
  <2>2. venue' \in [Intents -> VenueOrder]
    BY <1>14, <2>1 DEF VenueFills, TypeOK, EngineTypeOK, VenueOrder, RawStatus
  <2> QED BY <1>14, <2>1, <2>2 DEF VenueFills, TypeOK, EngineTypeOK
<1>15. ASSUME NEW i \in Intents, VenueRefuses(i) PROVE TypeOK'
  <2>1. venue' \in [Intents -> VenueOrder]
    BY <1>15 DEF VenueRefuses, TypeOK, EngineTypeOK, VenueOrder, RawStatus, EngineAssumption
  <2> QED BY <1>15, <2>1 DEF VenueRefuses, TypeOK, EngineTypeOK
<1>16. ASSUME NEW i \in Intents, VenueCancels(i) PROVE TypeOK'
  <2>1. venue' \in [Intents -> VenueOrder]
    BY <1>16, SMTT(60) DEF VenueCancels, TypeOK, EngineTypeOK, VenueOrder, RawStatus
  <2>2. mem' \in [Intents -> Order]
    <3>1. \A s \in {"acked", "over"} : [mem[i] EXCEPT !.cancel = s] \in Order
      BY DEF TypeOK, EngineTypeOK, Order
    <3> QED BY <1>16, <3>1 DEF VenueCancels, TypeOK, EngineTypeOK
  <2> QED BY <1>16, <2>1, <2>2 DEF VenueCancels, TypeOK, EngineTypeOK
<1>17. ASSUME NEW p \in Pairs, PositionCloses(p) PROVE TypeOK'
  BY <1>17 DEF PositionCloses, TypeOK, EngineTypeOK
<1> QED
  BY <1>1, <1>2, <1>3, <1>4, <1>5, <1>6, <1>7, <1>8, <1>9, <1>10, <1>11, <1>12,
     <1>13, <1>14, <1>15, <1>16, <1>17 DEF EngineStep

LEMMA CycleStepType ==
  ASSUME TypeOK, EngineAssumption, NEW c \in Cycles, CycleStep(c)
  PROVE  TypeOK'
<1> USE DEF vars0, venueVars, engineVars
<1>1. cycle[c] \in CycleState /\ IdleCycle \in CycleState
  BY DEF TypeOK, IdleCycle, NoAnswer, NoView, CycleState, Answer, View, EngineAssumption
<1>2. CASE CycleBegins(c)
  <2>1. [IdleCycle EXCEPT !.pc = "positions", !.todo = Open] \in CycleState
    BY <1>1 DEF CycleState, Open
  <2> QED BY <1>2, <2>1 DEF CycleBegins, TypeOK, EngineTypeOK
<1>3. CASE CyclePositions(c)
  <2>1. PICK ok \in BOOLEAN :
          cycle' = [cycle EXCEPT ![c] =
            [@ EXCEPT !.pc = "loop", !.evidence = ok, !.held = IF ok THEN position ELSE {}]]
    BY <1>3, ZenonT(60) DEF CyclePositions
  <2>2. [cycle[c] EXCEPT !.pc = "loop", !.evidence = ok,
                         !.held = IF ok THEN position ELSE {}] \in CycleState
    BY <1>1 DEF CycleState, TypeOK, EngineTypeOK
  <2> QED BY <1>3, <2>1, <2>2 DEF CyclePositions, TypeOK, EngineTypeOK
<1>4. CASE CycleEnds(c)
  BY <1>1, <1>4 DEF CycleEnds, TypeOK, EngineTypeOK
<1>5. ASSUME NEW i \in Intents, CycleLooksUp(c, i) PROVE TypeOK'
  <2>1. Truth(i) \in Answer
    BY DEF Truth, Answer, View, NoView, ToBrokerOrder, MapStatus, BrokerStatus,
           TypeOK, EngineTypeOK, VenueOrder, EngineAssumption
  <2>2. [cycle[c] EXCEPT !.pc = "answered", !.todo = @ \ {i}, !.asked = {i},
                         !.answer = Truth(i)] \in CycleState
    BY <1>1, <2>1 DEF CycleState
  <2>3. cycle' \in [Cycles -> CycleState]
    BY <1>5, <2>2 DEF CycleLooksUp, TypeOK
  <2> QED BY <1>5, <2>3 DEF CycleLooksUp, TypeOK, EngineTypeOK
<1>6. ASSUME NEW i \in Intents, LookupFails(c, i) PROVE TypeOK'
  <2>1. [cycle[c] EXCEPT !.todo = @ \ {i}] \in CycleState
    BY <1>1 DEF CycleState
  <2> QED BY <1>6, <2>1 DEF LookupFails, TypeOK, EngineTypeOK
<1>7. Done(c) => cycle' \in [Cycles -> CycleState]
  <2>1. [cycle[c] EXCEPT !.pc = "loop", !.asked = {}, !.answer = NoAnswer] \in CycleState
    BY <1>1 DEF CycleState, NoAnswer, IdleCycle
  <2> QED BY <2>1 DEF Done, TypeOK
<1>8. ASSUME NEW i \in Intents, AppliesNotFound(c, i) PROVE TypeOK'
  <2>1. CASE UNCHANGED vars0
    BY <1>7, <1>8, <2>1 DEF AppliesNotFound, TypeOK, EngineTypeOK
  <2>2. CASE ~ HeldAsMissing(c, i)
    <3>1. PICK w \in Writes, w2 \in Writes :
            LET y == Missing(CellOf(i), w, w2)
                repaired == /\ ~ y.threw
                            /\ mem[i].status # "CANCELLED" /\ y.ord.status = "CANCELLED"
            IN  /\ Store(i, y)
                /\ hold' = [hold EXCEPT ![i] = IF repaired THEN Retired(@, "RELEASED") ELSE @]
      BY <1>8, <2>2 DEF AppliesNotFound
    <3>2. Missing(CellOf(i), w, w2) \in Cell
      BY ChanceType, CellOfType, MissingType
    <3>3. /\ mem' \in [Intents -> Order] /\ journal' \in [Intents -> Log]
          /\ booked' \in [Intents -> 0 .. Qty]
      BY <3>1, <3>2, StoreType
    <3>4. hold' \in [Intents -> HoldState]
      BY <3>1 DEF TypeOK, EngineTypeOK, Retired, HoldState
    <3>5. cycle' \in [Cycles -> CycleState]
      BY <1>7, <1>8 DEF AppliesNotFound
    <3>6. UNCHANGED <<call, wire, reply, venueVars, placed, crashes>>
      BY <1>8, <2>2 DEF AppliesNotFound
    <3> QED BY <3>3, <3>4, <3>5, <3>6 DEF TypeOK, EngineTypeOK
  <2> QED BY <1>8, <2>1, <2>2 DEF AppliesNotFound
<1>9. ASSUME NEW i \in Intents, AppliesFound(c, i) PROVE TypeOK'
  <2> DEFINE u == cycle[c].answer.order
             live == HasPosition(c, i)
  <2>1. PICK w \in Luck, w2 \in Writes :
          LET y == Folded(CellOf(i), u, w)
              filled == ~ y.threw /\ (u.status = "FILLED" \/ y.ord.status = "POSITION_OPEN")
          IN  /\ Store(i, Lifted(y, u, live, w2))
              /\ hold' = [hold EXCEPT ![i] = IF filled THEN Retired(@, "COMMITTED") ELSE @]
    BY <1>9 DEF AppliesFound
  <2>2. u \in View
    BY <1>1 DEF CycleState, Answer
  <2>3. Lifted(Folded(CellOf(i), u, w), u, live, w2) \in Cell
    <3>1. live \in BOOLEAN
      BY <1>1 DEF HasPosition, CycleState
    <3> HIDE DEF u, live
    <3> QED BY <2>2, <3>1, ChanceType, CellOfType, FoundType
  <2>4. /\ mem' \in [Intents -> Order] /\ journal' \in [Intents -> Log]
        /\ booked' \in [Intents -> 0 .. Qty]
    BY <2>1, <2>3, StoreType
  <2>5. hold' \in [Intents -> HoldState]
    BY <2>1 DEF TypeOK, EngineTypeOK, Retired, HoldState
  <2> QED BY <1>7, <1>9, <2>4, <2>5 DEF AppliesFound, TypeOK, EngineTypeOK
<1> QED BY <1>2, <1>3, <1>4, <1>5, <1>6, <1>8, <1>9 DEF CycleStep

LEMMA RestartType ==
  ASSUME TypeOK, EngineAssumption, Restart
  PROVE  TypeOK'
<1>1. mem' \in [Intents -> Order] /\ booked' \in [Intents -> 0 .. Qty]
  BY HydratedType DEF Restart, Crash, TypeOK, EngineTypeOK, Log
<1>2. IdleCycle \in CycleState
  BY DEF IdleCycle, NoAnswer, NoView, CycleState, Answer, View, EngineAssumption
<1> QED
  BY <1>1, <1>2 DEF Restart, Crash, TypeOK, EngineTypeOK, venueVars, HoldState,
                    EngineAssumption

\* Every reachable state is well typed, for any decisions, quantities, cycles and
\* number of restarts.
THEOREM TypeCorrect == Spec => []TypeOK
<1>1. Init => TypeOK
  BY EngineAssumption
  DEF Init, EngineInit, TypeOK, EngineTypeOK, EngineAssumption, NoOrder, Order, NoLog, Log,
      HoldState, NoView, View, Unheard, VenueOrder, IdleCycle, NoAnswer, CycleState, Answer
<1>2. TypeOK /\ [Next]_vars => TypeOK'
  <2> SUFFICES ASSUME TypeOK, [Next]_vars PROVE TypeOK'
    OBVIOUS
  <2>1. CASE EngineStep /\ UNCHANGED cycle
    BY <2>1, EngineAssumption, EngineStepType
  <2>2. CASE \E c \in Cycles : CycleStep(c)
    BY <2>2, EngineAssumption, CycleStepType
  <2>3. CASE Restart
    BY <2>3, EngineAssumption, RestartType
  <2>4. CASE UNCHANGED vars
    BY <2>4 DEF vars, vars0, engineVars, venueVars, TypeOK, EngineTypeOK
  <2> QED BY <2>1, <2>2, <2>3, <2>4 DEF Next
<1> QED BY <1>1, <1>2, PTL DEF Spec

(***************************************************************************)
(* A decision reaches the venue at most once, and the durable log          *)
(* implements OrderAudit, whatever the disk, the network, overlapping      *)
(* cycles, repeated submits and any number of restarts do.                 *)
(***************************************************************************)

(* Cells.  A journal that holds a status was written by a move out of      *)
(* RISK_APPROVED, and a final status in it is final in memory as well.  No *)
(* order of the runtime is an ORDER_INTENT.                                *)
Sound(x) ==
  /\ x.ord.status \notin {None, "ORDER_INTENT"}
  /\ x.log.last \notin {"RISK_APPROVED", "ORDER_INTENT"}
  /\ x.log.last # None => x.ord.status # "RISK_APPROVED"
  /\ x.log.last \in Terminal => x.ord.status \in Terminal

\* What the synchronous code may make of a sound cell x.
Evolves(x, y) ==
  /\ Sound(y)
  /\ x.log.last # None => y.log.last # None
  /\ x.log.last \in Terminal => y.log.last \in Terminal

\* The table of moves: none out of a final status, none into RISK_APPROVED but
\* from an intent, none to anything that is not a status.
LEMMA Moves ==
  ASSUME NEW s \in OrderStatus, NEW t, CanTransition(s, t)
  PROVE  /\ t \in OrderStatus
         /\ s \notin Terminal
         /\ t = "RISK_APPROVED" => s = "ORDER_INTENT"
        /\ t # "ORDER_INTENT"
<1>1. Allowed[s] \subseteq OrderStatus \ {"ORDER_INTENT"}
  BY DEF Allowed, OrderStatus
<1>2. "RISK_APPROVED" \in Allowed[s] => s = "ORDER_INTENT"
  BY DEF Allowed, OrderStatus
<1> QED BY <1>1, <1>2 DEF CanTransition, Terminal

LEMMA Words ==
  /\ None \notin OrderStatus /\ None # "ORDER_INTENT"
  /\ "RISK_APPROVED" \in OrderStatus /\ "RISK_APPROVED" \notin Terminal
  /\ {"UNKNOWN", "CANCELLED", "POSITION_OPEN", "SUBMITTING"}
       \subseteq OrderStatus \ {"RISK_APPROVED", "ORDER_INTENT"}
  /\ BrokerStatus \subseteq OrderStatus \ {"RISK_APPROVED", "ORDER_INTENT"}
  /\ Terminal \subseteq OrderStatus
<1>1. Allowed["RISK_APPROVED"] # {}
  BY DEF Allowed, OrderStatus
<1> QED BY <1>1 DEF None, OrderStatus, Terminal, BrokerStatus

LEMMA TransitionEvolves ==
  ASSUME NEW x \in Cell, Sound(x), NEW w \in BOOLEAN,
         NEW to \in (OrderStatus \ {"RISK_APPROVED"}) \union {None}
  PROVE  Evolves(x, Transition(x, to, w))
<1>1. x.ord \in Order /\ x.log \in Log
  BY DEF Cell
<1>2. x.ord.status \in OrderStatus
  BY <1>1 DEF Order, Sound
<1>3. CASE x.ord.status = to
  BY <1>3 DEF Transition, Evolves
<1>4. CASE x.ord.status # to /\ ~ CanTransition(x.ord.status, to)
  <2>1. /\ Transition(x, to, w).ord = x.ord
        /\ Transition(x, to, w).log = x.log
    BY <1>4 DEF Transition, Cell
  <2> QED BY <2>1 DEF Evolves, Sound
<1>5. CASE x.ord.status # to /\ CanTransition(x.ord.status, to)
  <2>1. /\ to \in OrderStatus /\ to # None /\ to # "ORDER_INTENT"
        /\ x.ord.status \notin Terminal
    BY <1>2, <1>5, Moves, Words
  <2>2. Transition(x, to, w).ord.status = to
    BY <1>1, <1>5 DEF Transition, Cell, Order
  <2>3. Transition(x, to, w).log.last \in {to, x.log.last}
    BY <1>1, <1>5 DEF Transition, Cell, Log
  <2>4. x.log.last \notin Terminal
    BY <2>1 DEF Sound
  <2> QED BY <2>1, <2>2, <2>3, <2>4, Words DEF Evolves, Sound
<1> QED BY <1>3, <1>4, <1>5

\* Two cells with the same status and the same journal are the same to these facts.
LEMMA SameStatus ==
  ASSUME NEW x, NEW y, NEW z, Evolves(x, y),
         z.ord.status = y.ord.status, z.log.last = y.log.last
  PROVE  Evolves(x, z)
BY DEF Evolves, Sound

LEMMA EvolvesFurther ==
  ASSUME NEW x, NEW y, NEW z, Evolves(x, y), Evolves(y, z)
  PROVE  Evolves(x, z)
BY DEF Evolves

LEMMA ApplyEvolves ==
  ASSUME EngineAssumption, NEW x \in Cell, Sound(x), NEW u \in View, NEW w \in Luck
  PROVE  Evolves(x, ApplyBrokerUpdate(x, u, w))
<1> DEFINE seen  == [x EXCEPT !.ord.acked = TRUE, !.ord.filled = u.filled]
           moved == Transition(seen, u.status, w.move)
           slipped == EnforceSlippage(moved, w)
           hooked == RecordFill(slipped, w)
<1>1. /\ u.status \in (OrderStatus \ {"RISK_APPROVED"}) \union {None}
      /\ u.status \in OrderStatus \union {None}
      /\ u.filled \in 0 .. Qty
      /\ w.move \in BOOLEAN /\ w.note \in BOOLEAN /\ w.fill \in BOOLEAN
  BY Words DEF View, Luck, Writes
<1>2. seen \in Cell /\ seen.ord.status = x.ord.status /\ seen.log = x.log
  BY <1>1 DEF Cell, Order
<1>3. Sound(seen)
  BY <1>2 DEF Sound
<1>4. moved \in Cell
  BY <1>1, <1>2, TransitionType
<1>5. Evolves(x, moved)
  <2>1. Evolves(seen, moved)
    BY <1>1, <1>2, <1>3, TransitionEvolves
  <2> QED BY <1>2, <2>1 DEF Evolves
<1> HIDE DEF seen, moved
<1>6. /\ slipped \in Cell
      /\ slipped.ord.status = moved.ord.status /\ slipped.log = moved.log
  BY <1>1, <1>4 DEF EnforceSlippage, CancelRemainder, Cell, Order
<1> HIDE DEF slipped
<1>7. hooked.ord = slipped.ord /\ hooked.log.last = slipped.log.last
  BY <1>6 DEF RecordFill, Cell, Log
<1>8. Evolves(x, hooked)
  BY <1>5, <1>6, <1>7, SameStatus
<1>9. ApplyBrokerUpdate(x, u, w) \in {moved, hooked}
  BY DEF ApplyBrokerUpdate, moved, seen, hooked, slipped
<1> QED BY <1>5, <1>8, <1>9

LEMMA SelfEvolves ==
  ASSUME NEW x, Sound(x)
  PROVE  Evolves(x, x)
BY DEF Evolves

LEMMA UnresolvedEvolves ==
  ASSUME NEW x \in Cell, Sound(x), NEW w \in BOOLEAN
  PROVE  Evolves(x, Unresolved(x, w))
<1> DEFINE caught == [x EXCEPT !.threw = FALSE]
<1>1. caught \in Cell /\ caught.ord = x.ord /\ caught.log = x.log
  BY DEF Cell
<1>2. Sound(caught)
  BY <1>1 DEF Sound
<1> HIDE DEF caught
<1>3. Evolves(caught, Transition(caught, "UNKNOWN", w))
  BY <1>1, <1>2, Words, TransitionEvolves
<1>4. Evolves(x, Transition(caught, "UNKNOWN", w))
  BY <1>1, <1>3 DEF Evolves
<1> QED BY <1>4, SelfEvolves DEF Unresolved, caught

LEMMA MissingEvolves ==
  ASSUME NEW x \in Cell, Sound(x), NEW w \in BOOLEAN, NEW w2 \in BOOLEAN
  PROVE  Evolves(x, Missing(x, w, w2))
<1> DEFINE y == IF x.ord.status = "SUBMITTING" THEN Transition(x, "UNKNOWN", w) ELSE x
<1>1. Evolves(x, y)
  BY Words, SelfEvolves, TransitionEvolves
<1>2. y \in Cell
  BY Words, TransitionType
<1>3. Sound(y)
  BY <1>1 DEF Evolves
<1> HIDE DEF y
<1>4. Evolves(y, Transition(y, "CANCELLED", w2))
  BY <1>2, <1>3, Words, TransitionEvolves
<1>5. Evolves(x, Transition(y, "CANCELLED", w2))
  BY <1>1, <1>4, EvolvesFurther
<1>6. Missing(x, w, w2) \in {y, Transition(y, "CANCELLED", w2)}
  BY DEF Missing, y
<1> QED BY <1>1, <1>5, <1>6

LEMMA FoundEvolves ==
  ASSUME EngineAssumption, NEW x \in Cell, Sound(x), NEW u \in View, NEW w \in Luck,
         NEW w2 \in BOOLEAN, NEW live \in BOOLEAN
  PROVE  Evolves(x, Lifted(Folded(x, u, w), u, live, w2))
<1> DEFINE y == Folded(x, u, w)
<1>1. Evolves(x, y)
  BY SelfEvolves, ApplyEvolves DEF Folded
<1>2. y \in Cell
  BY FoundType
<1>3. Sound(y)
  BY <1>1 DEF Evolves
<1> HIDE DEF y
<1>4. Evolves(y, Transition(y, "POSITION_OPEN", w2))
  BY <1>2, <1>3, Words, TransitionEvolves
<1>5. Evolves(x, Transition(y, "POSITION_OPEN", w2))
  BY <1>1, <1>4, EvolvesFurther
<1>6. Lifted(y, u, live, w2) \in {y, Transition(y, "POSITION_OPEN", w2)}
  BY DEF Lifted
<1> QED BY <1>1, <1>5, <1>6 DEF y

-----------------------------------------------------------------------------
(* The inductive invariant, one decision at a time. *)

\* A decision whose run has not submitted has left no trace.
Untouched(i) ==
  call[i] \in {"idle", "approved"} =>
    mem[i] = NoOrder /\ journal[i] = NoLog /\ placed[i] = 0

\* An order the engine does not track is waited for by nobody.
Untracked(i) ==
  mem[i].status = None =>
    /\ mem[i] = NoOrder
    /\ call[i] # "waiting"
    /\ \A c \in Cycles : i \notin cycle[c].todo \union cycle[c].asked

\* The journal runs behind the memory, never ahead of it.
Journalled(i) ==
  /\ mem[i].status # "ORDER_INTENT"
  /\ journal[i].last \notin {"RISK_APPROVED", "ORDER_INTENT"}
  /\ journal[i].last # None => mem[i].status # "RISK_APPROVED"
  /\ journal[i].last \in Terminal => mem[i].status \in Terminal \union {None}

\* What was placed was journalled first.
PlacedOnce(i) ==
  /\ placed[i] <= 1
  /\ placed[i] > 0 => journal[i].last # None

DecisionOK(i) == Untouched(i) /\ Untracked(i) /\ Journalled(i) /\ PlacedOnce(i)

AuditInv == TypeOK /\ \A i \in Intents : DecisionOK(i)

\* The step of the abstract log.
AuditStep == [Audit!Next]_(Audit!vars)

LEMMA CellSound ==
  ASSUME AuditInv, NEW i \in Intents, mem[i].status # None
  PROVE  CellOf(i) \in Cell /\ Sound(CellOf(i))
BY CellOfType DEF AuditInv, DecisionOK, Journalled, Sound, CellOf

\* Whoever waits for an order finds it tracked and submitted.
LEMMA Tracked ==
  ASSUME AuditInv, NEW i \in Intents,
         \/ call[i] = "waiting"
         \/ \E c \in Cycles : i \in cycle[c].todo \union cycle[c].asked
  PROVE  mem[i].status # None
BY DEF AuditInv, DecisionOK, Untracked

\* Phases only advance as the cell evolves.
LEMMA PhaseAdvances ==
  ASSUME NEW x, NEW y, Evolves(x, y)
  PROVE  \/ Phase(y.log) = Phase(x.log)
         \/ Phase(x.log) = "open" /\ Phase(y.log) = "committed"
         \/ Phase(x.log) # "settled" /\ Phase(y.log) = "settled"
BY Words DEF Phase, Evolves

\* A change of one log is a step of the abstract one.
LEMMA PhaseStep ==
  ASSUME TypeOK, NEW i \in Intents, NEW l \in Log,
         journal' = [journal EXCEPT ![i] = l],
         UNCHANGED placed,
         \/ Phase(l) = Phase(journal[i])
         \/ Phase(journal[i]) = "open" /\ Phase(l) = "committed"
         \/ Phase(journal[i]) # "settled" /\ Phase(l) = "settled"
  PROVE  AuditStep
<1> DEFINE before == [j \in Intents |-> Phase(journal[j])]
           after  == [j \in Intents |-> Phase(journal'[j])]
<1>1. after = [before EXCEPT ![i] = Phase(l)]
  BY DEF TypeOK, EngineTypeOK
<1>2. before[i] = Phase(journal[i])
  OBVIOUS
<1>3. CASE Phase(l) = Phase(journal[i])
  <2>1. after = before
    BY <1>1, <1>2, <1>3
  <2> QED BY <2>1 DEF AuditStep, Audit!vars
<1>4. CASE Phase(journal[i]) = "open" /\ Phase(l) = "committed"
  <2>1. Audit!Commit(i)
    BY <1>1, <1>2, <1>4 DEF Audit!Commit
  <2> QED BY <2>1 DEF AuditStep, Audit!Next
<1>5. CASE Phase(journal[i]) # "settled" /\ Phase(l) = "settled"
  <2>1. Audit!Settle(i)
    BY <1>1, <1>2, <1>5 DEF Audit!Settle
  <2> QED BY <2>1 DEF AuditStep, Audit!Next
<1> QED BY <1>3, <1>4, <1>5

\* Everything the handlers do to a tracked order keeps the invariant.
LEMMA Handled ==
  ASSUME AuditInv, TypeOK', NEW i \in Intents, mem[i].status # None,
         NEW y \in Cell, Evolves(CellOf(i), y), Store(i, y),
         UNCHANGED placed,
         call' = call \/ call' = [call EXCEPT ![i] = "done"],
         \A c \in Cycles : cycle'[c].todo \union cycle'[c].asked
                             \subseteq cycle[c].todo \union cycle[c].asked
  PROVE  AuditInv' /\ AuditStep
<1>1. /\ mem' = [mem EXCEPT ![i] = y.ord]
      /\ journal' = [journal EXCEPT ![i] = y.log]
  BY DEF Store
<1>2. /\ mem'[i] = y.ord /\ journal'[i] = y.log
      /\ \A j \in Intents \ {i} : mem'[j] = mem[j] /\ journal'[j] = journal[j] /\ call'[j] = call[j]
      /\ call'[i] \in {call[i], "done"}
  BY <1>1 DEF AuditInv, TypeOK, EngineTypeOK
<1>3. DecisionOK(i)'
  <2>1. DecisionOK(i) /\ call[i] \notin {"idle", "approved"}
    BY DEF AuditInv, DecisionOK, Untouched, NoOrder
  <2>2. Sound(y) /\ (journal[i].last # None => y.log.last # None)
    BY DEF Evolves, CellOf
  <2>3. Untouched(i)' /\ Untracked(i)'
    BY <1>2, <2>1, <2>2 DEF Untouched, Untracked, Sound
  <2>4. Journalled(i)'
    BY <1>2, <2>2 DEF Journalled, Sound
  <2>5. PlacedOnce(i)'
    BY <1>2, <2>1, <2>2 DEF DecisionOK, PlacedOnce
  <2> QED BY <2>3, <2>4, <2>5 DEF DecisionOK
<1>4. ASSUME NEW j \in Intents, j # i PROVE DecisionOK(j)'
  BY <1>2, <1>4 DEF AuditInv, DecisionOK, Untouched, Untracked, Journalled, PlacedOnce
<1>5. AuditStep
  <2>1. y.log \in Log /\ CellOf(i).log = journal[i]
    BY DEF Cell, CellOf
  <2>2. \/ Phase(y.log) = Phase(journal[i])
        \/ Phase(journal[i]) = "open" /\ Phase(y.log) = "committed"
        \/ Phase(journal[i]) # "settled" /\ Phase(y.log) = "settled"
    BY <2>1, PhaseAdvances
  <2>3. TypeOK
    BY DEF AuditInv
  <2> QED BY <1>1, <2>1, <2>2, <2>3, PhaseStep
<1> QED BY <1>3, <1>4, <1>5 DEF AuditInv

\* Everything that touches neither memory nor log, nor starts a wait, keeps it too.
LEMMA Unhandled ==
  ASSUME AuditInv, TypeOK', UNCHANGED <<journal, placed>>,
         \A j \in Intents : mem'[j] = mem[j] \/ (mem[j].status # None /\ mem'[j].status = mem[j].status),
         \A j \in Intents : \/ call'[j] = call[j]
                            \/ call[j] = "idle" /\ call'[j] = "approved",
         \A c \in Cycles : \A j \in cycle'[c].todo \union cycle'[c].asked :
            j \in cycle[c].todo \union cycle[c].asked \/ mem[j].status # None
  PROVE  AuditInv' /\ AuditStep
<1>1. ASSUME NEW j \in Intents PROVE DecisionOK(j)'
  <2>0. Untouched(j) /\ NoOrder.status = None
    BY DEF AuditInv, DecisionOK, NoOrder
  <2>1. Untouched(j)'
    BY <2>0 DEF Untouched
  <2>2. Untracked(j)'
    BY DEF AuditInv, DecisionOK, Untracked
  <2>3. Journalled(j)' /\ PlacedOnce(j)'
    BY DEF AuditInv, DecisionOK, Journalled, PlacedOnce
  <2> QED BY <2>1, <2>2, <2>3 DEF DecisionOK
<1> QED BY <1>1 DEF AuditInv, AuditStep, Audit!vars

-----------------------------------------------------------------------------
(* The actions. *)

\* Submission from a cell still RISK_APPROVED with nothing journalled: the request
\* leaves in the step that journals SUBMITTING, or not at all.
LEMMA SubmissionAudited ==
  ASSUME AuditInv, TypeOK', NEW i \in Intents, NEW x \in Cell, Submission(i, x),
         x.ord.status = "RISK_APPROVED", x.log.last = None, journal[i].last = None,
         placed[i] = 0, UNCHANGED cycle,
         \A c \in Cycles : i \in cycle[c].todo \union cycle[c].asked => mem[i].status # None
  PROVE  AuditInv' /\ AuditStep
<1> DEFINE x1 == [x EXCEPT !.ord.contract = TRUE]
<1>1. x1 \in Cell /\ x1.ord.status = "RISK_APPROVED" /\ x1.log = x.log
  BY DEF Cell, Order
<1> HIDE DEF x1
<1>2. PICK w \in Writes, sub \in Writes :
        LET y == Transition(x1, "SUBMITTING", w) IN
        IF y.threw
        THEN /\ Store(i, y)
             /\ hold' = [hold EXCEPT ![i] = Settled(@, y)]
             /\ call' = [call EXCEPT ![i] = "done"]
             /\ UNCHANGED <<wire, reply, placed>>
        ELSE /\ Store(i, [y EXCEPT !.log.submitted = sub])
             /\ call' = [call EXCEPT ![i] = "waiting"]
             /\ wire' = [wire EXCEPT ![i] = "sent"]
             /\ reply' = [reply EXCEPT ![i] = NoView]
             /\ placed' = [placed EXCEPT ![i] = @ + 1]
             /\ UNCHANGED hold
  BY DEF Submission, x1
<1> DEFINE y == Transition(x1, "SUBMITTING", w)
           z == [y EXCEPT !.log.submitted = sub]
<1>3. y \in Cell
  BY <1>1, ChanceType, Words, TransitionType
<1>4. CanTransition("RISK_APPROVED", "SUBMITTING")
  BY DEF CanTransition, Allowed, OrderStatus
<1>5. /\ y.threw <=> ~ w
      /\ y.ord.status = "SUBMITTING"
      /\ y.log.last = IF w THEN "SUBMITTING" ELSE None
  <2>1. x1.ord \in Order /\ x1.log \in Log
    BY <1>1 DEF Cell
  <2>2. w \in BOOLEAN
    BY ChanceType
  <2>3. Transition(x1, "SUBMITTING", w).threw = Throws(w)
    BY <1>1, <1>4 DEF Transition, Cell
  <2>4. Transition(x1, "SUBMITTING", w).ord.status = "SUBMITTING"
    BY <1>1, <1>4, <2>1 DEF Transition, Cell, Order
  <2>5. CASE w
    <3>1. Transition(x1, "SUBMITTING", w).log.last = "SUBMITTING"
      BY <1>1, <1>4, <2>1, <2>5 DEF Transition, Cell, Log
    <3> QED BY <2>3, <2>4, <2>5, <3>1 DEF Throws
  <2>6. CASE ~ w
    <3>1. Transition(x1, "SUBMITTING", w).log = x1.log
      BY <1>1, <1>4, <2>1, <2>6 DEF Transition, Cell, Log
    <3> QED BY <1>1, <2>3, <2>4, <2>6, <3>1 DEF Throws
  <2> QED BY <2>2, <2>5, <2>6
<1>6. z \in Cell /\ z.ord = y.ord /\ z.log.last = y.log.last
  BY <1>3, ChanceType DEF Cell, Log
<1> HIDE DEF y, z
<1>7. ASSUME NEW v \in Cell, v.ord.status = "SUBMITTING", Store(i, v),
             v.log.last \in {None, "SUBMITTING"},
             \/ v.log.last = None /\ UNCHANGED placed
             \/ v.log.last = "SUBMITTING" /\ placed' = [placed EXCEPT ![i] = @ + 1],
             \E c \in {"done", "waiting"} : call' = [call EXCEPT ![i] = c]
      PROVE  AuditInv' /\ AuditStep
  <2>1. /\ mem' = [mem EXCEPT ![i] = v.ord]
        /\ journal' = [journal EXCEPT ![i] = v.log]
    BY <1>7 DEF Store
  <2>2. /\ mem'[i] = v.ord /\ journal'[i] = v.log
        /\ call'[i] \in {"done", "waiting"}
        /\ placed'[i] \in {0, 1}
        /\ placed'[i] = 1 => v.log.last = "SUBMITTING"
    BY <1>7, <2>1 DEF AuditInv, TypeOK, EngineTypeOK
  <2>3. "SUBMITTING" # None /\ "SUBMITTING" \notin Terminal
    <3>1. Allowed["SUBMITTING"] # {}
      BY DEF Allowed, OrderStatus
    <3> QED BY <3>1 DEF None, Terminal
  <2>4. None \notin Terminal /\ None \notin {"RISK_APPROVED", "ORDER_INTENT"}
    BY Words
  <2>5. DecisionOK(i)'
    BY <1>7, <2>2, <2>3, <2>4 DEF DecisionOK, Untouched, Untracked, Journalled, PlacedOnce
  <2>6. ASSUME NEW j \in Intents, j # i PROVE DecisionOK(j)'
    <3>1. mem'[j] = mem[j] /\ journal'[j] = journal[j] /\ call'[j] = call[j] /\ placed'[j] = placed[j]
      BY <1>7, <2>1, <2>6 DEF AuditInv, TypeOK, EngineTypeOK
    <3> QED
      BY <3>1, <2>6 DEF AuditInv, DecisionOK, Untouched, Untracked, Journalled, PlacedOnce
  <2>7. AuditStep
    <3>1. Phase(journal[i]) = "open"
      BY DEF Phase
    <3>2. v.log \in Log /\ TypeOK
      BY <1>7 DEF Cell, AuditInv
    <3>3. CASE v.log.last = None /\ UNCHANGED placed
      <4>1. Phase(v.log) = "open"
        BY <3>3 DEF Phase
      <4> QED BY <2>1, <3>1, <3>2, <3>3, <4>1, PhaseStep
    <3>4. CASE v.log.last = "SUBMITTING" /\ placed' = [placed EXCEPT ![i] = @ + 1]
      <4>1. Phase(v.log) = "committed"
        BY <2>3, <3>4 DEF Phase
      <4> DEFINE before == [j \in Intents |-> Phase(journal[j])]
                 after  == [j \in Intents |-> Phase(journal'[j])]
      <4>2. after = [before EXCEPT ![i] = "committed"]
        BY <2>1, <4>1 DEF AuditInv, TypeOK, EngineTypeOK
      <4>3. before[i] = "open"
        BY <3>1
      <4>4. Audit!Commit(i)
        BY <3>4, <4>2, <4>3 DEF Audit!Commit
      <4> QED BY <4>4 DEF AuditStep, Audit!Next
    <3> QED BY <1>7, <3>3, <3>4
  <2> QED BY <2>5, <2>6, <2>7 DEF AuditInv
<1>8. CASE w
  BY <1>2, <1>5, <1>6, <1>7, <1>8 DEF y, z
<1>9. CASE ~ w
  BY <1>2, <1>3, <1>5, <1>7, <1>9 DEF y
<1> QED BY <1>8, <1>9

\* Registration journals no status.
LEMMA RegisteredFacts ==
  ASSUME TypeOK, NEW i \in Intents, NEW w \in BOOLEAN, journal[i] = NoLog
  PROVE  /\ Registered(i, w) \in Cell
         /\ Registered(i, w).ord.status = "RISK_APPROVED"
         /\ Registered(i, w).log.last = None
<1>1. CellOf(i) \in Cell /\ CellOf(i).log = journal[i]
  BY CellOfType DEF CellOf
<1>2. Registered(i, w) \in Cell
  BY RegisteredType, EngineAssumption
<1>3. Registered(i, w).ord = [NoOrder EXCEPT !.status = "RISK_APPROVED"]
  BY <1>1 DEF Registered, Cell
<1>4. Registered(i, w).log = [journal[i] EXCEPT !.registered = w]
  BY <1>1 DEF Registered, Cell
<1>5. [NoOrder EXCEPT !.status = "RISK_APPROVED"].status = "RISK_APPROVED"
  BY DEF NoOrder
<1>6. [NoLog EXCEPT !.registered = w].last = None
  BY DEF NoLog
<1> QED BY <1>2, <1>3, <1>4, <1>5, <1>6

\* A refused submit registers the decision, or tries to, and never places it.
LEMMA RefusalAudited ==
  ASSUME AuditInv, TypeOK', NEW i \in Intents, SubmitRefused(i), UNCHANGED cycle
  PROVE  AuditInv' /\ AuditStep
<1>1. PICK w \in Writes : Store(i, Registered(i, w))
  BY DEF SubmitRefused
<1>2. /\ mem[i] = NoOrder /\ journal[i] = NoLog /\ placed[i] = 0
      /\ \A c \in Cycles : i \notin cycle[c].todo \union cycle[c].asked
  <2>1. DecisionOK(i) /\ call[i] = "approved" /\ NoOrder.status = None
    BY DEF SubmitRefused, AuditInv, NoOrder
  <2>2. mem[i] = NoOrder /\ journal[i] = NoLog /\ placed[i] = 0
    BY <2>1 DEF DecisionOK, Untouched
  <2> QED BY <2>1, <2>2 DEF DecisionOK, Untracked
<1>3. /\ Registered(i, w).ord.status = "RISK_APPROVED"
      /\ Registered(i, w).log.last = None
      /\ Registered(i, w).log \in Log
  BY <1>2, ChanceType, RegisteredFacts DEF AuditInv, Cell
<1>4. /\ mem' = [mem EXCEPT ![i] = Registered(i, w).ord]
      /\ journal' = [journal EXCEPT ![i] = Registered(i, w).log]
      /\ call' = [call EXCEPT ![i] = "done"]
      /\ UNCHANGED placed
  BY <1>1 DEF SubmitRefused, Store
<1>5. None \notin {"RISK_APPROVED", "ORDER_INTENT"} /\ None \notin Terminal
  BY Words
<1>6. DecisionOK(i)'
  BY <1>2, <1>3, <1>4, <1>5 DEF AuditInv, TypeOK, EngineTypeOK, DecisionOK, Untouched,
                               Untracked, Journalled, PlacedOnce
<1>7. ASSUME NEW j \in Intents, j # i PROVE DecisionOK(j)'
  <2>1. mem'[j] = mem[j] /\ journal'[j] = journal[j] /\ call'[j] = call[j]
    BY <1>4, <1>7 DEF AuditInv, TypeOK, EngineTypeOK
  <2> QED
    BY <1>4, <2>1, <1>7 DEF AuditInv, DecisionOK, Untouched, Untracked, Journalled, PlacedOnce
<1>8. AuditStep
  <2>1. Phase(Registered(i, w).log) = Phase(journal[i])
    BY <1>2, <1>3 DEF Phase, NoLog
  <2> QED BY <1>3, <1>4, <2>1, PhaseStep DEF AuditInv
<1> QED BY <1>6, <1>7, <1>8 DEF AuditInv

LEMMA EngineStepAudited ==
  ASSUME AuditInv, TypeOK', EngineStep, UNCHANGED cycle
  PROVE  AuditInv' /\ AuditStep
<1>1. ASSUME NEW i \in Intents, Approve(i) PROVE AuditInv' /\ AuditStep
  <2>1. /\ UNCHANGED <<mem, journal, placed>>
        /\ \A j \in Intents : \/ call'[j] = call[j]
                              \/ call[j] = "idle" /\ call'[j] = "approved"
    BY <1>1 DEF Approve, AuditInv, TypeOK, EngineTypeOK
  <2> QED BY <2>1, Unhandled
<1>2. ASSUME NEW i \in Intents, SubmitRefused(i) PROVE AuditInv' /\ AuditStep
  BY <1>2, RefusalAudited
<1>3. ASSUME NEW i \in Intents, Submit(i) PROVE AuditInv' /\ AuditStep
  <2>1. PICK w \in Writes : Submission(i, Registered(i, w))
    BY <1>3 DEF Submit
  <2>2. /\ journal[i] = NoLog /\ placed[i] = 0
        /\ \A c \in Cycles : i \notin cycle[c].todo \union cycle[c].asked
    BY <1>3 DEF Submit, AuditInv, DecisionOK, Untouched, Untracked, NoOrder
  <2>3. journal[i].last = None
    BY <2>2 DEF NoLog
  <2> QED
    BY <2>1, <2>2, <2>3, ChanceType, RegisteredFacts, SubmissionAudited DEF AuditInv
<1>4. ASSUME NEW i \in Intents, Resubmit(i) PROVE AuditInv' /\ AuditStep
  <2>1. /\ CellOf(i) \in Cell
        /\ CellOf(i).ord.status = "RISK_APPROVED"
        /\ CellOf(i).log.last = journal[i].last
    BY <1>4, CellOfType DEF Resubmit, CellOf, AuditInv
  <2>2. mem[i].status # None /\ journal[i].last = None
    BY <1>4, Words DEF Resubmit, AuditInv, DecisionOK, Journalled
  <2>3. placed[i] = 0
    BY <2>2 DEF AuditInv, TypeOK, EngineTypeOK, DecisionOK, PlacedOnce
  <2> QED BY <1>4, <2>1, <2>2, <2>3, SubmissionAudited DEF Resubmit
<1>5. ASSUME NEW i \in Intents, PlacementAnswered(i) PROVE AuditInv' /\ AuditStep
  <2>1. PICK w \in Luck, w2 \in Writes :
          Store(i, Unresolved(ApplyBrokerUpdate(CellOf(i), reply[i], w), w2))
    BY <1>5 DEF PlacementAnswered
  <2> DEFINE x == ApplyBrokerUpdate(CellOf(i), reply[i], w)
  <2>2. mem[i].status # None
    BY <1>5, Tracked DEF PlacementAnswered
  <2>3. reply[i] \in View
    BY DEF AuditInv, TypeOK, EngineTypeOK
  <2>4. x \in Cell /\ Evolves(CellOf(i), x)
    BY <2>2, <2>3, CellSound, ApplyType, ApplyEvolves, EngineAssumption
  <2>5. Sound(x)
    BY <2>4 DEF Evolves
  <2> HIDE DEF x
  <2>6. Unresolved(x, w2) \in Cell /\ Evolves(CellOf(i), Unresolved(x, w2))
    BY <2>4, <2>5, ChanceType, UnresolvedType, UnresolvedEvolves, EvolvesFurther
  <2>7. Store(i, Unresolved(x, w2))
    BY <2>1 DEF x
  <2> QED BY <1>5, <2>2, <2>6, <2>7, Handled DEF PlacementAnswered
<1>6. ASSUME NEW i \in Intents, PlacementTimesOut(i) PROVE AuditInv' /\ AuditStep
  <2>1. PICK w \in Writes : Store(i, Transition(CellOf(i), "UNKNOWN", w))
    BY <1>6 DEF PlacementTimesOut
  <2>2. mem[i].status # None
    BY <1>6, Tracked DEF PlacementTimesOut
  <2>3. /\ Transition(CellOf(i), "UNKNOWN", w) \in Cell
        /\ Evolves(CellOf(i), Transition(CellOf(i), "UNKNOWN", w))
    BY <2>2, ChanceType, Words, CellSound, TransitionType, TransitionEvolves
  <2> QED BY <1>6, <2>1, <2>2, <2>3, Handled DEF PlacementTimesOut
<1>7. ASSUME NEW i \in Intents, CancelConfirmed(i) PROVE AuditInv' /\ AuditStep
  <2>1. PICK w \in Writes :
          Store(i, [Transition(CellOf(i), "CANCELLED", w) EXCEPT !.ord.cancel = "over"])
    BY <1>7 DEF CancelConfirmed
  <2> DEFINE y == Transition(CellOf(i), "CANCELLED", w)
             z == [y EXCEPT !.ord.cancel = "over"]
  <2>2. mem[i].status # None
    BY <1>7 DEF CancelConfirmed, AuditInv, DecisionOK, Untracked, NoOrder
  <2>3. y \in Cell /\ Evolves(CellOf(i), y)
    BY <2>2, ChanceType, Words, CellSound, TransitionType, TransitionEvolves
  <2> HIDE DEF y
  <2>4. z \in Cell /\ z.ord.status = y.ord.status /\ z.log.last = y.log.last
    BY <2>3 DEF Cell, Order
  <2>5. Evolves(CellOf(i), z)
    BY <2>3, <2>4, SameStatus
  <2>6. Store(i, z)
    BY <2>1 DEF y
  <2> HIDE DEF z
  <2> QED BY <1>7, <2>2, <2>4, <2>5, <2>6, Handled DEF CancelConfirmed
<1>8. ASSUME NEW i \in Intents, TenSecondsPass(i) \/ VenueCancels(i) PROVE AuditInv' /\ AuditStep
  <2>1. mem[i].status # None
    BY <1>8 DEF TenSecondsPass, VenueCancels, AuditInv, DecisionOK, Untracked, NoOrder, None
  <2>2. mem[i] \in Order
    BY DEF AuditInv, TypeOK, EngineTypeOK
  <2>3. \A j \in Intents : mem'[j] = mem[j] \/ (j = i /\ mem'[j].status = mem[j].status)
    BY <1>8, <2>2 DEF TenSecondsPass, VenueCancels, AuditInv, TypeOK, EngineTypeOK, Order
  <2>4. UNCHANGED <<journal, placed, call>>
    BY <1>8 DEF TenSecondsPass, VenueCancels
  <2> QED BY <2>1, <2>3, <2>4, Unhandled
<1>9. ASSUME UNCHANGED <<mem, journal, placed, call>> PROVE AuditInv' /\ AuditStep
  BY <1>9, Unhandled
<1>10. ASSUME NEW i \in Intents,
              \/ HoldExpires(i) \/ PlacementLands(i) \/ PlacementLost(i) \/ VenueAnswers(i)
              \/ VenueRelabels(i) \/ VenueFills(i) \/ VenueRefuses(i)
       PROVE  AuditInv' /\ AuditStep
  BY <1>9, <1>10 DEF HoldExpires, PlacementLands, PlacementLost, VenueAnswers, VenueRelabels,
                     VenueFills, VenueRefuses, engineVars
<1>11. ASSUME NEW p \in Pairs, PositionCloses(p) PROVE AuditInv' /\ AuditStep
  BY <1>9, <1>11 DEF PositionCloses, engineVars
<1> QED
  BY <1>1, <1>2, <1>3, <1>4, <1>5, <1>6, <1>7, <1>8, <1>10, <1>11 DEF EngineStep

\* After an answer was applied, the cycle waits for no order it did not wait for.
LEMMA DoneWaits ==
  ASSUME TypeOK, NEW c \in Cycles, Done(c)
  PROVE  \A d \in Cycles : cycle'[d].todo \union cycle'[d].asked
                             \subseteq cycle[d].todo \union cycle[d].asked
BY DEF Done, TypeOK, CycleState

LEMMA CycleStepAudited ==
  ASSUME AuditInv, TypeOK', NEW c \in Cycles, CycleStep(c)
  PROVE  AuditInv' /\ AuditStep
<1>1. ASSUME UNCHANGED vars0,
             \A d \in Cycles : \A j \in cycle'[d].todo \union cycle'[d].asked :
               j \in cycle[d].todo \union cycle[d].asked \/ mem[j].status # None
      PROVE  AuditInv' /\ AuditStep
  BY <1>1, Unhandled DEF vars0, engineVars
<1>2. cycle \in [Cycles -> CycleState]
  BY DEF AuditInv, TypeOK
<1>3. CASE CycleBegins(c)
  <2>1. cycle' = [cycle EXCEPT ![c] = [IdleCycle EXCEPT !.pc = "positions", !.todo = Open]]
    BY <1>3 DEF CycleBegins
  <2>2. /\ cycle'[c].todo = Open /\ cycle'[c].asked = {}
        /\ \A d \in Cycles \ {c} : cycle'[d] = cycle[d]
    BY <1>2, <2>1 DEF IdleCycle
  <2>3. \A j \in Open : mem[j].status # None
    BY DEF Open
  <2> QED BY <1>1, <1>3, <2>2, <2>3 DEF CycleBegins
<1>4. CASE CyclePositions(c)
  <2>1. \A d \in Cycles : cycle'[d].todo = cycle[d].todo /\ cycle'[d].asked = cycle[d].asked
    BY <1>2, <1>4 DEF CyclePositions, CycleState
  <2> QED BY <1>1, <1>4, <2>1 DEF CyclePositions
<1>5. CASE CycleEnds(c)
  <2>1. \A d \in Cycles : \/ cycle'[d] = cycle[d]
                          \/ cycle'[d].todo = {} /\ cycle'[d].asked = {}
    BY <1>2, <1>5 DEF CycleEnds, IdleCycle
  <2> QED BY <1>1, <1>5, <2>1 DEF CycleEnds
<1>6. ASSUME NEW i \in Intents, CycleLooksUp(c, i) PROVE AuditInv' /\ AuditStep
  <2>1. \A d \in Cycles : cycle'[d].todo \union cycle'[d].asked
                            \subseteq cycle[d].todo \union cycle[d].asked
    BY <1>2, <1>6 DEF CycleLooksUp, CycleState
  <2> QED BY <1>1, <1>6, <2>1 DEF CycleLooksUp
<1>7. ASSUME NEW i \in Intents, LookupFails(c, i) PROVE AuditInv' /\ AuditStep
  <2>1. \A d \in Cycles : cycle'[d].todo \union cycle'[d].asked
                            \subseteq cycle[d].todo \union cycle[d].asked
    BY <1>2, <1>7 DEF LookupFails, CycleState
  <2> QED BY <1>1, <1>7, <2>1 DEF LookupFails
<1>8. ASSUME NEW i \in Intents, AppliesNotFound(c, i) PROVE AuditInv' /\ AuditStep
  <2>1. Done(c) /\ TypeOK
    BY <1>8 DEF AppliesNotFound, AuditInv
  <2>2. CASE UNCHANGED vars0
    BY <1>1, <2>1, <2>2, DoneWaits
  <2>3. CASE ~ HeldAsMissing(c, i)
    <3>1. PICK w \in Writes, w2 \in Writes : Store(i, Missing(CellOf(i), w, w2))
      BY <1>8, <2>3 DEF AppliesNotFound
    <3>2. mem[i].status # None
      BY <1>8, Tracked DEF AppliesNotFound
    <3>3. /\ Missing(CellOf(i), w, w2) \in Cell
          /\ Evolves(CellOf(i), Missing(CellOf(i), w, w2))
      BY <3>2, ChanceType, CellSound, MissingType, MissingEvolves
    <3>4. UNCHANGED <<placed, call>>
      BY <1>8, <2>3 DEF AppliesNotFound
    <3> QED BY <2>1, <3>1, <3>2, <3>3, <3>4, DoneWaits, Handled
  <2> QED BY <1>8, <2>2, <2>3 DEF AppliesNotFound
<1>9. ASSUME NEW i \in Intents, AppliesFound(c, i) PROVE AuditInv' /\ AuditStep
  <2> DEFINE u == cycle[c].answer.order
             live == HasPosition(c, i)
  <2>1. PICK w \in Luck, w2 \in Writes : Store(i, Lifted(Folded(CellOf(i), u, w), u, live, w2))
    BY <1>9 DEF AppliesFound
  <2>2. mem[i].status # None
    BY <1>9, Tracked DEF AppliesFound
  <2>3. u \in View /\ live \in BOOLEAN
    BY <1>2 DEF CycleState, Answer, HasPosition
  <2> HIDE DEF u, live
  <2> DEFINE y == Lifted(Folded(CellOf(i), u, w), u, live, w2)
  <2>4. y \in Cell /\ Evolves(CellOf(i), y)
    BY <2>2, <2>3, ChanceType, CellSound, FoundType, FoundEvolves, EngineAssumption
  <2>5. Done(c) /\ UNCHANGED <<placed, call>> /\ TypeOK
    BY <1>9 DEF AppliesFound, AuditInv
  <2>6. Store(i, y)
    BY <2>1
  <2> HIDE DEF y
  <2> QED BY <2>2, <2>4, <2>5, <2>6, DoneWaits, Handled
<1> QED BY <1>3, <1>4, <1>5, <1>6, <1>7, <1>8, <1>9 DEF CycleStep

\* What a restart makes of a log no status of which is RISK_APPROVED.
LEMMA HydratedFacts ==
  ASSUME NEW log \in Log, log.last \notin {"RISK_APPROVED", "ORDER_INTENT"}
  PROVE  /\ Hydrated(log).status = None => Hydrated(log) = NoOrder
         /\ Hydrated(log).status # "ORDER_INTENT"
         /\ log.last # None => Hydrated(log).status # "RISK_APPROVED"
         /\ log.last \in Terminal => Hydrated(log).status = None
         /\ log = NoLog => Hydrated(log) = NoOrder
<1>1. NoOrder.status = None
  BY DEF NoOrder
<1>2. CASE Revived(log) = None
  BY <1>1, <1>2, Words DEF Hydrated
<1>3. CASE Revived(log) # None
  <2>1. Hydrated(log).status = Revived(log)
    BY <1>3 DEF Hydrated, NoOrder
  <2>2. /\ log.registered
        /\ log.last \notin Terminal
        /\ log.last # None => Revived(log) # "RISK_APPROVED"
        /\ Revived(log) # "ORDER_INTENT"
    BY <1>3, Words DEF Revived
  <2>3. log # NoLog
    BY <2>2 DEF NoLog
  <2> QED BY <1>3, <2>1, <2>2, <2>3
<1> QED BY <1>2, <1>3

LEMMA RestartAudited ==
  ASSUME AuditInv, TypeOK', Restart
  PROVE  AuditInv' /\ AuditStep
<1>1. /\ UNCHANGED <<journal, placed>>
      /\ \A i \in Intents : mem'[i] = Hydrated(journal[i])
      /\ \A i \in Intents : call'[i] = IF call[i] = "idle" THEN "idle" ELSE "done"
      /\ \A c \in Cycles : cycle'[c].todo = {} /\ cycle'[c].asked = {}
  BY DEF Restart, Crash, IdleCycle
<1>2. ASSUME NEW i \in Intents PROVE DecisionOK(i)'
  <2>1. journal[i] \in Log /\ DecisionOK(i)
    BY DEF AuditInv, TypeOK, EngineTypeOK
  <2>2. /\ mem'[i].status = None => mem'[i] = NoOrder
        /\ mem'[i].status # "ORDER_INTENT"
        /\ journal[i].last # None => mem'[i].status # "RISK_APPROVED"
        /\ journal[i].last \in Terminal => mem'[i].status = None
        /\ journal[i] = NoLog => mem'[i] = NoOrder
    BY <1>1, <2>1, HydratedFacts DEF DecisionOK, Journalled
  <2>3. Untouched(i)'
    BY <1>1, <2>1, <2>2 DEF DecisionOK, Untouched
  <2>4. Untracked(i)'
    BY <1>1, <2>2 DEF Untracked
  <2>5. Journalled(i)' /\ PlacedOnce(i)'
    BY <1>1, <2>1, <2>2 DEF DecisionOK, Journalled, PlacedOnce
  <2> QED BY <2>3, <2>4, <2>5 DEF DecisionOK
<1> QED BY <1>1, <1>2 DEF AuditInv, AuditStep, Audit!vars

-----------------------------------------------------------------------------
(* The theorems. *)

LEMMA AuditInvInit == Init => AuditInv /\ Audit!Init
<1> SUFFICES ASSUME Init PROVE AuditInv /\ Audit!Init
  OBVIOUS
<1>1. TypeOK
  BY EngineAssumption
  DEF Init, EngineInit, TypeOK, EngineTypeOK, EngineAssumption, NoOrder, Order, NoLog, Log,
      HoldState, NoView, View, Unheard, VenueOrder, IdleCycle, NoAnswer, CycleState, Answer
<1>2. \A i \in Intents : mem[i] = NoOrder /\ journal[i] = NoLog /\ placed[i] = 0 /\ call[i] = "idle"
  BY DEF Init, EngineInit
<1>3. \A c \in Cycles : cycle[c].todo = {} /\ cycle[c].asked = {}
  BY DEF Init, IdleCycle
<1>4. /\ None \notin Terminal /\ None \notin {"RISK_APPROVED", "ORDER_INTENT"}
      /\ NoLog.last = None /\ NoOrder.status = None
  BY Words DEF NoLog, NoOrder
<1>5. ASSUME NEW i \in Intents PROVE DecisionOK(i)
  BY <1>2, <1>3, <1>4 DEF DecisionOK, Untouched, Untracked, Journalled, PlacedOnce
<1>6. Audit!Init
  BY <1>4 DEF Audit!Init, Init, EngineInit, Phase
<1> QED BY <1>1, <1>5, <1>6 DEF AuditInv

LEMMA AuditInvStep ==
  ASSUME AuditInv, [Next]_vars
  PROVE  AuditInv' /\ AuditStep
<1>1. TypeOK'
  <2>1. TypeOK
    BY DEF AuditInv
  <2>2. CASE UNCHANGED vars
    BY <2>1, <2>2 DEF vars, vars0, engineVars, venueVars, TypeOK, EngineTypeOK
  <2> QED
    BY <2>1, <2>2, EngineAssumption, EngineStepType, CycleStepType, RestartType DEF Next
<1>2. CASE UNCHANGED vars
  BY <1>1, <1>2, Unhandled DEF vars, vars0, engineVars
<1> QED
  BY <1>1, <1>2, EngineStepAudited, CycleStepAudited, RestartAudited DEF Next

\* Repeated submits, failing appends and any number of restarts never make the
\* engine ask the venue twice for one decision (execution-engine.ts:145-177).
THEOREM PlacedAtMostOnce == Spec => []AtMostOncePlacement
<1>1. Init => AuditInv
  BY AuditInvInit
<1>2. AuditInv /\ [Next]_vars => AuditInv'
  BY AuditInvStep
<1>3. AuditInv => AtMostOncePlacement
  BY DEF AuditInv, DecisionOK, PlacedOnce, AtMostOncePlacement
<1> QED BY <1>1, <1>2, <1>3, PTL DEF Spec

\* The order log, read through Phase, implements OrderAudit: a placement leaves
\* only in the step that commits the decision in the log, and a settled decision
\* stays settled (execution-engine.ts:162-191, 260-283).
THEOREM LogImplementsAudit == Spec => ImplementsAudit
<1>1. Init => AuditInv /\ Audit!Init
  BY AuditInvInit
<1>2. AuditInv /\ [Next]_vars => AuditInv' /\ [Audit!Next]_(Audit!vars)
  BY AuditInvStep DEF AuditStep
<1> QED BY <1>1, <1>2, PTL DEF Spec, ImplementsAudit, Audit!Spec


-----------------------------------------------------------------------------
(* When the pipeline and the reconciler give a hold up. *)

Over == Terminal \union {"FILLED", "POSITION_OPEN"}

\* Exposure of i may no longer appear, or has.
SafeToRelease(i) == placed'[i] = 0 \/ mem'[i].status \in Over

ReleasesSafely == \A i \in Intents : hold[i] = "ACTIVE" /\ hold'[i] = "RELEASED" => SafeToRelease(i)

\* From everywhere else an order can become UNKNOWN.
LEMMA Stuck ==
  ASSUME NEW s \in OrderStatus \ {"UNKNOWN", "ORDER_INTENT", "RISK_APPROVED"},
         ~ CanTransition(s, "UNKNOWN")
  PROVE  s \in Over
<1>1. {"REJECTED", "CANCELLED", "EXPIRED", "CLOSED"} \subseteq Terminal
  BY DEF Terminal, Allowed, OrderStatus
<1>2. s \in {"REJECTED", "CANCELLED", "EXPIRED", "CLOSED", "FILLED"}
  BY DEF CanTransition, Allowed, OrderStatus
<1> QED BY <1>1, <1>2 DEF Over

\* An exception that escapes submit's catch block leaves an order that cannot
\* become UNKNOWN.
LEMMA UnknownOrStuck ==
  ASSUME NEW x \in Cell, ~ x.threw, NEW w \in BOOLEAN,
         x.ord.status \in OrderStatus \ {"ORDER_INTENT", "RISK_APPROVED"},
         Transition(x, "UNKNOWN", w).threw,
         Transition(x, "UNKNOWN", w).ord.status # "UNKNOWN"
  PROVE  Transition(x, "UNKNOWN", w).ord.status \in Over
<1>1. x.ord \in Order
  BY DEF Cell
<1>2. CASE x.ord.status = "UNKNOWN"
  BY <1>2 DEF Transition
<1>3. CASE x.ord.status # "UNKNOWN" /\ CanTransition(x.ord.status, "UNKNOWN")
  BY <1>1, <1>3 DEF Transition, Cell, Order
<1>4. CASE x.ord.status # "UNKNOWN" /\ ~ CanTransition(x.ord.status, "UNKNOWN")
  <2>1. Transition(x, "UNKNOWN", w).ord = x.ord
    BY <1>4 DEF Transition, Cell
  <2> QED BY <1>4, <2>1, Stuck
<1> QED BY <1>2, <1>3, <1>4

\* A hold the pipeline settles is given up on an escaped exception, or a final status.
LEMMA SettledReleases ==
  ASSUME NEW x, Settled("ACTIVE", x) = "RELEASED"
  PROVE  (x.threw /\ x.ord.status # "UNKNOWN") \/ x.ord.status \in Over
<1>1. {"REJECTED", "CANCELLED", "EXPIRED"} \subseteq Terminal
  BY DEF Terminal, Allowed, OrderStatus
<1> QED BY <1>1 DEF Settled, Retired, Over

\* Only the hold of i changes, and only by Settled.
LEMMA SettlesSafely ==
  ASSUME TypeOK, NEW i \in Intents, NEW y \in Cell, Store(i, y),
         hold' = [hold EXCEPT ![i] = Settled(@, y)],
         \/ placed'[i] = 0
         \/ y.threw /\ y.ord.status # "UNKNOWN" => y.ord.status \in Over
  PROVE  ReleasesSafely
<1> SUFFICES ASSUME NEW j \in Intents, hold[j] = "ACTIVE", hold'[j] = "RELEASED"
             PROVE  SafeToRelease(j)
  BY DEF ReleasesSafely
<1>1. j = i /\ Settled("ACTIVE", y) = "RELEASED"
  BY DEF TypeOK, EngineTypeOK
<1>2. mem'[i] = y.ord
  BY DEF Store, TypeOK, EngineTypeOK
<1> QED BY <1>1, <1>2, SettledReleases DEF SafeToRelease

LEMMA SubmissionReleases ==
  ASSUME TypeOK, NEW i \in Intents, NEW x \in Cell, Submission(i, x), placed[i] = 0
  PROVE  ReleasesSafely
<1> DEFINE x1 == [x EXCEPT !.ord.contract = TRUE]
<1>1. x1 \in Cell
  BY DEF Cell, Order
<1> HIDE DEF x1
<1>2. PICK w \in Writes :
        LET y == Transition(x1, "SUBMITTING", w) IN
        \/ Store(i, y) /\ hold' = [hold EXCEPT ![i] = Settled(@, y)] /\ UNCHANGED placed
        \/ UNCHANGED hold
  BY DEF Submission, x1
<1> DEFINE y == Transition(x1, "SUBMITTING", w)
<1>3. y \in Cell
  BY <1>1, ChanceType, Words, TransitionType
<1> HIDE DEF y
<1>4. CASE Store(i, y) /\ hold' = [hold EXCEPT ![i] = Settled(@, y)] /\ UNCHANGED placed
  BY <1>3, <1>4, SettlesSafely
<1>5. CASE UNCHANGED hold
  BY <1>5 DEF ReleasesSafely
<1> QED BY <1>2, <1>4, <1>5 DEF y

\* An order that was placed is past RISK_APPROVED, and stays past it.
LEMMA PlacedIsPast ==
  ASSUME AuditInv, NEW i \in Intents, call[i] = "waiting", placed[i] # 0,
         NEW y \in Cell, Evolves(CellOf(i), y)
  PROVE  y.ord.status \in OrderStatus \ {"ORDER_INTENT", "RISK_APPROVED"}
<1>1. journal[i].last # None
  BY DEF AuditInv, TypeOK, EngineTypeOK, DecisionOK, PlacedOnce
<1>2. y.log.last # None
  BY <1>1 DEF Evolves, CellOf
<1> QED BY <1>2 DEF Evolves, Sound, Cell, Order

LEMMA ReleaseStep ==
  ASSUME AuditInv, [Next]_vars
  PROVE  ReleasesSafely
<1>0. TypeOK
  BY DEF AuditInv
<1>1. ASSUME UNCHANGED hold PROVE ReleasesSafely
  BY <1>1 DEF ReleasesSafely
<1>2. ASSUME NEW i \in Intents, HoldExpires(i) PROVE ReleasesSafely
  BY <1>0, <1>2 DEF HoldExpires, ReleasesSafely, TypeOK, EngineTypeOK
<1>3. ASSUME NEW i \in Intents, Approve(i) PROVE ReleasesSafely
  BY <1>0, <1>3 DEF Approve, ReleasesSafely, TypeOK, EngineTypeOK
<1>4. ASSUME NEW i \in Intents, SubmitRefused(i) PROVE ReleasesSafely
  <2>1. placed'[i] = 0 /\ \A j \in Intents \ {i} : hold'[j] = hold[j]
    BY <1>0, <1>4 DEF SubmitRefused, AuditInv, DecisionOK, Untouched, TypeOK, EngineTypeOK
  <2> QED BY <2>1 DEF ReleasesSafely, SafeToRelease
<1>5. ASSUME NEW i \in Intents, Submit(i) PROVE ReleasesSafely
  <2>1. PICK w \in Writes : Submission(i, Registered(i, w))
    BY <1>5 DEF Submit
  <2>2. placed[i] = 0
    BY <1>5 DEF Submit, AuditInv, DecisionOK, Untouched
  <2> QED BY <1>0, <2>1, <2>2, ChanceType, RegisteredType, EngineAssumption, SubmissionReleases
<1>6. ASSUME NEW i \in Intents, Resubmit(i) PROVE ReleasesSafely
  <2>1. journal[i].last = None
    BY <1>6 DEF Resubmit, AuditInv, DecisionOK, Journalled
  <2>2. placed[i] = 0
    BY <2>1 DEF AuditInv, TypeOK, EngineTypeOK, DecisionOK, PlacedOnce
  <2> QED BY <1>0, <1>6, <2>2, CellOfType, SubmissionReleases DEF Resubmit
<1>7. ASSUME NEW i \in Intents, PlacementAnswered(i) PROVE ReleasesSafely
  <2>1. PICK w \in Luck, w2 \in Writes :
          LET y == Unresolved(ApplyBrokerUpdate(CellOf(i), reply[i], w), w2) IN
          /\ Store(i, y)
          /\ hold' = [hold EXCEPT ![i] = Settled(@, y)]
    BY <1>7 DEF PlacementAnswered
  <2> DEFINE x == ApplyBrokerUpdate(CellOf(i), reply[i], w)
             y == Unresolved(x, w2)
  <2>2. call[i] = "waiting" /\ placed' = placed
    BY <1>7 DEF PlacementAnswered
  <2>3. reply[i] \in View /\ mem[i].status # None
    BY <1>0, <2>2, Tracked DEF TypeOK, EngineTypeOK
  <2>4. x \in Cell /\ Evolves(CellOf(i), x)
    BY <2>3, CellSound, ApplyType, ApplyEvolves, EngineAssumption
  <2> HIDE DEF x
  <2>5. y \in Cell
    BY <2>4, ChanceType, UnresolvedType
  <2>6. ASSUME placed[i] # 0, y.threw, y.ord.status # "UNKNOWN" PROVE y.ord.status \in Over
    <3> DEFINE caught == [x EXCEPT !.threw = FALSE]
    <3>1. caught \in Cell /\ ~ caught.threw /\ caught.ord = x.ord
      BY <2>4 DEF Cell
    <3>2. y = Transition(caught, "UNKNOWN", w2)
      BY <2>6 DEF Unresolved
    <3>3. x.ord.status \in OrderStatus \ {"ORDER_INTENT", "RISK_APPROVED"}
      BY <2>2, <2>4, <2>6, PlacedIsPast
    <3> HIDE DEF caught, y
    <3> QED BY <2>6, <3>1, <3>2, <3>3, ChanceType, UnknownOrStuck
  <2>7. Store(i, y) /\ hold' = [hold EXCEPT ![i] = Settled(@, y)]
    BY <2>1 DEF x
  <2> HIDE DEF y
  <2> QED BY <1>0, <2>2, <2>5, <2>6, <2>7, SettlesSafely
<1>8. ASSUME NEW i \in Intents, PlacementTimesOut(i) PROVE ReleasesSafely
  <2>1. PICK w \in Writes :
          LET y == Transition(CellOf(i), "UNKNOWN", w) IN
          /\ Store(i, y)
          /\ hold' = [hold EXCEPT ![i] = Settled(@, y)]
    BY <1>8 DEF PlacementTimesOut
  <2> DEFINE x == CellOf(i)
             y == Transition(x, "UNKNOWN", w)
  <2>2. call[i] = "waiting" /\ placed' = placed
    BY <1>8 DEF PlacementTimesOut
  <2>3. x \in Cell /\ ~ x.threw /\ Evolves(CellOf(i), x)
    BY <2>2, Tracked, CellSound, SelfEvolves DEF CellOf
  <2>4. Store(i, y) /\ hold' = [hold EXCEPT ![i] = Settled(@, y)]
    BY <2>1
  <2>5. placed[i] # 0 => x.ord.status \in OrderStatus \ {"ORDER_INTENT", "RISK_APPROVED"}
    BY <2>2, <2>3, PlacedIsPast
  <2> HIDE DEF x
  <2>6. y \in Cell
    BY <2>3, ChanceType, Words, TransitionType
  <2>7. placed[i] # 0 /\ y.threw /\ y.ord.status # "UNKNOWN" => y.ord.status \in Over
    BY <2>3, <2>5, ChanceType, UnknownOrStuck
  <2> HIDE DEF y
  <2> QED BY <1>0, <2>2, <2>4, <2>6, <2>7, SettlesSafely
<1>9. ASSUME NEW c \in Cycles, NEW i \in Intents, AppliesNotFound(c, i) PROVE ReleasesSafely
  <2>1. CASE UNCHANGED vars0
    BY <1>1, <2>1 DEF vars0, engineVars
  <2>2. CASE ~ HeldAsMissing(c, i)
    <3>1. PICK w \in Writes, w2 \in Writes :
            LET y == Missing(CellOf(i), w, w2) IN
            /\ Store(i, y)
            /\ \/ hold' = [hold EXCEPT ![i] = Retired(@, "RELEASED")] /\ y.ord.status = "CANCELLED"
               \/ hold' = [hold EXCEPT ![i] = @]
      BY <1>9, <2>2 DEF AppliesNotFound
    <3> DEFINE y == Missing(CellOf(i), w, w2)
    <3>2. mem'[i] = y.ord
      BY <1>0, <3>1 DEF Store, TypeOK, EngineTypeOK
    <3>3. "CANCELLED" \in Over
      BY DEF Over, Terminal, Allowed, OrderStatus
    <3>4. \/ y.ord.status = "CANCELLED" /\ \A j \in Intents \ {i} : hold'[j] = hold[j]
          \/ \A j \in Intents : hold'[j] = hold[j]
      BY <1>0, <3>1 DEF TypeOK, EngineTypeOK
    <3> HIDE DEF y
    <3> QED BY <3>2, <3>3, <3>4 DEF ReleasesSafely, SafeToRelease
  <2> QED BY <1>9, <2>1, <2>2 DEF AppliesNotFound
<1>10. ASSUME NEW c \in Cycles, NEW i \in Intents, AppliesFound(c, i) PROVE ReleasesSafely
  <2>1. PICK h : hold' = [hold EXCEPT ![i] = h] /\ h \in {hold[i], Retired(hold[i], "COMMITTED")}
    BY <1>10 DEF AppliesFound
  <2> QED BY <1>0, <2>1 DEF Retired, ReleasesSafely, TypeOK, EngineTypeOK
<1>11. CASE Restart
  BY <1>11 DEF Restart, Crash, ReleasesSafely, None
<1>12. CASE EngineStep
  <2>1. ASSUME NEW i \in Intents,
               \/ CancelConfirmed(i) \/ TenSecondsPass(i) \/ PlacementLands(i)
               \/ PlacementLost(i) \/ VenueAnswers(i) \/ VenueRelabels(i) \/ VenueFills(i)
               \/ VenueRefuses(i) \/ VenueCancels(i)
        PROVE  UNCHANGED hold
    BY <2>1 DEF CancelConfirmed, TenSecondsPass, PlacementLands, PlacementLost,
         VenueAnswers, VenueRelabels, VenueFills, VenueRefuses, VenueCancels, engineVars
  <2>2. ASSUME NEW p \in Pairs, PositionCloses(p) PROVE UNCHANGED hold
    BY <2>2 DEF PositionCloses, engineVars
  <2> QED
    BY <1>1, <1>2, <1>3, <1>4, <1>5, <1>6, <1>7, <1>8, <1>12, <2>1, <2>2 DEF EngineStep
<1>13. ASSUME NEW c \in Cycles, CycleStep(c) PROVE ReleasesSafely
  <2>1. \/ UNCHANGED vars0
        \/ \E i \in Intents : AppliesNotFound(c, i) \/ AppliesFound(c, i)
    BY <1>13 DEF CycleStep, CycleBegins, CyclePositions, CycleEnds, CycleLooksUp, LookupFails
  <2> QED BY <1>1, <1>9, <1>10, <2>1 DEF vars0, engineVars
<1> QED BY <1>1, <1>11, <1>12, <1>13 DEF Next, vars, vars0, engineVars

\* Whatever the network, the disk and overlapping cycles do, risk budget is not
\* freed while exposure may still appear: a hold is released only for an order that
\* was never placed, is final or has filled
\* (pipeline-stage.ts:92-105, 207-213, reconciler.ts:170-176).
THEOREM HoldsOutliveExposure == Spec => ReleaseOnlyWhenSafe
<1>1. Init => AuditInv
  BY AuditInvInit
<1>2. AuditInv /\ [Next]_vars => AuditInv'
  BY AuditInvStep
<1>3. AuditInv /\ [Next]_vars
        => \A i \in Intents :
             hold[i] = "ACTIVE" /\ hold'[i] = "RELEASED"
               => \/ placed'[i] = 0
                  \/ mem'[i].status \in Terminal \union {"FILLED", "POSITION_OPEN"}
  BY ReleaseStep DEF ReleasesSafely, SafeToRelease, Over
<1> QED BY <1>1, <1>2, <1>3, PTL DEF Spec, ReleaseOnlyWhenSafe

=============================================================================
