----------------------------- MODULE Reconciler -----------------------------
(***************************************************************************)
(* The truth-sync of src/engines/reconciler.ts running beside the engine.  *)
(* A cycle captures the open orders, awaits one positions snapshot, then   *)
(* looks the orders up one after the other; each answer is applied to      *)
(* whatever the order has become meanwhile.  The timer starts a cycle      *)
(* every interval whether or not the last one ended, so cycles overlap:    *)
(* Cycles bounds how many run at once.                                     *)
(***************************************************************************)
EXTENDS ExecutionEngine

CONSTANT Cycles

VARIABLE cycle

vars == <<vars0, cycle>>

Answer == [kind: {"FOUND", "NOT_FOUND", "LOOKUP_FAILED"}, order: View]
NoAnswer == [kind |-> "LOOKUP_FAILED", order |-> NoView]

\* todo: captured orders not looked up yet.  evidence: the positions snapshot
\* succeeded, and the pairs it showed.  asked, answer: the lookup under way.
CycleState == [pc: {"idle", "positions", "loop", "answered"}, todo: SUBSET Intents,
               evidence: BOOLEAN, held: SUBSET Pairs,
               asked: SUBSET Intents, answer: Answer]
IdleCycle == [pc |-> "idle", todo |-> {}, evidence |-> FALSE, held |-> {},
              asked |-> {}, answer |-> NoAnswer]

\* listOpen: every tracked order that is not in a final status.
Open == {i \in Intents : mem[i].status \notin Terminal \union {None}}

-----------------------------------------------------------------------------
(* Applying an answer: functions of the order's cell, as in the engine. *)

\* The position check every verdict consults.
HasPosition(c, i) == cycle[c].evidence /\ PairOf[i] \in cycle[c].held

\* A variant that leaves an UNKNOWN order alone.
MissingUnlessUnknown(x, w, w2) ==
  IF x.ord.status = "UNKNOWN" \/ ~ CanTransition(x.ord.status, "CANCELLED")
  THEN x
  ELSE Transition(x, "CANCELLED", w2)

\* onNotFound: an order stuck in SUBMITTING becomes UNKNOWN first.
Missing(x, w, w2) ==
  LET y == IF x.ord.status = "SUBMITTING" THEN Transition(x, "UNKNOWN", w) ELSE x IN
  IF y.threw \/ ~ CanTransition(y.ord.status, "CANCELLED")
  THEN y
  ELSE Transition(y, "CANCELLED", w2)

\* onFound folds the venue's view if it differs ...
Folded(x, u, w) ==
  IF x.ord.status # u.status \/ x.ord.filled # u.filled
  THEN ApplyBrokerUpdate(x, u, w) ELSE x

\* ... and lifts a fill with a live position behind it.
Lifted(x, u, livePosition, w) ==
  IF /\ ~ x.threw /\ u.status = "FILLED" /\ livePosition
     /\ CanTransition(x.ord.status, "POSITION_OPEN")
  THEN Transition(x, "POSITION_OPEN", w)
  ELSE x

Done(c) == cycle' = [cycle EXCEPT ![c] = [@ EXCEPT !.pc = "loop", !.asked = {},
                                                   !.answer = NoAnswer]]

-----------------------------------------------------------------------------
(* The cycle *)

CycleBegins(c) ==
  /\ cycle[c].pc = "idle"
  /\ Open # {}
  /\ cycle' = [cycle EXCEPT ![c] = [IdleCycle EXCEPT !.pc = "positions", !.todo = Open]]
  /\ UNCHANGED vars0

\* getPositions answered, or failed.
CyclePositions(c) ==
  /\ cycle[c].pc = "positions"
  /\ \E ok \in BOOLEAN :
       cycle' = [cycle EXCEPT ![c].pc = "loop", ![c].evidence = ok,
                              ![c].held = IF ok THEN position ELSE {}]
  /\ UNCHANGED vars0

\* What a lookup made now is answered.
Truth(i) ==
  IF venue[i] = Unheard THEN [kind |-> "NOT_FOUND", order |-> NoView]
  ELSE [kind |-> "FOUND", order |-> ToBrokerOrder(venue[i])]

\* The answer travels back while everything else goes on.
CycleLooksUp(c, i) ==
  /\ cycle[c].pc = "loop"
  /\ i \in cycle[c].todo
  /\ cycle' = [cycle EXCEPT ![c] =
       [cycle[c] EXCEPT !.pc = "answered", !.todo = @ \ {i}, !.asked = {i}, !.answer = Truth(i)]]
  /\ UNCHANGED vars0

\* LOOKUP_FAILED: the state is held.
LookupFails(c, i) ==
  /\ cycle[c].pc = "loop"
  /\ i \in cycle[c].todo
  /\ cycle' = [cycle EXCEPT ![c].todo = @ \ {i}]
  /\ UNCHANGED vars0

\* onNotFound holds an order with position evidence, and a young SUBMITTING.
HeldAsMissing(c, i) ==
  \/ HasPosition(c, i)
  \/ mem[i].status = "SUBMITTING" /\ ~ mem[i].late

AppliesNotFound(c, i) ==
  /\ cycle[c].pc = "answered"
  /\ i \in cycle[c].asked
  /\ cycle[c].answer.kind = "NOT_FOUND"
  /\ \/ HeldAsMissing(c, i) /\ UNCHANGED vars0
     \/ /\ ~ HeldAsMissing(c, i)
        /\ \E w \in Writes, w2 \in Writes :
             LET y == Missing(CellOf(i), w, w2)
                 repaired == /\ ~ y.threw
                             /\ mem[i].status # "CANCELLED" /\ y.ord.status = "CANCELLED"
             IN  /\ Store(i, y)
                 /\ hold' = [hold EXCEPT ![i] = IF repaired THEN Retired(@, "RELEASED") ELSE @]
        /\ UNCHANGED <<call, wire, reply, venueVars, placed, crashes>>
  /\ Done(c)

\* The hold is committed between the fold and the lift.
AppliesFound(c, i) ==
  /\ cycle[c].pc = "answered"
  /\ i \in cycle[c].asked
  /\ cycle[c].answer.kind = "FOUND"
  /\ LET u == cycle[c].answer.order IN
     \E w \in Luck, w2 \in Writes :
       LET y == Folded(CellOf(i), u, w)
           filled == ~ y.threw /\ (u.status = "FILLED" \/ y.ord.status = "POSITION_OPEN")
       IN  /\ Store(i, Lifted(y, u, HasPosition(c, i), w2))
           /\ hold' = [hold EXCEPT ![i] = IF filled THEN Retired(@, "COMMITTED") ELSE @]
  /\ Done(c)
  /\ UNCHANGED <<call, wire, reply, venueVars, placed, crashes>>

\* All captured orders were seen; the report is written.
CycleEnds(c) ==
  /\ cycle[c].pc = "loop"
  /\ cycle[c].todo = {}
  /\ cycle' = [cycle EXCEPT ![c] = IdleCycle]
  /\ UNCHANGED vars0

\* A restart ends every cycle under way.
Restart ==
  /\ Crash
  /\ cycle' = [c \in Cycles |-> IdleCycle]

-----------------------------------------------------------------------------
Init == EngineInit /\ cycle = [c \in Cycles |-> IdleCycle]

CycleStep(c) ==
  \/ CycleBegins(c) \/ CyclePositions(c) \/ CycleEnds(c)
  \/ \E i \in Intents :
       CycleLooksUp(c, i) \/ LookupFails(c, i) \/ AppliesNotFound(c, i) \/ AppliesFound(c, i)

Next ==
  \/ EngineStep /\ UNCHANGED cycle
  \/ \E c \in Cycles : CycleStep(c)
  \/ Restart

Spec == Init /\ [][Next]_vars

\* The timer keeps starting cycles and their continuations run; the venue, asked
\* again and again, ends its outage and answers.
FairSpec ==
  /\ Spec
  /\ \A c \in Cycles :
       /\ WF_vars(CycleBegins(c)) /\ WF_vars(CyclePositions(c)) /\ WF_vars(CycleEnds(c))
       /\ \A i \in Intents :
            /\ SF_vars(CycleLooksUp(c, i))
            /\ WF_vars(AppliesNotFound(c, i)) /\ WF_vars(AppliesFound(c, i))

-----------------------------------------------------------------------------
(* Properties *)

\* Every variable keeps its type.
TypeOK ==
  /\ EngineTypeOK
  /\ cycle \in [Cycles -> CycleState]

\* A decision is placed at the venue at most once, however often its submit is
\* repeated, appends fail and the process restarts in between
\* (docs/ROADMAP.md:51, execution-engine.ts:145-177).
AtMostOncePlacement == \A i \in Intents : placed[i] <= 1

\* A decision that went to the venue and is not over in memory would be revived
\* by a restart at this instant: no crash forgets a live order
\* (docs/ROADMAP.md:95-97, execution-engine.ts:70-87).
RestartRemembers ==
  \A i \in Intents :
    placed[i] > 0 /\ mem[i].status \notin Terminal \union {None}
      => Revived(journal[i]) # None

\* A hold is released only by a step after which the order was never sent, is
\* final or has filled: risk budget is not freed while exposure may still appear
\* (pipeline-stage.ts:92-105, 207-213, reconciler.ts:170-176).
ReleaseOnlyWhenSafe ==
  [][\A i \in Intents :
       hold[i] = "ACTIVE" /\ hold'[i] = "RELEASED"
         => \/ placed'[i] = 0
            \/ mem'[i].status \in Terminal \union {"FILLED", "POSITION_OPEN"}]_vars

\* FILLED and POSITION_OPEN are said only of an order the venue has filled,
\* REJECTED only of one it rejected and PARTIALLY_FILLED only of one with a fill:
\* stale and overlapping answers may delay the truth, never invent it
\* (reconciler.ts:180-202).
StatusTruth ==
  \A i \in Intents :
    /\ mem[i].status \in {"FILLED", "POSITION_OPEN"} => venue[i].status = "filled"
    /\ mem[i].status = "REJECTED" => venue[i].status = "rejected"
    /\ mem[i].status = "PARTIALLY_FILLED" => venue[i].filled > 0

\* The ledger never books more than the venue has filled, whatever is folded
\* twice, out of order or again after a restart (fills-ledger.ts:166-197).
FillsNeverInvented == \A i \in Intents : booked[i] <= venue[i].filled

\* An order known to be filled has its whole quantity in the fills ledger
\* (execution-engine.ts:202-207).
FilledIsBooked ==
  \A i \in Intents : mem[i].status \in {"FILLED", "POSITION_OPEN"} => booked[i] = Qty

\* A booked fill stays booked, across restarts too (fills-ledger.ts:153-164).
BookingsNeverRegress == [][\A i \in Intents : booked'[i] >= booked[i]]_vars

\* An UNKNOWN order does not stay UNKNOWN: reconciliation resolves it once the
\* venue answers again (docs/ROADMAP.md:50-51, reconciler.ts:33-43).
UnknownResolved ==
  \A i \in Intents : mem[i].status = "UNKNOWN" ~> mem[i].status # "UNKNOWN"

-----------------------------------------------------------------------------
(* The log implements OrderAudit: a decision is settled once a final status is *)
(* on disk and committed once any status is.                                   *)
Phase(log) ==
  IF log.last = None THEN "open"
  ELSE IF log.last \in Terminal THEN "settled"
  ELSE "committed"

Audit == INSTANCE OrderAudit WITH
  Decisions <- Intents,
  phase <- [i \in Intents |-> Phase(journal[i])],
  sent <- placed

ImplementsAudit == Audit!Spec

=============================================================================
