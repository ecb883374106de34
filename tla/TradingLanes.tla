----------------------------- MODULE TradingLanes -----------------------------
(***************************************************************************)
(* Decisions on their way to the venue, from the portfolio snapshot to the *)
(* settled hold: the pipeline's runs (src/engines/pipeline.ts and          *)
(* pipeline-stage.ts), and the proposals of the policy gateway             *)
(* (src/engines/policy-gateway.ts), approved first and executed later.     *)
(* They share one RiskReservationManager, one PortfolioEngine and one      *)
(* venue.  The runs that go through SymbolLanes follow one another on an   *)
(* instrument; those of a confirmed setup (alerts/runtime.ts) and of the   *)
(* terminal's command (ui/app-hooks.ts) do not go through it.              *)
(***************************************************************************)
EXTENDS RiskReservations

CONSTANTS
  Gateway,     \* decisions that come through the policy gateway
  Loose,       \* runs of the pipeline started outside SymbolLanes
  VenueAnswers,  \* FALSE if reading the account may fail
  MaxAge,      \* bound on how far a hold ages: 1 past the intent's TTL, 2 past its own
  MaxCrashes   \* bound on restarts

ASSUME LanesAssumption ==
  /\ Gateway \subseteq Runs /\ Loose \subseteq Runs \ Gateway
  /\ VenueAnswers \in BOOLEAN
  /\ MaxAge \in 0 .. 2
  /\ MaxCrashes \in Nat

VARIABLES
  pc,       \* where a decision is
  seen,     \* the positions its portfolio snapshot shows
  known,    \* the positions of PortfolioEngine.lastState
  hold,     \* the state of its hold
  age,      \* 0 fresh, 1 older than INTENT_TTL_MS, 2 older than the hold's TTL
  order,    \* its order at the venue; "lost" never arrived
  book,     \* decisions whose position is open at the venue
  blind,    \* states of the holds whose exposure an approval did not count (history)
  crashes   \* restarts so far

vars == <<pc, seen, known, hold, age, order, book, blind, crashes>>

Pipeline == Runs \ Gateway
Laned == Pipeline \ Loose
Stages == {"idle", "fetched", "approved", "sending", "done"}
InLane(r) == pc[r] \in {"fetched", "approved", "sending"}

\* Exposure there is, or may still come.
Exposed == {r \in Runs : pc[r] = "approved" \/ pc[r] = "sending" \/ order[r] = "live"} \union book

\* commit and release: only an active hold changes.
Become(r, state) == hold' = [hold EXCEPT ![r] = IF @ = "ACTIVE" THEN state ELSE @]
Move(r, stage) == pc' = [pc EXCEPT ![r] = stage]

\* refreshPortfolio: the venue's positions, or the last known ones if it fails.
Fetch(r) ==
  /\ r \in Pipeline /\ pc[r] = "idle"
  /\ r \in Laned => \A q \in Laned : SymbolOf[q] = SymbolOf[r] => ~InLane(q)
  /\ Move(r, "fetched")
  /\ \E now \in {book} \union (IF VenueAnswers THEN {} ELSE {known}) :
       /\ seen' = [seen EXCEPT ![r] = now]
       /\ known' = now
  /\ UNCHANGED <<hold, age, order, book, blind, crashes>>

\* No setup, no decision to execute, no such candidate, or a gate, the validation,
\* the risk engine or the other venue refuses, or any of them throws.
RunRefused(r) ==
  /\ r \in Pipeline /\ pc[r] = "fetched" /\ Move(r, "done")
  /\ UNCHANGED <<seen, known, hold, age, order, book, blind, crashes>>

\* The same for a proposal to the gateway: nothing is held for it yet.
ProposalRefused(r) ==
  /\ r \in Gateway /\ pc[r] = "idle" /\ Move(r, "done")
  /\ UNCHANGED <<seen, known, hold, age, order, book, blind, crashes>>

\* sweepExpired
Swept == [q \in Runs |-> IF hold[q] = "ACTIVE" /\ age[q] = 2 THEN "EXPIRED" ELSE hold[q]]

\* reserve, against the snapshot in hand: a hold, or the run ends.
Reserve(r, view) ==
  LET active == {q \in Runs : Swept[q] = "ACTIVE"} IN
  /\ IF Fits(view, active, r)
     THEN /\ hold' = [Swept EXCEPT ![r] = "ACTIVE"]
          /\ Move(r, "approved")
          /\ blind' = blind \union {Swept[q] : q \in Exposed \ (view \union active)}
     ELSE hold' = Swept /\ Move(r, "done") /\ UNCHANGED blind
  /\ UNCHANGED <<seen, known, age, order, book, crashes>>

\* proceedToExecution: reserve against the snapshot the run began with.
ReservePipeline(r) == r \in Pipeline /\ pc[r] = "fetched" /\ Reserve(r, seen[r])

\* propose: reserve against peek().
Propose(r) == r \in Gateway /\ pc[r] = "idle" /\ Reserve(r, known)

\* A variant that never looks at the intent's clock.
UsableAlways(r) == TRUE

\* verifyPendingIntent, for a decision the gateway holds.
Usable(r) == age[r] = 0

\* The pipeline sends after its challenger answered; the gateway when executeApproved
\* is called and the intent is not too old.
Send(r) ==
  /\ pc[r] = "approved"
  /\ r \in Gateway => Usable(r)
  /\ Move(r, "sending")
  /\ UNCHANGED <<seen, known, hold, age, order, book, blind, crashes>>

\* executeApproved on an expired intent, or while trading is halted.
RefuseIntent(r) ==
  /\ r \in Gateway /\ pc[r] = "approved"
  /\ Become(r, "RELEASED") /\ Move(r, "done")
  /\ UNCHANGED <<seen, known, age, order, book, blind, crashes>>

\* The challenger throws, outside the pipeline's try: nobody frees the hold.
ChallengeThrows(r) ==
  /\ r \in Pipeline /\ pc[r] = "approved"
  /\ Move(r, "done")
  /\ UNCHANGED <<seen, known, hold, age, order, book, blind, crashes>>

\* submit throws, before the venue is called or after a fill it could not record:
\* the pipeline frees the hold, the gateway leaves it.
SubmitThrows(r) ==
  /\ pc[r] = "sending" /\ order[r] \in {"none", "filled"}
  /\ IF r \in Pipeline THEN Become(r, "RELEASED") ELSE UNCHANGED hold
  /\ Move(r, "done")
  /\ UNCHANGED <<seen, known, age, order, book, blind, crashes>>

\* The venue takes the order: it rests, fills, or is refused.
VenueTakes(r) ==
  /\ pc[r] = "sending" /\ order[r] = "none"
  /\ \E o \in {"live", "filled", "ended"} :
       /\ order' = [order EXCEPT ![r] = o]
       /\ book' = IF o = "filled" THEN book \union {r} ELSE book
  /\ UNCHANGED <<pc, seen, known, hold, age, blind, crashes>>

\* A variant that also frees the hold of an order still working.
SettleHasty(r) ==
  IF order[r] = "filled" THEN Become(r, "COMMITTED") ELSE Become(r, "RELEASED")

\* settleReservation and settleGatewayReservation, by the status that came back.
Settle(r) ==
  \/ order[r] = "filled" /\ Become(r, "COMMITTED")
  \/ order[r] = "ended" /\ Become(r, "RELEASED")
  \/ order[r] \notin {"filled", "ended"} /\ UNCHANGED hold

Answered(r) ==
  /\ pc[r] = "sending" /\ order[r] # "none"
  /\ Settle(r)
  /\ Move(r, "done")
  /\ UNCHANGED <<seen, known, age, order, book, blind, crashes>>

\* The placement times out: UNKNOWN keeps the hold, whatever the venue did.
Unanswered(r) ==
  /\ pc[r] = "sending"
  /\ order' = [order EXCEPT ![r] = IF @ = "none" THEN "lost" ELSE @]
  /\ Move(r, "done")
  /\ UNCHANGED <<seen, known, hold, age, book, blind, crashes>>

VenueFills(r) ==
  /\ order[r] = "live"
  /\ order' = [order EXCEPT ![r] = "filled"]
  /\ book' = book \union {r}
  /\ UNCHANGED <<pc, seen, known, hold, age, blind, crashes>>

VenueEnds(r) ==
  /\ order[r] = "live"
  /\ order' = [order EXCEPT ![r] = "ended"]
  /\ UNCHANGED <<pc, seen, known, hold, age, book, blind, crashes>>

\* The reconciler finds the order filled, or finds that there is none and no
\* position on its pair.  One it finds ended keeps its hold.
Reconcile(r) ==
  /\ pc[r] = "done"
  /\ \/ order[r] = "filled" /\ Become(r, "COMMITTED")
     \/ order[r] = "lost" /\ SymbolOf[r] \notin SymbolsOf(book) /\ Become(r, "RELEASED")
  /\ UNCHANGED <<pc, seen, known, age, order, book, blind, crashes>>

\* The account's position on an instrument is closed.
PositionCloses(s) ==
  /\ s \in SymbolsOf(book)
  /\ book' = {r \in book : SymbolOf[r] # s}
  /\ UNCHANGED <<pc, seen, known, hold, age, order, blind, crashes>>

\* Time passes for a hold.  The call to the venue is cut off after seconds, too few
\* to tell apart from the moments before and after it.
Age(r) ==
  /\ hold[r] = "ACTIVE" /\ age[r] < MaxAge /\ pc[r] # "sending"
  /\ age' = [age EXCEPT ![r] = @ + 1]
  /\ UNCHANGED <<pc, seen, known, hold, order, book, blind, crashes>>

\* The process dies: holds, intents and runs were in memory only.
Crash ==
  /\ crashes < MaxCrashes
  /\ crashes' = crashes + 1
  /\ pc' = [r \in Runs |-> IF InLane(r) THEN "done" ELSE pc[r]]
  /\ order' = [r \in Runs |-> IF pc[r] = "sending" /\ order[r] = "none" THEN "lost" ELSE order[r]]
  /\ hold' = [r \in Runs |-> "none"]
  /\ known' = {}
  /\ UNCHANGED <<seen, age, book, blind>>

Init ==
  /\ pc = [r \in Runs |-> "idle"]
  /\ seen = [r \in Runs |-> {}]
  /\ known = {}
  /\ hold = [r \in Runs |-> "none"]
  /\ age = [r \in Runs |-> 0]
  /\ order = [r \in Runs |-> "none"]
  /\ book = {}
  /\ blind = {}
  /\ crashes = 0

Next ==
  \/ \E r \in Runs :
       \/ Fetch(r) \/ RunRefused(r) \/ ReservePipeline(r)
       \/ ProposalRefused(r) \/ Propose(r)
       \/ Send(r) \/ ChallengeThrows(r) \/ RefuseIntent(r)
       \/ VenueTakes(r) \/ Answered(r) \/ Unanswered(r) \/ SubmitThrows(r)
       \/ VenueFills(r) \/ VenueEnds(r) \/ Reconcile(r) \/ Age(r)
  \/ \E s \in Symbols : PositionCloses(s)
  \/ Crash

Spec == Init /\ [][Next]_vars

-----------------------------------------------------------------------------
(* Properties *)

\* Every variable keeps its type.
TypeOK ==
  /\ pc \in [Runs -> Stages]
  /\ seen \in [Runs -> SUBSET Runs] /\ known \subseteq Runs
  /\ hold \in [Runs -> HoldStates] /\ age \in [Runs -> 0 .. 2]
  /\ order \in [Runs -> {"none", "live", "filled", "ended", "lost"}]
  /\ book \subseteq Runs
  /\ blind \subseteq HoldStates
  /\ crashes \in 0 .. MaxCrashes

\* The inductive invariant behind the two properties on holds: what each stage of a
\* decision says of its hold and its order.
HoldFollowsStage ==
  \A r \in Runs :
    /\ pc[r] \in {"idle", "fetched"} => hold[r] = "none" /\ order[r] = "none"
    /\ pc[r] \in {"approved", "sending"} => hold[r] \in {"ACTIVE", "EXPIRED"}
    /\ pc[r] = "approved" => order[r] = "none"
    /\ pc[r] = "approved" /\ hold[r] = "EXPIRED" => age[r] = 2
    /\ order[r] = "live" => hold[r] \notin {"RELEASED", "COMMITTED"}

\* Collective exposure stays within the position, gross and cluster caps as long as
\* no decision was approved on a projection that missed exposure that was open or
\* could still come: the reservations then do what they are for, whatever fills,
\* throws, times out or is reconciled when (risk-reservations.ts:91-105).
BreachOnlyBlind == blind = {} => WithinCaps(book)

\* The hold of an order that can still fill is neither freed nor retired
\* (pipeline-stage.ts:103-104); only its TTL or a restart ends it.
LiveNeverFreed ==
  \A r \in Runs : order[r] = "live" => hold[r] \notin {"RELEASED", "COMMITTED"}

\* What the gateway sends still has its hold: an intent dies before its hold does.
GatewaySendsHeld ==
  [][\A r \in Gateway : pc[r] = "approved" /\ pc'[r] = "sending" => hold[r] = "ACTIVE"]_vars

\* Collective exposure never breaches the position, gross and cluster caps
\* (README.md:56-58).
CapsHeld == WithinCaps(book)

=============================================================================
