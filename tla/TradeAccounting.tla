-------------------------- MODULE TradeAccounting ---------------------------
(***************************************************************************)
(* What the live kernel makes of its fills: the engine folds a view of the *)
(* order and fires the fill hook (kernel.ts:163), the fills ledger records *)
(* and nets it, each closed lot is fanned out (kernel-venue.ts:39) to the  *)
(* trade ledger (src/learning/trade-ledger.ts) and to the performance      *)
(* engine (src/engines/performance-engine.ts), and all of it is rebuilt    *)
(* from the event log when the process restarts.  A hook runs to its end   *)
(* without a pause, but a write may fail and the process may die in it.    *)
(***************************************************************************)
EXTENDS FillsLedger, FiniteSets

CONSTANTS
  DiskMayFail,  \* whether an append to the event log can fail
  MaxRecords,   \* bound on recorded fills
  MaxCrashes    \* bound on restarts

ASSUME AccountingAssumption ==
  /\ DiskMayFail \in BOOLEAN /\ IsFiniteSet(Decisions)
  /\ MaxRecords \in Nat /\ MaxCrashes \in Nat

VARIABLES
  filled,     \* what the venue has filled of each order
  tracked,    \* the filled quantity the engine last folded
  recorded,   \* the fill.recorded events on disk
  book,       \* the fills ledger in memory
  pending,    \* decisions whose feature snapshot waits for a fill
  trades,     \* the trade ledger in memory
  kept,       \* what the trade.opened and trade.closed events say
  journal,    \* units closed according to the trade.closed events
  realised,   \* units closed according to the performance engine
  forgotten,  \* decisions whose lastCumulative was deleted (history)
  lost,       \* a write failed or a fan-out was cut short (history)
  crashes     \* restarts so far

vars == <<filled, tracked, recorded, book, pending, trades, kept, journal,
          realised, forgotten, lost, crashes>>

TradeState == {"none", "open", "closed"}
\* Bound: one failure in a behaviour.
Writes == IF DiskMayFail /\ ~ lost THEN BOOLEAN ELSE {TRUE}

\* The writes of one hook: the fill, position.closed, and those of the trade ledger
\* and the performance engine; the disk fails at one of them.
HookWrites ==
  {l \in [fill: Writes, closed: Writes, trades: Writes] :
     Cardinality({k \in DOMAIN l : ~ l[k]}) <= 1}

\* recordOpened: the map, then the event.
Opened(ds, w) ==
  /\ trades' = [d \in Decisions |-> IF d \in ds THEN "open" ELSE trades[d]]
  /\ kept' = [d \in Decisions |-> IF d \in ds /\ w THEN "open" ELSE kept[d]]
  /\ pending' = pending \ ds

\* A variant that writes the close down twice.
RecordLiveCloseTwice(acc, a) ==
  LET found == acc.trades[a.d] = "open" IN
  [acc EXCEPT !.trades = IF found THEN [@ EXCEPT ![a.d] = "closed"] ELSE @,
              !.kept = IF found /\ acc.w THEN [@ EXCEPT ![a.d] = "closed"] ELSE @,
              !.journal = IF acc.w THEN @ + (IF found THEN 2 ELSE 1) * a.q ELSE @,
              !.realised = @ + (IF found THEN a.q ELSE 2 * a.q)]

\* recordLiveClose: the trade ledger closes and writes the open trade it finds; the
\* performance engine adds the close, and when none was found adds and writes it.
RecordLiveClose(acc, a) ==
  LET found == acc.trades[a.d] = "open" IN
  [acc EXCEPT !.trades = IF found THEN [@ EXCEPT ![a.d] = "closed"] ELSE @,
              !.kept = IF found /\ acc.w THEN [@ EXCEPT ![a.d] = "closed"] ELSE @,
              !.journal = IF acc.w THEN @ + a.q ELSE @,
              !.realised = @ + (IF found THEN a.q ELSE 2 * a.q)]

FanOut(allocs, w) ==
  FoldLeft(RecordLiveClose,
           [trades |-> trades, kept |-> kept, journal |-> journal,
            realised |-> realised, w |-> w], allocs)

\* The decisions the log says more of than the ledger remembers.
Forgets(log, b) ==
  {d \in Decisions : \E k \in DOMAIN log : log[k].d = d /\ log[k].cum > b.last[d]}

\* What the process loses when it dies, and what it rebuilds from these events.
Reborn(log, k, j) ==
  /\ recorded' = log
  /\ book' = Replay(log)
  /\ kept' = k
  /\ trades' = k
  /\ journal' = j
  /\ realised' = j
  /\ tracked' = [d \in Decisions |-> 0]
  /\ pending' = {}
  /\ forgotten' = forgotten \union Forgets(recorded', book')
  /\ crashes' = crashes + 1

-----------------------------------------------------------------------------
(* Actions *)

\* The venue executes a unit of the order.
Fill(d) ==
  /\ filled[d] < Qty
  /\ filled' = [filled EXCEPT ![d] = @ + 1]
  /\ UNCHANGED <<tracked, recorded, book, pending, trades, kept, journal, realised,
                 forgotten, lost, crashes>>

\* The engine folds a view without firing the hook: it holds no new quantity, or the
\* transition that comes first threw.
FoldSilent(d, view) ==
  /\ view <= tracked[d] \/ ~ lost
  /\ tracked' = [tracked EXCEPT ![d] = view]
  /\ lost' = (lost \/ view > tracked[d])
  /\ UNCHANGED <<filled, recorded, book, pending, trades, kept, journal, realised,
                 forgotten, crashes>>

\* A variant that takes the engine's quantity for the ledger's.
DeltaTracked(d, view) == view - tracked[d]

\* What the ledger has not recorded of a view.
Delta(d, view) == view - book.last[d]

\* The hook fires but the ledger has recorded as much before: record throws.
FoldRecorded(d, view) ==
  /\ view > tracked[d] /\ Delta(d, view) <= 0
  /\ tracked' = [tracked EXCEPT ![d] = view]
  /\ UNCHANGED <<filled, recorded, book, pending, trades, kept, journal, realised,
                 forgotten, lost, crashes>>

NewFill(d, view) == [d |-> d, q |-> Delta(d, view), cum |-> view]

\* What the hook and its writes leave when the process lives.
FoldFill(d, view) ==
  /\ view > tracked[d] /\ Delta(d, view) > 0
  /\ Len(recorded) < MaxRecords
  /\ tracked' = [tracked EXCEPT ![d] = view]
  /\ \E l \in HookWrites :
       LET f == NewFill(d, view)
           x == Fold(book, f)
       IN /\ recorded' = IF l.fill THEN Append(recorded, f) ELSE recorded
          /\ lost' = (lost \/ ~ l.fill \/ ~ l.trades \/ (x.flat /\ ~ l.closed))
          /\ \/ \* position.closed is critical: a failed append throws
                /\ x.flat /\ ~ l.closed
                /\ book' = x.book
                /\ UNCHANGED <<pending, trades, kept, journal, realised>>
             \/ /\ ~ x.flat \/ l.closed
                /\ book' = Flipped(x, f)
                /\ LET acc == FanOut(x.allocs, l.trades)
                       ds  == {d} \intersect pending
                   IN /\ trades' = [e \in Decisions |-> IF e \in ds THEN "open" ELSE acc.trades[e]]
                      /\ kept' = [e \in Decisions |->
                                    IF e \in ds /\ l.trades THEN "open" ELSE acc.kept[e]]
                      /\ pending' = pending \ ds
                      /\ journal' = acc.journal
                      /\ realised' = acc.realised
  /\ forgotten' = forgotten \union Forgets(recorded', book')
  /\ UNCHANGED <<filled, crashes>>

\* The pipeline commits the snapshot of an order that came back filled.
Commit(d) ==
  /\ d \in pending /\ tracked[d] > 0
  /\ \E w \in Writes : Opened({d}, w) /\ lost' = (lost \/ ~ w)
  /\ UNCHANGED <<filled, tracked, recorded, book, journal, realised, forgotten, crashes>>

\* The pipeline drops the snapshot of an order whose execution threw: an order the
\* venue may have, when it was the transition to UNKNOWN that could not be written.
Clear(d) ==
  /\ FALSE \in Writes
  /\ d \in pending
  /\ pending' = pending \ {d}
  /\ lost' = TRUE
  /\ UNCHANGED <<filled, tracked, recorded, book, trades, kept, journal, realised,
                 forgotten, crashes>>

\* The process dies between two hooks.
Restart ==
  /\ crashes < MaxCrashes
  /\ Reborn(recorded, kept, journal)
  /\ UNCHANGED <<filled, lost>>

\* The process dies in a hook, after the fill was written and n lots fanned out.
DieInHook(d, view) ==
  /\ crashes < MaxCrashes /\ ~ lost
  /\ view > tracked[d] /\ Delta(d, view) > 0
  /\ Len(recorded) < MaxRecords
  /\ LET f == NewFill(d, view)
         x == Fold(book, f)
     IN \E n \in 0 .. Len(x.allocs) :
          LET acc == FanOut(SubSeq(x.allocs, 1, n), TRUE) IN
          Reborn(Append(recorded, f), acc.kept, acc.journal)
  /\ lost' = TRUE
  /\ UNCHANGED filled

Init ==
  /\ filled = [d \in Decisions |-> 0]
  /\ tracked = [d \in Decisions |-> 0]
  /\ recorded = <<>>
  /\ book = EmptyBook
  /\ pending = Decisions
  /\ trades = [d \in Decisions |-> "none"]
  /\ kept = [d \in Decisions |-> "none"]
  /\ journal = 0
  /\ realised = 0
  /\ forgotten = {}
  /\ lost = FALSE
  /\ crashes = 0

Next ==
  \/ \E d \in Decisions :
       \/ Fill(d)
       \/ \E view \in 0 .. filled[d] :
            FoldSilent(d, view) \/ FoldRecorded(d, view) \/ FoldFill(d, view) \/ DieInHook(d, view)
       \/ Commit(d)
       \/ Clear(d)
  \/ Restart

Spec == Init /\ [][Next]_vars

-----------------------------------------------------------------------------
(* Properties *)

\* Every variable keeps its type.
TypeOK ==
  /\ filled \in [Decisions -> 0 .. Qty]
  /\ tracked \in [Decisions -> 0 .. Qty]
  /\ recorded \in Seq(FillRecord)
  /\ book \in Book
  /\ pending \subseteq Decisions
  /\ trades \in [Decisions -> TradeState]
  /\ kept \in [Decisions -> TradeState]
  /\ journal \in Nat /\ realised \in Nat
  /\ forgotten \subseteq Decisions
  /\ lost \in BOOLEAN
  /\ crashes \in 0 .. MaxCrashes

\* However views are repeated, stale or replayed after a restart, the log never
\* holds more of an order than the venue filled, for the orders whose cumulative
\* quantity the ledger still remembers (fills-ledger.ts:167-169).
BookedOnce == \A d \in Decisions \ forgotten : UnitsOf(recorded, d) <= filled[d]

\* The same of every order.
BookedExact == \A d \in Decisions : UnitsOf(recorded, d) <= filled[d]

\* Each recorded unit is open in a lot, or was journalled closed exactly once, as
\* an entry and as the fill that closed it, across restarts (README.md:180-181);
\* until a write failed or the process died inside the hook.
Conserved == ~ lost => Units(recorded) = Units(book.lots) + 2 * journal

NetOf(side) == IF book.side = side THEN Units(book.lots) ELSE 0

VenueNet(side) ==
  FoldLeft(LAMBDA n, d : IF SideOf[d] = side THEN n + filled[d] ELSE n, 0,
           SetToSeq(Decisions))

\* Once the engine has seen every fill, the ledger's net position is the venue's,
\* after partial fills in any order, flips, stale views and restarts; until a
\* failure, or an order was recorded twice (test/fills-ledger.test.ts:142-155).
BookIsVenue ==
  ~ lost /\ BookedExact /\ (\A d \in Decisions : tracked[d] = filled[d]) =>
    NetOf("buy") - NetOf("sell") = VenueNet("buy") - VenueNet("sell")

\* The performance engine counts a close as often as its event will be replayed
\* (docs/ROADMAP.md:201-204).
RealisedOnce == ~ lost => realised = journal

=============================================================================
