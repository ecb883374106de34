---------------------------- MODULE FillsLedger -----------------------------
(***************************************************************************)
(* The position accounting of src/engines/fills-ledger.ts on one symbol:   *)
(* a netting position made of lots, each lot the part of one fill that is  *)
(* still open, closed first in first out by fills on the other side.       *)
(* Every order of the kernel is an ENTRY (policy-gateway.ts:157,           *)
(* kernel-executor.ts:57), so that is the branch modelled.                 *)
(***************************************************************************)
EXTENDS Integers, Sequences, SequencesExt

CONSTANTS
  Decisions,  \* decision ids of the orders on the symbol
  SideOf,     \* the side each order takes
  Qty         \* ordered quantity, in units

Sides == {"buy", "sell"}

ASSUME LedgerAssumption ==
  /\ SideOf \in [Decisions -> Sides]
  /\ Qty \in Nat \ {0}

Lot == [d: Decisions, q: 1 .. Qty]

\* lastCumulative, 0 where the map has no entry; side matters while lots do.
Book == [side: Sides, lots: Seq(Lot), last: [Decisions -> 0 .. Qty]]
EmptyBook == [side |-> "buy", lots |-> <<>>, last |-> [d \in Decisions |-> 0]]

\* A fill.recorded event.
FillRecord == [d: Decisions, q: 1 .. Qty, cum: 1 .. Qty]

Smaller(a, b) == IF a < b THEN a ELSE b
Larger(a, b) == IF a > b THEN a ELSE b

\* What is left of n units after one lot gave what it has.
TakeLot(acc, lot) ==
  LET q == Smaller(lot.q, acc.left) IN
  [left   |-> acc.left - q,
   allocs |-> IF q = 0 THEN acc.allocs ELSE Append(acc.allocs, [d |-> lot.d, q |-> q]),
   lots   |-> IF lot.q = q THEN acc.lots ELSE Append(acc.lots, [lot EXCEPT !.q = @ - q])]

\* allocateFifo: the lots that remain, and one allocation per lot consumed.
AllocateFifo(lots, n) ==
  FoldLeft(TakeLot, [left |-> n, allocs |-> <<>>, lots |-> <<>>], lots)

Credited(allocs) == {allocs[k].d : k \in DOMAIN allocs}

\* lastCumulative of a full close: the entries of this fill's allocations go.
Forget(last, flat, allocs) ==
  [d \in Decisions |-> IF flat /\ d \in Credited(allocs) THEN 0 ELSE last[d]]

\* A variant that opens no position on the other side after a full close.
FoldUnflipped(b, f) ==
  LET noted == [b.last EXCEPT ![f.d] = Larger(@, f.cum)]
      taken == AllocateFifo(b.lots, f.q)
      flat  == taken.lots = <<>>
  IN IF b.lots = <<>> \/ b.side = SideOf[f.d]
     THEN [book |-> [side |-> SideOf[f.d], last |-> noted,
                     lots |-> Append(b.lots, [d |-> f.d, q |-> f.q])],
           allocs |-> <<>>, flat |-> FALSE, flipped |-> 0]
     ELSE [book |-> [side |-> b.side, lots |-> taken.lots,
                     last |-> Forget(noted, flat, taken.allocs)],
           allocs |-> taken.allocs, flat |-> flat, flipped |-> 0]

\* fold: scale in on the same side, net down on the other; flipped is what a full
\* close leaves of the fill to open a position on its own side.
Fold(b, f) ==
  LET noted == [b.last EXCEPT ![f.d] = Larger(@, f.cum)]
      taken == AllocateFifo(b.lots, f.q)
      flat  == taken.lots = <<>>
  IN IF b.lots = <<>> \/ b.side = SideOf[f.d]
     THEN [book |-> [side |-> SideOf[f.d], last |-> noted,
                     lots |-> Append(b.lots, [d |-> f.d, q |-> f.q])],
           allocs |-> <<>>, flat |-> FALSE, flipped |-> 0]
     ELSE [book |-> [side |-> b.side, lots |-> taken.lots,
                     last |-> Forget(noted, flat, taken.allocs)],
           allocs |-> taken.allocs, flat |-> flat, flipped |-> taken.left]

\* The book with the position the rest of a closing fill opens.
Flipped(x, f) ==
  IF x.flipped = 0 THEN x.book
  ELSE [x.book EXCEPT !.side = SideOf[f.d], !.lots = <<[d |-> f.d, q |-> x.flipped]>>]

\* hydrate: the recorded fills folded again, with no fan-out.
Replay(log) == FoldLeft(LAMBDA b, f : Flipped(Fold(b, f), f), EmptyBook, log)

Units(s) == FoldLeft(LAMBDA n, x : n + x.q, 0, s)
UnitsOf(s, d) == FoldLeft(LAMBDA n, x : IF x.d = d THEN n + x.q ELSE n, 0, s)

=============================================================================
