--------------------------- MODULE RiskReservations ---------------------------
(***************************************************************************)
(* The arithmetic of src/engines/risk-reservations.ts: what a candidate    *)
(* order is projected to add to the positions a portfolio snapshot shows   *)
(* and to the active holds, and the limits that decline it.  A hold is     *)
(* named by the decision it is for; exposure is in lots of a fixed equity. *)
(***************************************************************************)
EXTENDS Integers, FiniteSets

CONSTANTS
  Runs,          \* decisions, each asking for one hold
  Symbols,       \* instruments
  SymbolOf,      \* the instrument a decision trades
  BookName,      \* what a snapshot calls an instrument's position (toExposure)
  Clusters,      \* correlation clusters
  ClusterOf,     \* the cluster of an instrument
  Notional,      \* the size of a decision, in lots
  MaxPositions,  \* maxConcurrentPositions
  MaxSymbol,     \* maxSymbolExposurePercent, in lots
  MaxGross,      \* maxPortfolioGrossExposurePercent, in lots
  MaxCluster     \* maxCorrelatedExposurePercent, in lots

ASSUME ReservationsAssumption ==
  /\ IsFiniteSet(Runs) /\ IsFiniteSet(Symbols)
  /\ SymbolOf \in [Runs -> Symbols]
  /\ ClusterOf \in [Symbols -> Clusters]
  /\ DOMAIN BookName = Symbols
  /\ Notional \in [Runs -> Nat \ {0}]
  /\ {MaxPositions, MaxSymbol, MaxGross, MaxCluster} \subseteq Nat

HoldStates == {"none", "ACTIVE", "COMMITTED", "RELEASED", "EXPIRED"}

\* The lots of a set of decisions, and how many they are.
LotsOf(rs) == UNION {{r} \X (1 .. Notional[r]) : r \in rs}
Lots(rs) == Cardinality(LotsOf(rs))
SymbolsOf(rs) == {SymbolOf[r] : r \in rs}
InCluster(rs, c) == {r \in rs : ClusterOf[SymbolOf[r]] = c}

\* symbolExposureOf: a position counts under the name its snapshot gives it.
SymbolExposureOf(book, s) == Lots({r \in book : BookName[SymbolOf[r]] = s})

\* A variant in which a candidate is projected beside the positions alone.
FitsAlone(book, active, r) ==
  /\ Cardinality(SymbolsOf(book)) < MaxPositions
  /\ Lots(book) + Notional[r] <= MaxGross

\* project and limitRejections: broker state, the active holds and the candidate.
Fits(book, active, r) ==
  LET s == SymbolOf[r]
      c == ClusterOf[s]
      held == active \union {r} IN
  /\ Cardinality(SymbolsOf(book)) + Cardinality(held) <= MaxPositions
  /\ SymbolExposureOf(book, s) + Lots({h \in held : SymbolOf[h] = s}) <= MaxSymbol
  /\ Lots(InCluster(book, c)) + Lots(InCluster(held, c)) <= MaxCluster
  /\ Lots(book) + Lots(held) <= MaxGross

\* What the caps are about: the positions a set of decisions opened.
WithinCaps(rs) ==
  /\ Cardinality(SymbolsOf(rs)) <= MaxPositions
  /\ \A c \in Clusters : Lots(InCluster(rs, c)) <= MaxCluster
  /\ Lots(rs) <= MaxGross

=============================================================================
