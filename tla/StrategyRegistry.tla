-------------------------- MODULE StrategyRegistry --------------------------
(***************************************************************************)
(* src/learning/strategy-registry.ts: strategies with a frozen gate, the   *)
(* cells the gate let through, and what a restart reads back of both from  *)
(* the event log, which every other part of the kernel writes to as well.  *)
(* src/kernel-builders.ts turns the registry into the gate of the pipeline. *)
(***************************************************************************)
EXTENDS Integers, Sequences, SequencesExt, FiniteSets

CONSTANTS
  Strategies,   \* strategy ids
  Regimes,      \* with the strategy's setup, a regime names a cell
  Gates,        \* frozen gates: the score they ask for
  Scores,       \* what the statistics of a cell are worth
  RegistryView, \* how many lines hydrate reads back
  LogKeeps,     \* lines a rotation of the log keeps
  LogLines,     \* bound on the lines of the log
  DiskFails,    \* whether an append may fail and leave nothing
  DiskTears,    \* whether an append may fail and leave half a line
  MaxVersion,   \* bound on registrations of one strategy
  MaxBoots      \* bound on restarts

ASSUME RegistryAssumption ==
  /\ Gates \subseteq Nat /\ Scores \subseteq Nat
  /\ \E g \in Gates : \A k \in Gates : g >= k
  /\ RegistryView \in Nat \ {0} /\ LogKeeps \in Nat \ {0} /\ LogLines \in Nat
  /\ LogKeeps < LogLines
  /\ DiskFails \in BOOLEAN /\ DiskTears \in BOOLEAN /\ MaxVersion \in Nat /\ MaxBoots \in Nat

VARIABLES
  strategies,  \* the map: Unknown, or a definition
  decided,     \* history: what the map would be if no restart had forgotten any of it
  registryLog, \* the event log
  unwritten,   \* history: a registration or retirement never became a line
  boots        \* restarts so far

registryVars == <<strategies, decided, registryLog, unwritten, boots>>

Status == {"CANDIDATE", "ACTIVE", "RETIRED"}
Unknown == [status |-> "unknown", version |-> 0, gate |-> 0, cells |-> {}]
Candidate(v, g) == [status |-> "CANDIDATE", version |-> v, gate |-> g, cells |-> {}]
Known(reg) == {s \in Strategies : reg[s] # Unknown}

RegistryEvent ==
  [kind : {"registered"}, id : Strategies, version : 1 .. MaxVersion, gate : Gates]
  \union [kind : {"promoted"}, id : Strategies, cells : SUBSET Regimes]
  \union [kind : {"retired"}, id : Strategies]
Elsewhere == [kind |-> "elsewhere"]
TornLine == [kind |-> "torn"]

L == INSTANCE EventLog WITH
  Events <- RegistryEvent \union {Elsewhere}, Unreadable <- TornLine,
  Kept <- LogKeeps, Oversize <- LogKeeps, Capacity <- LogLines,
  DiskMayFail <- DiskFails, DiskMayTear <- DiskTears

RegistryInit ==
  /\ strategies = [s \in Strategies |-> Unknown] /\ decided = strategies
  /\ registryLog = L!EmptyLog
  /\ unwritten = FALSE /\ boots = 0

\* What a promotion makes of a definition; mergeApprovedCells does the same on replay.
Promoted(def, cells) == [def EXCEPT !.status = "ACTIVE", !.cells = @ \union cells]

\* A variant in which a registration keeps what an older one was promoted to.
ReplayedKeepingCells(reg, e) ==
  CASE e.kind = "registered" ->
         [reg EXCEPT ![e.id] = [@ EXCEPT !.version = e.version, !.gate = e.gate,
                                         !.status = IF @ = "unknown" THEN "CANDIDATE" ELSE @]]
    [] e.kind = "promoted" /\ reg[e.id] # Unknown -> [reg EXCEPT ![e.id] = Promoted(@, e.cells)]
    [] e.kind = "retired" /\ reg[e.id] # Unknown -> [reg EXCEPT ![e.id].status = "RETIRED"]
    [] OTHER -> reg

\* What hydrate makes of one event; those of strategies it does not know are skipped.
Replayed(reg, e) ==
  CASE e.kind = "registered" -> [reg EXCEPT ![e.id] = Candidate(e.version, e.gate)]
    [] e.kind = "promoted" /\ reg[e.id] # Unknown -> [reg EXCEPT ![e.id] = Promoted(@, e.cells)]
    [] e.kind = "retired" /\ reg[e.id] # Unknown -> [reg EXCEPT ![e.id].status = "RETIRED"]
    [] OTHER -> reg

RegistryHydrated(f) ==
  FoldLeft(Replayed, [s \in Strategies |-> Unknown], L!ReadAll(f, RegistryView))

\* append: not critical, so nobody notices that a line was lost or swallowed by a
\* torn one.  A lost promotion only makes the registry stricter.  (Bound: nothing
\* more is written once a registration or a retirement was lost.)
Writes(e) ==
  ~ unwritten /\ \E a \in L!Appends(registryLog, e) :
    /\ registryLog' = a.log
    /\ unwritten' = (unwritten \/ (e.kind \in {"registered", "retired"}
                                     /\ (a.log.lines = <<>> \/ Last(a.log.lines) # e)))

\* register: re-registration bumps the version and starts again as a candidate.
Register(s, g) ==
  /\ strategies[s].version < MaxVersion
  /\ strategies' = [strategies EXCEPT ![s] = Candidate(@.version + 1, g)]
  /\ decided' = [decided EXCEPT ![s] = strategies'[s]]
  /\ Writes([kind |-> "registered", id |-> s, version |-> strategies'[s].version, gate |-> g])
  /\ UNCHANGED boots

\* evaluateAgainstGate: five thresholds in the code, all of which must hold.
PassesGate(s, score) ==
  strategies[s].status \in {"CANDIDATE", "ACTIVE"} /\ score >= strategies[s].gate

\* promote
Promote(s, r, score, force) ==
  /\ strategies[s] # Unknown /\ (PassesGate(s, score) \/ force)
  /\ strategies' = [strategies EXCEPT ![s] = Promoted(@, {r})]
  /\ decided' = [decided EXCEPT ![s] = Promoted(@, {r})]
  /\ Writes([kind |-> "promoted", id |-> s, cells |-> strategies'[s].cells])
  /\ UNCHANGED boots

\* applyOosPromotions: registerOnce with the default gate, then promote.  The two
\* appends are one synchronous block; the second is what Promote does next.
RegisterOnce(s) ==
  /\ strategies[s] = Unknown
  /\ Register(s, CHOOSE g \in Gates : \A k \in Gates : g >= k)

Retire(s) ==
  /\ strategies[s] # Unknown
  /\ strategies' = [strategies EXCEPT ![s].status = "RETIRED"]
  /\ decided' = [decided EXCEPT ![s].status = "RETIRED"]
  /\ Writes([kind |-> "retired", id |-> s])
  /\ UNCHANGED boots

\* everything else that appends to the log
WritesElsewhere == Writes(Elsewhere) /\ UNCHANGED <<strategies, decided, boots>>

RegistryRestart ==
  /\ boots < MaxBoots /\ boots' = boots + 1
  /\ strategies' = RegistryHydrated(registryLog)
  /\ UNCHANGED <<decided, registryLog, unwritten>>

RegistryNext ==
  \/ \E s \in Strategies, g \in Gates : Register(s, g)
  \/ \E s \in Strategies, r \in Regimes, score \in Scores, force \in BOOLEAN :
       Promote(s, r, score, force)
  \/ \E s \in Strategies : RegisterOnce(s) \/ Retire(s)
  \/ WritesElsewhere
  \/ RegistryRestart

-----------------------------------------------------------------------------
RegistryTypeOK ==
  /\ strategies \in [Strategies ->
       {Unknown} \union [status : Status, version : 1 .. MaxVersion, gate : Gates,
                         cells : SUBSET Regimes]]
  /\ decided \in [Strategies ->
       [status : Status \union {"unknown"}, version : 0 .. MaxVersion, gate : {0} \union Gates,
        cells : SUBSET Regimes]]
  /\ registryLog \in [lines : Seq(RegistryEvent \union {Elsewhere, TornLine}), open : BOOLEAN]
  /\ Len(registryLog.lines) <= LogLines
  /\ unwritten \in BOOLEAN /\ boots \in 0 .. MaxBoots

\* buildStrategyGate: while no strategy is registered every cell may be traded.
GateOpen(reg) == Known(reg) = {}
CellTradable(reg, s, r) == GateOpen(reg) \/ (reg[s].status = "ACTIVE" /\ r \in reg[s].cells)

\* Whatever the window, the rotations and the torn lines leave of the log, no restart
\* and no promotion after one makes a cell tradable that a re-registration or a
\* retirement took away, except by forgetting every strategy or because the taking
\* away never reached the log (strategy-registry.ts:110).  What an earlier restart
\* forgot may come back.
NoCellTakenBack ==
  \/ unwritten \/ GateOpen(strategies)
  \/ \A s \in Strategies, r \in Regimes :
       CellTradable(strategies, s, r) => CellTradable(decided, s, r)

=============================================================================
