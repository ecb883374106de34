---- MODULE SetupFunnel ----
(* The setup funnel: each bar of a recorded ladder asked gate by gate why it    *)
(* did not trade, with copies of the engine's conditions, beside what the       *)
(* engine detects on that bar; and the counts over the bars.                    *)
EXTENDS TradePlan

CONSTANTS
  FunnelReadings,  \* states of the market on a recorded ladder: no order flow is known
  FunnelBars,      \* bound on the bars
  DeadSeen, DeadRate  \* a dead gate: seen so often, passed by less than so many percent

ASSUME FunnelAssumption == FunnelBars \in Nat /\ \A r \in FunnelReadings : Priced(r)

VARIABLE funnelRows   \* observations, in the order of the bars

funnelVars == <<funnelRows>>

FunnelInit == funnelRows = <<>>

\* FUNNEL_GATE_IDS less those no bar is refused by
Sequential ==
  <<"macro", "bias", "structure", "liquidity", "retest", "trigger", "confluence", "rr", "risk">>

Size1000(p) == IF p < 0 THEN -p ELSE p

\* the frozen copy of confidenceOf
FrozenConfidence(r, d) ==
  Most(5, Least(95, 40 + 10 * Alignment(r, d) + (IF r.regime = Trends(d).regime THEN 8 ELSE 0)
                       - (IF r.wild1h THEN 15 ELSE 0)))

RetestGate(f) ==
  \/ 1000 * f.close >= 1000 * f.broken - Size1000(f.broken)
  \/ 1000 * f.close <= 1000 * f.swing5 + 5 * Size1000(f.swing5)
TriggerGate(r, f) == r.choch5 \/ (f.momentum > 0 /\ f.rsi >= 45)

\* a variant that blocks the direction of the trend
RiskGateReversed(r, d) == ~("PANIC" \in {r.btc, r.regime} \/ r.regime = Trends(d).regime)

RiskGate(r, d) == ~("PANIC" \in {r.btc, r.regime} \/ r.regime = Trends(Opposite(d)).regime)

DiagnosticRrPasses(f) ==
  LET risk == f.close - f.swing5 IN
  risk > 0 /\ (f.target - f.close) * 10 >= PlanLimits.minRr * risk

GateResults(r, d) ==
  LET f == Signed(r, d) IN
  [macro |-> r.trend["4h"] = Trends(d).trend, bias |-> r.trend["1h"] = Trends(d).trend,
   structure |-> r.trend["15m"] = Trends(d).trend, liquidity |-> r.sweep = Trends(d).sweep,
   retest |-> RetestGate(f), trigger |-> TriggerGate(r, f),
   confluence |-> FrozenConfidence(r, d) >= 75, rr |-> DiagnosticRrPasses(f), risk |-> RiskGate(r, d)]

\* firstReject names the first gate that failed, in an order written out again
RejectOrder ==
  <<"macro", "bias", "structure", "liquidity", "retest", "trigger", "confluence", "rr", "risk">>
FirstReject(g) ==
  LET failed == {n \in DOMAIN RejectOrder : ~g[RejectOrder[n]]} IN
  IF failed = {} THEN "NO_PRODUCTION_SETUP"
  ELSE RejectOrder[CHOOSE n \in failed : \A k \in failed : n <= k]

EvaluateDirection(r, d) ==
  LET setups == DetectSetups(r, "NORMAL")
      live == \E i \in DOMAIN setups : setups[i].direction = d
  IN  [direction |-> d, gates |-> GateResults(r, d), executable |-> live,
       momentum |-> Signed(r, d).momentum > 0 /\ Signed(r, d).rsi >= 45,
       reason |-> IF live THEN "none" ELSE FirstReject(GateResults(r, d))]

SequentialScore(o) == Cardinality({i \in DOMAIN Sequential : o.gates[Sequential[i]]})

\* one bar: what trades, else the direction that came furthest
EvaluateFunnelBar(r) ==
  LET long == EvaluateDirection(r, "LONG")
      short == EvaluateDirection(r, "SHORT")
  IN  IF long.executable \/ (~short.executable /\ SequentialScore(long) >= SequentialScore(short))
      THEN long ELSE short

\* aggregateFunnel: a bar is seen at a gate when it passed all gates before
SeenAt(n) == {i \in DOMAIN funnelRows : \A k \in 1..(n - 1) : funnelRows[i].gates[Sequential[k]]}
PassedAt(n) == {i \in SeenAt(n) : funnelRows[i].gates[Sequential[n]]}

SequentialDeadGate ==
  LET dead == {n \in DOMAIN Sequential :
                 /\ Cardinality(SeenAt(n)) >= DeadSeen
                 /\ Cardinality(PassedAt(n)) * 100 < DeadRate * Cardinality(SeenAt(n))}
  IN  IF dead = {} THEN "none" ELSE Sequential[CHOOSE n \in dead : \A k \in dead : n <= k]

Observes ==
  /\ Len(funnelRows) < FunnelBars
  /\ \E r \in FunnelReadings : funnelRows' = Append(funnelRows, EvaluateFunnelBar(r))

FunnelNext == Observes

FunnelTypeOK ==
  /\ Len(funnelRows) <= FunnelBars
  /\ SequentialDeadGate \in {"none"} \cup {Sequential[i] : i \in DOMAIN Sequential}

\* The copies and the engine tell one story: no bar trades that the funnel's own
\* risk gate refuses; a bar that passes every gate, its trigger by momentum, trades;
\* and the bars counted as lost at a gate are those refused in its name, or that
\* traded all the same (funnel-gates.ts:29 "do not drift", funnel-aggregate.ts:27-31).
FunnelExplains ==
  /\ \A i \in DOMAIN funnelRows :
       LET o == funnelRows[i] IN
       /\ o.executable => o.gates["risk"]
       /\ o.momentum /\ (\A n \in DOMAIN Sequential : o.gates[Sequential[n]]) => o.executable
  /\ \A n \in DOMAIN Sequential :
       \A i \in SeenAt(n) \ PassedAt(n) :
         funnelRows[i].executable \/ funnelRows[i].reason = Sequential[n]

====
