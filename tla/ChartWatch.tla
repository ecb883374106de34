---- MODULE ChartWatch ----
(* AlertRuntime.ingest and the trackers of a closed candle: MarketTracker,      *)
(* LevelTracker, SetupTracker and the signal path.  Every tracker remembers     *)
(* what it saw and tells the desk of changes.  Candles of several symbols and   *)
(* timeframes close together, so ingests overlap at every send.  A price is     *)
(* known by its distance band from what it is compared with.                    *)
EXTENDS NotificationEngine, SequencesExt

CONSTANTS
  Charts,               \* symbols
  Levels, ChartOf,      \* price levels and setup zones, and the symbol of each
  Zones,
  ChartDesks,           \* the subscriptions operators may have
  TrackedCap, TrackedDrop,  \* 500, 200
  MaxIngests, MaxLooks  \* bounds: ingests under way, and in all

ASSUME TrackerAssumption == TrackedCap \in Nat /\ TrackedDrop \in Nat \ {0}

VARIABLES
  moods,      \* MarketTracker: regime, BTC regime, volatility of each symbol
  bands,      \* LevelTracker.levels, in order of insertion
  breakouts,  \* LevelTracker.breakouts
  setups,     \* SetupTracker.mem, in order of insertion
  ingests,    \* ingests under way, at the setups
  chartDesk,
  looks

chartVars == <<moods, bands, breakouts, setups, ingests, chartDesk, looks>>

NotYet == "none"
Moods == {"CALM", "WILD"}
Distances == <<"reach", "enter", "near", "far">>  \* up to 0.02, 0.15, 0.40 %, beyond
Within(d, limit) == \E i, j \in 1..4 : Distances[i] = d /\ Distances[j] = limit /\ i <= j

ChartInit ==
  /\ moods = [s \in Charts |-> [regime |-> NotYet, btc |-> NotYet, vol |-> NotYet]]
  /\ bands = <<>> /\ breakouts = <<>> /\ setups = <<>> /\ ingests = {}
  /\ chartDesk \in {NewDesk(s) : s \in ChartDesks}
  /\ looks = 0

\* a variant that never prunes
PrunedNever(map) == map

\* Map.set and Map.get of a bounded map in order of insertion
Entry(map, key) == {i \in DOMAIN map : map[i].key = key}
ValueOf(map, key, default) ==
  IF Entry(map, key) = {} THEN default ELSE map[CHOOSE i \in Entry(map, key) : TRUE].value
SetEntry(map, key, value) ==
  LET entry == [key |-> key, value |-> value] IN
  IF Entry(map, key) = {} THEN Append(map, entry)
  ELSE [i \in DOMAIN map |-> IF i \in Entry(map, key) THEN entry ELSE map[i]]
Pruned(map) == IF Len(map) > TrackedCap THEN SubSeq(map, TrackedDrop + 1, Len(map)) ELSE map

Looking == looks < MaxLooks /\ looks' = looks + 1
ChartAlert(class, severity, topic, to, symbol) ==
  [Plain(class, severity, topic, to, 0) EXCEPT !.symbol = symbol]

----------------------------------------------------------------------------
(* MarketTracker: the first look is silent (seed); volatility is told when it   *)
(* expands, never when it calms; BTC has no BTC regime of its own.              *)
MarketLook(s) ==
  /\ Looking
  /\ \E what \in {"regime", "btc", "vol"}, now \in Moods :
       LET was == moods[s][what]
           told == was \notin {NotYet, now} /\ (what = "vol" => now = "WILD")
                   /\ (what = "btc" => s # "BTCUSDT")
       IN  /\ moods' = [moods EXCEPT ![s][what] = now]
           /\ chartDesk' = IF ~told THEN chartDesk
                ELSE Submit(chartDesk, ChartAlert("MARKET", "IMPORTANT", <<"market", s, what>>, now, s))
  /\ UNCHANGED <<bands, breakouts, setups, ingests>>

(* LevelTracker                                                                 *)
NextBand(d, was) ==
  IF d = "reach" THEN "REACHED"
  ELSE IF was = "FAR" THEN (IF d = "enter" THEN "APPROACHING" ELSE "FAR")
  ELSE IF d = "far" THEN "FAR"
  ELSE IF was = "REACHED" /\ Within(d, "enter") THEN "REACHED" ELSE "APPROACHING"

LevelLook(l) ==
  /\ Looking
  /\ \E i \in 1..4 :
       LET was == ValueOf(bands, l, "FAR")
           now == NextBand(Distances[i], was)
           severity == IF now = "REACHED" THEN "IMPORTANT" ELSE "WATCH"
       IN  /\ bands' = Pruned(SetEntry(bands, l, now))
           /\ chartDesk' = IF now \in {was, "FAR"} THEN chartDesk
                ELSE Submit(chartDesk, ChartAlert("LEVEL", severity, <<"level", l>>, now, ChartOf[l]))
  /\ UNCHANGED <<moods, breakouts, setups, ingests>>

\* inferBreakout: the close above confirms; a watch fails when price and close are
\* below; a break of structure near the level opens a watch
NextBreakout(closeAbove, below, bosNear, was) ==
  IF closeAbove THEN "CONFIRMED"
  ELSE IF was = "WATCH" /\ below THEN "FAILED"
  ELSE IF bosNear THEN "WATCH"
  ELSE IF was \in {"CONFIRMED", "FAILED"} THEN was ELSE "NONE"

BreakoutLook(l) ==
  /\ Looking
  /\ \E closeAbove, below, bosNear \in BOOLEAN :
       LET was == ValueOf(breakouts, l, "NONE")
           now == NextBreakout(closeAbove, below, bosNear, was)
           severity == IF now = "WATCH" THEN "WATCH" ELSE "IMPORTANT"
       IN  /\ ~(closeAbove /\ below)
           /\ breakouts' = Pruned(SetEntry(breakouts, l, now))
           /\ chartDesk' = IF now \in {was, "NONE"} THEN chartDesk
                ELSE Submit(chartDesk, ChartAlert("LEVEL", severity, <<"breakout", l>>, now, ChartOf[l]))
  /\ UNCHANGED <<moods, bands, setups, ingests>>

\* a sweep or a change of character on s is told of the first level near, whosever it is
ReactionLook(s) ==
  /\ Looking
  /\ LET near == SelectSeq(bands, LAMBDA e : e.value # "FAR") IN
     /\ near # <<>>
     /\ chartDesk' = Submit(chartDesk,
                       ChartAlert("LEVEL", "IMPORTANT", <<"reaction", near[1].key>>, "REACTION", s))
  /\ UNCHANGED <<moods, bands, breakouts, setups, ingests>>

----------------------------------------------------------------------------
(* SetupTracker                                                                 *)
Notified == {"WATCHING", "ZONE_REACHED", "CONFIRMING", "CONFIRMED", "INVALIDATED", "EXPIRED"}
Ended == {"INVALIDATED", "EXPIRED"}

\* inferPhase of a setup that is detected
InferPhase(breached, where, trigger, confident, was) ==
  IF breached THEN "INVALIDATED"
  ELSE IF where = "inZone" /\ trigger THEN
         IF confident THEN "CONFIRMED"
         ELSE IF was \in {"TRIGGER_DETECTED", "CONFIRMING"} THEN "CONFIRMING"
         ELSE "TRIGGER_DETECTED"
  ELSE CASE where = "inZone" -> "ZONE_REACHED" [] where = "close" -> "APPROACHING"
         [] OTHER -> "WATCHING"

SetupAlert(z, phase) ==
  ChartAlert(IF phase = "INVALIDATED" THEN "SIGNAL" ELSE "SETUP",
             IF phase = "WATCHING" THEN "WATCH" ELSE "IMPORTANT",
             <<"setup", z>>, phase, ChartOf[z])

\* emit: an invalidated setup of a symbol with a position demands the exit
Told(desk, z, phase, held) ==
  LET said == Submit(desk, SetupAlert(z, phase)) IN
  IF phase = "INVALIDATED" /\ held
  THEN Submit(said, ChartAlert("TRADE", "CRITICAL", <<"exit", ChartOf[z]>>, "EXIT_REQUIRED", ChartOf[z]))
  ELSE said

IngestBegins(s) ==
  /\ Looking /\ Cardinality(ingests) < MaxIngests
  /\ \E found \in SUBSET {z \in Zones : ChartOf[z] = s} :
       ingests' = ingests \cup {[id |-> looks, symbol |-> s, found |-> found, seen |-> {},
                                 confirmed |-> NotYet]}
  /\ UNCHANGED <<moods, bands, breakouts, setups, chartDesk>>

SetupLook(g, z) ==
  /\ z \in g.found \ g.seen
  /\ \E breached, trigger, confident, held \in BOOLEAN, where \in {"inZone", "close", "away"} :
       LET was == ValueOf(setups, z, "NONE")
           now == InferPhase(breached, where, trigger, confident, was)
       IN  /\ setups' = SetEntry(setups, z, now)
           /\ chartDesk' = IF now # was /\ now \in Notified
                           THEN Told(chartDesk, z, now, held) ELSE chartDesk
           /\ ingests' = (ingests \ {g}) \cup {[g EXCEPT !.seen = @ \cup {z},
                !.confirmed = IF now = "CONFIRMED" THEN z ELSE @]}
  /\ UNCHANGED <<moods, bands, breakouts, looks>>

Missing(g) == {e \in ToSet(setups) : e.key \notin g.seen /\ e.value \notin Ended}

\* expireMissing: whatever this ingest did not see, of any symbol, against the
\* close of this symbol
SetupMissing(g, e) ==
  /\ g.seen = g.found /\ e \in Missing(g)
  /\ \E breached, held \in BOOLEAN :
       LET now == IF breached THEN "INVALIDATED" ELSE "EXPIRED" IN
       /\ setups' = SetEntry(setups, e.key, now)
       /\ chartDesk' = Told(chartDesk, e.key, now, held)
  /\ UNCHANGED <<moods, bands, breakouts, ingests, looks>>

\* publishSignal
SignalTold(desk, g, strong) ==
  Submit(desk, [ChartAlert("SIGNAL", "SIGNAL", <<"signal", g.confirmed>>, "CONFIRMED", g.symbol)
                  EXCEPT !.rr = IF strong THEN 100 ELSE 0])

\* onConfirmed: under a macro guard nothing; else the pipeline runs, and the signal
\* is told whatever became of it.  (The ids it remembers are fresh ones every time.)
IngestEnds(g) ==
  /\ g.seen = g.found /\ Missing(g) = {}
  /\ setups' = Pruned(setups)
  /\ \E guarded, strong \in BOOLEAN :
       chartDesk' = IF g.confirmed = NotYet \/ guarded THEN chartDesk
                    ELSE SignalTold(chartDesk, g, strong)
  /\ ingests' = ingests \ {g}
  /\ UNCHANGED <<moods, bands, breakouts, looks>>

ChartNext ==
  \/ \E s \in Charts : MarketLook(s) \/ ReactionLook(s) \/ IngestBegins(s)
  \/ \E l \in Levels : LevelLook(l) \/ BreakoutLook(l)
  \/ \E g \in ingests : \/ \E z \in g.found : SetupLook(g, z)
                        \/ \E e \in Missing(g) : SetupMissing(g, e)
                        \/ IngestEnds(g)

ChartTypeOK ==
  /\ moods \in [Charts -> [regime : Moods \cup {NotYet}, btc : Moods \cup {NotYet},
                           vol : Moods \cup {NotYet}]]
  /\ \A e \in ToSet(bands) : e.key \in Levels /\ e.value \in {"FAR", "APPROACHING", "REACHED"}
  /\ \A e \in ToSet(breakouts) : e.value \in {"NONE", "WATCH", "CONFIRMED", "FAILED"}
  /\ \A g \in ingests : g.seen \subseteq g.found /\ g.found \subseteq Zones
  /\ Len(bands) <= TrackedCap /\ Len(breakouts) <= TrackedCap

\* Of every setup the tracker keeps, the phase it is in, if it is one to be told
\* and the operator wants it, is the last the operator was told: neither the
\* memory against repetition nor what it drops hides a change
\* (setup-tracker.ts:74-76, notification-engine.ts:95-102).
LastWordStands ==
  \A e \in ToSet(setups) :
    e.value \in Notified /\ ~Rejected(SetupAlert(e.key, e.value), chartDesk.subs)
      => LastTold(chartDesk, <<"setup", e.key>>) = e.value

====
