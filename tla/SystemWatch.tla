---- MODULE SystemWatch ----
(* SystemMonitor, TradeMonitor and ResearchReporter: what each tick finds       *)
(* changed since it last looked, and what the event log brings, goes to the     *)
(* desk.  A tick looks at five subjects, a send between two of them; ticks come  *)
(* every 2 s and overlap a slow send, so the looks come in any order.           *)
EXTENDS NotificationEngine

CONSTANTS
  Sights,        \* what each look may find: stream, stale, circuit, kill, store
  WatchDesks,    \* the subscriptions operators may have
  Deals,         \* decisions whose orders and fills the log speaks of
  TradeWords,    \* what it says of them
  StrategyCells,         \* strategy cells that may come to pass the gate
  MaxTurns       \* bound: changes of the world

\* what the watch begins with is among what it may see
ASSUME WatchAssumption ==
  /\ DOMAIN Sights = {"stream", "stale", "circuit", "kill", "store"}
  /\ "CONNECTING" \in Sights.stream /\ "FRESH" \in Sights.stale /\ "HEALTHY" \in Sights.store

VARIABLES
  world,    \* what there is to see: stream, freshness, circuit, kill switch, store
  seen,     \* lastStream, lastFresh, lastCircuit, lastKill, lastStoreOk
  watchDesk,
  day, lastDailyDay, eligible, promoted,
  turns

watchVars == <<world, seen, watchDesk, day, lastDailyDay, eligible, promoted, turns>>

Unseen == "unseen"
BadSights ==
  {"RECONNECTING", "DOWN", "STALE", "CAUTION", "REDUCED", "HALTED", "EMERGENCY", "UNHEALTHY"}

WatchInit ==
  /\ world \in {[stream |-> "CONNECTING", stale |-> "FRESH", circuit |-> c, kill |-> k,
                 store |-> "HEALTHY"] : c \in Sights.circuit, k \in Sights.kill}
  /\ seen = [stream |-> Unseen, stale |-> "FRESH", circuit |-> Unseen, kill |-> Unseen,
             store |-> "HEALTHY"]
  /\ watchDesk \in {NewDesk(s) : s \in WatchDesks}
  /\ day = 0 /\ lastDailyDay = -1 /\ eligible = {} /\ promoted = {} /\ turns = 0

Turns == turns < MaxTurns /\ turns' = turns + 1

\* the stream, the data, the account, the operator and the disk go their ways
Happens(look) ==
  /\ Turns
  /\ \E sight \in Sights[look] \ {world[look]} : world' = [world EXCEPT ![look] = sight]
  /\ UNCHANGED <<seen, watchDesk, day, lastDailyDay, eligible, promoted>>

\* what a change is worth telling: of the stream, a fall and the rise that follows
\* it directly; of the circuit, all but a first NORMAL; of the switch, all but the first
TellingFirstFall(look, was, is) ==
  look = "stream" /\ is \in BadSights => was \notin BadSights
Telling(look, was, is) ==
  CASE look = "stream"  -> is \in BadSights \/ (was \in BadSights /\ is = "LIVE")
    [] look = "circuit" -> ~(was = Unseen /\ is = "NORMAL")
    [] look = "kill"    -> was # Unseen
    [] OTHER            -> TRUE

WatchAlert(look, is) ==
  Plain("SYSTEM", IF look = "kill" \/ is \in BadSights THEN "CRITICAL" ELSE "IMPORTANT",
        <<look>>, is, day)

\* a change is noted before it is told, so an overlapping tick does not tell it twice
Look(look) ==
  /\ seen[look] # world[look]
  /\ seen' = [seen EXCEPT ![look] = world[look]]
  /\ watchDesk' = IF Telling(look, seen[look], world[look])
                  THEN Submit(watchDesk, WatchAlert(look, world[look])) ELSE watchDesk
  /\ UNCHANGED <<world, day, lastDailyDay, eligible, promoted, turns>>

\* tradeAlertFromEvent: fills by intent, openings and closings, and how orders ended
TradeEvent(d) ==
  /\ Turns
  /\ \E to \in TradeWords :
       LET topic == CASE to \in {"ENTRY", "EXIT"} -> <<d, "fill">>
                      [] to = "OPEN" -> <<d, "open">>
                      [] to = "CLOSED" -> <<d, "close">>
                      [] OTHER -> <<d, to>>
           severity == IF to \in {"CANCELLED", "REJECTED"} THEN "IMPORTANT" ELSE "SIGNAL"
       IN  watchDesk' = Submit(watchDesk, Plain("TRADE", severity, topic, to, day))
  /\ UNCHANGED <<world, seen, day, lastDailyDay, eligible, promoted>>

\* one report a day, and each cell that becomes eligible once
DailyReport ==
  /\ watchDesk.subs.researchReports = "daily" /\ lastDailyDay # day
  /\ lastDailyDay' = day
  /\ watchDesk' = Submit(watchDesk, Plain("RESEARCH", "INFO", <<"daily">>, ToString(day), day))
  /\ UNCHANGED <<world, seen, day, eligible, promoted, turns>>

PromotionTold(c) ==
  /\ watchDesk.subs.researchReports = "daily" /\ c \in eligible \ promoted
  /\ promoted' = promoted \cup {c}
  /\ watchDesk' = Submit(watchDesk, Plain("RESEARCH", "IMPORTANT", <<c, "promo">>, "ELIGIBLE", day))
  /\ UNCHANGED <<world, seen, day, lastDailyDay, eligible, turns>>

CellPasses(c) ==
  /\ Turns /\ eligible' = eligible \cup {c}
  /\ UNCHANGED <<world, seen, watchDesk, day, lastDailyDay, promoted>>

NextDay ==
  /\ Turns /\ day' = day + 1
  /\ UNCHANGED <<world, seen, watchDesk, lastDailyDay, eligible, promoted>>

WatchNext ==
  \/ \E look \in DOMAIN Sights : Happens(look) \/ Look(look)
  \/ \E d \in Deals : TradeEvent(d)
  \/ DailyReport \/ NextDay \/ \E c \in StrategyCells : PromotionTold(c) \/ CellPasses(c)

WatchTypeOK ==
  /\ \A look \in DOMAIN Sights :
       world[look] \in Sights[look] /\ seen[look] \in Sights[look] \cup {Unseen}
  /\ Len(watchDesk.memory) <= MemoryCap
  /\ promoted \subseteq eligible /\ lastDailyDay <= day

\* What the watch last saw go wrong is the last word on it of an operator who takes
\* SYSTEM alerts, whatever the severity he asks for, however ticks overlap and
\* whatever the memory of the desk has dropped; a switch found halted at the start
\* is the one exception (system-monitor.ts:126-131, notification-engine.ts:76-91).
BadNewsTold ==
  "SYSTEM" \in watchDesk.subs.classes =>
    \A look \in DOMAIN Sights \ {"kill"} :
      seen[look] \in BadSights => LastTold(watchDesk, <<look>>) = seen[look]

====
