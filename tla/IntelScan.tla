---- MODULE IntelScan ----
(* The scan for market-intelligence events when a candle closes: on the store's *)
(* ladder at once, or on the venue's, which is waited for and may be of a later *)
(* time; what is fresh on the last candle and not seen before is remembered,    *)
(* appended, and handed to the alert runtime, whose failures are swallowed.     *)
EXTENDS Integers, Sequences, SequencesExt, FiniteSets

CONSTANTS
  BarEvents,      \* [bar -> events that become observable on it]
  MiCap, MiKeep,  \* rememberMi: above MiCap the newest MiKeep stay
  Straddle,       \* closes a call to the venue may outlast
  MaxIntelScans   \* bound: candle closes delivered

Members(s) == {s[i] : i \in DOMAIN s}
Market == UNION {Members(BarEvents[b]) : b \in DOMAIN BarEvents}
\* what the forming bar, the last one and as many before it bring as late scans span
Nearby(b) ==
  UNION {Members(BarEvents[k]) : k \in ((b - 1 - 2 * Straddle)..(b + 1)) \cap DOMAIN BarEvents}

\* An event belongs to one bar, which tells of it once; the memory is large enough
\* for what those bars bring (1000 in the code, event-council.ts:105).
ASSUME IntelAssumption ==
  /\ BarEvents \in Seq(Seq(Market))
  /\ \A b, c \in DOMAIN BarEvents : \A i \in DOMAIN BarEvents[b], j \in DOMAIN BarEvents[c] :
       BarEvents[b][i] = BarEvents[c][j] => b = c /\ i = j
  /\ MiKeep \in Nat /\ MiCap \in Nat /\ MiKeep <= MiCap /\ MaxIntelScans \in Nat /\ Straddle \in Nat
  /\ \A b \in 0..Len(BarEvents) : Cardinality(Nearby(b)) <= MiKeep

VARIABLES
  bar,        \* candles closed so far; the next one is forming
  scansOpen,  \* scans waiting for the venue, each with the bar it was asked at
  seenMi,     \* seenMiEvents, oldest first
  announced,  \* mi.event.detected, in the order appended
  ingested,   \* events an alert runtime took in without failing
  intelScans

intelVars == <<bar, scansOpen, seenMi, announced, ingested, intelScans>>

IntelInit ==
  bar = 0 /\ scansOpen = {} /\ seenMi = <<>> /\ announced = <<>> /\ ingested = {} /\ intelScans = 0

CandleCloses ==
  /\ bar + 1 \in DOMAIN BarEvents /\ bar' = bar + 1
  /\ \A s \in scansOpen : bar' <= s.asked + Straddle
  /\ UNCHANGED <<scansOpen, seenMi, announced, ingested, intelScans>>

\* a variant that keeps the oldest
RememberedOldest(seen, e) ==
  LET grown == Append(seen, e) IN
  IF Len(grown) <= MiCap THEN grown ELSE SubSeq(grown, 1, MiKeep)

Remembered(seen, e) ==
  LET grown == Append(seen, e) IN
  IF Len(grown) <= MiCap THEN grown ELSE SubSeq(grown, Len(grown) - MiKeep + 1, Len(grown))

\* scanMiEventsOnClose: what became observable on the last candle, not seen before
FreshWith(fresh, e) == IF e \in Members(seenMi) THEN fresh ELSE Append(fresh, e)
FreshOnBar(b) ==
  IF b \in DOMAIN BarEvents THEN FoldLeft(FreshWith, <<>>, BarEvents[b]) ELSE <<>>

\* scanMarketIntel on candles whose last is b, then ingest, which may fail
ScanFinds(b) ==
  /\ seenMi' = FoldLeft(Remembered, seenMi, FreshOnBar(b))
  /\ announced' = announced \o FreshOnBar(b)
  /\ ingested' \in {ingested, ingested \cup Members(FreshOnBar(b))}

\* onCandleClose, perhaps twice for one close; with a short ladder the venue is asked
ScanBegins ==
  /\ intelScans < MaxIntelScans /\ bar > 0 /\ intelScans' = intelScans + 1 /\ UNCHANGED bar
  /\ \/ ScanFinds(bar) /\ UNCHANGED scansOpen
     \/ scansOpen' = scansOpen \cup {[scan |-> intelScans, asked |-> bar]} /\ UNCHANGED <<seenMi, announced, ingested>>

\* the venue's last candle is one that closed since the call, or the one forming once
\* it has a trade; if the venue fails the short ladder is scanned, or nothing
ScanAnswered(s) ==
  /\ scansOpen' = scansOpen \ {s} /\ UNCHANGED <<bar, intelScans>>
  /\ \/ \E b \in s.asked..(bar + 1) : ScanFinds(b)
     \/ UNCHANGED <<seenMi, announced, ingested>>

IntelNext == CandleCloses \/ ScanBegins \/ \E s \in scansOpen : ScanAnswered(s)

IntelTypeOK ==
  /\ bar \in 0..Len(BarEvents) /\ intelScans \in 0..MaxIntelScans
  /\ scansOpen \subseteq [scan : Nat, asked : Nat]
  /\ seenMi \in Seq(Market) /\ Len(seenMi) <= MiCap /\ announced \in Seq(Market)
  /\ ingested \subseteq Members(announced)

\* One event of the market is announced once, however often its candle is scanned:
\* while it forms, when it closes, twice for one close, or from an answer that
\* comes after later scans; dropping the oldest names never forgets one that may
\* still come (event-council.ts:101-108, 121-134).
AnnouncedOnce == \A i, j \in DOMAIN announced : announced[i] = announced[j] => i = j

====
