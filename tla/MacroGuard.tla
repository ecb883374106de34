---- MODULE MacroGuard ----
(* MacroEngine, MacroPolicy and the calendar feeds: around a release of high    *)
(* impact the risk flag goes to HIGH, then VERY_HIGH, and back to NONE when the *)
(* release is live.  The calendar is replaced every 15 minutes, the flag is     *)
(* moved by a tick every minute, and the two overlap.                           *)
EXTENDS NotificationEngine, FiniteSets

CONSTANTS
  Releases, ReleaseAt,          \* releases and when each is due
  Approach, Imminent, Resolve,  \* T45, T5, RESOLVE
  FileCalendar,                 \* loadFileCalendar: the file's releases, or the defaults
  Feeds,                        \* calendars the feed may answer with
  News, MacroDesks,
  MacroEnd                      \* bound on the clock

VARIABLES
  macroTime, calendar, stages, risk, newsSeen, macroDesk,
  fetching,    \* refreshFeeds waits for the feed
  scanned      \* releases a tick has scanned at this instant

macroVars == <<macroTime, calendar, stages, risk, newsSeen, macroDesk, fetching, scanned>>

ASSUME MacroAssumption ==
  /\ ReleaseAt \in [Releases -> Nat] /\ MacroEnd \in Nat
  /\ Approach \in Nat /\ Imminent \in 0..Approach /\ Resolve \in Nat
  /\ FileCalendar \subseteq Releases /\ Feeds \subseteq SUBSET Releases

NoStage == "none"

MacroInit ==
  /\ macroTime = 0 /\ calendar = FileCalendar /\ risk = "NONE" /\ newsSeen = {}
  /\ stages = [e \in Releases |-> NoStage]
  /\ macroDesk \in {NewDesk(s) : s \in MacroDesks}
  /\ fetching = FALSE /\ scanned = {}

\* refreshFeeds: the file's calendar stands in while the feed is asked, and stays
\* when the feed fails, answers with nothing or with what is no calendar
RefreshFeeds ==
  /\ ~fetching /\ fetching' = TRUE
  /\ calendar' = FileCalendar /\ scanned' = scanned \cap FileCalendar
  /\ UNCHANGED <<macroTime, stages, risk, newsSeen, macroDesk>>

FeedAnswers ==
  /\ fetching /\ fetching' = FALSE
  /\ \E parsed \in Feeds \cup {{}} : calendar' = IF parsed = {} THEN calendar ELSE parsed
  /\ scanned' = scanned \cap calendar'
  /\ UNCHANGED <<macroTime, stages, risk, newsSeen, macroDesk>>

\* scanCalendar
StageExclusive(eta) ==
  CASE eta \in 1..Imminent -> "T5" [] eta > Imminent -> "T45" [] OTHER -> "LIVE"

Stage(eta) ==
  CASE eta \in 0..Imminent -> "T5" [] eta > Imminent -> "T45" [] OTHER -> "LIVE"

RiskAt(stage, was) ==
  CASE stage = "T45" -> "HIGH" [] stage = "T5" -> "VERY_HIGH"
    [] OTHER -> IF was = NoStage THEN risk ELSE "NONE"

WordAt(stage) == IF stage = "LIVE" THEN "RESOLVED" ELSE stage

ScanRelease(e) ==
  LET eta == ReleaseAt[e] - macroTime
      stage == IF eta < -Resolve THEN NoStage
               ELSE IF eta > Approach THEN stages[e] ELSE Stage(eta)
      moved == stage # stages[e] /\ stage # NoStage
  IN  /\ e \in calendar \ scanned /\ scanned' = scanned \cup {e}
      /\ stages' = [stages EXCEPT ![e] = stage]
      /\ risk' = IF moved THEN RiskAt(stage, stages[e]) ELSE risk
      /\ macroDesk' = IF moved /\ ~(stage = "LIVE" /\ stages[e] = NoStage)
           THEN Submit(macroDesk, Plain("MACRO", IF stage = "T45" THEN "WATCH" ELSE "IMPORTANT",
                                        <<e>>, WordAt(stage), macroTime))
           ELSE macroDesk
      /\ UNCHANGED <<macroTime, calendar, newsSeen, fetching>>

\* scanNews: a headline is told once
NewsTold(n) ==
  /\ n \notin newsSeen /\ newsSeen' = newsSeen \cup {n}
  /\ macroDesk' = Submit(macroDesk, Plain("MACRO", "IMPORTANT", <<"news", n>>, "NEWS", macroTime))
  /\ UNCHANGED <<macroTime, calendar, stages, risk, fetching, scanned>>

\* a tick a minute: every release in the calendar is scanned at every instant
MacroClock ==
  /\ calendar \subseteq scanned /\ macroTime < MacroEnd
  /\ macroTime' = macroTime + 1 /\ scanned' = {}
  /\ UNCHANGED <<calendar, stages, risk, newsSeen, macroDesk, fetching>>

MacroNext ==
  \/ RefreshFeeds \/ FeedAnswers \/ MacroClock
  \/ (\E e \in Releases : ScanRelease(e)) \/ (\E n \in News : NewsTold(n))

MacroTypeOK ==
  /\ macroTime \in 0..MacroEnd /\ calendar \subseteq Releases /\ scanned \subseteq calendar
  /\ stages \in [Releases -> {NoStage, "T45", "T5", "LIVE"}]
  /\ risk \in {"NONE", "HIGH", "VERY_HIGH"}

\* From a tick within the last Imminent before a release until the release is due,
\* no signal starts a pipeline, however often the calendar was replaced or lost on
\* the way, provided no other release is near (macro-engine.ts:95, runtime.ts:135).
GuardedRelease ==
  \A e \in scanned :
    /\ ReleaseAt[e] - macroTime \in 0..Imminent
    /\ \A f \in Releases \ {e} : ReleaseAt[f] - ReleaseAt[e] \notin -(Approach + Resolve)..(Approach + Resolve)
    => risk = "VERY_HIGH"

====
