---- MODULE Feeds ----
(* What flows into the process, and its queues, side by side.  The parts share    *)
(* no variable, so their product would only multiply states: a behaviour belongs  *)
(* to one of them, chosen at the start, and the others stay where they began.     *)
EXTENDS MarketStream, MarketStore, AccountView, VenueCaches, RateLimiter, ChartReading, CouncilLanes,
        IntelScan, CrossVenue

CONSTANT Subjects   \* the parts a run looks at
VARIABLE subject

ASSUME FeedsAssumption ==
  Subjects \subseteq {"stream", "store", "account", "caches", "limiter", "reading", "desk", "intel", "venues"}

\* a part that does not move begins in one way only
FeedsInit ==
  /\ subject \in Subjects
  /\ IF subject = "account" THEN TRUE ELSE held = 0
  /\ StreamInit /\ StoreInit /\ AccountInit /\ CachesInit /\ LimiterInit
  /\ ChartReadInit /\ DeskInit /\ IntelInit /\ CrossInit

\* the step is one of part s
Moves(s) ==
  /\ subject = s /\ UNCHANGED subject
  /\ IF s = "stream" THEN TRUE ELSE UNCHANGED streamVars
  /\ IF s = "store" THEN TRUE ELSE UNCHANGED storeVars
  /\ IF s = "account" THEN TRUE ELSE UNCHANGED accountVars
  /\ IF s = "caches" THEN TRUE ELSE UNCHANGED cacheVars
  /\ IF s = "limiter" THEN TRUE ELSE UNCHANGED limiterVars
  /\ IF s = "reading" THEN TRUE ELSE UNCHANGED chartReadVars
  /\ IF s = "desk" THEN TRUE ELSE UNCHANGED deskVars
  /\ IF s = "intel" THEN TRUE ELSE UNCHANGED intelVars
  /\ IF s = "venues" THEN TRUE ELSE UNCHANGED crossVars

FeedsNext ==
  \/ Moves("stream") /\ StreamNext
  \/ Moves("store") /\ StoreNext
  \/ Moves("account") /\ AccountNext
  \/ Moves("caches") /\ CachesNext
  \/ Moves("limiter") /\ LimiterNext
  \/ Moves("reading") /\ ChartReadNext
  \/ Moves("desk") /\ DeskNext
  \/ Moves("intel") /\ IntelNext
  \/ Moves("venues") /\ CrossNext

FeedsVars ==
  <<subject, streamVars, storeVars, accountVars, cacheVars, limiterVars,
    chartReadVars, deskVars, intelVars, crossVars>>

\* fair are only the streams' and the lanes' own steps: they are disabled in a
\* part that has not begun
Spec == FeedsInit /\ [][FeedsNext]_FeedsVars /\ StreamFair /\ DeskFair

\* the variables of the part that moves keep their types
FeedsTypeOK ==
  CASE subject = "stream" -> StreamTypeOK
    [] subject = "store" -> StoreTypeOK
    [] subject = "account" -> AccountTypeOK
    [] subject = "caches" -> CachesTypeOK
    [] subject = "limiter" -> LimiterTypeOK
    [] subject = "reading" -> ChartReadTypeOK
    [] subject = "desk" -> DeskTypeOK
    [] subject = "intel" -> IntelTypeOK
    [] subject = "venues" -> CrossTypeOK

====
