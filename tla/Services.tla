---- MODULE Services ----
(* The services around the order path, side by side.  They share no variable,  *)
(* so their product would only multiply states: a behaviour belongs to one of   *)
(* them, chosen at the start, and the others stay where they began.             *)
EXTENDS StrategyRegistry, RiskGovernor, PaperBroker, SystemWatch, ChartWatch, MacroGuard, TradePlan,
        WalkForward, SetupFunnel

CONSTANT Subjects   \* the services a run looks at
VARIABLE subject

ASSUME ServicesAssumption ==
  Subjects \subseteq {"registry", "governor", "paper", "watch", "chart", "macro", "plan", "replay", "funnel"}

Some(set) == CHOOSE x \in set : TRUE

\* a service that does not move begins in one way only
ServicesInit ==
  /\ subject \in Subjects
  /\ IF subject = "watch" THEN TRUE
     ELSE /\ world = [stream |-> "CONNECTING", stale |-> "FRESH", circuit |-> "NORMAL",
                      kill |-> "NORMAL", store |-> "HEALTHY"]
          /\ watchDesk = NewDesk(Some(WatchDesks))
  /\ IF subject = "plan" THEN TRUE
     ELSE reading = Some(Readings) /\ account = Some(PlanAccounts) /\ circuit = "NORMAL"
  /\ IF subject = "replay" THEN TRUE ELSE recorded = Some(Tapes)
  /\ RegistryInit /\ GovernorInit /\ PaperInit /\ WatchInit /\ ChartInit /\ MacroInit
  /\ PlanInit /\ ReplayInit /\ FunnelInit

\* the step is one of service s
Moves(s) ==
  /\ subject = s /\ UNCHANGED subject
  /\ IF s = "registry" THEN TRUE ELSE UNCHANGED registryVars
  /\ IF s = "governor" THEN TRUE ELSE UNCHANGED governorVars
  /\ IF s = "paper" THEN TRUE ELSE UNCHANGED paperVars
  /\ IF s = "watch" THEN TRUE ELSE UNCHANGED watchVars
  /\ IF s = "chart" THEN TRUE ELSE UNCHANGED chartVars
  /\ IF s = "macro" THEN TRUE ELSE UNCHANGED macroVars
  /\ IF s = "plan" THEN TRUE ELSE UNCHANGED planVars
  /\ IF s = "replay" THEN TRUE ELSE UNCHANGED replayVars
  /\ IF s = "funnel" THEN TRUE ELSE UNCHANGED funnelVars

ServicesNext ==
  \/ Moves("registry") /\ RegistryNext
  \/ Moves("governor") /\ GovernorNext
  \/ Moves("paper") /\ PaperNext
  \/ Moves("watch") /\ WatchNext
  \/ Moves("chart") /\ ChartNext
  \/ Moves("macro") /\ MacroNext
  \/ Moves("plan") /\ PlanNext
  \/ Moves("replay") /\ ReplayNext
  \/ Moves("funnel") /\ FunnelNext

ServicesVars ==
  <<subject, registryVars, governorVars, paperVars, watchVars, chartVars, macroVars, planVars,
    replayVars, funnelVars>>

Spec == ServicesInit /\ [][ServicesNext]_ServicesVars

\* the variables of the service that moves keep their types
ServicesTypeOK ==
  CASE subject = "registry" -> RegistryTypeOK [] subject = "governor" -> GovernorTypeOK
    [] subject = "paper" -> PaperTypeOK [] subject = "watch" -> WatchTypeOK
    [] subject = "chart" -> ChartTypeOK [] subject = "macro" -> MacroTypeOK
    [] subject = "plan" -> PlanTypeOK [] subject = "replay" -> ReplayTypeOK
    [] subject = "funnel" -> FunnelTypeOK

====
