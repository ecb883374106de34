---- MODULE CouncilLanes ----
(* Price watches, from the tick to the council's run: PriceWatcher fires, the   *)
(* orchestrator's lane handles one trigger at a time and waits for its council, *)
(* which waits in the kernel's lane among the runs of the interfaces.  Confirmed *)
(* setups and the terminal's command start runs outside the lanes, and the      *)
(* autonomous scanner runs on its own.  One instrument: others share nothing.   *)
EXTENDS Integers, Sequences, FiniteSets

CONSTANTS
  Watches,       \* price conditions
  WatchCooldown,
  Reacts,        \* EVENT_COUNCIL_REACT: a trigger goes to the agent, not to the council
  EndOfDesk, MaxTriggers, MaxRuns, MaxScans  \* bounds: instants, triggers, runs asked for, scans

\* the interfaces' task is told from a trigger
ASSUME CouncilAssumption ==
  /\ IsFiniteSet(Watches) /\ "api" \notin Watches
  /\ WatchCooldown \in Nat /\ EndOfDesk \in Nat /\ WatchCooldown <= EndOfDesk

VARIABLES
  deskTime,
  watching, lastTrigger,
  orchLane, orchBusy,     \* triggers in the orchestrator's lane; its head may be running
  kernelLane, laneBusy,   \* tasks in the kernel's lane; its head may be running
  loose,                  \* pipeline runs outside any lane
  triggers, runs,
  scanner                 \* AutonomousScanner: timer, scanning, completed

watchState == <<watching, lastTrigger>>
laneState == <<orchLane, orchBusy, kernelLane, laneBusy, loose, runs>>
deskVars == <<deskTime, watchState, laneState, triggers, scanner>>

DeskInit ==
  /\ deskTime = WatchCooldown  \* the epoch is long past
  /\ watching = {} /\ lastTrigger = [w \in Watches |-> 0] /\ orchLane = <<>> /\ orchBusy = FALSE
  /\ kernelLane = <<>> /\ laneBusy = FALSE /\ loose = 0 /\ runs = 0 /\ triggers = 0
  /\ scanner = [timer |-> FALSE, scanning |-> FALSE, completed |-> 0]

\* addWatch, removeWatch, stop: the times of the last triggers stay
Rewatch ==
  /\ \/ \E w \in Watches \ watching : watching' = watching \cup {w}
     \/ \E w \in watching : watching' \in {{}, watching \ {w}}
  /\ UNCHANGED <<deskTime, lastTrigger, laneState, triggers, scanner>>

\* the met conditions that are off their cooldown
Due(met) == {w \in met : deskTime - lastTrigger[w] >= WatchCooldown}
InSomeOrder(set) == {s \in [1..Cardinality(set) -> set] : \A w \in set : \E i \in DOMAIN s : s[i] = w}

\* handleTick, of a price that meets the conditions "met"
Ticked ==
  /\ \E met \in SUBSET watching :
       /\ Due(met) # {} /\ triggers + Cardinality(Due(met)) <= MaxTriggers
       /\ \E order \in InSomeOrder(Due(met)) : orchLane' = orchLane \o order
       /\ lastTrigger' = [w \in Watches |-> IF w \in Due(met) THEN deskTime ELSE lastTrigger[w]]
       /\ triggers' = triggers + Cardinality(Due(met))
  /\ UNCHANGED <<deskTime, watching, orchBusy, kernelLane, laneBusy, loose, runs, scanner>>

Enqueued(task) == Append(kernelLane, task)

\* handleTrigger: the agent answers, or the council is asked and waited for
TriggerHandled ==
  /\ orchLane # <<>> /\ ~orchBusy
  /\ IF Reacts THEN orchLane' = Tail(orchLane) /\ UNCHANGED <<orchBusy, kernelLane>>
     ELSE orchBusy' = TRUE /\ kernelLane' = Enqueued(Head(orchLane)) /\ UNCHANGED orchLane
  /\ UNCHANGED <<deskTime, watchState, laneBusy, loose, runs, triggers, scanner>>

\* the interfaces enqueue their runs
Asked ==
  /\ runs < MaxRuns /\ kernelLane' = Enqueued("api") /\ runs' = runs + 1
  /\ UNCHANGED <<deskTime, watchState, orchLane, orchBusy, laneBusy, loose, triggers, scanner>>

LaneStarts ==
  /\ kernelLane # <<>> /\ ~laneBusy /\ laneBusy' = TRUE
  /\ UNCHANGED <<deskTime, watchState, orchLane, orchBusy, kernelLane, loose, runs, triggers, scanner>>

\* a variant whose orchestrator keeps waiting for a council that failed
WaiterAfterFailure(failed) ==
  IF failed THEN UNCHANGED <<orchBusy, orchLane>> ELSE orchBusy' = FALSE /\ orchLane' = Tail(orchLane)

\* who waited goes on, whether the run failed or not
Waiter(failed) == orchBusy' = FALSE /\ orchLane' = Tail(orchLane)

LaneEnds ==
  /\ laneBusy /\ laneBusy' = FALSE /\ kernelLane' = Tail(kernelLane)
  /\ IF Head(kernelLane) \in Watches THEN \E failed \in BOOLEAN : Waiter(failed)
     ELSE UNCHANGED <<orchBusy, orchLane>>
  /\ UNCHANGED <<deskTime, watchState, loose, runs, triggers, scanner>>

\* onConfirmed and the terminal's command
LooseRun ==
  /\ \/ runs < MaxRuns /\ loose' = loose + 1 /\ runs' = runs + 1
     \/ loose > 0 /\ loose' = loose - 1 /\ UNCHANGED runs
  /\ UNCHANGED <<deskTime, watchState, orchLane, orchBusy, kernelLane, laneBusy, triggers, scanner>>

\* start scans at once and then at every interval, never two at a time; stop ends the timer only
Scanning == scanner.completed < MaxScans /\ scanner' = [scanner EXCEPT !.timer = TRUE, !.scanning = TRUE]
ScannerMoves ==
  /\ \/ ~scanner.scanning /\ Scanning
     \/ scanner.scanning /\ \E done \in {0, 1} :  \* a scan that fails is not counted
          scanner' = [scanner EXCEPT !.scanning = FALSE, !.completed = @ + done]
     \/ scanner.timer /\ scanner' = [scanner EXCEPT !.timer = FALSE]
     \/ scanner.scanning /\ ~scanner.timer /\ scanner' = [scanner EXCEPT !.timer = TRUE]
  /\ UNCHANGED <<deskTime, watchState, laneState, triggers>>

DeskClock == deskTime < EndOfDesk /\ deskTime' = deskTime + 1 /\ UNCHANGED <<watchState, laneState, triggers, scanner>>

DeskNext ==
  \/ Rewatch \/ Ticked \/ TriggerHandled \/ Asked \/ LaneStarts \/ LaneEnds \/ LooseRun
  \/ ScannerMoves \/ DeskClock

\* the event loop takes up waiting tasks, and a run ends
DeskFair == WF_deskVars(TriggerHandled) /\ WF_deskVars(LaneStarts) /\ WF_deskVars(LaneEnds)

DeskTypeOK ==
  /\ deskTime \in WatchCooldown..EndOfDesk /\ watching \subseteq Watches
  /\ laneBusy => kernelLane # <<>>
  /\ orchBusy => \E i \in DOMAIN kernelLane : kernelLane[i] = Head(orchLane)

\* Every trigger of a watch is handled in the end: though its handler holds the
\* orchestrator's lane while it waits for the kernel's, and other runs are ahead of
\* it there or fail, neither lane stops (orchestrator.ts:88-113, event-bus.ts:11-17).
TriggersHandled == [](orchLane # <<>> => <>(orchLane = <<>>))

====
