----------------------------- MODULE KillSwitch -----------------------------
(***************************************************************************)
(* The trading kill switch of src/security/kill-switch.ts in every process *)
(* that runs a kernel (terminal, daemon, API server: docs/DEPLOYMENT.md),  *)
(* all appending to one event log.  A process reads the log when it boots  *)
(* and never again; each keeps its own copy of the switch.                 *)
(***************************************************************************)
EXTENDS EventLog, FiniteSets

CONSTANTS
  Processes,   \* the processes that share the log
  Arming,      \* those that arm a paper kernel when they boot
  Reasons,     \* reasons operators give
  BootReason,  \* the reason of a switch nobody touched
  Window,      \* how many lines hydrate reads
  MaxPlaced,   \* bound on orders
  MaxCrashes   \* bound on restarts

States == {"NORMAL", "HALTED"}
SetEvent(s, r) == [kind |-> "killswitch.set", state |-> s, reason |-> r]
OrderEvent == [kind |-> "order.transition", state |-> "HALTED", reason |-> BootReason]
Telemetry  == [kind |-> "telemetry", state |-> "HALTED", reason |-> BootReason]
IsSet(e) == e.kind = "killswitch.set"

ASSUME KillSwitchAssumption ==
  /\ Arming \subseteq Processes
  /\ BootReason \in Reasons
  /\ Events = {SetEvent(s, r) : s \in States, r \in Reasons} \union {OrderEvent, Telemetry}
  /\ Window \in Nat /\ MaxPlaced \in Nat /\ MaxCrashes \in Nat

VARIABLES
  paper,    \* whether the kernels were started on the paper venue
  log,      \* the event log on disk
  switch,   \* each process's switch: its state and reason
  ordered,  \* the last command an operator gave (history)
  missed,   \* what kept that command from a process (history)
  placed,   \* orders placed (history)
  crashes   \* restarts so far

vars == <<paper, log, switch, ordered, missed, placed, crashes>>

\* No event of it in the log, another process's copy of the switch, the arming at boot.
Causes == {"append", "process", "boot"}

Booted == [state |-> "HALTED", reason |-> BootReason]

\* The places of the set events among lines.
Sets(lines) == {k \in DOMAIN lines : lines[k] # Unreadable /\ IsSet(lines[k])}

SwitchOf(e) == [state |-> e.state, reason |-> e.reason]

\* A variant that takes the first set event for the last.
HydrateOldest(f) ==
  LET read == ReadAll(f, Window) IN
  IF Sets(read) = {} THEN Booted ELSE SwitchOf(read[Min(Sets(read))])

\* hydrate: the last set event in the window; none leaves the switch HALTED.
Hydrate(f) ==
  LET read == ReadAll(f, Window) IN
  IF Sets(read) = {} THEN Booted ELSE SwitchOf(read[Max(Sets(read))])

\* The log's last set event, if it has one, says s.
Written(f, s) ==
  IF Sets(f.lines) = {} THEN s = Booted.state ELSE f.lines[Max(Sets(f.lines))].state = s

\* apply: the copy changes first; the event is not critical, so a failed append
\* goes unnoticed, and an unchanged switch appends nothing.
Apply(p, s, r, was) ==
  /\ switch' = [switch EXCEPT ![p] = [state |-> s, reason |-> r]]
  /\ IF was.state # s \/ was.reason # r
     THEN \E a \in Appends(log, SetEvent(s, r)) : log' = a.log
     ELSE UNCHANGED log

\* An operator's command reaches the process it is given to.
Command(p, s, r) ==
  /\ Apply(p, s, r, switch[p])
  /\ ordered' = s
  /\ missed' =
       (IF \E q \in Processes \ {p} : switch[q].state # s THEN {"process"} ELSE {})
       \union (IF Written(log', s) THEN {} ELSE {"append"})
  /\ UNCHANGED <<paper, placed, crashes>>

Halt(p, r) == Command(p, "HALTED", r)
Resume(p, r) == Command(p, "NORMAL", r)

\* Everything else the kernel writes down.
Records ==
  /\ \E a \in Appends(log, Telemetry) : log' = a.log
  /\ UNCHANGED <<paper, switch, ordered, missed, placed, crashes>>

\* A variant in which a failed critical append does not throw.
SubmitRegardless(p) ==
  /\ placed < MaxPlaced
  /\ switch[p].state = "NORMAL"
  /\ \E a \in Appends(log, OrderEvent) : log' = a.log /\ placed' = placed + 1
  /\ UNCHANGED <<paper, switch, ordered, missed, crashes>>

\* The engine's gate, the critical append, and the placement it stands before;
\* without the durable mode a failed append does not stop it.
Submit(p) ==
  /\ placed < MaxPlaced
  /\ switch[p].state = "NORMAL"
  /\ \E a \in Appends(log, OrderEvent) :
       /\ log' = a.log
       /\ placed' = IF a.ok \/ paper THEN placed + 1 ELSE placed
  /\ UNCHANGED <<paper, switch, ordered, missed, crashes>>

\* A process dies and boots: hydrate, and on the paper venue arm.
Restart(p) ==
  /\ crashes < MaxCrashes
  /\ crashes' = crashes + 1
  /\ LET read == Hydrate(log) IN
     IF paper /\ p \in Arming /\ read.state = "HALTED"
     THEN /\ \E r \in Reasons : Apply(p, "NORMAL", r, read)
          /\ missed' = missed \union {"boot"}
     ELSE /\ switch' = [switch EXCEPT ![p] = read]
          /\ UNCHANGED <<log, missed>>
  /\ UNCHANGED <<paper, ordered, placed>>

Init ==
  /\ paper \in BOOLEAN
  /\ log = EmptyLog
  /\ switch = [p \in Processes |-> Booted]
  /\ ordered = "none"
  /\ missed = {}
  /\ placed = 0
  /\ crashes = 0

Next ==
  \/ \E p \in Processes :
       \/ \E r \in Reasons : Halt(p, r) \/ Resume(p, r)
       \/ Submit(p)
       \/ Restart(p)
  \/ Records

Spec == Init /\ [][Next]_vars

-----------------------------------------------------------------------------
(* Properties *)

\* Every variable keeps its type.
TypeOK ==
  /\ paper \in BOOLEAN
  /\ log \in LogFile
  /\ switch \in [Processes -> [state: States, reason: Reasons]]
  /\ ordered \in States \union {"none"}
  /\ missed \subseteq Causes
  /\ placed \in 0 .. MaxPlaced
  /\ crashes \in 0 .. MaxCrashes

Halted == \A p \in Processes : switch[p].state = "HALTED"

\* While the operators' last command is to halt, every kernel is halted, whatever
\* restarts, rotations and other events come in between, unless the command is
\* not in the log, another kernel was running armed when it was given, or a paper kernel
\* armed itself at boot (kill-switch.ts:6-10, README.md:285-287).
HaltObeyed == ordered = "HALTED" /\ missed = {} => Halted

\* The same without the first excuse: what kill-switch.ts:8-10 says, that a crash
\* can never silently re-arm trading after an operator pulled the plug.
HaltOutlivesCrash == ordered = "HALTED" /\ missed \subseteq {"append"} => Halted

\* A live order is placed only after its transition can be read back from the log,
\* unless the log's end was torn before (event-store.ts:15-21, 195-200).
PlacedIsOnRecord ==
  [][placed' # placed /\ ~ paper /\ ~ log.open
       => log'.lines # <<>> /\ Last(log'.lines) = OrderEvent]_vars

=============================================================================
