---- MODULE NotificationEngine ----
(* The desk every alert passes (NotificationEngine, AlertDispatcher): the       *)
(* operator's subscription may turn it away, the memory of what was told last   *)
(* under the same fingerprint may call it a repetition, and only then is it     *)
(* recorded as told and sent.  The desk is a value its owner keeps.             *)
EXTENDS Integers, Sequences, TLC

CONSTANTS
  MemoryCap, MemoryDrop,  \* 2000, 1000: the oldest inserted are dropped
  ResearchCooldown        \* cooldown of class RESEARCH, the only one consulted

ASSUME DeskAssumption == MemoryCap \in Nat /\ MemoryDrop \in Nat \ {0}

Severity == [INFO |-> 0, WATCH |-> 1, IMPORTANT |-> 2, SIGNAL |-> 3, CRITICAL |-> 4]
AlertClasses ==
  {"SYSTEM", "MACRO", "MARKET", "LEVEL", "SETUP", "SIGNAL", "TRADE", "RESEARCH"}
SymbolScoped == {"MARKET", "LEVEL", "SETUP", "SIGNAL"}

DefaultSubscriptions ==
  [classes |-> AlertClasses, muted |-> {}, minSeverity |-> "WATCH",
   levelApproaching |-> FALSE, liquiditySweeps |-> TRUE, setupDeveloping |-> TRUE,
   minimumSignalConfidence |-> 75, minimumRr |-> 25, researchReports |-> "daily"]

\* the operator's document over the defaults; a field of the wrong type is ignored.
\* The environment's document is tried first, then the file's; each is a set, empty
\* when there is none or it cannot be read.
ParseSubscriptions(raw) == raw @@ DefaultSubscriptions
LoadSubscriptions(env, file) ==
  IF env \cup file = {} THEN DefaultSubscriptions
  ELSE ParseSubscriptions(CHOOSE d \in IF env # {} THEN env ELSE file : TRUE)

Rejected(a, subs) ==
  \/ a.class \notin subs.classes
  \/ a.class \in SymbolScoped /\ a.symbol \in subs.muted
  \/ /\ Severity[a.severity] < Severity[subs.minSeverity]
     /\ ~(a.class = "SYSTEM" /\ a.severity = "CRITICAL")
  \/ a.class = "LEVEL" /\ a.to = "APPROACHING" /\ ~subs.levelApproaching
  \/ a.class = "SETUP" /\ a.to = "WATCHING" /\ ~subs.setupDeveloping
  \/ a.to = "REACTION" /\ ~subs.liquiditySweeps
  \/ /\ a.class = "SIGNAL" /\ a.to = "CONFIRMED"
     /\ \/ a.confidence < subs.minimumSignalConfidence
        \/ a.rr < subs.minimumRr

\* the place of a fingerprint: only the last word under it is remembered
On(memory, topic) == {i \in DOMAIN memory : memory[i].topic = topic}

RepeatedTopic(memory, a) == On(memory, a.topic) # {}
Repeated(memory, a) ==
  \E i \in On(memory, a.topic) :
    /\ memory[i].to = a.to
    /\ ~(a.class = "RESEARCH" /\ a.at - memory[i].at >= ResearchCooldown)

\* a remembered fingerprint keeps its place in the order of insertion
Remembering(memory, a) ==
  LET word == [topic |-> a.topic, to |-> a.to, at |-> a.at]
      on == On(memory, a.topic)
      all == IF on = {} THEN Append(memory, word)
             ELSE [i \in DOMAIN memory |-> IF i \in on THEN word ELSE memory[i]]
  IN  IF Len(all) > MemoryCap THEN SubSeq(all, MemoryDrop + 1, Len(all)) ELSE all

\* told: the last word sent under each topic, for the properties
NewDesk(subs) == [memory |-> <<>>, subs |-> subs, told |-> [topic \in {} |-> "none"]]

\* what a listener of the bus has been told last, by topic
Spoken(told, a) ==
  [topic \in DOMAIN told \cup {a.topic} |-> IF topic = a.topic THEN a.to ELSE told[topic]]

Submit(desk, a) ==
  IF Rejected(a, desk.subs) \/ Repeated(desk.memory, a) THEN desk
  ELSE [desk EXCEPT !.memory = Remembering(@, a), !.told = Spoken(@, a)]

\* an alert of a class whose confidence, ratio and symbol nobody asks for
Plain(class, severity, topic, to, at) ==
  [class |-> class, severity |-> severity, symbol |-> "none", topic |-> topic,
   to |-> to, at |-> at, confidence |-> 100, rr |-> 100]

LastTold(desk, topic) == IF topic \in DOMAIN desk.told THEN desk.told[topic] ELSE "none"

====
