---- MODULE RateLimiter ----
(* BinanceRateLimiter: requests weighed over a rolling window.  One that would *)
(* reach the threshold sleeps until the oldest leaves the window, then goes    *)
(* ahead without weighing again; several may sleep for the same oldest.        *)
EXTENDS Naturals, Sequences, SequencesExt, FiniteSets

CONSTANTS
  Clients,     \* tool calls that may overlap
  Weights,     \* the weights of weightMap
  Threshold,   \* safeThreshold
  Window,      \* windowMs
  Slack,       \* the second slept beyond the window
  EndOfDay,    \* bound on the clock
  MaxCounted   \* bound on the requests in the window

VARIABLES
  tick,        \* the clock
  history,     \* the requests counted, oldest first
  asleep,      \* the clients waiting: weight and wake-up time
  crowded,     \* history: a client asked while another slept
  free         \* history: a call that weighs nothing was counted

limiterVars == <<tick, history, asleep, crowded, free>>

ASSUME LimiterAssumption ==
  /\ Weights \subseteq Nat /\ Threshold \in Nat \ {0}
  /\ Window \in Nat \ {0} /\ Slack \in Nat \ {0} /\ EndOfDay \in Nat /\ MaxCounted \in Nat

Request == [weight : Weights, at : Nat]

LimiterInit == tick = 0 /\ history = <<>> /\ asleep = <<>> /\ crowded = FALSE /\ free = FALSE

\* cleanWindow()
KeptFrom(kept, r) == IF r.at + Window > tick THEN Append(kept, r) ELSE kept
Clean == FoldLeft(KeptFrom, <<>>, history)

\* getCurrentWeight()
Weighed(sum, r) == sum + r.weight
CurrentWeight == FoldLeft(Weighed, 0, Clean)

Push(kept, w) == history' = Append(kept, [weight |-> w, at |-> tick])

\* a variant that sleeps a second and goes ahead
RequestAfterASecond(c, w) ==
  /\ c \notin DOMAIN asleep /\ Len(Clean) < MaxCounted
  /\ crowded' = (crowded \/ DOMAIN asleep # {}) /\ free' = (free \/ w = 0)
  /\ IF CurrentWeight + w >= Threshold /\ Clean # <<>>
     THEN /\ history' = Clean
          /\ asleep' = [k \in DOMAIN asleep \cup {c} |->
                          IF k = c THEN [weight |-> w, wake |-> tick + Slack] ELSE asleep[k]]
     ELSE Push(Clean, w) /\ UNCHANGED asleep
  /\ UNCHANGED tick

\* requestPermission() up to its await: granted, or put to sleep behind the oldest.
\* An empty window is never waited for, whatever the weight.
RequestPermission(c, w) ==
  /\ c \notin DOMAIN asleep /\ Len(Clean) < MaxCounted
  /\ crowded' = (crowded \/ DOMAIN asleep # {}) /\ free' = (free \/ w = 0)
  /\ IF CurrentWeight + w >= Threshold /\ Clean # <<>>
     THEN /\ history' = Clean
          /\ asleep' = [k \in DOMAIN asleep \cup {c} |->
                          IF k = c THEN [weight |-> w, wake |-> Head(Clean).at + Window + Slack]
                          ELSE asleep[k]]
     ELSE Push(Clean, w) /\ UNCHANGED asleep
  /\ UNCHANGED tick

Wake(c) ==
  /\ c \in DOMAIN asleep /\ asleep[c].wake <= tick
  /\ Push(Clean, asleep[c].weight)
  /\ asleep' = [k \in DOMAIN asleep \ {c} |-> asleep[k]]
  /\ UNCHANGED <<tick, crowded, free>>

\* a timer is run no later than it is due
Tock ==
  /\ tick < EndOfDay /\ \A c \in DOMAIN asleep : asleep[c].wake > tick
  /\ tick' = tick + 1 /\ UNCHANGED <<history, asleep, crowded, free>>

LimiterNext ==
  \/ \E c \in Clients : (\E w \in Weights : RequestPermission(c, w)) \/ Wake(c)
  \/ Tock

LimiterTypeOK ==
  /\ tick \in Nat /\ history \in Seq(Request) /\ crowded \in BOOLEAN /\ free \in BOOLEAN
  /\ DOMAIN asleep \subseteq Clients
  /\ \A c \in DOMAIN asleep : asleep[c] \in [weight : Weights, wake : Nat]

\* While no client asks behind a sleeping one and every call weighs something, fewer
\* requests than the threshold are in the window at any time, or one alone: each wait
\* makes room for the request it lets through, although nothing weighs it again
\* (rate-limiter.ts:56).  A call that weighs nothing makes room for none.
GrantedInTurn == ~crowded /\ ~free => Len(Clean) < Threshold \/ Len(Clean) = 1

====
