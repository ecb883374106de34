---- MODULE VenueCaches ----
(* What is remembered of slow venue facts, each with its own rule for old     *)
(* entries: the instrument specification (ContractRegistry), the accounting    *)
(* rate (FxRateCache), the instrument list and the routing rate (SymbolRouter) *)
(* and the evidence study of a symbol (MiEvidenceCache).  A call finds the     *)
(* entry fresh, or asks and waits; calls overlap, and an answer may overtake   *)
(* another.  A value is the venue time it was true at.                         *)
EXTENDS Integers, FiniteSets

CONSTANTS
  Facts,       \* the caches
  FreshFor,    \* ttlMs, freshMs, CACHE_TTL_MS of each
  UsableFor,   \* maxStaleMs, staleMs; as FreshFor when the rule has no fallback
  Shared,      \* the caches whose calls join the one in flight
  Deniable,    \* the facts the venue may deny: an unknown instrument
  Patience,    \* bound: how long a call may take
  Together,    \* bound: calls in flight
  Horizon      \* bound on the clock

VARIABLES
  time,        \* the clock
  entry,       \* what each cache holds: the value and when it was stored
  pending,     \* calls in flight: the cache, the entry found and its age, the
               \* moment it asked, and the value once it has left the venue
  answer       \* the last answer given

cacheVars == <<time, entry, pending, answer>>

ASSUME CacheAssumption ==
  /\ FreshFor \in [Facts -> Nat] /\ UsableFor \in [Facts -> Nat]
  /\ \A f \in Facts : FreshFor[f] <= UsableFor[f]
  /\ Shared \subseteq Facts /\ Deniable \subseteq Facts
  /\ Patience \in Nat \ {0} /\ Together \in Nat /\ Horizon \in Nat

Never == -1
Absent == [value |-> Never, at |-> Never]

CachesInit ==
  /\ time = 0 /\ entry = [f \in Facts |-> Absent] /\ pending = {}
  /\ answer = [fact |-> "none", kind |-> "none", value |-> Never]

Held(f) == entry[f].value # Never
AgeOf(f) == time - entry[f].at

Given(f, kind, v) == answer' = [fact |-> f, kind |-> kind, value |-> v]

\* a fresh entry answers at once
Hit(f) ==
  /\ Held(f) /\ AgeOf(f) < FreshFor[f]
  /\ Given(f, "cached", entry[f].value)
  /\ UNCHANGED <<time, entry, pending>>

\* a call for f leaves; usable is what it read before the call and uses after it
CallFor(f, usable) ==
  /\ Cardinality(pending) < Together
  /\ pending' = pending \cup
       {[fact |-> f, found |-> entry[f].value, asked |-> time, value |-> Never, usable |-> usable]}
  /\ UNCHANGED <<time, entry, answer>>

\* lookup(), quote(), instruments(), usdtInr() without a fresh entry
Miss(f) ==
  /\ f \notin Shared /\ ~(Held(f) /\ AgeOf(f) < FreshFor[f])
  /\ CallFor(f, Held(f) /\ AgeOf(f) < UsableFor[f])

\* refresh() of a study: by its warm-up a fresh one too, never twice at a time,
\* and without a fallback
Refresh(f) == f \in Shared /\ (\A c \in pending : c.fact # f) /\ CallFor(f, FALSE)

Truth(c) ==
  /\ c.value = Never
  /\ pending' = (pending \ {c}) \cup {[c EXCEPT !.value = time]}
  /\ UNCHANGED <<time, entry, answer>>

\* the answer arrives: it is stored as of now
Stored(c) ==
  /\ c.value # Never
  /\ entry' = [entry EXCEPT ![c.fact] = [value |-> c.value, at |-> time]]
  /\ Given(c.fact, "asked", c.value)
  /\ pending' = pending \ {c} /\ UNCHANGED time

\* UNKNOWN_INSTRUMENT: the caller is told; the old entry is not dropped
Denied(c) ==
  /\ c.fact \in Deniable /\ c.value # Never
  /\ Given(c.fact, "denied", c.value)
  /\ pending' = pending \ {c} /\ UNCHANGED <<time, entry>>

\* a variant that serves whatever entry the call found
FailedServingAny(c) ==
  /\ IF c.found # Never THEN Given(c.fact, "stale", c.found) ELSE Given(c.fact, "failed", Never)
  /\ pending' = pending \ {c} /\ UNCHANGED <<time, entry>>

\* no answer, or one that fails the sanity check: the entry found when the call
\* began serves if it was usable then, or the caller is told to go without
Failed(c) ==
  /\ IF c.usable THEN Given(c.fact, "stale", c.found) ELSE Given(c.fact, "failed", Never)
  /\ pending' = pending \ {c} /\ UNCHANGED <<time, entry>>

\* a call times out before it has taken longer than Patience
Later ==
  /\ time < Horizon /\ time' = time + 1
  /\ \A c \in pending : time' - c.asked <= Patience
  /\ answer' = [fact |-> "none", kind |-> "none", value |-> Never]
  /\ UNCHANGED <<entry, pending>>

CachesNext ==
  \/ \E f \in Facts : Hit(f) \/ Miss(f) \/ Refresh(f)
  \/ \E c \in pending : Truth(c) \/ Stored(c) \/ Denied(c) \/ Failed(c)
  \/ Later

CachesTypeOK ==
  /\ time \in 0..Horizon
  /\ entry \in [Facts -> [value : Never..Horizon, at : Never..Horizon]]
  /\ pending \subseteq [fact : Facts, found : Never..Horizon, usable : BOOLEAN,
                        asked : 0..Horizon, value : Never..Horizon]
  /\ answer.kind \in {"none", "cached", "asked", "stale", "denied", "failed"}

\* However calls overlap, and whichever answer overtakes another, what a caller
\* is given was true at the venue less than UsableFor ago, not counting the call
\* that fetched it and the caller's own (valuation.ts:93, contract-registry.ts:88).
BoundedStaleness ==
  answer.value # Never => time - answer.value < UsableFor[answer.fact] + 2 * Patience

====
