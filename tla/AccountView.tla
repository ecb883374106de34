---- MODULE AccountView ----
(* What the kernel knows of the CoinDCX account: the private stream writes a  *)
(* cache (PortfolioStateStore) keyed by position, REST snapshots overwrite it *)
(* (after every open of the socket, and whenever PortfolioEngine.refresh finds *)
(* it old), and refresh serves the pipeline from it while it is fresh.  One   *)
(* position stands for all keys; a size of 0 is a closed position.            *)
EXTENDS Integers, Sequences, SequencesExt, FiniteSetsExt

CONSTANTS
  Sizes,        \* sizes the position takes, 0 among them
  MaxAge,       \* cacheMaxAgeMs
  Lag,          \* bound: messages in flight on the private stream
  MaxCalls,     \* bound: snapshots in flight
  LastMoment    \* bound on the clock

VARIABLES
  moment,       \* the clock
  held,         \* the venue's position
  link,         \* the private socket: "none", "up", "down"
  attached,     \* this.attached
  wire,         \* private messages under way, oldest first
  known,        \* the cached position, 0 when the key is absent
  eventAt,      \* lastEventAt of the cache, -1 before the first
  calls,        \* REST snapshots asked: by whom, and what the venue answered
  served,       \* lastState: the position refresh() last returned
  inStep        \* history: a snapshot seeded the cache, and since its answer left
                \* the venue no message was lost, or applied before it

accountVars == <<moment, held, link, attached, wire, known, eventAt, calls, served, inStep>>

ASSUME AccountAssumption ==
  /\ Sizes \subseteq Nat /\ 0 \in Sizes /\ MaxAge \in Nat
  /\ Lag \in Nat /\ MaxCalls \in Nat /\ LastMoment \in Nat

Nothing == -1

AccountInit ==
  /\ moment = 0 /\ held \in Sizes /\ link = "none" /\ attached = FALSE /\ wire = <<>>
  /\ known = 0 /\ eventAt = Nothing /\ calls = <<>> /\ served = Nothing /\ inStep = FALSE

Touched(at) == eventAt' = Max({eventAt, at})

Fresh == eventAt # Nothing /\ moment - eventAt <= MaxAge

CallAnswered(k) == calls[k].answer # Nothing

\* start(): idempotent; the socket is asked for and opens later.  A start after a
\* stop attaches the listeners a second time: each message is then applied twice.
Attach ==
  /\ ~attached /\ attached' = TRUE /\ link' = "down"
  /\ UNCHANGED <<moment, held, wire, known, eventAt, calls, served, inStep>>

\* the socket is gone, with the messages under way on it
Cut ==
  /\ wire' = <<>> /\ inStep' = FALSE
  /\ calls' = [k \in DOMAIN calls |-> [calls[k] EXCEPT !.missed = @ \/ CallAnswered(k)]]
  /\ UNCHANGED <<moment, held, known, eventAt, served>>

\* stop()
Detach == attached /\ attached' = FALSE /\ link' = "none" /\ Cut

\* A snapshot asked: "asked" until the venue answers.  missed says that a message
\* was lost, or reached the cache, after the answer left the venue.
Asking(by) ==
  /\ Len(calls) < MaxCalls
  /\ calls' = Append(calls, [by |-> by, answer |-> Nothing, missed |-> FALSE])

\* onOpen(): CONNECTED at once; resync() runs on behind it
OpenLink ==
  /\ link = "down" /\ link' = "up"
  /\ Asking("resync")
  /\ UNCHANGED <<moment, held, attached, wire, known, eventAt, served, inStep>>

LoseLink == link = "up" /\ link' = "down" /\ Cut /\ UNCHANGED attached

Sent(m) == wire' = IF link = "up" THEN Append(wire, m) ELSE wire

\* the position changes on the venue; without a socket nobody hears of it
VenueMoves ==
  /\ Len(wire) < Lag
  /\ \E s \in Sizes \ {held} :
       held' = s /\ Sent([kind |-> "position", size |-> s, at |-> moment])
  /\ inStep' = (inStep /\ link = "up")
  /\ calls' = [k \in DOMAIN calls |->
       [calls[k] EXCEPT !.missed = @ \/ (CallAnswered(k) /\ link # "up")]]
  /\ UNCHANGED <<moment, link, attached, known, eventAt, served>>

\* an order or a balance update: it touches the cache without a position in it
VenueMentions ==
  /\ Len(wire) < Lag /\ link = "up"
  /\ Sent([kind |-> "other", size |-> 0, at |-> moment])
  /\ UNCHANGED <<moment, held, link, attached, known, eventAt, calls, served, inStep>>

\* onOrder, onPosition, onBalance: dated by the venue, in the order it sent them
Handle ==
  LET m == Head(wire) IN
  /\ wire # <<>> /\ wire' = Tail(wire)
  /\ known' = IF m.kind = "position" THEN m.size ELSE known
  /\ Touched(m.at)
  /\ calls' = [k \in DOMAIN calls |-> [calls[k] EXCEPT
       !.missed = @ \/ (CallAnswered(k) /\ m.kind = "position")]]
  /\ UNCHANGED <<moment, held, link, attached, served, inStep>>

\* refresh(): the fast path asks neither whether the stream is connected nor
\* whether the cache was ever seeded
ServeCached ==
  /\ Fresh /\ served' = known
  /\ UNCHANGED <<moment, held, link, attached, wire, known, eventAt, calls, inStep>>

AskVenue ==
  /\ ~Fresh /\ Asking("refresh")
  /\ UNCHANGED <<moment, held, link, attached, wire, known, eventAt, served, inStep>>

\* the venue answers with the position it holds then
VenueAnswers(k) ==
  /\ ~CallAnswered(k)
  /\ calls' = [calls EXCEPT ![k].answer = held]
  /\ UNCHANGED <<moment, held, link, attached, wire, known, eventAt, served, inStep>>

\* a variant that adds the snapshot's positions and clears none
SeedWithoutClearing(k) ==
  /\ CallAnswered(k)
  /\ known' = (IF calls[k].answer = 0 THEN known ELSE calls[k].answer) /\ Touched(moment)
  /\ calls' = RemoveAt(calls, k)
  /\ IF calls[k].by = "refresh"
     THEN served' = calls[k].answer
     ELSE UNCHANGED served
  /\ inStep' = (link = "up" /\ ~calls[k].missed)
  /\ UNCHANGED <<moment, held, link, attached, wire>>

\* syncSnapshot(): everything is replaced, and dated now
Seed(k) ==
  /\ CallAnswered(k)
  /\ known' = calls[k].answer /\ Touched(moment)
  /\ calls' = RemoveAt(calls, k)
  /\ IF calls[k].by = "refresh"
     THEN served' = calls[k].answer
     ELSE UNCHANGED served
  /\ inStep' = (link = "up" /\ ~calls[k].missed)
  /\ UNCHANGED <<moment, held, link, attached, wire>>

\* a failed resync is logged, a failed refresh is thrown: the cache stays as it is
CallFails(k) ==
  /\ calls' = RemoveAt(calls, k)
  /\ UNCHANGED <<moment, held, link, attached, wire, known, eventAt, served, inStep>>

TimePasses ==
  /\ moment < LastMoment /\ moment' = moment + 1
  /\ UNCHANGED <<held, link, attached, wire, known, eventAt, calls, served, inStep>>

AccountNext ==
  \/ Attach \/ Detach \/ OpenLink \/ LoseLink
  \/ VenueMoves \/ VenueMentions \/ Handle
  \/ ServeCached \/ AskVenue
  \/ \E k \in DOMAIN calls : VenueAnswers(k) \/ Seed(k) \/ CallFails(k)
  \/ TimePasses

AccountTypeOK ==
  /\ moment \in 0..LastMoment /\ held \in Sizes /\ known \in Sizes
  /\ link \in {"none", "up", "down"} /\ attached = (link # "none")
  /\ wire \in Seq([kind : {"position", "other"}, size : Sizes, at : 0..LastMoment])
  /\ eventAt \in {Nothing} \cup 0..moment
  /\ calls \in Seq([by : {"resync", "refresh"}, answer : Sizes \cup {Nothing}, missed : BOOLEAN])
  /\ served \in Sizes \cup {Nothing}
  /\ inStep \in BOOLEAN

\* What the cache will hold once the messages under way are handled
Settled ==
  LET moves == {k \in DOMAIN wire : wire[k].kind = "position"}
  IN  IF moves = {} THEN known ELSE wire[Max(moves)].size

\* The two writers converge (portfolio-state-store.ts:64): a cache seeded since
\* the socket opened, by a snapshot no stream update overtook, becomes the
\* venue's position once the messages under way are handled, whichever of them
\* the snapshot had already counted.
WritersConverge == inStep => Settled = held

====
