---- MODULE MarketStream ----
(* BinanceMarketStream: one multiplexed websocket serving every watched       *)
(* symbol.  A subscription that adds symbols seeds each from REST, closes the *)
(* socket and opens another whose URL names the longer list; a close schedules *)
(* a reconnect.  The handlers do not know which socket calls them, and the    *)
(* close event of a replaced socket arrives after its successor was opened.   *)
EXTENDS Naturals, Sequences, FiniteSets, SequencesExt

CONSTANTS
  Callers,      \* the calls of subscribe: the watch list at boot, then ensure
  Watch,        \* the symbols each call names, in order
  MaxRetries,   \* maxRetries
  MaxSockets,   \* bound: sockets ever opened
  MaxDrops      \* bound: closes the venue starts

VARIABLES
  sockets,      \* every socket opened so far, in order
  socket,       \* this.socket: an index, or 0
  watched,      \* this.symbols
  calling,      \* where each call of subscribe stands
  toSeed,       \* the symbols it has still to watch and seed
  timer,        \* the timer reconnectTimer names is pending
  orphans,      \* pending timers that reconnectTimer no longer names
  attempts,     \* this.attempts
  stopped,      \* this.stopped
  streamState,  \* stateValue
  drops,        \* bound counter: closes started by the venue
  gaveUp,       \* history: the last close found no retry left
  lateClose     \* history: a close reached the handler for a socket not its own

streamVars == <<sockets, socket, watched, calling, toSeed, timer, orphans, attempts, stopped,
                streamState, drops, gaveUp, lateClose>>

Named == UNION {{Watch[c][k] : k \in DOMAIN Watch[c]} : c \in Callers}

ASSUME StreamAssumption ==
  /\ MaxRetries \in Nat /\ MaxSockets \in Nat /\ MaxDrops \in Nat
  /\ \A c \in Callers : Watch[c] \in Seq(Named)

Live(i) == sockets[i].phase \in {"connecting", "open"}

Serves(s) == \E i \in DOMAIN sockets : sockets[i].phase = "open" /\ s \in sockets[i].url

StreamInit ==
  /\ sockets = <<>> /\ socket = 0 /\ watched = {}
  /\ calling = [c \in Callers |-> "no"] /\ toSeed = [c \in Callers |-> <<>>]
  /\ timer = FALSE /\ orphans = 0 /\ attempts = 0 /\ stopped = TRUE
  /\ streamState = "IDLE" /\ drops = 0 /\ gaveUp = FALSE /\ lateClose = FALSE

\* connect(): it asks neither stopped nor whether a socket is open already.
Connected(closing) ==
  /\ Len(sockets) < MaxSockets
  /\ sockets' = Append(closing, [phase |-> "connecting", url |-> watched'])
  /\ socket' = Len(sockets) + 1
  /\ streamState' = IF attempts = 0 THEN "CONNECTING" ELSE "RECONNECTING"
  /\ gaveUp' = FALSE

\* a variant that leaves the replaced socket open
ClosingNothing(i) == sockets

Closing(i) ==
  IF i # 0 /\ Live(i) THEN [sockets EXCEPT ![i].phase = "closing"] ELSE sockets

\* subscribe(): the symbols not yet watched; the first is watched at once and seeded.
WithNew(kept, s) == IF s \in watched THEN kept ELSE Append(kept, s)

Subscribe(c) ==
  LET added == FoldLeft(WithNew, <<>>, Watch[c]) IN
  /\ calling[c] = "no" /\ added # <<>>
  /\ watched' = watched \cup {Head(added)}
  /\ calling' = [calling EXCEPT ![c] = "seeding"]
  /\ toSeed' = [toSeed EXCEPT ![c] = Tail(added)]
  /\ UNCHANGED <<sockets, socket, timer, orphans, attempts, stopped, streamState, drops, gaveUp, lateClose>>

\* the REST seed of a symbol answers, or fails and is logged; the next one is asked
Seeded(c) ==
  /\ calling[c] = "seeding" /\ toSeed[c] # <<>>
  /\ watched' = watched \cup {Head(toSeed[c])}
  /\ toSeed' = [toSeed EXCEPT ![c] = Tail(@)]
  /\ UNCHANGED <<calling, sockets, socket, timer, orphans, attempts, stopped, streamState, drops, gaveUp, lateClose>>

\* a variant that opens no socket when there is one
ResubscribeWhenDown(c) ==
  /\ calling[c] = "seeding" /\ toSeed[c] = <<>>
  /\ calling' = [calling EXCEPT ![c] = "done"] /\ UNCHANGED <<watched, toSeed>>
  /\ stopped' = FALSE
  /\ IF socket = 0 THEN timer' = FALSE /\ Connected(sockets)
     ELSE UNCHANGED <<sockets, socket, timer, streamState, gaveUp>>
  /\ UNCHANGED <<orphans, attempts, drops, lateClose>>

Resubscribe(c) ==
  /\ calling[c] = "seeding" /\ toSeed[c] = <<>>
  /\ calling' = [calling EXCEPT ![c] = "done"] /\ UNCHANGED <<watched, toSeed>>
  /\ stopped' = FALSE /\ timer' = FALSE
  /\ Connected(Closing(socket))
  /\ UNCHANGED <<orphans, attempts, drops, lateClose>>

Reconnect ==
  /\ \/ timer /\ timer' = FALSE /\ UNCHANGED orphans
     \/ orphans > 0 /\ orphans' = orphans - 1 /\ UNCHANGED timer
  /\ UNCHANGED watched
  /\ Connected(sockets)
  /\ UNCHANGED <<calling, toSeed, attempts, stopped, drops, lateClose>>

OnOpen(i) ==
  /\ sockets[i].phase = "connecting"
  /\ sockets' = [sockets EXCEPT ![i].phase = "open"]
  /\ attempts' = 0 /\ streamState' = "LIVE"
  /\ UNCHANGED <<socket, watched, calling, toSeed, timer, orphans, stopped, drops, gaveUp, lateClose>>

\* onClose(): whichever socket closed, the tracked one is forgotten
OnClose(i) ==
  /\ \/ sockets[i].phase = "closing" /\ UNCHANGED drops
     \/ Live(i) /\ drops < MaxDrops /\ drops' = drops + 1
  /\ sockets' = [sockets EXCEPT ![i] = [phase |-> "closed", url |-> {}]]
  /\ socket' = 0
  /\ IF stopped THEN UNCHANGED <<timer, orphans, attempts, streamState, gaveUp, lateClose>>
     ELSE /\ streamState' = "DOWN"
          /\ lateClose' = (lateClose \/ socket # i)
          /\ gaveUp' = (attempts >= MaxRetries)
          /\ IF attempts >= MaxRetries THEN UNCHANGED <<timer, orphans, attempts>>
             ELSE /\ attempts' = attempts + 1
                  /\ timer' = TRUE
                  /\ orphans' = IF timer THEN orphans + 1 ELSE orphans
  /\ UNCHANGED <<watched, calling, toSeed, stopped>>

StopStream ==
  /\ ~stopped \/ socket # 0 \/ timer
  /\ stopped' = TRUE /\ timer' = FALSE
  /\ sockets' = Closing(socket) /\ socket' = 0
  /\ streamState' = "IDLE"
  /\ UNCHANGED <<watched, calling, toSeed, orphans, attempts, drops, gaveUp, lateClose>>

StreamNext ==
  \/ \E c \in Callers : Subscribe(c) \/ Seeded(c) \/ Resubscribe(c)
  \/ Reconnect
  \/ \E i \in DOMAIN sockets : OnOpen(i) \/ OnClose(i)
  \/ StopStream

\* The event loop runs due timers and answered calls, and the venue answers a
\* connection; nothing obliges it to drop a socket or end a closing one, nor us to
\* stop.  (Each of these steps can be taken finitely often within the bounds, so
\* that fairness to one of several is fairness to all.)
StreamFair ==
  /\ WF_streamVars(\E c \in Callers : Seeded(c) \/ Resubscribe(c))
  /\ WF_streamVars(Reconnect)
  /\ WF_streamVars(\E i \in DOMAIN sockets : OnOpen(i))

StreamTypeOK ==
  /\ sockets \in Seq([phase : {"connecting", "open", "closing", "closed"}, url : SUBSET Named])
  /\ socket \in 0..Len(sockets) /\ watched \subseteq Named
  /\ calling \in [Callers -> {"no", "seeding", "done"}] /\ toSeed \in [Callers -> Seq(Named)]
  /\ timer \in BOOLEAN /\ orphans \in Nat /\ attempts \in 0..MaxRetries
  /\ stopped \in BOOLEAN /\ gaveUp \in BOOLEAN /\ lateClose \in BOOLEAN
  /\ streamState \in {"IDLE", "CONNECTING", "LIVE", "RECONNECTING", "DOWN"}

\* As long as no replaced socket's close was taken for the current one's
\* (market-stream.ts:212), there is one feed: a second socket is never live or
\* waiting on a timer, and stop() is final: it leaves neither socket nor timer.
OneFeed ==
  ~lateClose =>
    /\ Cardinality({i \in DOMAIN sockets : Live(i)}) + (IF timer THEN 1 ELSE 0) + orphans <= 1
    /\ stopped => ~timer /\ orphans = 0 /\ \A i \in DOMAIN sockets : ~Live(i)

\* A watched symbol ends served by an open socket, unless the stream is stopped
\* or gave up after MaxRetries failures in a row: no closing of the old socket,
\* late close or lost timer leaves it out of every URL (market-stream.ts:136).
SubscribedIsServed ==
  \A s \in Named :
    s \in watched /\ ~stopped ~>
      Serves(s) \/ stopped \/ gaveUp

====
