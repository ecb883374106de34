---- MODULE MarketStore ----
(* The book MarketStateStore keeps of one symbol, fed by the stream's messages *)
(* and by REST answers asked earlier (the seed of a subscription, the micro,   *)
(* tape and quote refreshes of market-hydrate.ts).  A print is the venue time   *)
(* it bears, a candle its open time; of a price only whether one is known.      *)
(* Symbols and timeframes do not interact: one of each.                         *)
EXTENDS Integers, Sequences, FiniteSets, FiniteSetsExt, SequencesExt

CONSTANTS
  CandleCap,   \* CANDLE_CAP of the timeframe
  TapeCap,     \* TRADE_CAP
  Seeded300,   \* how many candles a REST seed brings (300; the 4h cap is 220)
  MaxAsked,    \* bound: REST requests in flight together
  MaxLag,      \* bound: how old a stream message may be when it is handled
  EndOfTime    \* bound on the clock

VARIABLES
  now,         \* the clock of venue and process
  ladder,      \* the open times of the candles held
  tape,        \* trades
  priced,      \* which of last and mark are known
  touched,     \* lastEventAt
  asked,       \* REST requests in flight: what and when
  received     \* history: every open time a candle was received for

storeVars == <<now, ladder, tape, priced, touched, asked, received>>

ASSUME StoreAssumption ==
  /\ CandleCap \in Nat \ {0} /\ TapeCap \in Nat \ {0} /\ Seeded300 \in Nat
  /\ MaxLag \in Nat /\ EndOfTime \in Nat

None == -1
Times == 0..EndOfTime
Requests == [what : {"klines", "micro", "tape", "quote"}, at : Times]

StoreInit ==
  /\ now = 0 /\ ladder = {} /\ tape = <<>>
  /\ priced = {} /\ touched = None /\ asked = {} /\ received = {}

Touch(at) == touched' = Max({touched, at})

\* a variant that drops the newest
TrimNewest(keys) == {k \in keys : Cardinality({j \in keys : j < k}) < CandleCap}

\* trimOldest(): drops by open time, not by arrival
TrimOldest(keys) == {k \in keys : Cardinality({j \in keys : j > k}) < CandleCap}

WithCandles(keys) ==
  ladder' = TrimOldest(ladder \cup keys) /\ received' = received \cup keys

\* a variant that forgets to trim
NewestUntrimmed(seq, n) == seq

Newest(seq, n) == SubSeq(seq, Max({1, Len(seq) - n + 1}), Len(seq))

\* mergeTrades(): one copy of each print, in venue order, the newest TapeCap
InOrder(set) ==
  [i \in 1..Cardinality(set) |-> CHOOSE k \in set : Cardinality({j \in set : j <= k}) = i]
MergedPrints(prints) == Newest(InOrder(ToSet(tape) \cup prints), TapeCap)

\* setBookTicker, setDepth: a two-sided quote seeds the prices not yet known
Quoted == priced' = {"last", "mark"}

Kline(t) ==
  /\ WithCandles({t})
  /\ Touch(now) /\ UNCHANGED <<now, asked, tape, priced>>

\* markPrice sets mark, miniTicker sets last
Tick(p) ==
  /\ priced' = priced \cup {p}
  /\ Touch(now) /\ UNCHANGED <<now, asked, ladder, tape, received>>

\* bookTicker, or a depth message with both sides
Quote ==
  /\ Quoted
  /\ Touch(now) /\ UNCHANGED <<now, asked, ladder, tape, received>>

OneSidedDepth ==
  Touch(now) /\ UNCHANGED <<now, asked, ladder, tape, priced, received>>

\* pushTrade(): the book is touched at the venue's time of the print
Trade(t) ==
  /\ tape' = Newest(Append(tape, t), TapeCap)
  /\ priced' = priced \cup {"last"}
  /\ Touch(t)
  /\ UNCHANGED <<now, ladder, asked, received>>

\* refreshSymbolTape() asks only when the newest print is old
Ask(what) ==
  /\ Cardinality(asked) < MaxAsked
  /\ what = "tape" => \A k \in {Len(tape)} \ {0} : tape[k] < now
  /\ asked' = asked \cup {[what |-> what, at |-> now]}
  /\ UNCHANGED <<now, ladder, tape, priced, touched, received>>

\* the venue answered as of time t; the klines carry the time they were asked
AnswerKlines(r, t) ==
  /\ r.what = "klines"
  /\ WithCandles(Max({0, t - Seeded300 + 1})..t)
  /\ Touch(r.at) /\ UNCHANGED <<tape, priced>>

\* backfillMicro, hydrateSymbolMicro: depth dated when asked, prints dated now
AnswerMicro(r, t) ==
  /\ r.what = "micro"
  /\ Quoted
  /\ \/ tape' = MergedPrints({t}) /\ Touch(now)
     \/ Touch(r.at) /\ UNCHANGED tape   \* no prints
  /\ UNCHANGED <<ladder, received>>

AnswerTape(r, t) ==
  /\ r.what = "tape"
  /\ tape' = MergedPrints({Max({0, t - 1}), t}) /\ Touch(now)
  /\ priced' = priced \cup {"last"}
  /\ UNCHANGED <<ladder, received>>

AnswerQuote(r) ==
  /\ r.what = "quote"
  /\ Quoted /\ Touch(now)
  /\ UNCHANGED <<ladder, tape, received>>

Answered(r) ==
  /\ \E t \in r.at..now : \/ AnswerKlines(r, t) \/ AnswerMicro(r, t)
                          \/ AnswerTape(r, t) \/ AnswerQuote(r)
  /\ asked' = asked \ {r} /\ UNCHANGED now

AskFails(r) ==
  /\ asked' = asked \ {r}
  /\ UNCHANGED <<now, ladder, tape, priced, touched, received>>

Pass ==
  /\ now < EndOfTime /\ now' = now + 1
  /\ UNCHANGED <<ladder, tape, priced, touched, asked, received>>

StoreNext ==
  \/ \E t \in Max({0, now - MaxLag})..now :
       Kline(t) \/ Trade(t)
  \/ Tick("last") \/ Tick("mark") \/ Quote \/ OneSidedDepth
  \/ \E what \in {"klines", "micro", "tape", "quote"} : Ask(what)
  \/ \E r \in asked : Answered(r) \/ AskFails(r)
  \/ Pass

StoreTypeOK ==
  /\ now \in Times /\ ladder \subseteq received /\ received \subseteq Times
  /\ tape \in Seq(Times) /\ Len(tape) <= TapeCap /\ priced \subseteq {"last", "mark"}
  /\ touched \in Times \cup {None}
  /\ asked \subseteq Requests

\* The ladder holds the newest CandleCap candles ever received, in whatever
\* order the stream and the REST seeds brought them (market-state-store.ts:77).
LadderIsNewest ==
  ladder = {k \in received : Cardinality({j \in received : j > k}) < CandleCap}

====
