---- MODULE CrossVenue ----
(* The gate on trading at one venue by the prices of another: CoinDCX's order  *)
(* book against Binance's top of book, or its last price for want of a fresh   *)
(* one.  The route is resolved, book and ticker are asked for together, and    *)
(* the stream's quote is read when both are there.  Prices are in USDT: the    *)
(* rate of the route is VenueCaches'.                                          *)
EXTENDS Integers

CONSTANTS
  Prices,       \* prices the venues quote
  StaleQuote,   \* STALE_QUOTE_MS
  MaxBasis,     \* maxBasisBps
  CallLimit,    \* bound: how long an evaluation may take
  EndOfQuotes   \* bound on the clock

ASSUME CrossVenueAssumption ==
  Prices \subseteq Nat \ {0} /\ StaleQuote \in Nat /\ MaxBasis \in Nat /\ CallLimit \in Nat /\ EndOfQuotes \in Nat \ {0}

VARIABLES
  quoteClock,
  bookTicker,   \* the stream's quote; at is 0 before there is one
  evaluation,   \* the evaluation under way, and what has arrived for it
  crossVerdict  \* the last verdict, with the quotes it rests on

crossVars == <<quoteClock, bookTicker, evaluation, crossVerdict>>

\* price 0: no quote on one side or both; taken is when the venue made the quote,
\* at when it claims to be of
NoQuote == [price |-> 0, wide |-> FALSE, at |-> 0, taken |-> 0]
Idle == [asked |-> 0, routed |-> FALSE, book |-> NoQuote, last |-> NoQuote]
NoVerdict == [tradable |-> FALSE, binance |-> NoQuote, coindcx |-> NoQuote]

CrossInit ==
  quoteClock = 1 /\ bookTicker = NoQuote /\ evaluation = Idle /\ crossVerdict = NoVerdict

Gap(a, b) == IF a < b THEN b - a ELSE a - b

QuoteHealth(q) ==
  IF q.price = 0 THEN "UNAVAILABLE" ELSE IF quoteClock - q.at <= StaleQuote THEN "OK" ELSE "STALE"

\* a variant that takes the better of the two
WorstHealthBest(a, b) == IF "OK" \in {a, b} THEN "OK" ELSE a

WorstHealth(a, b) ==
  IF "UNAVAILABLE" \in {a, b} THEN "UNAVAILABLE" ELSE IF "STALE" \in {a, b} THEN "STALE" ELSE "OK"

\* the stream's quote if it is fresh, else the last price, dated now
BinanceQuoteOf(last) ==
  IF QuoteHealth(bookTicker) = "OK" THEN bookTicker ELSE [last EXCEPT !.at = quoteClock]

Tradable(binance, coindcx) ==
  /\ WorstHealth(QuoteHealth(binance), QuoteHealth(coindcx)) = "OK"
  /\ Gap(binance.price, coindcx.price) <= MaxBasis
  /\ ~coindcx.wide

Under == evaluation.asked > 0
Has(q) == q.taken > 0

StreamQuotes ==
  /\ \E p \in Prices :
       bookTicker' = [price |-> p, wide |-> FALSE, at |-> quoteClock, taken |-> quoteClock]
  /\ UNCHANGED <<quoteClock, evaluation, crossVerdict>>

EvaluationBegins ==
  /\ ~Under /\ evaluation' = [Idle EXCEPT !.asked = quoteClock] /\ crossVerdict' = NoVerdict
  /\ UNCHANGED <<quoteClock, bookTicker>>

Routed ==
  /\ Under /\ ~evaluation.routed /\ evaluation' = [evaluation EXCEPT !.routed = TRUE]
  /\ UNCHANGED <<quoteClock, bookTicker, crossVerdict>>

\* the order book: empty on a side, wide, or the venue's own date shows it is old; one
\* without a date is of now
BookArrives ==
  /\ evaluation.routed /\ ~Has(evaluation.book)
  /\ \E p \in Prices \cup {0}, wide \in BOOLEAN, made \in 1..quoteClock :
       evaluation' = [evaluation EXCEPT !.book = [price |-> p, wide |-> wide, at |-> made, taken |-> made]]
  /\ UNCHANGED <<quoteClock, bookTicker, crossVerdict>>

TickerArrives ==
  /\ evaluation.routed /\ ~Has(evaluation.last)
  /\ \E p \in Prices :
       evaluation' = [evaluation EXCEPT !.last = [price |-> p, wide |-> FALSE, at |-> quoteClock,
                                                  taken |-> quoteClock]]
  /\ UNCHANGED <<quoteClock, bookTicker, crossVerdict>>

Judged ==
  /\ Has(evaluation.book) /\ Has(evaluation.last)
  /\ LET binance == BinanceQuoteOf(evaluation.last) IN
     crossVerdict' = [tradable |-> Tradable(binance, evaluation.book), binance |-> binance,
                      coindcx |-> evaluation.book]
  /\ evaluation' = Idle /\ UNCHANGED <<quoteClock, bookTicker>>

\* no route, no book or no ticker: not tradable
EvaluationFails ==
  /\ Under /\ ~(Has(evaluation.book) /\ Has(evaluation.last))
  /\ evaluation' = Idle /\ crossVerdict' = NoVerdict /\ UNCHANGED <<quoteClock, bookTicker>>

QuotesAge ==
  /\ quoteClock < EndOfQuotes /\ (Under => quoteClock < evaluation.asked + CallLimit)
  /\ quoteClock' = quoteClock + 1 /\ crossVerdict' = NoVerdict /\ UNCHANGED <<bookTicker, evaluation>>

CrossNext ==
  \/ StreamQuotes \/ EvaluationBegins \/ Routed \/ BookArrives \/ TickerArrives
  \/ Judged \/ EvaluationFails \/ QuotesAge

CrossTypeOK ==
  /\ quoteClock \in 1..EndOfQuotes /\ bookTicker.price \in Prices \cup {0}
  /\ evaluation.asked \in 0..EndOfQuotes /\ evaluation.book.taken <= quoteClock
  /\ evaluation.last.taken <= quoteClock

\* A symbol is tradable only on quotes of both venues that were made, not only
\* dated, within the stale limit or the length of the call, and that agree within
\* the basis allowed: a fallback dated now hides no age beyond the call's own
\* (cross-venue-gate.ts:94-104, cross-venue.ts:44-47).
TradableWasRecent ==
  crossVerdict.tradable =>
    /\ quoteClock - crossVerdict.coindcx.taken <= StaleQuote
    /\ \/ quoteClock - crossVerdict.binance.taken <= StaleQuote
       \/ quoteClock - crossVerdict.binance.taken <= CallLimit
    /\ 0 \notin {crossVerdict.binance.price, crossVerdict.coindcx.price}
    /\ Gap(crossVerdict.binance.price, crossVerdict.coindcx.price) <= MaxBasis

====
