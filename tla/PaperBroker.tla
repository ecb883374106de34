----------------------------- MODULE PaperBroker -----------------------------
(***************************************************************************)
(* The simulator of src/infrastructure/paper/paper-broker-adapter.ts: what *)
(* an order does to cash, margin and positions at the mark price, and the  *)
(* closes it reports to the performance engine.  Long and short positions  *)
(* of a pair live side by side.  Cash is in thousandths, a price a multiple *)
(* of the slippage, and an averaged entry price is rounded down.           *)
(***************************************************************************)
EXTENDS Integers, Sequences, FiniteSets, FiniteSetsExt

CONSTANTS
  Pairs,          \* instruments
  PaperOrders,    \* the requests placeOrder is called with
  Marks,          \* prices the kernel sets
  Slip,           \* slippage, in price units
  FeeRate,        \* taker fee in thousandths of the notional
  InitialBalance, \* cash at the start, in thousandths
  FallbackMark,   \* PAPER_FALLBACK_MARK_PRICE
  Protections,    \* stop-loss and take-profit pairs attachTPSL is given
  MaxOrders,      \* bound on orders placed
  MaxTouches      \* bound on marks set and protections attached

\* The venue's slippage is a small part of any price (0.0005, paper-broker-adapter.ts:78),
\* so that two fills off one mark leave it positive.
ASSUME PaperAssumption ==
  /\ IsFiniteSet(Pairs)
  /\ \A o \in PaperOrders :
       /\ o.pair \in Pairs /\ o.side \in {"buy", "sell"} /\ o.quantity \in Nat \ {0}
       /\ o.leverage \in Nat /\ o.stop \in Nat /\ o.take \in Nat
  /\ Protections \subseteq Nat \X Nat
  /\ Marks \subseteq Nat /\ Slip \in Nat /\ \A m \in Marks \union {FallbackMark} : m > 2 * Slip
  /\ FeeRate \in Nat /\ InitialBalance \in Nat /\ FallbackMark \in Nat
  /\ MaxOrders \in Nat /\ MaxTouches \in Nat

VARIABLES
  paperOrders, \* by client id: the latest order placed under it
  positions,   \* by pair and side: NoPosition or a position
  marks,       \* the marks set so far, or 0
  cash,        \* balance
  entered,     \* history: quantity of the filled entries
  closedOut,   \* history: quantity the reported closes took off positions
  placedPaper, \* bound counter: orders placed
  touches      \* bound counter: marks and protections

paperVars == <<paperOrders, positions, marks, cash, entered, closedOut, placedPaper, touches>>

BookSides == {"long", "short"}
OtherSide(s) == IF s = "buy" THEN "short" ELSE "long"
SideOf(s) == IF s = "buy" THEN "long" ELSE "short"
NoOrder == [status |-> "none", filled |-> 0]
NoPosition == [size |-> 0, entry |-> 0, margin |-> 0, mark |-> 0, stop |-> 0, take |-> 0]
Intents == {o.intent : o \in PaperOrders}

PaperInit ==
  /\ paperOrders = [i \in Intents |-> NoOrder]
  /\ positions = [b \in Pairs \X BookSides |-> NoPosition]
  /\ marks = [p \in Pairs |-> 0]
  /\ cash = InitialBalance /\ entered = 0 /\ closedOut = 0 /\ placedPaper = 0 /\ touches = 0

-----------------------------------------------------------------------------
MarkFor(pair) ==
  LET held == {positions[<<pair, s>>].mark : s \in BookSides} \ {0} IN
  IF marks[pair] # 0 THEN {marks[pair]} ELSE IF held # {} THEN held ELSE {FallbackMark}

ApplySlippage(mark, side) == IF side = "buy" THEN mark + Slip ELSE mark - Slip

Crosses(side, mark, limit) == IF side = "buy" THEN limit >= mark ELSE limit <= mark

\* expected and worst are 0 when the request carries no execution-quality contract.
SlippageBreached(o, price) ==
  o.worst # 0 /\ IF o.side = "buy" THEN price > o.worst ELSE price < o.worst

UsedMargin == MapThenSumSet(LAMBDA b : positions[b].margin, DOMAIN positions)
Available == IF cash > UsedMargin THEN cash - UsedMargin ELSE 0

Fee(o, price) == FeeRate * price * o.quantity
Margin(o, price) == (1000 * price * o.quantity) \div (IF o.leverage > 1 THEN o.leverage ELSE 1)

\* A variant that takes the whole order off the position.
TakenOffWhole(qty, pos) == qty

\* reduce: no more than there is; the profit, though, is paid on all of the order.
TakenOff(qty, pos) == IF qty < pos.size THEN qty ELSE pos.size
Profit(side, qty, pos, price) ==
  1000 * qty * (IF side = "long" THEN price - pos.entry ELSE pos.entry - price)
Reduced(pos, qty) ==
  LET left == pos.size - TakenOff(qty, pos) IN
  IF left <= 0 THEN NoPosition ELSE [pos EXCEPT !.size = left]

\* An entry into a held side: size grows before the entry price is averaged over it,
\* and the margin of the addition is not added.
Merged(pos, qty, price) ==
  LET size == pos.size + qty IN
  [pos EXCEPT !.size = size, !.entry = (pos.entry * size + price * qty) \div (size + qty)]

Opened(o, price) ==
  [size |-> o.quantity, entry |-> price, margin |-> Margin(o, price), mark |-> price,
   stop |-> o.stop, take |-> o.take]

-----------------------------------------------------------------------------
Rejects(o, status) ==
  /\ paperOrders' = [paperOrders EXCEPT ![o.intent] = [status |-> status, filled |-> 0]]
  /\ UNCHANGED <<positions, cash, entered, closedOut>>

\* fill
Fills(o, price) ==
  IF SlippageBreached(o, price) \/ Margin(o, price) + Fee(o, price) > Available
  THEN Rejects(o, "REJECTED")
  ELSE
    /\ paperOrders' = [paperOrders EXCEPT ![o.intent] = [status |-> "FILLED", filled |-> o.quantity]]
    /\ IF ~ o.reduceOnly
       THEN LET b == <<o.pair, SideOf(o.side)>> IN
            /\ positions' = [positions EXCEPT ![b] =
                 IF @ = NoPosition THEN Opened(o, price) ELSE Merged(@, o.quantity, price)]
            /\ cash' = cash - Fee(o, price)
            /\ entered' = entered + o.quantity /\ UNCHANGED closedOut
       ELSE LET b == <<o.pair, OtherSide(o.side)>> IN
            /\ positions' = [positions EXCEPT ![b] = Reduced(@, o.quantity)]
            /\ cash' = cash - Fee(o, price)
                 + (IF positions[b] = NoPosition THEN 0
                    ELSE Profit(b[2], o.quantity, positions[b], price))
            /\ closedOut' = closedOut + TakenOff(o.quantity, positions[b])
            /\ UNCHANGED entered

\* placeOrder: a limit order that does not cross rests, and nothing ever fills it.
PlacePaper(o) ==
  /\ placedPaper < MaxOrders /\ placedPaper' = placedPaper + 1
  /\ \E mark \in MarkFor(o.pair) :
       IF o.limit # 0 /\ ~ Crosses(o.side, mark, o.limit)
       THEN Rejects(o, "SUBMITTED")
       ELSE Fills(o, ApplySlippage(mark, o.side))
  /\ UNCHANGED <<marks, touches>>

CancelPaper(i) ==
  /\ paperOrders[i].status = "SUBMITTED"
  /\ paperOrders' = [paperOrders EXCEPT ![i].status = "CANCELLED"]
  /\ UNCHANGED <<positions, marks, cash, entered, closedOut, placedPaper, touches>>

\* Close the positions bs, each at its price; cash and history take the sum.
ClosesAt(bs, price) ==
  /\ cash' = cash + MapThenSumSet(
       LAMBDA b : Profit(b[2], positions[b].size, positions[b], price[b]), bs)
  /\ closedOut' = closedOut + MapThenSumSet(LAMBDA b : positions[b].size, bs)
  /\ positions' = [b \in DOMAIN positions |-> IF b \in bs THEN NoPosition ELSE positions[b]]

HeldOn(pair) == {b \in {pair} \X BookSides : positions[b] # NoPosition}
StopHit(b, price) ==
  positions[b].stop # 0 /\ IF b[2] = "long" THEN price <= positions[b].stop ELSE price >= positions[b].stop
TakeHit(b, price) ==
  positions[b].take # 0 /\ IF b[2] = "long" THEN price >= positions[b].take ELSE price <= positions[b].take

\* checkProtectiveFills: the stop comes first.
CheckProtectiveFills(pair, price) ==
  LET hit == {b \in HeldOn(pair) : StopHit(b, price) \/ TakeHit(b, price)} IN
  /\ hit # {}
  /\ ClosesAt(hit, [b \in hit |-> IF StopHit(b, price) THEN positions[b].stop ELSE positions[b].take])
  /\ UNCHANGED <<paperOrders, marks, entered, placedPaper, touches>>

ClosePosition(pair) ==
  /\ HeldOn(pair) # {}
  /\ ClosesAt(HeldOn(pair), [b \in HeldOn(pair) |-> positions[b].mark])
  /\ UNCHANGED <<paperOrders, marks, entered, placedPaper, touches>>

Touches == touches < MaxTouches /\ touches' = touches + 1

SetMarkPrice(pair, price) ==
  /\ Touches
  /\ marks' = [marks EXCEPT ![pair] = price]
  /\ positions' = [b \in DOMAIN positions |->
       IF b \in HeldOn(pair) THEN [positions[b] EXCEPT !.mark = price] ELSE positions[b]]
  /\ UNCHANGED <<paperOrders, cash, entered, closedOut, placedPaper>>

AttachTPSL(b, sl, tp) ==
  /\ Touches /\ positions[b] # NoPosition
  /\ LET held == positions[b] IN
     positions' = [positions EXCEPT ![b] =
       [held EXCEPT !.stop = IF sl = 0 THEN @ ELSE sl, !.take = IF tp = 0 THEN @ ELSE tp]]
  /\ UNCHANGED <<paperOrders, marks, cash, entered, closedOut, placedPaper>>

PaperNext ==
  \/ \E o \in PaperOrders : PlacePaper(o)
  \/ \E i \in Intents : CancelPaper(i)
  \/ \E p \in Pairs, m \in Marks : SetMarkPrice(p, m) \/ CheckProtectiveFills(p, m)
  \/ \E p \in Pairs : ClosePosition(p)
  \/ \E b \in DOMAIN positions, x \in Protections : AttachTPSL(b, x[1], x[2])

-----------------------------------------------------------------------------
PaperTypeOK ==
  /\ paperOrders \in [Intents ->
       [status : {"none", "SUBMITTED", "FILLED", "REJECTED", "CANCELLED"}, filled : Nat]]
  /\ positions \in [Pairs \X BookSides ->
       [size : Nat, entry : Nat, margin : Nat, mark : Nat, stop : Nat, take : Nat]]
  /\ marks \in [Pairs -> Nat] /\ cash \in Int /\ entered \in Nat /\ closedOut \in Nat
  /\ placedPaper \in 0 .. MaxOrders /\ touches \in 0 .. MaxTouches

\* What entries opened is what closes took off and what is still held: a reduce
\* larger than its position, a stop beside a take, or two sides closed by one call
\* close nothing twice and leave nothing behind (paper-broker-adapter.ts:172-208).
PaperConserved ==
  entered = closedOut + MapThenSumSet(LAMBDA b : positions[b].size, DOMAIN positions)
=============================================================================
