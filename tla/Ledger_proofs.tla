---------------------------- MODULE Ledger_proofs ----------------------------
(***************************************************************************)
(* The position accounting, for any orders, quantities, number of fills,   *)
(* failed writes and restarts.  The log, the lots of a close and its       *)
(* fan-out are folds; each is followed place by place, and what one fill   *)
(* does to the sums is carried along by the invariant.                     *)
(***************************************************************************)
EXTENDS TradeAccounting, SequenceTheorems, Induction

\* Parts of fills: what a lot holds, what an allocation takes.
Part == [d : Decisions, q : Nat]

\* The sum of the units, place by place.
LEMMA UnitsRun ==
  ASSUME NEW S, NEW s \in Seq(S), \A x \in S : x.q \in Nat
  PROVE  \E run \in [0 .. Len(s) -> Nat] :
           /\ run[0] = 0
           /\ \A i \in 1 .. Len(s) : run[i] = run[i - 1] + s[i].q
           /\ Units(s) = run[Len(s)]
<1> DEFINE n == Len(s)
           A == Nat
           base == 0
           F == [p \in (1 .. n) \X A |-> p[2] + s[p[1]].q]
           Eq(h) == h = [u \in SUBSET (1 .. n) |->
                           IF u = {} THEN base ELSE h[u \ {Max(u)}] + s[Max(u)].q]
           it == CHOOSE h : Eq(h)
<1>1. n \in Nat /\ DOMAIN s = 1 .. n /\ \A i \in 1 .. n : s[i] \in S
  BY LenProperties
<1>2. F \in [(1 .. n) \X A -> A] /\ base \in A
  <2>1. base \in A
    OBVIOUS
  <2>2. \A p \in (1 .. n) \X A : p[2] + s[p[1]].q \in A
    BY <1>1
  <2> QED BY <2>1, <2>2
<1>3. ASSUME NEW i \in 1 .. n, NEW a \in A PROVE F[<<i, a>>] = a + s[i].q
  BY <1>3
<1>4. Units(s) = it[1 .. n]
  BY <1>1 DEF Units, FoldLeft, MapThenFoldSet
<1> HIDE DEF F, n, A, base
<1>5. ASSUME NEW u \in SUBSET (1 .. n), u # {}
      PROVE  Max(u) \in 1 .. n /\ u \ {Max(u)} \in SUBSET (1 .. n)
  BY <1>1, <1>5, MaxOfSome
<1>6. ASSUME NEW h, IsTable(h, A, base, n, F) PROVE Obeys(it, A, base, n, F)
  <2>1. Eq(h)
    BY <1>3, <1>5, <1>6 DEF IsTable
  <2> HIDE DEF Eq
  <2>2. Eq(it)
    BY <2>1
  <2> HIDE DEF it
  <2> USE DEF Eq
  <2> QED BY <1>3, <1>5, <2>2 DEF Obeys
<1> HIDE DEF it
<1>7. PICK run : IsRun(run, A, base, n, F) /\ it[1 .. n] = run[n]
  <2>1. Folds(it, A, base, n, F)
    BY <1>1, <1>2, <1>6, FoldRun
  <2> QED BY <2>1 DEF Folds
<1>8. ASSUME NEW i \in 1 .. n PROVE run[i] = run[i - 1] + s[i].q
  <2>1. i - 1 \in 0 .. n
    BY <1>1
  <2> QED BY <1>3, <1>7, <2>1 DEF IsRun
<1> QED BY <1>4, <1>7, <1>8 DEF n, A, base, IsRun

LEMMA UnitsAppend ==
  ASSUME NEW S, NEW s \in Seq(S), NEW e \in S, \A x \in S : x.q \in Nat
  PROVE  Units(Append(s, e)) = Units(s) + e.q /\ Units(s) \in Nat
<1> DEFINE t == Append(s, e)
           n == Len(s)
<1>1. n \in Nat /\ t \in Seq(S) /\ Len(t) = n + 1 /\ t[n + 1] = e /\ \A i \in 1 .. n : t[i] = s[i]
  BY AppendProperties, LenProperties
<1> HIDE DEF t, n
<1>2. PICK f \in [0 .. n -> Nat] :
           f[0] = 0 /\ (\A i \in 1 .. n : f[i] = f[i - 1] + s[i].q) /\ Units(s) = f[n]
  BY UnitsRun DEF n
<1>3. PICK g \in [0 .. n + 1 -> Nat] :
           g[0] = 0 /\ (\A i \in 1 .. n + 1 : g[i] = g[i - 1] + t[i].q) /\ Units(t) = g[n + 1]
  BY <1>1, UnitsRun
<1>4. \A i \in 1 .. n : g[i - 1] = f[i - 1] => g[i] = f[i]
  <2> SUFFICES ASSUME NEW i \in 1 .. n, g[i - 1] = f[i - 1] PROVE g[i] = f[i]
    OBVIOUS
  <2>1. i \in 1 .. n + 1
    BY <1>1
  <2> QED BY <1>1, <1>2, <1>3, <2>1
<1>5. g[n] = f[n]
  <2>1. Alike(g, f, n)
    BY <1>2, <1>3, <1>4 DEF Alike
  <2> QED BY <1>1, <2>1, SameRun
<1>6. g[n + 1] = g[n] + e.q
  <2>1. n + 1 \in 1 .. n + 1 /\ (n + 1) - 1 = n
    BY <1>1
  <2> QED BY <1>1, <1>3, <2>1
<1>7. f[n] \in Nat
  BY <1>1, <1>2
<1> QED BY <1>2, <1>3, <1>5, <1>6, <1>7 DEF t

LEMMA UnitsOfNone == Units(<<>>) = 0
<1> DEFINE S == [q : Nat]
<1>1. <<>> \in Seq(S) /\ Len(<<>>) = 0 /\ \A x \in S : x.q \in Nat
  OBVIOUS
<1> HIDE DEF S
<1>2. PICK f \in [0 .. Len(<<>>) -> Nat] : f[0] = 0 /\ Units(<<>>) = f[Len(<<>>)]
  BY <1>1, UnitsRun
<1> QED BY <1>1, <1>2

LEMMA UnitsOfOne ==
  ASSUME NEW e, e.q \in Nat
  PROVE  Units(<<e>>) = e.q
<1> DEFINE S == {e}
<1>1. <<>> \in Seq(S) /\ e \in S /\ (\A x \in S : x.q \in Nat) /\ Append(<<>>, e) = <<e>>
  OBVIOUS
<1> HIDE DEF S
<1>2. Units(Append(<<>>, e)) = Units(<<>>) + e.q
  BY <1>1, UnitsAppend
<1> QED BY <1>1, <1>2, UnitsOfNone

-----------------------------------------------------------------------------
(* First in, first out. *)

Taking == [left : Nat, allocs : Seq(Part), lots : Seq(Lot)]

LEMMA LotsAreParts ==
  /\ \A x \in Part : x.d \in Decisions /\ x.q \in Nat
  /\ \A x \in Lot : x.d \in Decisions /\ x.q \in 1 .. Qty /\ x.q \in Nat /\ x \in Part
BY LedgerAssumption DEF Part, Lot

LEMMA TakeLotFacts ==
  ASSUME NEW a \in Taking, NEW x \in Lot
  PROVE  /\ TakeLot(a, x) \in Taking
         /\ Units(TakeLot(a, x).allocs) + TakeLot(a, x).left = Units(a.allocs) + a.left
         /\ Units(TakeLot(a, x).allocs) + Units(TakeLot(a, x).lots)
              = Units(a.allocs) + Units(a.lots) + x.q
         /\ TakeLot(a, x).left > 0 => a.left > 0 /\ TakeLot(a, x).lots = a.lots
<1> DEFINE q == Smaller(x.q, a.left)
           b == TakeLot(a, x)
           given == [d |-> x.d, q |-> q]
           rest == [x EXCEPT !.q = @ - q]
<1>1. /\ a.left \in Nat /\ a.allocs \in Seq(Part) /\ a.lots \in Seq(Lot)
      /\ x.q \in 1 .. Qty /\ x.q \in Nat /\ x.d \in Decisions /\ Qty \in Nat
  BY LotsAreParts, LedgerAssumption DEF Taking
<1>2. /\ q \in Nat /\ q <= x.q /\ q <= a.left /\ (q = x.q \/ q = a.left)
  BY <1>1 DEF Smaller
<1>3. /\ b.left = a.left - q
      /\ b.allocs = IF q = 0 THEN a.allocs ELSE Append(a.allocs, given)
      /\ b.lots = IF x.q = q THEN a.lots ELSE Append(a.lots, rest)
      /\ b = [left |-> b.left, allocs |-> b.allocs, lots |-> b.lots]
  BY DEF TakeLot
<1> HIDE DEF q, b
<1>4. given \in Part /\ given.q = q
  BY <1>1, <1>2 DEF Part
<1>5. rest.q = x.q - q /\ (x.q # q => rest \in Lot)
  BY <1>1, <1>2 DEF Lot
<1> HIDE DEF given, rest
<1>6. /\ b.allocs \in Seq(Part) /\ Units(b.allocs) = Units(a.allocs) + q
      /\ Units(a.allocs) \in Nat
  <2>1. Append(a.allocs, given) \in Seq(Part)
    BY <1>1, <1>4, AppendProperties
  <2>2. Units(Append(a.allocs, given)) = Units(a.allocs) + q /\ Units(a.allocs) \in Nat
    BY <1>1, <1>4, UnitsAppend, LotsAreParts
  <2> QED BY <1>1, <1>2, <1>3, <2>1, <2>2
<1>7. b.lots \in Seq(Lot) /\ Units(b.lots) = Units(a.lots) + (x.q - q) /\ Units(a.lots) \in Nat
  <2>1. Units(a.lots) \in Nat
    BY <1>1, UnitsAppend, LotsAreParts
  <2>2. CASE x.q = q
    BY <1>1, <1>3, <2>1, <2>2
  <2>3. CASE x.q # q
    <3>1. Append(a.lots, rest) \in Seq(Lot)
      BY <1>1, <1>5, <2>3, AppendProperties
    <3>2. Units(Append(a.lots, rest)) = Units(a.lots) + rest.q
      BY <1>1, <1>5, <2>3, UnitsAppend, LotsAreParts
    <3> QED BY <1>3, <1>5, <2>1, <2>3, <3>1, <3>2
  <2> QED BY <2>2, <2>3
<1>8. b \in Taking
  <2>1. b.left \in Nat /\ b.allocs \in Seq(Part) /\ b.lots \in Seq(Lot)
    BY <1>1, <1>2, <1>3, <1>6, <1>7
  <2>2. [left |-> b.left, allocs |-> b.allocs, lots |-> b.lots] \in Taking
    BY <2>1 DEF Taking
  <2> QED BY <1>3, <2>2
<1>9. b.left > 0 => a.left > 0 /\ b.lots = a.lots
  BY <1>1, <1>2, <1>3
<1> QED BY <1>1, <1>2, <1>3, <1>6, <1>7, <1>8, <1>9 DEF b

\* allocateFifo, lot by lot.
LEMMA AllocateRun ==
  ASSUME NEW s \in Seq(Lot), NEW m \in Nat
  PROVE  \E run \in [0 .. Len(s) -> Taking] :
           /\ run[0] = [left |-> m, allocs |-> <<>>, lots |-> <<>>]
           /\ \A i \in 1 .. Len(s) : run[i] = TakeLot(run[i - 1], s[i])
           /\ AllocateFifo(s, m) = run[Len(s)]
<1> DEFINE n == Len(s)
           A == Taking
           base == [left |-> m, allocs |-> <<>>, lots |-> <<>>]
           F == [p \in (1 .. n) \X A |-> TakeLot(p[2], s[p[1]])]
           Eq(h) == h = [u \in SUBSET (1 .. n) |->
                           IF u = {} THEN base ELSE TakeLot(h[u \ {Max(u)}], s[Max(u)])]
           it == CHOOSE h : Eq(h)
<1>1. n \in Nat /\ DOMAIN s = 1 .. n /\ \A i \in 1 .. n : s[i] \in Lot
  BY LenProperties
<1>2. F \in [(1 .. n) \X A -> A] /\ base \in A
  <2>1. base \in A
    BY DEF Taking
  <2>2. \A p \in (1 .. n) \X A : TakeLot(p[2], s[p[1]]) \in A
    BY <1>1, TakeLotFacts
  <2> QED BY <2>1, <2>2
<1>3. ASSUME NEW i \in 1 .. n, NEW a \in A PROVE F[<<i, a>>] = TakeLot(a, s[i])
  BY <1>3
<1>4. AllocateFifo(s, m) = it[1 .. n]
  BY <1>1 DEF AllocateFifo, FoldLeft, MapThenFoldSet
<1> HIDE DEF F, n, A, base
<1>5. ASSUME NEW u \in SUBSET (1 .. n), u # {}
      PROVE  Max(u) \in 1 .. n /\ u \ {Max(u)} \in SUBSET (1 .. n)
  BY <1>1, <1>5, MaxOfSome
<1>6. ASSUME NEW h, IsTable(h, A, base, n, F) PROVE Obeys(it, A, base, n, F)
  <2>1. Eq(h)
    BY <1>3, <1>5, <1>6 DEF IsTable
  <2> HIDE DEF Eq
  <2>2. Eq(it)
    BY <2>1
  <2> HIDE DEF it
  <2> USE DEF Eq
  <2> QED BY <1>3, <1>5, <2>2 DEF Obeys
<1> HIDE DEF it
<1>7. PICK run : IsRun(run, A, base, n, F) /\ it[1 .. n] = run[n]
  <2>1. Folds(it, A, base, n, F)
    BY <1>1, <1>2, <1>6, FoldRun
  <2> QED BY <2>1 DEF Folds
<1>8. ASSUME NEW i \in 1 .. n PROVE run[i] = TakeLot(run[i - 1], s[i])
  <2>1. i - 1 \in 0 .. n
    BY <1>1
  <2> QED BY <1>3, <1>7, <2>1 DEF IsRun
<1> QED BY <1>4, <1>7, <1>8 DEF n, A, base, IsRun

\* What is taken and what is left make up the fill; what is taken and what remains in
\* the lots make up the lots; and something is left only of a fill that emptied them.
LEMMA AllocateFacts ==
  ASSUME NEW s \in Seq(Lot), NEW m \in Nat
  PROVE  /\ AllocateFifo(s, m) \in Taking
         /\ Units(AllocateFifo(s, m).allocs) + AllocateFifo(s, m).left = m
         /\ Units(AllocateFifo(s, m).allocs) + Units(AllocateFifo(s, m).lots) = Units(s)
         /\ AllocateFifo(s, m).left > 0 => AllocateFifo(s, m).lots = <<>>
<1> DEFINE n == Len(s)
<1>1. n \in Nat /\ \A i \in 1 .. n : s[i] \in Lot /\ s[i].q \in Nat
  BY LenProperties, LotsAreParts
<1>2. PICK f \in [0 .. n -> Nat] :
           f[0] = 0 /\ (\A i \in 1 .. n : f[i] = f[i - 1] + s[i].q) /\ Units(s) = f[n]
  BY UnitsRun, LotsAreParts
<1>3. PICK g \in [0 .. n -> Taking] :
           /\ g[0] = [left |-> m, allocs |-> <<>>, lots |-> <<>>]
           /\ (\A i \in 1 .. n : g[i] = TakeLot(g[i - 1], s[i])) /\ AllocateFifo(s, m) = g[n]
  BY AllocateRun
<1> HIDE DEF n
<1> DEFINE P == {i \in 0 .. n : /\ Units(g[i].allocs) + g[i].left = m
                                /\ Units(g[i].allocs) + Units(g[i].lots) = f[i]
                                /\ g[i].left > 0 => g[i].lots = <<>>}
<1>4. 0 \in P
  BY <1>1, <1>2, <1>3, UnitsOfNone
<1>5. ASSUME NEW i \in 1 .. n, i - 1 \in P PROVE i \in P
  <2>1. /\ g[i - 1] \in Taking /\ f[i - 1] \in Nat /\ i \in 0 .. n
        /\ Units(g[i - 1].allocs) + g[i - 1].left = m
        /\ Units(g[i - 1].allocs) + Units(g[i - 1].lots) = f[i - 1]
        /\ g[i - 1].left > 0 => g[i - 1].lots = <<>>
    BY <1>1, <1>5
  <2>2. g[i] = TakeLot(g[i - 1], s[i]) /\ f[i] = f[i - 1] + s[i].q
    BY <1>2, <1>3
  <2>3. /\ Units(g[i].allocs) + g[i].left = Units(g[i - 1].allocs) + g[i - 1].left
        /\ Units(g[i].allocs) + Units(g[i].lots)
              = Units(g[i - 1].allocs) + Units(g[i - 1].lots) + s[i].q
        /\ g[i].left > 0 => g[i - 1].left > 0 /\ g[i].lots = g[i - 1].lots
    <3> DEFINE a == g[i - 1]
               x == s[i]
    <3>1. a \in Taking /\ x \in Lot /\ g[i] = TakeLot(a, x)
      BY <1>1, <2>1, <2>2
    <3> HIDE DEF a, x
    <3>2. /\ Units(g[i].allocs) + g[i].left = Units(a.allocs) + a.left
          /\ Units(g[i].allocs) + Units(g[i].lots) = Units(a.allocs) + Units(a.lots) + x.q
          /\ g[i].left > 0 => a.left > 0 /\ g[i].lots = a.lots
      BY <3>1, TakeLotFacts
    <3> QED BY <3>2 DEF a, x
  <2> QED BY <2>1, <2>2, <2>3
<1>6. n \in P
  <2> HIDE DEF P
  <2>1. \A i \in 0 .. n : i \in P
    BY <1>1, <1>4, <1>5, UpTo
  <2> QED BY <1>1, <2>1
<1>7. g[n] \in Taking
  BY <1>1, <1>3
<1> QED BY <1>2, <1>3, <1>6, <1>7

-----------------------------------------------------------------------------
(* Folding a fill. *)

LEMMA FoldFacts ==
  ASSUME NEW b \in Book, NEW f \in FillRecord
  PROVE  /\ Fold(b, f).book \in Book /\ Flipped(Fold(b, f), f) \in Book
         /\ Fold(b, f).allocs \in Seq(Part)
         /\ Flipped(Fold(b, f), f).last = Fold(b, f).book.last
         /\ Units(Flipped(Fold(b, f), f).lots) + 2 * Units(Fold(b, f).allocs)
              = Units(b.lots) + f.q
         /\ Units(Fold(b, f).allocs) \in Nat
<1> DEFINE noted == [b.last EXCEPT ![f.d] = Larger(@, f.cum)]
           taken == AllocateFifo(b.lots, f.q)
           flat == taken.lots = <<>>
           last == Forget(noted, flat, taken.allocs)
           new == [d |-> f.d, q |-> f.q]
           rest == [d |-> f.d, q |-> taken.left]
<1>1. /\ b.side \in Sides /\ b.lots \in Seq(Lot) /\ b.last \in [Decisions -> 0 .. Qty]
      /\ f.d \in Decisions /\ f.q \in 1 .. Qty /\ f.cum \in 1 .. Qty
      /\ SideOf[f.d] \in Sides /\ Qty \in Nat /\ f.q \in Nat
  BY LedgerAssumption DEF Book, FillRecord
<1>2. noted \in [Decisions -> 0 .. Qty]
  <2>1. Larger(b.last[f.d], f.cum) \in 0 .. Qty
    BY <1>1 DEF Larger
  <2> QED BY <1>1, <2>1
<1>3. /\ taken \in Taking /\ Units(taken.allocs) + taken.left = f.q
      /\ Units(taken.allocs) + Units(taken.lots) = Units(b.lots)
      /\ taken.left > 0 => taken.lots = <<>>
  BY <1>1, AllocateFacts
<1>4. /\ taken.left \in Nat /\ taken.allocs \in Seq(Part) /\ taken.lots \in Seq(Lot)
      /\ Units(taken.allocs) \in Nat /\ Units(taken.lots) \in Nat /\ Units(b.lots) \in Nat
  <2>1. taken.left \in Nat /\ taken.allocs \in Seq(Part) /\ taken.lots \in Seq(Lot)
    BY <1>3 DEF Taking
  <2>2. \A S : \A s \in Seq(S) : S = Part \/ S = Lot => Units(s) \in Nat
    <3> SUFFICES ASSUME NEW S, NEW s \in Seq(S), S = Part \/ S = Lot PROVE Units(s) \in Nat
      OBVIOUS
    <3>1. \A x \in S : x.q \in Nat
      BY LotsAreParts
    <3>2. PICK g \in [0 .. Len(s) -> Nat] : Units(s) = g[Len(s)]
      BY <3>1, UnitsRun
    <3> QED BY <3>2, LenProperties
  <2> QED BY <1>1, <2>1, <2>2
<1>5. new \in Lot /\ new.q = f.q
  BY <1>1 DEF Lot
<1>6. last \in [Decisions -> 0 .. Qty]
  BY <1>1, <1>2 DEF Forget
<1> HIDE DEF noted, taken, flat, last, new, rest
<1>7. CASE b.lots = <<>> \/ b.side = SideOf[f.d]
  <2> DEFINE c == [side |-> SideOf[f.d], last |-> noted, lots |-> Append(b.lots, new)]
  <2>1. Fold(b, f) = [book |-> c, allocs |-> <<>>, flat |-> FALSE, flipped |-> 0]
    BY <1>7 DEF Fold, noted, new
  <2>2. Append(b.lots, new) \in Seq(Lot) /\ Units(Append(b.lots, new)) = Units(b.lots) + f.q
    BY <1>1, <1>5, AppendProperties, UnitsAppend, LotsAreParts
  <2>3. c \in Book
    BY <1>1, <1>2, <2>2 DEF Book
  <2>4. Flipped(Fold(b, f), f) = c
    BY <2>1 DEF Flipped
  <2>5. <<>> \in Seq(Part)
    OBVIOUS
  <2>6. Fold(b, f).book = c /\ Fold(b, f).allocs = <<>> /\ c.lots = Append(b.lots, new)
    BY <2>1
  <2> HIDE DEF c
  <2>7. Units(Flipped(Fold(b, f), f).lots) + 2 * Units(Fold(b, f).allocs) = Units(b.lots) + f.q
    BY <1>1, <1>4, <2>2, <2>4, <2>6, UnitsOfNone
  <2> QED BY <2>3, <2>4, <2>5, <2>6, <2>7, UnitsOfNone
<1>8. CASE ~ (b.lots = <<>> \/ b.side = SideOf[f.d])
  <2> DEFINE c == [side |-> b.side, lots |-> taken.lots, last |-> last]
  <2>1. Fold(b, f) = [book |-> c, allocs |-> taken.allocs, flat |-> flat, flipped |-> taken.left]
    BY <1>8 DEF Fold, noted, taken, flat, last
  <2>2. c \in Book
    BY <1>1, <1>4, <1>6 DEF Book
  <2>3. CASE taken.left = 0
    <3>1. Flipped(Fold(b, f), f) = c
      BY <2>1, <2>3 DEF Flipped
    <3> QED BY <1>1, <1>3, <1>4, <2>1, <2>2, <2>3, <3>1
  <2>4. CASE taken.left # 0
    <3>1. rest \in Lot /\ rest.q = taken.left
      <4>1. taken.left \in Nat /\ Units(taken.allocs) \in Nat /\ Units(taken.allocs) + taken.left = f.q
        BY <1>3, <1>4
      <4>2. taken.left \in 1 .. Qty
        BY <1>1, <2>4, <4>1
      <4> QED BY <1>1, <4>2 DEF Lot, rest
    <3>2. <<rest>> \in Seq(Lot) /\ Units(<<rest>>) = taken.left
      BY <1>4, <3>1, UnitsOfOne
    <3>3. Flipped(Fold(b, f), f) = [c EXCEPT !.side = SideOf[f.d], !.lots = <<rest>>]
      BY <2>1, <2>4 DEF Flipped, rest
    <3>4. /\ Flipped(Fold(b, f), f) \in Book
          /\ Flipped(Fold(b, f), f).lots = <<rest>>
          /\ Flipped(Fold(b, f), f).last = last
      BY <1>1, <1>6, <3>2, <3>3 DEF Book
    <3>5. taken.lots = <<>>
      BY <1>3, <1>4, <2>4
    <3>6. Units(taken.lots) = 0
      BY <3>5, UnitsOfNone
    <3>7. Fold(b, f).book = c /\ Fold(b, f).allocs = taken.allocs /\ c.last = last
      BY <2>1
    <3>8. taken.left + 2 * Units(taken.allocs) = Units(b.lots) + f.q
      BY <1>1, <1>3, <1>4, <3>6
    <3> HIDE DEF c
    <3>9. Units(Flipped(Fold(b, f), f).lots) + 2 * Units(Fold(b, f).allocs) = Units(b.lots) + f.q
      BY <3>2, <3>4, <3>7, <3>8
    <3> QED BY <1>4, <2>2, <3>4, <3>7, <3>9
  <2> QED BY <2>3, <2>4
<1> QED BY <1>7, <1>8

LEMMA EmptyBookType == EmptyBook \in Book
BY LedgerAssumption DEF EmptyBook, Book, Sides

\* hydrate, event by event.
LEMMA ReplayRun ==
  ASSUME NEW s \in Seq(FillRecord)
  PROVE  \E run \in [0 .. Len(s) -> Book] :
           /\ run[0] = EmptyBook
           /\ \A i \in 1 .. Len(s) : run[i] = Flipped(Fold(run[i - 1], s[i]), s[i])
           /\ Replay(s) = run[Len(s)]
<1> DEFINE n == Len(s)
           A == Book
           base == EmptyBook
           F == [p \in (1 .. n) \X A |-> Flipped(Fold(p[2], s[p[1]]), s[p[1]])]
           Eq(h) == h = [u \in SUBSET (1 .. n) |->
                           IF u = {} THEN base ELSE Flipped(Fold(h[u \ {Max(u)}], s[Max(u)]), s[Max(u)])]
           it == CHOOSE h : Eq(h)
<1>1. n \in Nat /\ DOMAIN s = 1 .. n /\ \A i \in 1 .. n : s[i] \in FillRecord
  BY LenProperties
<1>2. F \in [(1 .. n) \X A -> A] /\ base \in A
  <2>1. base \in A
    BY EmptyBookType
  <2>2. \A p \in (1 .. n) \X A : Flipped(Fold(p[2], s[p[1]]), s[p[1]]) \in A
    BY <1>1, FoldFacts
  <2> QED BY <2>1, <2>2
<1>3. ASSUME NEW i \in 1 .. n, NEW a \in A PROVE F[<<i, a>>] = Flipped(Fold(a, s[i]), s[i])
  BY <1>3
<1>4. Replay(s) = it[1 .. n]
  BY <1>1 DEF Replay, FoldLeft, MapThenFoldSet
<1> HIDE DEF F, n, A, base
<1>5. ASSUME NEW u \in SUBSET (1 .. n), u # {}
      PROVE  Max(u) \in 1 .. n /\ u \ {Max(u)} \in SUBSET (1 .. n)
  BY <1>1, <1>5, MaxOfSome
<1>6. ASSUME NEW h, IsTable(h, A, base, n, F) PROVE Obeys(it, A, base, n, F)
  <2>1. Eq(h)
    BY <1>3, <1>5, <1>6 DEF IsTable
  <2> HIDE DEF Eq
  <2>2. Eq(it)
    BY <2>1
  <2> HIDE DEF it
  <2> USE DEF Eq
  <2> QED BY <1>3, <1>5, <2>2 DEF Obeys
<1> HIDE DEF it
<1>7. PICK run : IsRun(run, A, base, n, F) /\ it[1 .. n] = run[n]
  <2>1. Folds(it, A, base, n, F)
    BY <1>1, <1>2, <1>6, FoldRun
  <2> QED BY <2>1 DEF Folds
<1>8. ASSUME NEW i \in 1 .. n PROVE run[i] = Flipped(Fold(run[i - 1], s[i]), s[i])
  <2>1. i - 1 \in 0 .. n
    BY <1>1
  <2> QED BY <1>3, <1>7, <2>1 DEF IsRun
<1> QED BY <1>4, <1>7, <1>8 DEF n, A, base, IsRun

\* What was folded as it came is folded alike when it is read back.
LEMMA ReplayAppend ==
  ASSUME NEW s \in Seq(FillRecord), NEW e \in FillRecord
  PROVE  Replay(Append(s, e)) = Flipped(Fold(Replay(s), e), e) /\ Replay(s) \in Book
<1> DEFINE t == Append(s, e)
           n == Len(s)
<1>1. /\ n \in Nat /\ t \in Seq(FillRecord) /\ Len(t) = n + 1 /\ t[n + 1] = e
      /\ \A i \in 1 .. n : t[i] = s[i]
  BY AppendProperties, LenProperties
<1> HIDE DEF t, n
<1>2. PICK f \in [0 .. n -> Book] :
           /\ f[0] = EmptyBook
           /\ \A i \in 1 .. n : f[i] = Flipped(Fold(f[i - 1], s[i]), s[i])
           /\ Replay(s) = f[n]
  BY ReplayRun DEF n
<1>3. PICK g \in [0 .. Len(t) -> Book] :
           /\ g[0] = EmptyBook
           /\ \A i \in 1 .. Len(t) : g[i] = Flipped(Fold(g[i - 1], t[i]), t[i])
           /\ Replay(t) = g[Len(t)]
  BY <1>1, ReplayRun
<1>4. \A i \in 1 .. n : g[i - 1] = f[i - 1] => g[i] = f[i]
  <2> SUFFICES ASSUME NEW i \in 1 .. n, g[i - 1] = f[i - 1] PROVE g[i] = f[i]
    OBVIOUS
  <2>1. i \in 1 .. n + 1
    BY <1>1
  <2> QED BY <1>1, <1>2, <1>3, <2>1
<1>5. g[n] = f[n]
  <2>1. Alike(g, f, n)
    BY <1>2, <1>3, <1>4 DEF Alike
  <2> QED BY <1>1, <2>1, SameRun
<1>6. g[n + 1] = Flipped(Fold(g[n], e), e)
  <2>1. n + 1 \in 1 .. n + 1 /\ (n + 1) - 1 = n
    BY <1>1
  <2> QED BY <1>1, <1>3, <2>1
<1>7. f[n] \in Book
  BY <1>1, <1>2
<1> QED BY <1>1, <1>2, <1>3, <1>5, <1>6, <1>7 DEF t

PlusOf(n, x, d) == IF x.d = d THEN n + x.q ELSE n

\* The sum of the units of one order.
LEMMA UnitsOfRun ==
  ASSUME NEW s \in Seq(FillRecord), NEW d \in Decisions
  PROVE  \E run \in [0 .. Len(s) -> Nat] :
           /\ run[0] = 0
           /\ \A i \in 1 .. Len(s) : run[i] = PlusOf(run[i - 1], s[i], d)
           /\ UnitsOf(s, d) = run[Len(s)]
<1> DEFINE n == Len(s)
           A == Nat
           base == 0
           F == [p \in (1 .. n) \X A |-> PlusOf(p[2], s[p[1]], d)]
           Eq(h) == h = [u \in SUBSET (1 .. n) |->
                           IF u = {} THEN base ELSE PlusOf(h[u \ {Max(u)}], s[Max(u)], d)]
           it == CHOOSE h : Eq(h)
<1>1. n \in Nat /\ DOMAIN s = 1 .. n /\ \A i \in 1 .. n : s[i] \in FillRecord
  BY LenProperties
<1>2. F \in [(1 .. n) \X A -> A] /\ base \in A
  <2>1. base \in A
    OBVIOUS
  <2>2. \A p \in (1 .. n) \X A : PlusOf(p[2], s[p[1]], d) \in A
    BY <1>1, LedgerAssumption DEF FillRecord, PlusOf
  <2> QED BY <2>1, <2>2
<1>3. ASSUME NEW i \in 1 .. n, NEW a \in A PROVE F[<<i, a>>] = PlusOf(a, s[i], d)
  BY <1>3
<1>4. UnitsOf(s, d) = it[1 .. n]
  BY <1>1 DEF UnitsOf, PlusOf, FoldLeft, MapThenFoldSet
<1> HIDE DEF F, n, A, base
<1>5. ASSUME NEW u \in SUBSET (1 .. n), u # {}
      PROVE  Max(u) \in 1 .. n /\ u \ {Max(u)} \in SUBSET (1 .. n)
  BY <1>1, <1>5, MaxOfSome
<1>6. ASSUME NEW h, IsTable(h, A, base, n, F) PROVE Obeys(it, A, base, n, F)
  <2>1. Eq(h)
    BY <1>3, <1>5, <1>6 DEF IsTable
  <2> HIDE DEF Eq
  <2>2. Eq(it)
    BY <2>1
  <2> HIDE DEF it
  <2> USE DEF Eq
  <2> QED BY <1>3, <1>5, <2>2 DEF Obeys
<1> HIDE DEF it
<1>7. PICK run : IsRun(run, A, base, n, F) /\ it[1 .. n] = run[n]
  <2>1. Folds(it, A, base, n, F)
    BY <1>1, <1>2, <1>6, FoldRun
  <2> QED BY <2>1 DEF Folds
<1>8. ASSUME NEW i \in 1 .. n PROVE run[i] = PlusOf(run[i - 1], s[i], d)
  <2>1. i - 1 \in 0 .. n
    BY <1>1
  <2> QED BY <1>3, <1>7, <2>1 DEF IsRun
<1> QED BY <1>4, <1>7, <1>8 DEF n, A, base, IsRun

\* One record more.
LEMMA UnitsOfAppend ==
  ASSUME NEW s \in Seq(FillRecord), NEW e \in FillRecord, NEW d \in Decisions
  PROVE  UnitsOf(Append(s, e), d) = PlusOf(UnitsOf(s, d), e, d) /\ UnitsOf(s, d) \in Nat
<1> DEFINE t == Append(s, e)
           n == Len(s)
<1>1. /\ n \in Nat /\ t \in Seq(FillRecord) /\ Len(t) = n + 1 /\ t[n + 1] = e
      /\ \A i \in 1 .. n : t[i] = s[i]
  BY AppendProperties, LenProperties
<1> HIDE DEF t, n
<1>2. PICK f \in [0 .. n -> Nat] :
           /\ f[0] = 0
           /\ \A i \in 1 .. n : f[i] = PlusOf(f[i - 1], s[i], d)
           /\ UnitsOf(s, d) = f[n]
  BY UnitsOfRun DEF n
<1>3. PICK g \in [0 .. Len(t) -> Nat] :
           /\ g[0] = 0
           /\ \A i \in 1 .. Len(t) : g[i] = PlusOf(g[i - 1], t[i], d)
           /\ UnitsOf(t, d) = g[Len(t)]
  BY <1>1, UnitsOfRun
<1>4. \A i \in 1 .. n : g[i - 1] = f[i - 1] => g[i] = f[i]
  <2> SUFFICES ASSUME NEW i \in 1 .. n, g[i - 1] = f[i - 1] PROVE g[i] = f[i]
    OBVIOUS
  <2>1. i \in 1 .. n + 1
    BY <1>1
  <2> QED BY <1>1, <1>2, <1>3, <2>1
<1>5. g[n] = f[n]
  <2>1. Alike(g, f, n)
    BY <1>2, <1>3, <1>4 DEF Alike
  <2> QED BY <1>1, <2>1, SameRun
<1>6. g[n + 1] = PlusOf(g[n], e, d)
  <2>1. n + 1 \in 1 .. n + 1 /\ (n + 1) - 1 = n
    BY <1>1
  <2> QED BY <1>1, <1>3, <2>1
<1>7. f[n] \in Nat
  BY <1>1, <1>2
<1> QED BY <1>1, <1>2, <1>3, <1>5, <1>6, <1>7 DEF t

-----------------------------------------------------------------------------
(* The fan-out of a close. *)

Accounts == [trades : [Decisions -> TradeState], kept : [Decisions -> TradeState],
             journal : Nat, realised : Nat, w : BOOLEAN]

LEMMA CloseFacts ==
  ASSUME NEW a \in Accounts, NEW x \in Part
  PROVE  /\ RecordLiveClose(a, x) \in Accounts
         /\ RecordLiveClose(a, x).w = a.w
         /\ RecordLiveClose(a, x).journal = IF a.w THEN a.journal + x.q ELSE a.journal
<1> DEFINE found == a.trades[x.d] = "open"
           ts == IF found THEN [a.trades EXCEPT ![x.d] = "closed"] ELSE a.trades
           ks == IF found /\ a.w THEN [a.kept EXCEPT ![x.d] = "closed"] ELSE a.kept
           js == IF a.w THEN a.journal + x.q ELSE a.journal
           rs == a.realised + (IF found THEN x.q ELSE 2 * x.q)
<1>1. /\ a.trades \in [Decisions -> TradeState] /\ a.kept \in [Decisions -> TradeState]
      /\ a.journal \in Nat /\ a.realised \in Nat /\ x.q \in Nat
  BY LotsAreParts DEF Accounts
<1>2. ts \in [Decisions -> TradeState] /\ ks \in [Decisions -> TradeState]
  BY <1>1 DEF TradeState
<1>3. js \in Nat /\ rs \in Nat
  BY <1>1
<1>4. RecordLiveClose(a, x)
        = [a EXCEPT !.trades = ts, !.kept = ks, !.journal = js, !.realised = rs]
  BY DEF RecordLiveClose
<1> HIDE DEF ts, ks, js, rs
<1>5. /\ RecordLiveClose(a, x) \in Accounts
      /\ RecordLiveClose(a, x).w = a.w /\ RecordLiveClose(a, x).journal = js
  BY <1>2, <1>3, <1>4 DEF Accounts
<1> QED BY <1>5 DEF js

Unclosed(w) == [trades |-> trades, kept |-> kept, journal |-> journal,
                realised |-> realised, w |-> w]

\* The fan-out, allocation by allocation.
LEMMA FanOutRun ==
  ASSUME NEW s \in Seq(Part), NEW w, Unclosed(w) \in Accounts
  PROVE  \E run \in [0 .. Len(s) -> Accounts] :
           /\ run[0] = Unclosed(w)
           /\ \A i \in 1 .. Len(s) : run[i] = RecordLiveClose(run[i - 1], s[i])
           /\ FanOut(s, w) = run[Len(s)]
<1> DEFINE n == Len(s)
           A == Accounts
           base == Unclosed(w)
           F == [p \in (1 .. n) \X A |-> RecordLiveClose(p[2], s[p[1]])]
           Eq(h) == h = [u \in SUBSET (1 .. n) |->
                           IF u = {} THEN base ELSE RecordLiveClose(h[u \ {Max(u)}], s[Max(u)])]
           it == CHOOSE h : Eq(h)
<1>1. n \in Nat /\ DOMAIN s = 1 .. n /\ \A i \in 1 .. n : s[i] \in Part
  BY LenProperties
<1>2. F \in [(1 .. n) \X A -> A] /\ base \in A
  <2>1. base \in A
    OBVIOUS
  <2>2. \A p \in (1 .. n) \X A : RecordLiveClose(p[2], s[p[1]]) \in A
    BY <1>1, CloseFacts
  <2> QED BY <2>1, <2>2
<1>3. ASSUME NEW i \in 1 .. n, NEW a \in A PROVE F[<<i, a>>] = RecordLiveClose(a, s[i])
  BY <1>3
<1>4. FanOut(s, w) = it[1 .. n]
  BY <1>1 DEF FanOut, Unclosed, FoldLeft, MapThenFoldSet
<1> HIDE DEF F, n, A, base
<1>5. ASSUME NEW u \in SUBSET (1 .. n), u # {}
      PROVE  Max(u) \in 1 .. n /\ u \ {Max(u)} \in SUBSET (1 .. n)
  BY <1>1, <1>5, MaxOfSome
<1>6. ASSUME NEW h, IsTable(h, A, base, n, F) PROVE Obeys(it, A, base, n, F)
  <2>1. Eq(h)
    BY <1>3, <1>5, <1>6 DEF IsTable
  <2> HIDE DEF Eq
  <2>2. Eq(it)
    BY <2>1
  <2> HIDE DEF it
  <2> USE DEF Eq
  <2> QED BY <1>3, <1>5, <2>2 DEF Obeys
<1> HIDE DEF it
<1>7. PICK run : IsRun(run, A, base, n, F) /\ it[1 .. n] = run[n]
  <2>1. Folds(it, A, base, n, F)
    BY <1>1, <1>2, <1>6, FoldRun
  <2> QED BY <2>1 DEF Folds
<1>8. ASSUME NEW i \in 1 .. n PROVE run[i] = RecordLiveClose(run[i - 1], s[i])
  <2>1. i - 1 \in 0 .. n
    BY <1>1
  <2> QED BY <1>3, <1>7, <2>1 DEF IsRun
<1> QED BY <1>4, <1>7, <1>8 DEF n, A, base, IsRun

\* Each unit closed is journalled once, if it is written at all.
LEMMA FanOutFacts ==
  ASSUME NEW s \in Seq(Part), NEW w, Unclosed(w) \in Accounts
  PROVE  /\ FanOut(s, w) \in Accounts
         /\ w => FanOut(s, w).journal = journal + Units(s)
<1> DEFINE n == Len(s)
<1>1. n \in Nat /\ (\A i \in 1 .. n : s[i] \in Part /\ s[i].q \in Nat) /\ journal \in Nat
  BY LenProperties, LotsAreParts DEF Unclosed, Accounts
<1>2. PICK f \in [0 .. n -> Nat] :
           f[0] = 0 /\ (\A i \in 1 .. n : f[i] = f[i - 1] + s[i].q) /\ Units(s) = f[n]
  BY UnitsRun, LotsAreParts
<1>3. PICK g \in [0 .. n -> Accounts] :
           /\ g[0] = Unclosed(w)
           /\ (\A i \in 1 .. n : g[i] = RecordLiveClose(g[i - 1], s[i])) /\ FanOut(s, w) = g[n]
  BY FanOutRun
<1> HIDE DEF n
<1> DEFINE P == {i \in 0 .. n : g[i].w = w /\ (w => g[i].journal = journal + f[i])}
<1>4. 0 \in P
  BY <1>1, <1>2, <1>3 DEF Unclosed
<1>5. ASSUME NEW i \in 1 .. n, i - 1 \in P PROVE i \in P
  <2> DEFINE a == g[i - 1]
             x == s[i]
             m == f[i - 1]
  <2>1. /\ a \in Accounts /\ x \in Part /\ m \in Nat /\ x.q \in Nat /\ a.w = w
        /\ (w => a.journal = journal + m)
        /\ i \in 0 .. n /\ g[i] = RecordLiveClose(a, x) /\ f[i] = m + x.q
    BY <1>1, <1>2, <1>3, <1>5
  <2> HIDE DEF a, x, m
  <2>2. g[i].w = a.w /\ g[i].journal = IF a.w THEN a.journal + x.q ELSE a.journal
    BY <2>1, CloseFacts
  <2>3. w => g[i].journal = journal + f[i]
    BY <1>1, <2>1, <2>2
  <2> QED BY <2>1, <2>2, <2>3
<1>6. n \in P
  <2> HIDE DEF P
  <2>1. \A i \in 0 .. n : i \in P
    BY <1>1, <1>4, <1>5, UpTo
  <2> QED BY <1>1, <2>1
<1>7. g[n] \in Accounts
  BY <1>1, <1>3
<1> QED BY <1>2, <1>3, <1>6, <1>7

-----------------------------------------------------------------------------
(* The invariant. *)

\* The log does not say more of d than the ledger remembers, and some record of d
\* says as much as all of them together.
Covered(log, b, d) ==
  /\ \A k \in DOMAIN log : log[k].d = d => log[k].cum <= b.last[d]
  /\ \/ UnitsOf(log, d) = 0
     \/ \E k \in DOMAIN log : log[k].d = d /\ UnitsOf(log, d) <= log[k].cum

\* What memory holds is what the log gives back, and every unit is in a lot or closed.
Balanced(log, b, j) == b = Replay(log) /\ Units(log) = Units(b.lots) + 2 * j

AccountingInv ==
  /\ TypeOK
  /\ \A k \in DOMAIN recorded : recorded[k].cum <= filled[recorded[k].d]
  /\ \A d \in Decisions \ forgotten : Covered(recorded, book, d)
  /\ ~ lost => Balanced(recorded, book, journal)

LEMMA ReplayIsBook ==
  ASSUME NEW s \in Seq(FillRecord)
  PROVE  Replay(s) \in Book
<1>1. PICK g \in [0 .. Len(s) -> Book] : Replay(s) = g[Len(s)]
  BY ReplayRun
<1> QED BY <1>1, LenProperties

LEMMA ReplayOfNone == Replay(<<>>) = EmptyBook
<1>1. <<>> \in Seq(FillRecord) /\ Len(<<>>) = 0
  OBVIOUS
<1>2. PICK g \in [0 .. Len(<<>>) -> Book] : g[0] = EmptyBook /\ Replay(<<>>) = g[Len(<<>>)]
  BY <1>1, ReplayRun
<1> QED BY <1>1, <1>2

LEMMA AccountingInvInit ==
  ASSUME Init
  PROVE  AccountingInv
<1>1. /\ recorded = <<>> /\ book = EmptyBook /\ journal = 0 /\ forgotten = {} /\ lost = FALSE
  BY DEF Init
<1>2. TypeOK
  <2>1. /\ filled \in [Decisions -> 0 .. Qty] /\ tracked \in [Decisions -> 0 .. Qty]
        /\ crashes \in 0 .. MaxCrashes
    BY LedgerAssumption, AccountingAssumption DEF Init
  <2>2. trades \in [Decisions -> TradeState] /\ kept \in [Decisions -> TradeState]
        /\ pending \subseteq Decisions /\ realised = 0
    BY DEF Init, TradeState
  <2>3. <<>> \in Seq(FillRecord)
    OBVIOUS
  <2> QED BY <1>1, <2>1, <2>2, <2>3, EmptyBookType DEF TypeOK
<1>3. \A d \in Decisions : UnitsOf(<<>>, d) = 0
  <2> SUFFICES ASSUME NEW d \in Decisions PROVE UnitsOf(<<>>, d) = 0
    OBVIOUS
  <2>1. <<>> \in Seq(FillRecord) /\ Len(<<>>) = 0
    OBVIOUS
  <2>2. PICK g \in [0 .. Len(<<>>) -> Nat] : g[0] = 0 /\ UnitsOf(<<>>, d) = g[Len(<<>>)]
    BY <2>1, UnitsOfRun
  <2> QED BY <2>1, <2>2
<1>4. \A d \in Decisions : Covered(recorded, book, d)
  BY <1>1, <1>3 DEF Covered
<1>5. Balanced(recorded, book, journal)
  <2>1. EmptyBook.lots = <<>>
    BY DEF EmptyBook
  <2> QED BY <1>1, <2>1, UnitsOfNone, ReplayOfNone DEF Balanced
<1> QED BY <1>1, <1>2, <1>4, <1>5 DEF AccountingInv

\* A record joins the log: what the venue filled still bounds it.
LEMMA RecordKeeps ==
  ASSUME AccountingInv, NEW d \in Decisions, NEW view \in 0 .. filled[d], Delta(d, view) > 0
  PROVE  /\ NewFill(d, view) \in FillRecord
         /\ Append(recorded, NewFill(d, view)) \in Seq(FillRecord)
         /\ \A k \in DOMAIN Append(recorded, NewFill(d, view)) :
              LET r == Append(recorded, NewFill(d, view))[k] IN r.cum <= filled[r.d]
         /\ \A e \in Decisions \ forgotten :
              \/ UnitsOf(Append(recorded, NewFill(d, view)), e) = 0
              \/ \E k \in DOMAIN Append(recorded, NewFill(d, view)) :
                   LET r == Append(recorded, NewFill(d, view))[k] IN
                   r.d = e /\ UnitsOf(Append(recorded, NewFill(d, view)), e) <= r.cum
<1> DEFINE f == NewFill(d, view)
           log == Append(recorded, f)
           n == Len(recorded)
<1>1. /\ filled[d] \in 0 .. Qty /\ book.last[d] \in 0 .. Qty /\ Qty \in Nat
      /\ recorded \in Seq(FillRecord) /\ n \in Nat
  BY LedgerAssumption, LenProperties DEF AccountingInv, TypeOK, Book
<1>2. /\ view \in 1 .. Qty /\ view - book.last[d] \in 1 .. Qty /\ view <= filled[d]
  BY <1>1 DEF Delta
<1>3. f \in FillRecord /\ f.d = d /\ f.cum = view /\ f.q = view - book.last[d]
  BY <1>2 DEF NewFill, Delta, FillRecord
<1> HIDE DEF f, n
<1>4. /\ log \in Seq(FillRecord) /\ Len(log) = n + 1 /\ log[n + 1] = f
      /\ \A k \in 1 .. n : log[k] = recorded[k]
  BY <1>1, <1>3, AppendProperties DEF n
<1>5. DOMAIN log = 1 .. (n + 1) /\ DOMAIN recorded = 1 .. n
  BY <1>1, <1>4, LenProperties DEF n
<1>6. \A e \in Decisions : UnitsOf(log, e) = PlusOf(UnitsOf(recorded, e), f, e) /\ UnitsOf(recorded, e) \in Nat
  BY <1>1, <1>3, UnitsOfAppend
<1> HIDE DEF log
<1>7. ASSUME NEW k \in DOMAIN log PROVE log[k].cum <= filled[log[k].d]
  <2>1. CASE k = n + 1
    BY <1>2, <1>3, <1>4, <2>1
  <2>2. CASE k # n + 1
    <3>1. k \in 1 .. n
      BY <1>1, <1>5, <2>2
    <3> QED BY <1>4, <1>5, <3>1 DEF AccountingInv
  <2> QED BY <2>1, <2>2
<1>8. ASSUME NEW e \in Decisions \ forgotten, UnitsOf(log, e) # 0
      PROVE  \E k \in DOMAIN log : log[k].d = e /\ UnitsOf(log, e) <= log[k].cum
  <2>1. Covered(recorded, book, e)
    BY DEF AccountingInv
  <2>2. CASE e = d
    <3>1. UnitsOf(recorded, d) <= book.last[d]
      <4>1. CASE UnitsOf(recorded, d) = 0
        BY <1>1, <4>1
      <4>2. CASE UnitsOf(recorded, d) # 0
        <5>1. PICK k \in DOMAIN recorded : recorded[k].d = d /\ UnitsOf(recorded, d) <= recorded[k].cum
          BY <2>1, <2>2, <4>2 DEF Covered
        <5>2. recorded[k].cum <= book.last[d] /\ recorded[k].cum \in Nat
          <6>1. recorded[k] \in FillRecord
            BY <1>1, <1>5, <5>1, LenProperties DEF n
          <6> QED BY <2>1, <2>2, <5>1, <6>1, LedgerAssumption DEF Covered, FillRecord
        <5> QED BY <1>1, <1>6, <5>1, <5>2
      <4> QED BY <4>1, <4>2
    <3>2. UnitsOf(log, d) = UnitsOf(recorded, d) + (view - book.last[d])
      BY <1>3, <1>6 DEF PlusOf
    <3>3. UnitsOf(log, d) <= view
      BY <1>1, <1>2, <1>6, <3>1, <3>2
    <3>4. n + 1 \in DOMAIN log
      BY <1>1, <1>5
    <3> QED BY <1>3, <1>4, <2>2, <3>3, <3>4
  <2>3. CASE e # d
    <3>1. UnitsOf(log, e) = UnitsOf(recorded, e)
      BY <1>3, <1>6, <2>3 DEF PlusOf
    <3>2. PICK k \in DOMAIN recorded : recorded[k].d = e /\ UnitsOf(recorded, e) <= recorded[k].cum
      BY <1>8, <2>1, <3>1 DEF Covered
    <3>3. k \in DOMAIN log /\ log[k] = recorded[k]
      BY <1>1, <1>4, <1>5
    <3> QED BY <3>1, <3>2, <3>3
  <2> QED BY <2>2, <2>3
<1> QED BY <1>3, <1>4, <1>7, <1>8 DEF log, f

\* What leaves the log, the book and the journal alone.
LEMMA LogKept ==
  ASSUME AccountingInv, TypeOK', UNCHANGED <<recorded, book, journal, forgotten>>, ~ lost' => ~ lost,
         \A d \in Decisions : filled[d] <= filled'[d]
  PROVE  AccountingInv'
<1>1. ASSUME NEW k \in DOMAIN recorded PROVE recorded[k].cum <= filled'[recorded[k].d]
  <2>1. recorded[k] \in FillRecord
    BY LenProperties DEF AccountingInv, TypeOK
  <2>2. /\ recorded[k].cum \in Nat /\ recorded[k].d \in Decisions
        /\ filled[recorded[k].d] \in Nat /\ filled'[recorded[k].d] \in Nat
    BY <2>1, LedgerAssumption DEF AccountingInv, TypeOK, FillRecord
  <2>3. recorded[k].cum <= filled[recorded[k].d] /\ filled[recorded[k].d] <= filled'[recorded[k].d]
    BY <2>2 DEF AccountingInv
  <2> QED BY <2>2, <2>3
<1>2. \A d \in Decisions \ forgotten' : Covered(recorded', book', d)
  BY DEF AccountingInv
<1>3. ~ lost' => Balanced(recorded', book', journal')
  BY DEF AccountingInv
<1> QED BY <1>1, <1>2, <1>3 DEF AccountingInv

\* A decision the log does not outrun.
LEMMA NotForgotten ==
  ASSUME NEW log \in Seq(FillRecord), NEW b \in Book, NEW d \in Decisions \ Forgets(log, b)
  PROVE  \A k \in DOMAIN log : log[k].d = d => log[k].cum <= b.last[d]
<1> SUFFICES ASSUME NEW k \in DOMAIN log, log[k].d = d PROVE log[k].cum <= b.last[d]
  OBVIOUS
<1>1. log[k] \in FillRecord
  BY LenProperties
<1>2. log[k].cum \in Int /\ b.last[d] \in Int
  BY <1>1, LedgerAssumption DEF FillRecord, Book
<1>3. ~ (log[k].cum > b.last[d])
  BY DEF Forgets
<1> QED BY <1>2, <1>3

\* A fill that is written, folded and fanned out whole keeps the balance.
LEMMA FillBalances ==
  ASSUME NEW log \in Seq(FillRecord), NEW b \in Book, NEW j \in Nat, NEW f \in FillRecord,
         Balanced(log, b, j)
  PROVE  Balanced(Append(log, f), Flipped(Fold(b, f), f), j + Units(Fold(b, f).allocs))
<1> DEFINE c == Flipped(Fold(b, f), f)
           u == Units(Fold(b, f).allocs)
<1>1. Replay(Append(log, f)) = c
  BY ReplayAppend DEF Balanced
<1>2. Units(Append(log, f)) = Units(log) + f.q /\ Units(log) \in Nat /\ f.q \in Nat
  <2>1. \A x \in FillRecord : x.q \in Nat
    BY LedgerAssumption DEF FillRecord
  <2> QED BY <2>1, UnitsAppend
<1>3. c \in Book /\ Units(c.lots) + 2 * u = Units(b.lots) + f.q /\ u \in Nat
  BY FoldFacts
<1>4. Units(c.lots) \in Nat /\ Units(b.lots) \in Nat
  <2>1. c.lots \in Seq(Lot) /\ b.lots \in Seq(Lot)
    BY <1>3 DEF Book
  <2>2. \A s \in Seq(Lot) : Units(s) \in Nat
    <3> SUFFICES ASSUME NEW s \in Seq(Lot) PROVE Units(s) \in Nat
      OBVIOUS
    <3>1. PICK g \in [0 .. Len(s) -> Nat] : Units(s) = g[Len(s)]
      BY UnitsRun, LotsAreParts
    <3> QED BY <3>1, LenProperties
  <2> QED BY <2>1, <2>2
<1>5. Units(log) = Units(b.lots) + 2 * j
  BY DEF Balanced
<1> HIDE DEF c, u
<1>6. Units(Append(log, f)) = Units(c.lots) + 2 * (j + u)
  <2> DEFINE a == Units(Append(log, f))
             l == Units(log)
             p == Units(c.lots)
             q == Units(b.lots)
             n == f.q
  <2>1. a = l + n /\ l \in Nat /\ n \in Nat /\ p + 2 * u = q + n /\ u \in Nat
        /\ p \in Nat /\ q \in Nat /\ l = q + 2 * j /\ j \in Nat
    BY <1>2, <1>3, <1>4, <1>5
  <2> HIDE DEF a, l, p, q, n
  <2>2. a = p + 2 * (j + u)
    BY <2>1
  <2> QED BY <2>2 DEF a, p
<1> QED BY <1>1, <1>6 DEF Balanced, c, u

LEMMA SmallStepsKeep ==
  ASSUME AccountingInv, NEW d \in Decisions, NEW view \in 0 .. filled[d],
         Fill(d) \/ FoldSilent(d, view) \/ FoldRecorded(d, view) \/ Commit(d) \/ Clear(d)
  PROVE  AccountingInv'
<1>0. /\ TypeOK /\ filled[d] \in 0 .. Qty /\ Qty \in Nat /\ view \in 0 .. Qty
      /\ \A e \in Decisions : filled[e] \in Nat
  BY LedgerAssumption DEF AccountingInv, TypeOK
<1>1. CASE Fill(d)
  <2>1. /\ filled[d] < Qty /\ filled' = [filled EXCEPT ![d] = @ + 1]
        /\ UNCHANGED <<tracked, recorded, book, pending, trades, kept, journal, realised,
                       forgotten, lost, crashes>>
    BY <1>1 DEF Fill
  <2>2. filled[d] + 1 \in 0 .. Qty
    BY <1>0, <2>1
  <2>3. TypeOK' /\ \A e \in Decisions : filled[e] <= filled'[e]
    BY <1>0, <2>1, <2>2 DEF TypeOK
  <2> QED BY <2>1, <2>3, LogKept
<1>2. CASE FoldSilent(d, view) \/ FoldRecorded(d, view)
  <2>1. /\ tracked' = [tracked EXCEPT ![d] = view] /\ lost' \in BOOLEAN /\ (~ lost' => ~ lost)
        /\ UNCHANGED <<filled, recorded, book, pending, trades, kept, journal, realised,
                       forgotten, crashes>>
    <3>1. CASE FoldSilent(d, view)
      <4>1. lost' = (lost \/ view > tracked[d])
        BY <3>1 DEF FoldSilent
      <4>2. lost' \in BOOLEAN /\ (~ lost' => ~ lost)
        BY <1>0, <4>1 DEF TypeOK
      <4> QED BY <3>1, <4>2 DEF FoldSilent
    <3>2. CASE FoldRecorded(d, view)
      BY <1>0, <3>2 DEF FoldRecorded, TypeOK
    <3> QED BY <1>2, <3>1, <3>2
  <2>2. TypeOK' /\ \A e \in Decisions : filled[e] <= filled'[e]
    BY <1>0, <2>1 DEF TypeOK
  <2> QED BY <2>1, <2>2, LogKept
<1>3. CASE Commit(d)
  <2>1. PICK w \in Writes : Opened({d}, w) /\ lost' = (lost \/ ~ w)
    BY <1>3 DEF Commit
  <2>2. /\ UNCHANGED <<filled, tracked, recorded, book, journal, realised, forgotten, crashes>>
    BY <1>3 DEF Commit
  <2>3. lost' \in BOOLEAN /\ (~ lost' => ~ lost)
    <3>1. w \in BOOLEAN
      BY <2>1 DEF Writes
    <3> QED BY <1>0, <2>1, <3>1 DEF TypeOK
  <2>4. /\ trades' \in [Decisions -> TradeState] /\ kept' \in [Decisions -> TradeState]
        /\ pending' \subseteq Decisions
    BY <1>0, <2>1 DEF Opened, TypeOK, TradeState
  <2>5. TypeOK' /\ \A e \in Decisions : filled[e] <= filled'[e]
    BY <1>0, <2>2, <2>3, <2>4 DEF TypeOK
  <2> QED BY <2>2, <2>3, <2>5, LogKept
<1>4. CASE Clear(d)
  <2>1. /\ pending' = pending \ {d} /\ lost' = TRUE
        /\ UNCHANGED <<filled, tracked, recorded, book, trades, kept, journal, realised,
                       forgotten, crashes>>
    BY <1>4 DEF Clear
  <2>2. TypeOK' /\ \A e \in Decisions : filled[e] <= filled'[e]
    BY <1>0, <2>1 DEF TypeOK
  <2> QED BY <2>1, <2>2, LogKept
<1> QED BY <1>1, <1>2, <1>3, <1>4

\* The ledger folds a fill; its writes may fail.
LEMMA FoldFillKeeps ==
  ASSUME AccountingInv, NEW d \in Decisions, NEW view \in 0 .. filled[d], FoldFill(d, view)
  PROVE  AccountingInv'
<1> DEFINE f == NewFill(d, view)
           x == Fold(book, f)
           b == Flipped(x, f)
           log == Append(recorded, f)
<1>0. /\ TypeOK /\ filled[d] \in 0 .. Qty /\ Qty \in Nat /\ view \in 0 .. Qty
  BY LedgerAssumption DEF AccountingInv, TypeOK
<1>1. /\ Delta(d, view) > 0 /\ tracked' = [tracked EXCEPT ![d] = view]
      /\ filled' = filled /\ crashes' = crashes
      /\ forgotten' = forgotten \union Forgets(recorded', book')
  BY DEF FoldFill
<1>2. PICK l \in HookWrites :
        /\ recorded' = IF l.fill THEN log ELSE recorded
        /\ lost' = (lost \/ ~ l.fill \/ ~ l.trades \/ (x.flat /\ ~ l.closed))
        /\ \/ /\ x.flat /\ ~ l.closed
              /\ book' = x.book
              /\ UNCHANGED <<pending, trades, kept, journal, realised>>
           \/ /\ ~ x.flat \/ l.closed
              /\ book' = b
              /\ LET acc == FanOut(x.allocs, l.trades)
                     ds  == {d} \intersect pending
                 IN /\ trades' = [e \in Decisions |-> IF e \in ds THEN "open" ELSE acc.trades[e]]
                    /\ kept' = [e \in Decisions |->
                                  IF e \in ds /\ l.trades THEN "open" ELSE acc.kept[e]]
                    /\ pending' = pending \ ds
                    /\ journal' = acc.journal
                    /\ realised' = acc.realised
  BY DEF FoldFill
<1>3. /\ f \in FillRecord /\ log \in Seq(FillRecord)
      /\ \A k \in DOMAIN log : log[k].cum <= filled[log[k].d]
      /\ \A e \in Decisions \ forgotten :
           \/ UnitsOf(log, e) = 0
           \/ \E k \in DOMAIN log : log[k].d = e /\ UnitsOf(log, e) <= log[k].cum
  BY <1>1, RecordKeeps
<1>4. book \in Book /\ recorded \in Seq(FillRecord) /\ journal \in Nat
  BY <1>0 DEF TypeOK
<1>5. x.book \in Book /\ b \in Book /\ x.allocs \in Seq(Part) /\ x.flat \in BOOLEAN
  <2>1. x.flat \in BOOLEAN
    BY DEF Fold
  <2> HIDE DEF f
  <2>2. x.book \in Book /\ b \in Book /\ x.allocs \in Seq(Part)
    BY <1>3, <1>4, FoldFacts
  <2> QED BY <2>1, <2>2
<1>6. l.fill \in BOOLEAN /\ l.closed \in BOOLEAN /\ l.trades \in BOOLEAN
  BY DEF HookWrites, Writes
<1> HIDE DEF f, log, b, x
<1>7. Unclosed(l.trades) \in Accounts
  BY <1>0, <1>6 DEF Unclosed, Accounts, TypeOK
<1> DEFINE acc == FanOut(x.allocs, l.trades)
<1>8. acc \in Accounts /\ (l.trades => acc.journal = journal + Units(x.allocs))
  BY <1>5, <1>7, FanOutFacts
<1> HIDE DEF acc
<1>9. /\ book' \in Book /\ recorded' \in Seq(FillRecord) /\ journal' \in Nat /\ realised' \in Nat
      /\ trades' \in [Decisions -> TradeState] /\ kept' \in [Decisions -> TradeState]
      /\ pending' \subseteq Decisions
  <2>1. recorded' \in Seq(FillRecord)
    BY <1>2, <1>3, <1>4
  <2>2. CASE book' = x.book /\ UNCHANGED <<pending, trades, kept, journal, realised>>
    BY <1>0, <1>5, <2>1, <2>2 DEF TypeOK
  <2>3. CASE /\ book' = b
             /\ trades' = [e \in Decisions |-> IF e \in {d} \intersect pending THEN "open" ELSE acc.trades[e]]
             /\ kept' = [e \in Decisions |->
                           IF e \in {d} \intersect pending /\ l.trades THEN "open" ELSE acc.kept[e]]
             /\ pending' = pending \ ({d} \intersect pending)
             /\ journal' = acc.journal
             /\ realised' = acc.realised
    <3>1. /\ acc.trades \in [Decisions -> TradeState] /\ acc.kept \in [Decisions -> TradeState]
          /\ acc.journal \in Nat /\ acc.realised \in Nat /\ "open" \in TradeState
      BY <1>8 DEF Accounts, TradeState
    <3>2. trades' \in [Decisions -> TradeState] /\ kept' \in [Decisions -> TradeState]
      BY <2>3, <3>1
    <3>3. pending' \subseteq Decisions
      BY <1>0, <2>3 DEF TypeOK
    <3> QED BY <1>5, <2>1, <2>3, <3>1, <3>2, <3>3
  <2> QED BY <1>2, <2>2, <2>3 DEF acc
<1>10. TypeOK'
  <2>1. lost' \in BOOLEAN
    BY <1>2
  <2>2. tracked' \in [Decisions -> 0 .. Qty]
    BY <1>0, <1>1 DEF TypeOK
  <2>3. forgotten' \subseteq Decisions
    BY <1>0, <1>1 DEF TypeOK, Forgets
  <2> QED BY <1>0, <1>1, <1>9, <2>1, <2>2, <2>3 DEF TypeOK
<1>11. \A k \in DOMAIN recorded' : recorded'[k].cum <= filled'[recorded'[k].d]
  BY <1>1, <1>2, <1>3 DEF AccountingInv
<1>12. ASSUME NEW e \in Decisions \ forgotten' PROVE Covered(recorded', book', e)
  <2>1. e \in Decisions \ Forgets(recorded', book') /\ e \in Decisions \ forgotten
    BY <1>1
  <2>2. \A k \in DOMAIN recorded' : recorded'[k].d = e => recorded'[k].cum <= book'.last[e]
    BY <1>9, <2>1, NotForgotten
  <2>3. \/ UnitsOf(recorded', e) = 0
        \/ \E k \in DOMAIN recorded' : recorded'[k].d = e /\ UnitsOf(recorded', e) <= recorded'[k].cum
    <3>1. CASE l.fill
      BY <1>2, <1>3, <2>1, <3>1
    <3>2. CASE ~ l.fill
      <4>1. Covered(recorded, book, e)
        BY <2>1 DEF AccountingInv
      <4> QED BY <1>2, <3>2, <4>1 DEF Covered
    <3> QED BY <3>1, <3>2
  <2> QED BY <2>2, <2>3 DEF Covered
<1>13. ASSUME ~ lost' PROVE Balanced(recorded', book', journal')
  <2>1. ~ lost /\ l.fill /\ l.trades /\ (x.flat => l.closed)
    BY <1>2, <1>5, <1>6, <1>13
  <2>2. recorded' = log /\ book' = b /\ journal' = journal + Units(x.allocs)
    BY <1>2, <1>8, <2>1 DEF acc
  <2>3. Balanced(recorded, book, journal)
    BY <2>1 DEF AccountingInv
  <2>4. Balanced(Append(recorded, f), Flipped(Fold(book, f), f), journal + Units(Fold(book, f).allocs))
    BY <1>3, <1>4, <2>3, FillBalances
  <2> QED BY <2>2, <2>4 DEF log, b, x
<1> QED BY <1>10, <1>11, <1>12, <1>13 DEF AccountingInv

\* The process dies and is rebuilt from a log the venue's fills bound.
LEMMA RebornKeeps ==
  ASSUME AccountingInv, NEW log \in Seq(FillRecord), NEW k \in [Decisions -> TradeState],
         NEW j \in Nat, Reborn(log, k, j), crashes < MaxCrashes, filled' = filled,
         lost' \in BOOLEAN,
         \A i \in DOMAIN log : log[i].cum <= filled[log[i].d],
         \A e \in Decisions \ forgotten :
           \/ UnitsOf(log, e) = 0
           \/ \E i \in DOMAIN log : log[i].d = e /\ UnitsOf(log, e) <= log[i].cum,
         ~ lost' => Balanced(log, Replay(log), j)
  PROVE  AccountingInv'
<1>1. /\ recorded' = log /\ book' = Replay(log) /\ kept' = k /\ trades' = k
      /\ journal' = j /\ realised' = j /\ tracked' = [d \in Decisions |-> 0] /\ pending' = {}
      /\ forgotten' = forgotten \union Forgets(recorded', book') /\ crashes' = crashes + 1
  BY DEF Reborn
<1>2. Replay(log) \in Book
  BY ReplayIsBook
<1>3. TypeOK'
  <2>1. TypeOK /\ crashes \in 0 .. MaxCrashes /\ MaxCrashes \in Nat /\ Qty \in Nat
    BY LedgerAssumption, AccountingAssumption DEF AccountingInv, TypeOK
  <2>2. crashes' \in 0 .. MaxCrashes
    BY <1>1, <2>1
  <2>3. tracked' \in [Decisions -> 0 .. Qty] /\ filled' \in [Decisions -> 0 .. Qty]
    BY <1>1, <2>1 DEF TypeOK
  <2>4. forgotten' \subseteq Decisions /\ pending' \subseteq Decisions
    BY <1>1, <2>1 DEF TypeOK, Forgets
  <2> QED BY <1>1, <1>2, <2>2, <2>3, <2>4 DEF TypeOK
<1>4. ASSUME NEW e \in Decisions \ forgotten' PROVE Covered(recorded', book', e)
  <2>1. e \in Decisions \ Forgets(log, Replay(log)) /\ e \in Decisions \ forgotten
    BY <1>1
  <2>2. \A i \in DOMAIN log : log[i].d = e => log[i].cum <= Replay(log).last[e]
    BY <1>2, <2>1, NotForgotten
  <2>3. \/ UnitsOf(log, e) = 0
        \/ \E i \in DOMAIN log : log[i].d = e /\ UnitsOf(log, e) <= log[i].cum
    BY <2>1
  <2> QED BY <1>1, <2>2, <2>3 DEF Covered
<1> QED BY <1>1, <1>3, <1>4 DEF AccountingInv

LEMMA AccountingInvStep ==
  ASSUME AccountingInv, [Next]_vars
  PROVE  AccountingInv'
<1>0. /\ TypeOK /\ recorded \in Seq(FillRecord) /\ kept \in [Decisions -> TradeState]
      /\ journal \in Nat /\ lost \in BOOLEAN
  BY DEF AccountingInv, TypeOK
<1>1. ASSUME NEW d \in Decisions, NEW view \in 0 .. filled[d], DieInHook(d, view)
      PROVE  AccountingInv'
  <2> DEFINE f == NewFill(d, view)
             x == Fold(book, f)
  <2>1. /\ crashes < MaxCrashes /\ Delta(d, view) > 0 /\ lost' = TRUE /\ filled' = filled
    BY <1>1 DEF DieInHook
  <2>2. PICK n \in 0 .. Len(x.allocs) :
          Reborn(Append(recorded, f), FanOut(SubSeq(x.allocs, 1, n), TRUE).kept,
                 FanOut(SubSeq(x.allocs, 1, n), TRUE).journal)
    BY <1>1 DEF DieInHook
  <2>3. f \in FillRecord
    BY <2>1, RecordKeeps
  <2>4. x.allocs \in Seq(Part)
    <3>1. book \in Book
      BY <1>0 DEF TypeOK
    <3> QED BY <2>3, <3>1, FoldFacts
  <2> HIDE DEF x
  <2>5. SubSeq(x.allocs, 1, n) \in Seq(Part)
    BY <2>4, LenProperties, SubSeqProperties
  <2> DEFINE acc == FanOut(SubSeq(x.allocs, 1, n), TRUE)
  <2>6. acc \in Accounts
    <3>1. Unclosed(TRUE) \in Accounts
      BY <1>0 DEF Unclosed, Accounts, TypeOK
    <3> QED BY <2>5, <3>1, FanOutFacts
  <2>7. acc.kept \in [Decisions -> TradeState] /\ acc.journal \in Nat
    <3> HIDE DEF acc
    <3> QED BY <2>6 DEF Accounts
  <2> HIDE DEF acc
  <2>8. Reborn(Append(recorded, f), acc.kept, acc.journal)
    BY <2>2 DEF acc
  <2>9. /\ Append(recorded, f) \in Seq(FillRecord)
        /\ \A i \in DOMAIN Append(recorded, f) :
             Append(recorded, f)[i].cum <= filled[Append(recorded, f)[i].d]
        /\ \A e \in Decisions \ forgotten :
             \/ UnitsOf(Append(recorded, f), e) = 0
             \/ \E i \in DOMAIN Append(recorded, f) :
                  Append(recorded, f)[i].d = e /\ UnitsOf(Append(recorded, f), e) <= Append(recorded, f)[i].cum
    BY <2>1, RecordKeeps
  <2> HIDE DEF f
  <2> QED BY <2>1, <2>7, <2>8, <2>9, RebornKeeps
<1>2. CASE Restart
  <2>1. crashes < MaxCrashes /\ Reborn(recorded, kept, journal) /\ filled' = filled /\ lost' = lost
    BY <1>2 DEF Restart
  <2>2. \A e \in Decisions \ forgotten :
          \/ UnitsOf(recorded, e) = 0
          \/ \E i \in DOMAIN recorded : recorded[i].d = e /\ UnitsOf(recorded, e) <= recorded[i].cum
    <3> SUFFICES ASSUME NEW e \in Decisions \ forgotten
                 PROVE  \/ UnitsOf(recorded, e) = 0
                        \/ \E i \in DOMAIN recorded :
                             recorded[i].d = e /\ UnitsOf(recorded, e) <= recorded[i].cum
      OBVIOUS
    <3>1. Covered(recorded, book, e)
      BY DEF AccountingInv
    <3> QED BY <3>1 DEF Covered
  <2>3. ~ lost => Balanced(recorded, Replay(recorded), journal)
    BY DEF AccountingInv, Balanced
  <2>4. \A i \in DOMAIN recorded : recorded[i].cum <= filled[recorded[i].d]
    BY DEF AccountingInv
  <2> QED BY <1>0, <2>1, <2>2, <2>3, <2>4, RebornKeeps
<1>3. CASE UNCHANGED vars
  BY <1>3 DEF vars, AccountingInv, TypeOK
<1>4. ASSUME NEW d \in Decisions, NEW view \in 0 .. filled[d],
             FoldSilent(d, view) \/ FoldRecorded(d, view)
      PROVE  AccountingInv'
  BY <1>4, SmallStepsKeep
<1>5. ASSUME NEW d \in Decisions, Fill(d) \/ Commit(d) \/ Clear(d) PROVE AccountingInv'
  <2>1. 0 \in 0 .. filled[d]
    BY <1>0, LedgerAssumption DEF TypeOK
  <2> QED BY <1>5, <2>1, SmallStepsKeep
<1>6. ASSUME NEW d \in Decisions, NEW view \in 0 .. filled[d], FoldFill(d, view)
      PROVE  AccountingInv'
  BY <1>6, FoldFillKeeps
<1> QED BY <1>1, <1>2, <1>3, <1>4, <1>5, <1>6 DEF Next

\* The invariant the rest follows from: types, a log bounded by the venue, a ledger that
\* covers it, and, until something fails, a book that is the log replayed.
THEOREM AccountingInvariant == Spec => []AccountingInv
<1>1. Init => AccountingInv
  BY AccountingInvInit
<1>2. AccountingInv /\ [Next]_vars => AccountingInv'
  BY AccountingInvStep
<1> QED BY <1>1, <1>2, PTL DEF Spec

\* However views are repeated, stale or replayed after a restart, and whichever write
\* fails, the log holds no more of an order than the venue filled, while the ledger
\* remembers what it recorded of it (FillsLedger.record's delta).
THEOREM LogNeverOutrunsVenue == Spec => []BookedOnce
<1>1. AccountingInv => BookedOnce
  <2> SUFFICES ASSUME AccountingInv, NEW d \in Decisions \ forgotten
               PROVE  UnitsOf(recorded, d) <= filled[d]
    BY DEF BookedOnce
  <2>1. Covered(recorded, book, d) /\ filled[d] \in Nat /\ recorded \in Seq(FillRecord)
    BY LedgerAssumption DEF AccountingInv, TypeOK
  <2>2. CASE UnitsOf(recorded, d) = 0
    BY <2>1, <2>2
  <2>3. CASE UnitsOf(recorded, d) # 0
    <3>1. PICK k \in DOMAIN recorded : recorded[k].d = d /\ UnitsOf(recorded, d) <= recorded[k].cum
      BY <2>1, <2>3 DEF Covered
    <3>2. recorded[k].cum <= filled[d]
      BY <3>1 DEF AccountingInv
    <3>3. recorded[k] \in FillRecord
      BY <2>1, LenProperties
    <3>4. recorded[k].cum \in Nat
      BY <3>3, LedgerAssumption DEF FillRecord
    <3>5. UnitsOf(recorded, d) \in Nat
      BY <2>1, <3>3, UnitsOfAppend
    <3> QED BY <2>1, <3>1, <3>2, <3>4, <3>5
  <2> QED BY <2>2, <2>3
<1> QED BY <1>1, AccountingInvariant, PTL

\* Until a write fails or the process dies inside the hook, each recorded unit is open
\* in a lot or was journalled closed once as an entry and once as the fill that closed
\* it, whatever the partial fills, flips, stale views and restarts.
THEOREM UnitsAreConserved == Spec => []Conserved
<1>1. AccountingInv => Conserved
  BY DEF AccountingInv, Balanced, Conserved
<1> QED BY <1>1, AccountingInvariant, PTL

-----------------------------------------------------------------------------
(* The net position. *)

\* One way to read the orders through.
Orders == SetToSeq(Decisions)

SumOn(u, side) == FoldLeft(LAMBDA n, d : IF SideOf[d] = side THEN n + u[d] ELSE n, 0, Orders)
AddOn(n, d, u, side) == IF SideOf[d] = side THEN n + u[d] ELSE n

LEMMA OrdersFacts ==
  /\ Orders \in Seq(Decisions)
  /\ \A d \in Decisions : \E i \in 1 .. Len(Orders) : Orders[i] = d
  /\ \A i, j \in 1 .. Len(Orders) : Orders[i] = Orders[j] => i = j
<1> DEFINE n == Cardinality(Decisions)
           good == {f \in [1 .. n -> Decisions] : IsInjective(f)}
<1>1. IsFiniteSet(Decisions) /\ n \in Nat
  BY AccountingAssumption, FS_CardinalityType
<1>2. ExistsBijection(1 .. n, Decisions)
  BY <1>1, FS_CardinalityType
<1> HIDE DEF n
<1>3. \E f \in [1 .. n -> Decisions] : IsInjective(f)
  BY <1>2 DEF ExistsBijection, Bijection, Injection
<1>4. Orders \in [1 .. n -> Decisions] /\ IsInjective(Orders)
  BY <1>3 DEF Orders, SetToSeq, n
<1>5. Orders \in Injection(1 .. n, Decisions)
  BY <1>4 DEF Injection
<1>6. IsFiniteSet(1 .. n) /\ Cardinality(1 .. n) = n
  BY <1>1, FS_Interval
<1>7. Orders \in Surjection(1 .. n, Decisions)
  BY <1>1, <1>5, <1>6, FS_Injection DEF n
<1>8. Orders \in Seq(Decisions) /\ Len(Orders) = n
  BY <1>1, <1>4, SeqDef, LenProperties
<1> QED BY <1>4, <1>7, <1>8 DEF Surjection, IsInjective

\* The sum over the orders of a side, order by order.
LEMMA SumOnRun ==
  ASSUME NEW u \in [Decisions -> Nat], NEW side
  PROVE  \E run \in [0 .. Len(Orders) -> Nat] :
           /\ run[0] = 0
           /\ \A i \in 1 .. Len(Orders) : run[i] = AddOn(run[i - 1], Orders[i], u, side)
           /\ SumOn(u, side) = run[Len(Orders)]
<1> DEFINE n == Len(Orders)
           A == Nat
           base == 0
           F == [p \in (1 .. n) \X A |-> AddOn(p[2], Orders[p[1]], u, side)]
           Eq(h) == h = [w \in SUBSET (1 .. n) |->
                           IF w = {} THEN base ELSE AddOn(h[w \ {Max(w)}], Orders[Max(w)], u, side)]
           it == CHOOSE h : Eq(h)
<1>1. n \in Nat /\ DOMAIN Orders = 1 .. n /\ \A i \in 1 .. n : Orders[i] \in Decisions
  BY OrdersFacts, LenProperties
<1>2. F \in [(1 .. n) \X A -> A] /\ base \in A
  <2>1. base \in A
    OBVIOUS
  <2>2. \A p \in (1 .. n) \X A : AddOn(p[2], Orders[p[1]], u, side) \in A
    BY <1>1 DEF AddOn
  <2> QED BY <2>1, <2>2
<1>3. ASSUME NEW i \in 1 .. n, NEW a \in A PROVE F[<<i, a>>] = AddOn(a, Orders[i], u, side)
  BY <1>3
<1>4. SumOn(u, side) = it[1 .. n]
  BY <1>1 DEF SumOn, AddOn, FoldLeft, MapThenFoldSet
<1> HIDE DEF F, n, A, base
<1>5. ASSUME NEW w \in SUBSET (1 .. n), w # {}
      PROVE  Max(w) \in 1 .. n /\ w \ {Max(w)} \in SUBSET (1 .. n)
  BY <1>1, <1>5, MaxOfSome
<1>6. ASSUME NEW h, IsTable(h, A, base, n, F) PROVE Obeys(it, A, base, n, F)
  <2>1. Eq(h)
    BY <1>3, <1>5, <1>6 DEF IsTable
  <2> HIDE DEF Eq
  <2>2. Eq(it)
    BY <2>1
  <2> HIDE DEF it
  <2> USE DEF Eq
  <2> QED BY <1>3, <1>5, <2>2 DEF Obeys
<1> HIDE DEF it
<1>7. PICK run : IsRun(run, A, base, n, F) /\ it[1 .. n] = run[n]
  <2>1. Folds(it, A, base, n, F)
    BY <1>1, <1>2, <1>6, FoldRun
  <2> QED BY <2>1 DEF Folds
<1>8. ASSUME NEW i \in 1 .. n PROVE run[i] = AddOn(run[i - 1], Orders[i], u, side)
  <2>1. i - 1 \in 0 .. n
    BY <1>1
  <2> QED BY <1>3, <1>7, <2>1 DEF IsRun
<1> QED BY <1>4, <1>7, <1>8 DEF n, A, base, IsRun

Gained(u, v, d, q) == v[d] = u[d] + q /\ \A e \in Decisions \ {d} : v[e] = u[e]

Raised(u, v, d, q, side) ==
  /\ SumOn(u, side) \in Nat
  /\ SumOn(v, side) = IF SideOf[d] = side THEN SumOn(u, side) + q ELSE SumOn(u, side)

\* A unit more of one order is a unit more on its side.
LEMMA SumOnPlus ==
  ASSUME NEW u \in [Decisions -> Nat], NEW v \in [Decisions -> Nat], NEW d \in Decisions,
         NEW q \in Nat, Gained(u, v, d, q), NEW side
  PROVE  Raised(u, v, d, q, side)
<1> DEFINE n == Len(Orders)
           p == IF SideOf[d] = side THEN q ELSE 0
<1>1. n \in Nat /\ (\A i \in 1 .. n : Orders[i] \in Decisions) /\ p \in Nat
  BY OrdersFacts, LenProperties
<1>0. PICK k \in 1 .. n : Orders[k] = d
  BY OrdersFacts
<1>2. \A i \in 1 .. n : Orders[i] = d <=> i = k
  BY <1>0, OrdersFacts
<1>3. PICK f \in [0 .. n -> Nat] :
           f[0] = 0 /\ (\A i \in 1 .. n : f[i] = AddOn(f[i - 1], Orders[i], u, side))
           /\ SumOn(u, side) = f[n]
  BY SumOnRun
<1>4. PICK g \in [0 .. n -> Nat] :
           g[0] = 0 /\ (\A i \in 1 .. n : g[i] = AddOn(g[i - 1], Orders[i], v, side))
           /\ SumOn(v, side) = g[n]
  BY SumOnRun
<1> HIDE DEF n, p
<1> DEFINE P == {i \in 0 .. n : g[i] = f[i] + (IF i >= k THEN p ELSE 0)}
<1>5. 0 \in P
  BY <1>1, <1>2, <1>3, <1>4
<1>6. ASSUME NEW i \in 1 .. n, i - 1 \in P PROVE i \in P
  <2> DEFINE e == Orders[i]
             a == f[i - 1]
             b == g[i - 1]
  <2>1. /\ e \in Decisions /\ a \in Nat /\ b \in Nat /\ i \in 0 .. n
        /\ f[i] = AddOn(a, e, u, side) /\ g[i] = AddOn(b, e, v, side)
        /\ b = a + (IF i - 1 >= k THEN p ELSE 0) /\ (e = d <=> i = k)
    <3>1. i - 1 \in 0 .. n /\ i \in 0 .. n /\ g[i - 1] = f[i - 1] + (IF i - 1 >= k THEN p ELSE 0)
      BY <1>1, <1>6
    <3>2. f[i] = AddOn(f[i - 1], Orders[i], u, side) /\ g[i] = AddOn(g[i - 1], Orders[i], v, side)
      BY <1>3, <1>4
    <3>3. Orders[i] \in Decisions /\ f[i - 1] \in Nat /\ g[i - 1] \in Nat
      BY <1>1, <1>3, <1>4, <3>1
    <3> QED BY <1>2, <3>1, <3>2, <3>3
  <2> HIDE DEF e, a, b
  <2>2. u[e] \in Nat /\ v[e] \in Nat /\ v[e] = IF e = d THEN u[e] + q ELSE u[e]
    BY <2>1 DEF Gained
  <2>3. CASE i = k
    <3>1. b = a /\ e = d /\ i >= k
      BY <1>1, <2>1, <2>3
    <3>2. g[i] = f[i] + p
      <4> USE DEF p
      <4>1. CASE SideOf[d] = side
        BY <2>1, <2>2, <3>1, <4>1 DEF AddOn
      <4>2. CASE SideOf[d] # side
        BY <2>1, <2>2, <3>1, <4>2 DEF AddOn
      <4> QED BY <4>1, <4>2
    <3> QED BY <2>1, <3>1, <3>2
  <2>4. CASE i # k
    <3>1. v[e] = u[e] /\ (i - 1 >= k <=> i >= k)
      BY <1>1, <1>2, <2>1, <2>2, <2>4
    <3> DEFINE z == IF i >= k THEN p ELSE 0
    <3>2. z \in Nat /\ b = a + z
      BY <1>1, <2>1, <3>1
    <3> HIDE DEF z
    <3>3. g[i] = f[i] + z
      <4>1. CASE SideOf[e] = side
        BY <2>1, <2>2, <3>1, <3>2, <4>1 DEF AddOn
      <4>2. CASE SideOf[e] # side
        BY <2>1, <2>2, <3>1, <3>2, <4>2 DEF AddOn
      <4> QED BY <4>1, <4>2
    <3> QED BY <2>1, <3>3 DEF z
  <2> QED BY <2>3, <2>4
<1>7. n \in P
  <2> HIDE DEF P
  <2>1. \A i \in 0 .. n : i \in P
    BY <1>1, <1>5, <1>6, UpTo
  <2> QED BY <1>1, <2>1
<1>8. f[n] \in Nat /\ n >= k
  BY <1>1
<1>9. g[n] = f[n] + p
  BY <1>7, <1>8
<1> QED BY <1>3, <1>4, <1>8, <1>9 DEF p, Raised

LEMMA SumOnNone ==
  ASSUME NEW u \in [Decisions -> Nat], \A e \in Decisions : u[e] = 0, NEW side
  PROVE  SumOn(u, side) = 0
<1> DEFINE n == Len(Orders)
<1>1. n \in Nat /\ \A i \in 1 .. n : Orders[i] \in Decisions
  BY OrdersFacts, LenProperties
<1>2. PICK f \in [0 .. n -> Nat] :
           f[0] = 0 /\ (\A i \in 1 .. n : f[i] = AddOn(f[i - 1], Orders[i], u, side))
           /\ SumOn(u, side) = f[n]
  BY SumOnRun
<1> HIDE DEF n
<1> DEFINE P == {i \in 0 .. n : f[i] = 0}
<1>3. 0 \in P
  BY <1>1, <1>2
<1>4. ASSUME NEW i \in 1 .. n, i - 1 \in P PROVE i \in P
  <2>1. f[i - 1] = 0 /\ i \in 0 .. n /\ f[i] = AddOn(f[i - 1], Orders[i], u, side) /\ u[Orders[i]] = 0
    BY <1>1, <1>2, <1>4
  <2> QED BY <2>1 DEF AddOn
<1>5. n \in P
  <2> HIDE DEF P
  <2>1. \A i \in 0 .. n : i \in P
    BY <1>1, <1>3, <1>4, UpTo
  <2> QED BY <1>1, <2>1
<1> QED BY <1>2, <1>5

Net(b, side) == IF b.side = side THEN Units(b.lots) ELSE 0

\* A fill adds to its side, or takes from the other and opens its own with the rest.
LEMMA FoldSides ==
  ASSUME NEW b \in Book, NEW f \in FillRecord, NEW c, c = Flipped(Fold(b, f), f)
  PROVE  \/ /\ c.side = SideOf[f.d] /\ Units(c.lots) = Units(b.lots) + f.q
            /\ b.side = c.side \/ Units(b.lots) = 0
         \/ /\ c.side = b.side /\ b.side # SideOf[f.d] /\ Units(c.lots) + f.q = Units(b.lots)
         \/ /\ c.side = SideOf[f.d] /\ b.side # SideOf[f.d]
            /\ Units(c.lots) + Units(b.lots) = f.q
<1> DEFINE noted == [b.last EXCEPT ![f.d] = Larger(@, f.cum)]
           taken == AllocateFifo(b.lots, f.q)
           flat == taken.lots = <<>>
           last == Forget(noted, flat, taken.allocs)
           new == [d |-> f.d, q |-> f.q]
           rest == [d |-> f.d, q |-> taken.left]
<1>1. b.lots \in Seq(Lot) /\ f.d \in Decisions /\ f.q \in 1 .. Qty /\ f.q \in Nat /\ Qty \in Nat
  BY LedgerAssumption DEF Book, FillRecord
<1>2. /\ taken \in Taking /\ Units(taken.allocs) + taken.left = f.q
      /\ Units(taken.allocs) + Units(taken.lots) = Units(b.lots)
      /\ taken.left > 0 => taken.lots = <<>>
  BY <1>1, AllocateFacts
<1>3. /\ taken.left \in Nat /\ Units(taken.allocs) \in Nat /\ Units(taken.lots) \in Nat
  <2>1. taken.left \in Nat /\ taken.allocs \in Seq(Part) /\ taken.lots \in Seq(Lot)
    BY <1>2 DEF Taking
  <2>2. \A S : \A s \in Seq(S) : S = Part \/ S = Lot => Units(s) \in Nat
    <3> SUFFICES ASSUME NEW S, NEW s \in Seq(S), S = Part \/ S = Lot PROVE Units(s) \in Nat
      OBVIOUS
    <3>1. \A x \in S : x.q \in Nat
      BY LotsAreParts
    <3>2. PICK g \in [0 .. Len(s) -> Nat] : Units(s) = g[Len(s)]
      BY <3>1, UnitsRun
    <3> QED BY <3>2, LenProperties
  <2> QED BY <2>1, <2>2
<1>4. new \in Lot /\ new.q = f.q /\ \A x \in Lot : x.q \in Nat
  BY <1>1, LotsAreParts DEF Lot
<1> HIDE DEF noted, taken, flat, last, new, rest
<1>5. CASE b.lots = <<>> \/ b.side = SideOf[f.d]
  <2> DEFINE y == [side |-> SideOf[f.d], last |-> noted, lots |-> Append(b.lots, new)]
  <2>1. Fold(b, f) = [book |-> y, allocs |-> <<>>, flat |-> FALSE, flipped |-> 0]
    BY <1>5 DEF Fold, noted, new
  <2>2. c = y
    BY <2>1 DEF Flipped
  <2>3. c.side = SideOf[f.d] /\ c.lots = Append(b.lots, new)
    BY <2>2
  <2>4. Units(Append(b.lots, new)) = Units(b.lots) + f.q
    BY <1>1, <1>4, UnitsAppend
  <2> HIDE DEF y
  <2> QED BY <1>5, <2>3, <2>4, UnitsOfNone
<1>6. CASE ~ (b.lots = <<>> \/ b.side = SideOf[f.d])
  <2> DEFINE y == [side |-> b.side, lots |-> taken.lots, last |-> last]
  <2>1. Fold(b, f) = [book |-> y, allocs |-> taken.allocs, flat |-> flat, flipped |-> taken.left]
    BY <1>6 DEF Fold, noted, taken, flat, last
  <2>2. CASE taken.left = 0
    <3>1. c = y
      BY <2>1, <2>2 DEF Flipped
    <3>2. c.side = b.side /\ c.lots = taken.lots
      BY <3>1
    <3>3. Units(taken.lots) + f.q = Units(b.lots)
      BY <1>1, <1>2, <1>3, <2>2
    <3> QED BY <1>6, <3>2, <3>3
  <2>3. CASE taken.left # 0
    <3>1. c = [y EXCEPT !.side = SideOf[f.d], !.lots = <<rest>>]
      BY <2>1, <2>3 DEF Flipped, rest
    <3>2. c.side = SideOf[f.d] /\ c.lots = <<rest>>
      BY <3>1
    <3>3. rest.q = taken.left
      BY DEF rest
    <3>4. Units(<<rest>>) = taken.left
      BY <1>3, <3>3, UnitsOfOne
    <3>5. taken.lots = <<>>
      BY <1>2, <1>3, <2>3
    <3>6. Units(taken.lots) = 0
      BY <3>5, UnitsOfNone
    <3>7. taken.left + Units(b.lots) = f.q
      BY <1>1, <1>2, <1>3, <3>6
    <3> QED BY <1>6, <3>2, <3>4, <3>7
  <2> QED BY <2>2, <2>3
<1> QED BY <1>5, <1>6

\* So the signed position moves by the fill.
LEMMA FoldNets ==
  ASSUME NEW b \in Book, NEW f \in FillRecord, NEW c, c = Flipped(Fold(b, f), f)
  PROVE  Net(c, "buy") - Net(c, "sell")
           = Net(b, "buy") - Net(b, "sell") + (IF SideOf[f.d] = "buy" THEN f.q ELSE - f.q)
<1> DEFINE m == Units(b.lots)
           n == Units(c.lots)
           q == f.q
           s == SideOf[f.d]
<1>1. \/ /\ c.side = s /\ n = m + q
         /\ b.side = c.side \/ m = 0
      \/ /\ c.side = b.side /\ b.side # s /\ n + q = m
      \/ /\ c.side = s /\ b.side # s /\ n + m = q
  BY FoldSides
<1>2. c \in Book
  BY FoldFacts
<1>3. /\ b.side \in Sides /\ s \in Sides /\ c.side \in Sides /\ q \in Nat
      /\ b.lots \in Seq(Lot) /\ c.lots \in Seq(Lot)
  BY <1>2, LedgerAssumption DEF Book, FillRecord
<1>4. m \in Nat /\ n \in Nat
  <2>1. \A x \in Lot : x.q \in Nat
    BY LotsAreParts
  <2>2. \A t \in Seq(Lot) : Units(t) \in Nat
    <3> SUFFICES ASSUME NEW t \in Seq(Lot) PROVE Units(t) \in Nat
      OBVIOUS
    <3>1. PICK g \in [0 .. Len(t) -> Nat] : Units(t) = g[Len(t)]
      BY <2>1, UnitsRun
    <3> QED BY <3>1, LenProperties
  <2> QED BY <1>3, <2>2
<1>5. /\ Net(b, "buy") = IF b.side = "buy" THEN m ELSE 0
      /\ Net(b, "sell") = IF b.side = "buy" THEN 0 ELSE m
      /\ Net(c, "buy") = IF c.side = "buy" THEN n ELSE 0
      /\ Net(c, "sell") = IF c.side = "buy" THEN 0 ELSE n
  BY <1>3 DEF Net, Sides
<1> HIDE DEF m, n, q, s
<1>6. Net(c, "buy") - Net(c, "sell")
        = Net(b, "buy") - Net(b, "sell") + (IF s = "buy" THEN q ELSE - q)
  BY <1>1, <1>3, <1>4, <1>5 DEF Sides
<1> QED BY <1>6 DEF s, q

\* What a fill makes of lastCumulative.
LEMMA FoldLast ==
  ASSUME NEW b \in Book, NEW f \in FillRecord, NEW c, c = Flipped(Fold(b, f), f),
         NEW e \in Decisions
  PROVE  c.last[e] = 0 \/ c.last[e] = IF e = f.d THEN Larger(b.last[e], f.cum) ELSE b.last[e]
<1> DEFINE noted == [b.last EXCEPT ![f.d] = Larger(@, f.cum)]
<1>1. c.last = Fold(b, f).book.last
  BY FoldFacts
<1>2. b.last \in [Decisions -> 0 .. Qty]
  BY DEF Book
<1>3. noted[e] = IF e = f.d THEN Larger(b.last[e], f.cum) ELSE b.last[e]
  BY <1>2
<1> HIDE DEF noted
<1>4. \/ Fold(b, f).book.last = noted
      \/ \E flat, allocs : Fold(b, f).book.last = Forget(noted, flat, allocs)
  BY DEF Fold, noted
<1>5. ASSUME NEW flat, NEW allocs
      PROVE  Forget(noted, flat, allocs)[e] = 0 \/ Forget(noted, flat, allocs)[e] = noted[e]
  BY DEF Forget
<1> QED BY <1>1, <1>3, <1>4, <1>5

Recs(log) == [d \in Decisions |-> UnitsOf(log, d)]

\* The engine has seen no more than was written, and neither has the book.
Seen(log, b, view) == \A d \in Decisions : view[d] <= UnitsOf(log, d) /\ b.last[d] <= UnitsOf(log, d)

\* The book's position is what the log bought less what it sold.
Netted(log, b) ==
  Net(b, "buy") - Net(b, "sell") = SumOn(Recs(log), "buy") - SumOn(Recs(log), "sell")

NetInv ==
  /\ AccountingInv
  /\ ~ lost => Seen(recorded, book, tracked) /\ Netted(recorded, book)

LEMMA RecsType ==
  ASSUME NEW log \in Seq(FillRecord)
  PROVE  Recs(log) \in [Decisions -> Nat]
<1> SUFFICES ASSUME NEW d \in Decisions PROVE UnitsOf(log, d) \in Nat
  BY DEF Recs
<1>1. PICK g \in [0 .. Len(log) -> Nat] : UnitsOf(log, d) = g[Len(log)]
  BY UnitsOfRun
<1> QED BY <1>1, LenProperties

\* A fill that is written and folded whole.
LEMMA FillNets ==
  ASSUME NEW log \in Seq(FillRecord), NEW b \in Book, NEW f \in FillRecord, Netted(log, b)
  PROVE  Netted(Append(log, f), Flipped(Fold(b, f), f))
<1> DEFINE t == Append(log, f)
           c == Flipped(Fold(b, f), f)
           u == Recs(log)
           v == Recs(t)
           s == SideOf[f.d]
<1>1. f.d \in Decisions /\ f.q \in Nat /\ s \in Sides /\ t \in Seq(FillRecord)
  BY LedgerAssumption, AppendProperties DEF FillRecord
<1>2. u \in [Decisions -> Nat] /\ v \in [Decisions -> Nat]
  BY <1>1, RecsType
<1>3. \A e \in Decisions : v[e] = PlusOf(u[e], f, e)
  BY UnitsOfAppend DEF Recs
<1>4. Net(c, "buy") - Net(c, "sell")
        = Net(b, "buy") - Net(b, "sell") + (IF s = "buy" THEN f.q ELSE - f.q)
  BY FoldNets
<1>5. Net(b, "buy") - Net(b, "sell") = SumOn(u, "buy") - SumOn(u, "sell")
  BY DEF Netted
<1> HIDE DEF t, c, u, v, s
<1>6. v[f.d] = u[f.d] + f.q /\ \A e \in Decisions \ {f.d} : v[e] = u[e]
  BY <1>1, <1>3 DEF PlusOf
<1>7. \A side : /\ SumOn(u, side) \in Nat
                /\ SumOn(v, side) = IF s = side THEN SumOn(u, side) + f.q ELSE SumOn(u, side)
  <2> SUFFICES ASSUME NEW side
               PROVE  /\ SumOn(u, side) \in Nat
                      /\ SumOn(v, side) = IF s = side THEN SumOn(u, side) + f.q ELSE SumOn(u, side)
    OBVIOUS
  <2> DEFINE d == f.d
             q == f.q
  <2>1. d \in Decisions /\ q \in Nat /\ Gained(u, v, d, q)
    BY <1>1, <1>6 DEF Gained
  <2>2. s = SideOf[d]
    BY DEF s
  <2> HIDE DEF d, q
  <2>3. Raised(u, v, d, q, side)
    BY <1>2, <2>1, SumOnPlus
  <2> QED BY <2>2, <2>3 DEF q, Raised
<1>8. Net(b, "buy") - Net(b, "sell") \in Int
  BY <1>5, <1>7
<1> DEFINE x == Net(b, "buy") - Net(b, "sell")
           y == Net(c, "buy") - Net(c, "sell")
           ub == SumOn(u, "buy")
           us == SumOn(u, "sell")
           vb == SumOn(v, "buy")
           vs == SumOn(v, "sell")
           q == f.q
<1>9. /\ q \in Nat /\ ub \in Nat /\ us \in Nat /\ x = ub - us
      /\ y = x + (IF s = "buy" THEN q ELSE - q)
      /\ vb = (IF s = "buy" THEN ub + q ELSE ub) /\ vs = (IF s = "sell" THEN us + q ELSE us)
      /\ s = "buy" \/ s = "sell"
  BY <1>1, <1>4, <1>5, <1>7 DEF Sides
<1> HIDE DEF x, y, ub, us, vb, vs, q
<1>10. y = vb - vs
  <2>1. CASE s = "buy"
    BY <1>9, <2>1
  <2>2. CASE s = "sell"
    BY <1>9, <2>2
  <2> QED BY <1>9, <2>1, <2>2
<1> QED BY <1>10 DEF Netted, y, vb, vs, t, c, v

LEMMA NetInvInit ==
  ASSUME Init
  PROVE  NetInv
<1>1. recorded = <<>> /\ book = EmptyBook /\ tracked = [d \in Decisions |-> 0]
  BY DEF Init
<1>2. <<>> \in Seq(FillRecord) /\ Len(<<>>) = 0
  OBVIOUS
<1>3. ASSUME NEW d \in Decisions PROVE UnitsOf(<<>>, d) = 0
  <2>1. PICK g \in [0 .. Len(<<>>) -> Nat] : g[0] = 0 /\ UnitsOf(<<>>, d) = g[Len(<<>>)]
    BY <1>2, UnitsOfRun
  <2> QED BY <1>2, <2>1
<1>4. Seen(recorded, book, tracked)
  BY <1>1, <1>3 DEF Seen, EmptyBook
<1>5. Recs(<<>>) \in [Decisions -> Nat] /\ \A e \in Decisions : Recs(<<>>)[e] = 0
  BY <1>2, <1>3, RecsType DEF Recs
<1>6. SumOn(Recs(<<>>), "buy") = 0 /\ SumOn(Recs(<<>>), "sell") = 0
  BY <1>5, SumOnNone
<1>7. Net(EmptyBook, "buy") = 0 /\ Net(EmptyBook, "sell") = 0
  BY UnitsOfNone DEF Net, EmptyBook
<1> QED BY <1>1, <1>4, <1>6, <1>7, AccountingInvInit DEF NetInv, Netted

LEMMA NetInvStep ==
  ASSUME NetInv, [Next]_vars
  PROVE  NetInv'
<1>0. /\ TypeOK /\ AccountingInv /\ book \in Book /\ recorded \in Seq(FillRecord)
      /\ \A d \in Decisions : /\ filled[d] \in 0 .. Qty /\ tracked[d] \in Nat
                              /\ book.last[d] \in Nat /\ UnitsOf(recorded, d) \in Nat
  <2>1. TypeOK /\ AccountingInv /\ book \in Book /\ recorded \in Seq(FillRecord)
    BY DEF NetInv, AccountingInv, TypeOK
  <2>2. \A d \in Decisions : UnitsOf(recorded, d) \in Nat
    BY <2>1, RecsType DEF Recs
  <2> QED BY <2>1, <2>2, LedgerAssumption DEF TypeOK, Book
<1>1. AccountingInv'
  BY AccountingInvStep DEF NetInv
<1> SUFFICES ASSUME ~ lost'
             PROVE  Seen(recorded', book', tracked') /\ Netted(recorded', book')
  BY <1>1 DEF NetInv
<1>2. ASSUME ~ lost PROVE Seen(recorded, book, tracked) /\ Netted(recorded, book)
  BY <1>2 DEF NetInv
<1>3. CASE UNCHANGED <<recorded, book, tracked, lost>>
  BY <1>2, <1>3
<1>4. ASSUME NEW d \in Decisions, NEW view \in 0 .. filled[d],
             FoldSilent(d, view) \/ FoldRecorded(d, view)
      PROVE  Seen(recorded', book', tracked') /\ Netted(recorded', book')
  <2>1. /\ ~ lost /\ tracked' = [tracked EXCEPT ![d] = view] /\ recorded' = recorded /\ book' = book
        /\ view <= tracked[d] \/ Delta(d, view) <= 0
    <3>1. CASE FoldSilent(d, view)
      <4>1. lost' = (lost \/ view > tracked[d])
        BY <3>1 DEF FoldSilent
      <4>2. tracked[d] \in Nat /\ view \in Nat
        BY <1>0
      <4>3. ~ lost /\ ~ (view > tracked[d])
        BY <4>1
      <4>4. view <= tracked[d]
        BY <4>2, <4>3
      <4> QED BY <3>1, <4>3, <4>4 DEF FoldSilent
    <3>2. CASE FoldRecorded(d, view)
      BY <3>2 DEF FoldRecorded
    <3> QED BY <1>4, <3>1, <3>2
  <2>2. Seen(recorded, book, tracked) /\ Netted(recorded, book)
    BY <1>2, <2>1
  <2>3. view <= UnitsOf(recorded, d)
    <3>1. /\ tracked[d] <= UnitsOf(recorded, d) /\ book.last[d] <= UnitsOf(recorded, d)
          /\ view \in Nat
      BY <1>0, <2>2 DEF Seen
    <3>2. view <= tracked[d] \/ view <= book.last[d]
      BY <1>0, <2>1, <3>1 DEF Delta
    <3> QED BY <1>0, <3>1, <3>2
  <2>4. tracked \in [Decisions -> 0 .. Qty]
    BY <1>0 DEF TypeOK
  <2>5. Seen(recorded, book, tracked')
    BY <2>1, <2>2, <2>3, <2>4 DEF Seen
  <2> QED BY <2>1, <2>2, <2>5
<1>5. ASSUME NEW d \in Decisions, NEW view \in 0 .. filled[d], FoldFill(d, view)
      PROVE  Seen(recorded', book', tracked') /\ Netted(recorded', book')
  <2> DEFINE f == NewFill(d, view)
             x == Fold(book, f)
             b == Flipped(x, f)
             log == Append(recorded, f)
  <2>1. Delta(d, view) > 0 /\ tracked' = [tracked EXCEPT ![d] = view]
    BY <1>5 DEF FoldFill
  <2>2. PICK l \in HookWrites :
          /\ recorded' = IF l.fill THEN log ELSE recorded
          /\ lost' = (lost \/ ~ l.fill \/ ~ l.trades \/ (x.flat /\ ~ l.closed))
          /\ (x.flat /\ ~ l.closed) \/ book' = b
    BY <1>5 DEF FoldFill
  <2>3. ~ lost /\ recorded' = log /\ book' = b
    BY <2>2
  <2>4. f \in FillRecord /\ f.d = d /\ f.cum = view /\ f.q = view - book.last[d]
    BY <1>0, <2>1, RecordKeeps DEF NewFill, Delta
  <2>5. Seen(recorded, book, tracked) /\ Netted(recorded, book)
    BY <1>2, <2>3
  <2> HIDE DEF f, x
  <2>6. Netted(log, b)
    BY <1>0, <2>4, <2>5, FillNets DEF x
  <2>7. tracked \in [Decisions -> 0 .. Qty] /\ view \in Nat
    BY <1>0 DEF TypeOK
  <2>8. ASSUME NEW e \in Decisions
        PROVE  tracked'[e] <= UnitsOf(log, e) /\ b.last[e] <= UnitsOf(log, e)
    <3>1. /\ UnitsOf(log, e) = PlusOf(UnitsOf(recorded, e), f, e)
          /\ tracked[e] <= UnitsOf(recorded, e) /\ book.last[e] <= UnitsOf(recorded, e)
      BY <1>0, <2>4, <2>5, UnitsOfAppend DEF Seen
    <3>2. b.last[e] = 0 \/ b.last[e] = IF e = f.d THEN Larger(book.last[e], f.cum) ELSE book.last[e]
      BY <1>0, <2>4, FoldLast DEF x
    <3> DEFINE m == b.last[e]
               n == UnitsOf(log, e)
               r == UnitsOf(recorded, e)
               o == book.last[e]
    <3> HIDE DEF b, log, m, n, r, o
    <3>3. r \in Nat /\ o \in Nat /\ o <= r /\ tracked[e] \in Nat /\ tracked[e] <= r
      BY <1>0, <3>1 DEF r, o
    <3>4. CASE e = d
      <4>1. n = r + (view - o) /\ tracked'[e] = view
        BY <2>1, <2>4, <2>7, <3>1, <3>4 DEF PlusOf, n, r, o
      <4>2. view <= n
        BY <2>7, <3>3, <4>1
      <4>3. m = 0 \/ m = Larger(o, view)
        BY <2>4, <3>2, <3>4 DEF m, o
      <4>4. view > o
        <5>1. view - o > 0
          BY <2>1, <3>4 DEF Delta, o
        <5> QED BY <2>7, <3>3, <5>1
      <4>5. m <= n
        BY <2>7, <3>3, <4>1, <4>2, <4>3, <4>4 DEF Larger
      <4> QED BY <4>1, <4>2, <4>5 DEF m, n
    <3>5. CASE e # d
      <4>1. n = r /\ tracked'[e] = tracked[e] /\ (m = 0 \/ m = o)
        BY <2>1, <2>4, <2>7, <3>1, <3>2, <3>5 DEF PlusOf, m, n, r, o
      <4>2. m <= n
        BY <3>3, <4>1
      <4> QED BY <3>3, <4>1, <4>2 DEF m, n
    <3> QED BY <3>4, <3>5
  <2>9. Seen(log, b, tracked')
    BY <2>8 DEF Seen
  <2> QED BY <2>3, <2>6, <2>9
<1>6. CASE Restart
  <2>1. /\ recorded' = recorded /\ book' = Replay(recorded) /\ tracked' = [d \in Decisions |-> 0]
        /\ ~ lost
    BY <1>6 DEF Restart, Reborn
  <2>2. book' = book
    BY <1>0, <2>1 DEF AccountingInv, Balanced
  <2>3. Seen(recorded, book, tracked) /\ Netted(recorded, book)
    BY <1>2, <2>1
  <2>4. Seen(recorded, book, tracked')
    BY <1>0, <2>1, <2>3 DEF Seen
  <2> QED BY <2>1, <2>2, <2>3, <2>4
<1>7. ASSUME NEW d \in Decisions, NEW view \in 0 .. filled[d], DieInHook(d, view) PROVE FALSE
  BY <1>7 DEF DieInHook
<1>8. ASSUME NEW d \in Decisions, Fill(d) \/ Commit(d) \/ Clear(d)
      PROVE  Seen(recorded', book', tracked') /\ Netted(recorded', book')
  <2>1. ASSUME Fill(d) PROVE UNCHANGED <<recorded, book, tracked, lost>>
    BY <2>1 DEF Fill
  <2>2. ASSUME Commit(d) PROVE UNCHANGED <<recorded, book, tracked>> /\ ~ lost
    <3>1. PICK w \in Writes : lost' = (lost \/ ~ w)
      BY <2>2 DEF Commit
    <3> QED BY <2>2, <3>1 DEF Commit
  <2>3. ASSUME Clear(d) PROVE FALSE
    BY <2>3 DEF Clear
  <2>4. UNCHANGED <<recorded, book, tracked>> /\ ~ lost
    BY <1>8, <2>1, <2>2, <2>3
  <2> QED BY <1>2, <2>4
<1> QED BY <1>3, <1>4, <1>5, <1>6, <1>7, <1>8 DEF Next, vars

\* Once the engine has seen every fill, the ledger's signed position is what the venue
\* bought less what it sold, after partial fills in any order, flips, stale views and
\* restarts, as long as no write failed and no order was recorded twice.
THEOREM LedgerAgreesWithVenue == Spec => []BookIsVenue
<1>1. Init => NetInv
  BY NetInvInit
<1>2. NetInv /\ [Next]_vars => NetInv'
  BY NetInvStep
<1>3. NetInv => BookIsVenue
  <2> SUFFICES ASSUME NetInv, ~ lost, BookedExact, \A d \in Decisions : tracked[d] = filled[d]
               PROVE  NetOf("buy") - NetOf("sell") = VenueNet("buy") - VenueNet("sell")
    BY DEF BookIsVenue
  <2>1. /\ recorded \in Seq(FillRecord) /\ filled \in [Decisions -> 0 .. Qty]
        /\ Seen(recorded, book, tracked) /\ Netted(recorded, book)
    BY DEF NetInv, AccountingInv, TypeOK
  <2>2. Recs(recorded) \in [Decisions -> Nat]
    BY <2>1, RecsType
  <2>3. ASSUME NEW d \in Decisions PROVE Recs(recorded)[d] = filled[d]
    <3>1. UnitsOf(recorded, d) <= filled[d] /\ filled[d] <= UnitsOf(recorded, d)
      BY <2>1 DEF BookedExact, Seen
    <3>2. UnitsOf(recorded, d) \in Nat /\ filled[d] \in Nat
      BY <2>1, <2>2, LedgerAssumption DEF Recs
    <3> QED BY <3>1, <3>2 DEF Recs
  <2>4. Recs(recorded) = filled
    BY <2>1, <2>2, <2>3
  <2>5. NetOf("buy") = Net(book, "buy") /\ NetOf("sell") = Net(book, "sell")
    BY DEF NetOf, Net
  <2>6. VenueNet("buy") = SumOn(filled, "buy") /\ VenueNet("sell") = SumOn(filled, "sell")
    BY DEF VenueNet, SumOn, Orders
  <2> QED BY <2>1, <2>4, <2>5, <2>6 DEF Netted
<1> QED BY <1>1, <1>2, <1>3, PTL DEF Spec

=============================================================================
