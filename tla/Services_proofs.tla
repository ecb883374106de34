-------------------------- MODULE Services_proofs ---------------------------
(***************************************************************************)
(* What the services around the trading core promise, for any limits and   *)
(* calendars: one part per component.                                      *)
(***************************************************************************)
EXTENDS Services, SequenceTheorems, Induction

(***************************************************************************)
(* What a restart reads of the log is the damage the governor had counted: *)
(* memory is always the fold of the lines on disk.                         *)
(***************************************************************************)

GovernorSpec == GovernorInit /\ [][GovernorNext]_governorVars

\* A line as the engine writes it: an equity the venue reported, or a result.
Lines == {l \in [kind : {"equity", "closed", "other"}, v : Int, day : Nat] :
            l.kind = "equity" => l.v \in Equities}

Figures == [peak : {0} \union Equities, drawdown : Percents, day : Nat, pnl : Int,
            streak : Nat, last : [equity : Nat, at : Nat]]
Unwritten == {p \in Figures : p.last = Unpersisted}

\* What a restart reads back.
Recalled(s) == FoldLeft(Rehydrated, FreshPerf, s)

LEMMA PercentsAreNumbers == \A d \in Percents : d \in Nat
<1> DEFINE c == 100000
<1>1. c \in Nat /\ Percents = 0 .. c
  BY SMT DEF Percents
<1> HIDE DEF c
<1> QED BY <1>1

LEMMA ShareOf ==
  ASSUME NEW p \in Nat \ {0}, NEW x \in Nat, NEW c \in Nat, x <= c * p
  PROVE  x \div p \in 0 .. c
<1> DEFINE d == x \div p
<1>1. d \in Int /\ p * d <= x /\ x < p * d + p
  BY SMT
<1> HIDE DEF d
<1>2. d >= 0
  <2> SUFFICES ASSUME d + 1 <= 0 PROVE FALSE
    BY <1>1
  <2>1. p * (d + 1) <= 0
    BY <1>1
  <2> QED BY <1>1, <2>1
<1>3. d <= c
  <2> SUFFICES ASSUME d >= c + 1 PROVE FALSE
    BY <1>1
  <2>1. p * d >= p * (c + 1)
    BY <1>1
  <2> QED BY <1>1, <2>1
<1> QED BY <1>1, <1>2, <1>3 DEF d

LEMMA DropOf ==
  ASSUME NEW p \in Nat \ {0}, NEW e \in Nat, e <= p, NEW c \in Nat
  PROVE  ((p - e) * c) \div p \in 0 .. c
<1>1. (p - e) * c \in Nat /\ (p - e) * c <= c * p
  BY SMT
<1> QED BY <1>1, ShareOf

LEMMA RecordEquityType ==
  ASSUME NEW p \in Figures, NEW e \in Equities
  PROVE  /\ RecordEquity(p, e) \in Figures
         /\ RecordEquity(p, e).peak = AtLeast(p.peak, e) /\ RecordEquity(p, e).last = p.last
         /\ RecordEquity(p, e).day = p.day /\ RecordEquity(p, e).pnl = p.pnl
         /\ RecordEquity(p, e).streak = p.streak
<1> DEFINE peak == AtLeast(p.peak, e)
           c == 100000
           d == ((peak - e) * c) \div peak
<1>1. c \in Nat /\ Percents = 0 .. c
  BY SMT DEF Percents
<1>2. RecordEquity(p, e) = [p EXCEPT !.peak = peak, !.drawdown = d]
  BY SMT DEF RecordEquity
<1> HIDE DEF c, d, peak
<1>3. p.peak \in {0} \union Equities
  BY DEF Figures
<1>4. \A x \in Equities : x \in Nat /\ x # 0
  BY GovernorAssumption
<1>5. p.peak \in Nat /\ e \in Nat \ {0}
  BY <1>3, <1>4
<1>6. peak \in Nat \ {0} /\ peak \in Equities /\ e <= peak
  BY <1>3, <1>5 DEF AtLeast, peak
<1>7. ((peak - e) * c) \div peak \in 0 .. c
  BY <1>1, <1>5, <1>6, DropOf
<1>8. d \in Percents
  BY <1>1, <1>7 DEF d
<1> QED BY <1>2, <1>6, <1>8 DEF Figures, peak

LEMMA RecordTradeClosedType ==
  ASSUME NEW p \in Figures, NEW v \in Int, NEW date \in Nat
  PROVE  RecordTradeClosed(p, v, date) \in Figures /\ RecordTradeClosed(p, v, date).last = p.last
         /\ RecordTradeClosed(p, v, date).peak = p.peak
<1>1. /\ (IF p.day = date THEN p.pnl ELSE 0) + v \in Int
      /\ (IF v < 0 THEN p.streak + 1 ELSE IF v > 0 THEN 0 ELSE p.streak) \in Nat
  BY DEF Figures
<1> QED BY <1>1 DEF Figures, RecordTradeClosed

LEMMA RehydratedType ==
  ASSUME NEW p \in Unwritten, NEW e \in Lines
  PROVE  Rehydrated(p, e) \in Unwritten
BY RecordEquityType, RecordTradeClosedType DEF Rehydrated, Unwritten, Lines

LEMMA RecalledRun ==
  ASSUME NEW s \in Seq(Lines)
  PROVE  \E run \in [0 .. Len(s) -> Unwritten] :
           /\ run[0] = FreshPerf
           /\ \A i \in 1 .. Len(s) : run[i] = Rehydrated(run[i - 1], s[i])
           /\ Recalled(s) = run[Len(s)]
<1> DEFINE n == Len(s)
           A == Unwritten
           base == FreshPerf
           F == [p \in (1 .. n) \X A |-> Rehydrated(p[2], s[p[1]])]
           Eq(h) == h = [u \in SUBSET (1 .. n) |->
                           IF u = {} THEN base ELSE Rehydrated(h[u \ {Max(u)}], s[Max(u)])]
           it == CHOOSE h : Eq(h)
<1>1. n \in Nat /\ DOMAIN s = 1 .. n /\ \A i \in 1 .. n : s[i] \in Lines
  BY LenProperties
<1>2. F \in [(1 .. n) \X A -> A] /\ base \in A
  <2>1. base \in A
    <3>1. 0 \in Percents
      BY SMT DEF Percents
    <3> QED BY <3>1 DEF Unwritten, Figures, FreshPerf, Unpersisted
  <2>2. \A p \in (1 .. n) \X A : Rehydrated(p[2], s[p[1]]) \in A
    BY <1>1, RehydratedType
  <2> QED BY <2>1, <2>2
<1>3. ASSUME NEW i \in 1 .. n, NEW a \in A PROVE F[<<i, a>>] = Rehydrated(a, s[i])
  BY <1>3
<1>4. Recalled(s) = it[1 .. n]
  BY <1>1 DEF Recalled, FoldLeft, MapThenFoldSet
<1> HIDE DEF F, n, A, base
<1>5. ASSUME NEW u \in SUBSET (1 .. n), u # {} PROVE Max(u) \in 1 .. n /\ u \ {Max(u)} \in SUBSET (1 .. n)
  BY <1>1, <1>5, MaxOfSome
<1>6. ASSUME NEW h, IsTable(h, A, base, n, F) PROVE Obeys(it, A, base, n, F)
  <2>1. Eq(h)
    BY <1>3, <1>5, <1>6 DEF IsTable
  <2> HIDE DEF Eq
  <2>2. Eq(it)
    BY <2>1
  <2> HIDE DEF it
  <2> USE DEF Eq
  <2> QED BY <1>3, <1>5, <2>2 DEF Obeys
<1> HIDE DEF it
<1>7. PICK run : IsRun(run, A, base, n, F) /\ it[1 .. n] = run[n]
  <2>1. Folds(it, A, base, n, F)
    BY <1>1, <1>2, <1>6, FoldRun
  <2> QED BY <2>1 DEF Folds
<1>8. ASSUME NEW i \in 1 .. n PROVE run[i] = Rehydrated(run[i - 1], s[i])
  <2>1. i - 1 \in 0 .. n
    BY <1>1
  <2> QED BY <1>3, <1>7, <2>1 DEF IsRun
<1> QED BY <1>4, <1>7, <1>8 DEF n, A, base, IsRun

LEMMA RecalledAppend ==
  ASSUME NEW s \in Seq(Lines), NEW e \in Lines
  PROVE  Recalled(Append(s, e)) = Rehydrated(Recalled(s), e) /\ Recalled(s) \in Unwritten
<1> DEFINE t == Append(s, e)
           n == Len(s)
<1>1. n \in Nat /\ t \in Seq(Lines) /\ Len(t) = n + 1 /\ t[n + 1] = e /\ \A i \in 1 .. n : t[i] = s[i]
  BY AppendProperties, LenProperties
<1> HIDE DEF t, n
<1>2. PICK f \in [0 .. n -> Unwritten] :
           /\ f[0] = FreshPerf /\ \A i \in 1 .. n : f[i] = Rehydrated(f[i - 1], s[i])
           /\ Recalled(s) = f[n]
  BY RecalledRun DEF n
<1>3. PICK g \in [0 .. n + 1 -> Unwritten] :
           /\ g[0] = FreshPerf /\ \A i \in 1 .. n + 1 : g[i] = Rehydrated(g[i - 1], t[i])
           /\ Recalled(t) = g[n + 1]
  BY <1>1, RecalledRun
<1>4. \A i \in 1 .. n : g[i - 1] = f[i - 1] => g[i] = f[i]
  <2> SUFFICES ASSUME NEW i \in 1 .. n, g[i - 1] = f[i - 1] PROVE g[i] = f[i]
    OBVIOUS
  <2>1. i \in 1 .. n + 1
    BY <1>1
  <2> QED BY <1>1, <1>2, <1>3, <2>1
<1>5. g[n] = f[n]
  <2>1. Alike(g, f, n)
    BY <1>2, <1>3, <1>4 DEF Alike
  <2> QED BY <1>1, <2>1, SameRun
<1>6. g[n + 1] = Rehydrated(g[n], e)
  <2>1. n + 1 \in 1 .. n + 1 /\ (n + 1) - 1 = n
    BY <1>1
  <2> QED BY <1>1, <1>3, <2>1
<1>7. f[n] \in Unwritten
  BY <1>1, <1>2
<1> QED BY <1>2, <1>3, <1>5, <1>6, <1>7 DEF t

\* A line that is not the engine's says nothing at the head of the log.
LEMMA RecalledTail ==
  ASSUME NEW s \in Seq(Lines), s # <<>>, s[1].kind = "other"
  PROVE  SubSeq(s, 2, Len(s)) \in Seq(Lines) /\ Recalled(SubSeq(s, 2, Len(s))) = Recalled(s)
<1> DEFINE t == SubSeq(s, 2, Len(s))
           n == Len(s) - 1
<1>1. Len(s) \in Nat /\ Len(s) # 0 /\ \A i \in 1 .. Len(s) : s[i] \in Lines
  BY LenProperties, EmptySeq
<1>2. n \in Nat /\ Len(s) = n + 1
  BY <1>1
<1>3. t \in Seq(Lines) /\ Len(t) = n /\ \A i \in 1 .. n : t[i] = s[i + 1]
  <2>1. \A i \in 2 .. Len(s) : s[i] \in Lines
    BY <1>1
  <2>2. /\ t \in Seq(Lines)
        /\ Len(t) = IF 2 <= Len(s) THEN Len(s) - 2 + 1 ELSE 0
        /\ \A i \in 1 .. Len(s) - 2 + 1 : t[i] = s[2 + i - 1]
    BY <1>1, <2>1, SubSeqProperties
  <2>3. \A i \in 1 .. n : i \in 1 .. Len(s) - 2 + 1 /\ 2 + i - 1 = i + 1
    BY <1>2
  <2> HIDE DEF t, n
  <2>4. Len(t) = n
    BY <1>2, <2>2
  <2>5. ASSUME NEW i \in 1 .. n PROVE t[i] = s[i + 1]
    BY <2>2, <2>3
  <2> QED BY <2>2, <2>4, <2>5
<1> HIDE DEF t, n
<1>4. PICK f \in [0 .. n -> Unwritten] :
           /\ f[0] = FreshPerf /\ \A i \in 1 .. n : f[i] = Rehydrated(f[i - 1], t[i])
           /\ Recalled(t) = f[n]
  BY <1>3, RecalledRun
<1>5. PICK g \in [0 .. n + 1 -> Unwritten] :
           /\ g[0] = FreshPerf /\ \A i \in 1 .. n + 1 : g[i] = Rehydrated(g[i - 1], s[i])
           /\ Recalled(s) = g[n + 1]
  BY <1>2, RecalledRun
<1> DEFINE h == [i \in 0 .. n |-> g[i + 1]]
<1>6. h[0] = FreshPerf
  <2>1. g[1] = Rehydrated(g[0], s[1])
    BY <1>2, <1>5
  <2>2. g[1] = FreshPerf
    BY <1>5, <2>1 DEF Rehydrated
  <2> QED BY <1>2, <2>2
<1>7. \A i \in 1 .. n : f[i - 1] = h[i - 1] => f[i] = h[i]
  <2> SUFFICES ASSUME NEW i \in 1 .. n, f[i - 1] = h[i - 1] PROVE f[i] = h[i]
    OBVIOUS
  <2>1. /\ i + 1 \in 1 .. n + 1 /\ (i + 1) - 1 = i /\ (i - 1) + 1 = i
        /\ i \in 0 .. n /\ i - 1 \in 0 .. n
    BY <1>2
  <2>2. h[i] = g[i + 1] /\ h[i - 1] = g[i]
    BY <2>1
  <2> HIDE DEF h
  <2> QED BY <1>3, <1>4, <1>5, <2>1, <2>2
<1>8. h[n] = g[n + 1]
  BY <1>2
<1> HIDE DEF h
<1>9. f[n] = h[n]
  <2>1. Alike(f, h, n)
    BY <1>4, <1>6, <1>7 DEF Alike
  <2> QED BY <1>2, <2>1, SameRun
<1> QED BY <1>3, <1>4, <1>5, <1>8, <1>9 DEF t

\* While no line of the engine's was lost, a restart would read back the streak and
\* the day's result, and a peak that the throttle kept from the log by less than
\* PersistDelta.
Remembers(p, q) ==
  /\ q.streak = p.streak /\ q.day = p.day /\ q.pnl = p.pnl
  /\ p.peak - q.peak < PersistDelta
  /\ p.last # Unpersisted => p.last.equity <= q.peak

GovernorInv ==
  /\ perf \in Figures /\ damageLog \in Seq(Lines) /\ Len(damageLog) <= GovernorView
  /\ portfolio \in Account /\ verdict \in {"none", "approved", "rejected"}
  /\ instant \in 0 .. LastInstant /\ happened \in 0 .. MaxHappenings /\ reboots \in 0 .. MaxReboots
  /\ slid \in BOOLEAN /\ cut \in BOOLEAN
  /\ ~ slid /\ ~ cut => Remembers(perf, Recalled(damageLog))

LEMMA TelegramIsLine == Telegram \in Lines /\ Telegram.kind = "other"
BY DEF Telegram, Lines

\* A line goes to the end of the log or is lost; only Telegram may be pushed out unnoticed.
LEMMA JournalsKeeps ==
  ASSUME GovernorInv, NEW e \in Lines, Journals(e)
  PROVE  /\ damageLog' \in Seq(Lines) /\ Len(damageLog') <= GovernorView
         /\ slid' \in BOOLEAN /\ cut' \in BOOLEAN
         /\ ~ slid' /\ ~ cut' => /\ ~ slid /\ ~ cut
                                 /\ Recalled(damageLog') = Rehydrated(Recalled(damageLog), e)
<1>0. /\ damageLog \in Seq(Lines) /\ Len(damageLog) <= GovernorView /\ Len(damageLog) \in Nat
      /\ slid \in BOOLEAN /\ cut \in BOOLEAN /\ GovernorView \in Nat \ {0}
  BY LenProperties, GovernorAssumption DEF GovernorInv
<1>1. CASE cut' = TRUE /\ UNCHANGED <<damageLog, slid>>
  BY <1>0, <1>1
<1>2. CASE /\ slid' = (slid \/ (Len(damageLog) = GovernorView /\ Head(damageLog) # Telegram))
           /\ damageLog' = LET l == Append(damageLog, e) IN
                           SubSeq(l, IF Len(l) > GovernorView THEN 2 ELSE 1, Len(l))
           /\ UNCHANGED cut
  <2> DEFINE l == Append(damageLog, e)
             n == Len(damageLog)
  <2>1. /\ l \in Seq(Lines) /\ l # <<>> /\ Len(l) = n + 1
        /\ \A i \in 1 .. n : l[i] = damageLog[i]
    BY <1>0, AppendProperties
  <2>2. Recalled(l) = Rehydrated(Recalled(damageLog), e)
    BY <1>0, RecalledAppend
  <2>3. damageLog' = SubSeq(l, IF Len(l) > GovernorView THEN 2 ELSE 1, Len(l))
    BY <1>2
  <2>4. slid' \in BOOLEAN /\ cut' = cut /\ (~ slid' => ~ slid)
    BY <1>0, <1>2
  <2>5. CASE n < GovernorView
    <3>1. Len(l) <= GovernorView /\ ~ (Len(l) > GovernorView)
      BY <1>0, <2>1, <2>5
    <3>2. damageLog' = l
      <4>1. SubSeq(l, 1, Len(l)) = l
        BY <2>1, SubSeqFull
      <4> QED BY <2>3, <3>1, <4>1
    <3> QED BY <1>0, <2>1, <2>2, <2>4, <3>1, <3>2
  <2>6. CASE n = GovernorView
    <3>1. Len(l) > GovernorView /\ 1 \in 1 .. n
      BY <1>0, <2>1, <2>6
    <3>2. damageLog' = SubSeq(l, 2, Len(l))
      BY <2>3, <3>1
    <3>3. damageLog' \in Seq(Lines) /\ Len(damageLog') = n
      <4>1. \A i \in 2 .. Len(l) : l[i] \in Lines
        BY <2>1, LenProperties
      <4>2. Len(l) \in Int /\ 2 \in Int /\ 2 <= Len(l) /\ Len(l) - 2 + 1 = n
        BY <1>0, <2>1, <3>1
      <4> HIDE DEF l
      <4>3. /\ SubSeq(l, 2, Len(l)) \in Seq(Lines)
            /\ Len(SubSeq(l, 2, Len(l))) = IF 2 <= Len(l) THEN Len(l) - 2 + 1 ELSE 0
        BY <4>1, <4>2, SubSeqProperties
      <4> QED BY <3>2, <4>2, <4>3
    <3>4. ASSUME ~ slid' PROVE Recalled(damageLog') = Recalled(l)
      <4>1. Head(damageLog) = Telegram /\ Head(damageLog) = damageLog[1]
        <5>1. Head(damageLog) = Telegram
          BY <1>0, <1>2, <2>6, <3>4
        <5>2. damageLog # <<>>
          BY <1>0, <2>6, EmptySeq
        <5> QED BY <1>0, <5>1, <5>2, HeadTailProperties
      <4>2. l[1].kind = "other"
        BY <2>1, <3>1, <4>1, TelegramIsLine
      <4> HIDE DEF l
      <4> QED BY <2>1, <3>2, <4>2, RecalledTail
    <3> QED BY <1>0, <2>2, <2>4, <2>6, <3>3, <3>4
  <2>7. n < GovernorView \/ n = GovernorView
    BY <1>0
  <2> QED BY <2>5, <2>6, <2>7
<1> QED BY <1>1, <1>2 DEF Journals

\* Counting an equity or a result leaves what a restart reads back as near as it was.
LEMMA RecordEquityRemembers ==
  ASSUME NEW p \in Figures, NEW q \in Figures, NEW e \in Equities, Remembers(p, q)
  PROVE  /\ Remembers([RecordEquity(p, e) EXCEPT !.last = [equity |-> e, at |-> instant]],
                      RecordEquity(q, e))
         /\ ~ ShouldPersistEquity(p, e) => Remembers(RecordEquity(p, e), q)
<1> DEFINE x == RecordEquity(p, e)
           y == RecordEquity(q, e)
           z == [x EXCEPT !.last = [equity |-> e, at |-> instant]]
<1>1. /\ x \in Figures /\ x.peak = AtLeast(p.peak, e) /\ x.last = p.last
      /\ x.day = p.day /\ x.pnl = p.pnl /\ x.streak = p.streak
  BY RecordEquityType
<1>2. /\ y.peak = AtLeast(q.peak, e) /\ y.day = q.day /\ y.pnl = q.pnl /\ y.streak = q.streak
  BY RecordEquityType
<1>3. /\ z.peak = x.peak /\ z.day = x.day /\ z.pnl = x.pnl /\ z.streak = x.streak
      /\ z.last.equity = e
  BY <1>1 DEF Figures
<1>4. /\ p.peak \in {0} \union Equities /\ q.peak \in {0} \union Equities
      /\ p.last.equity \in Nat
  BY DEF Figures
<1>5. \A v \in Equities : v \in Nat /\ v # 0
  BY GovernorAssumption
<1>6. p.peak \in Nat /\ q.peak \in Nat /\ e \in Nat /\ PersistDelta \in Nat
  <2>1. \A v \in {0} \union Equities : v \in Nat
    BY <1>5
  <2>2. PersistDelta \in Nat
    BY GovernorAssumption
  <2> QED BY <1>4, <2>1, <2>2
<1> HIDE DEF x, y, z
<1>7. Remembers(z, y)
  <2>1. z.peak = AtLeast(p.peak, e) /\ y.peak = AtLeast(q.peak, e) /\ p.peak - q.peak < PersistDelta
    BY <1>1, <1>2, <1>3 DEF Remembers
  <2>2. z.peak - y.peak < PersistDelta /\ e <= y.peak
    BY <1>6, <2>1, GovernorAssumption DEF AtLeast
  <2>3. z.streak = y.streak /\ z.day = y.day /\ z.pnl = y.pnl
    BY <1>1, <1>2, <1>3 DEF Remembers
  <2> QED BY <1>3, <2>2, <2>3 DEF Remembers
<1>8. ASSUME ~ ShouldPersistEquity(p, e) PROVE Remembers(x, q)
  <2> DEFINE delta == IF e > p.last.equity THEN e - p.last.equity ELSE p.last.equity - e
  <2>1. p.last # Unpersisted /\ ~ (delta >= PersistDelta)
    BY <1>8 DEF ShouldPersistEquity
  <2>2. p.last.equity <= q.peak /\ p.peak - q.peak < PersistDelta
    BY <2>1 DEF Remembers
  <2>3. e - p.last.equity < PersistDelta
    BY <1>4, <1>6, <2>1
  <2>4. x.peak - q.peak < PersistDelta
    BY <1>1, <1>4, <1>6, <2>2, <2>3 DEF AtLeast
  <2> HIDE DEF delta
  <2> QED BY <1>1, <2>2, <2>4 DEF Remembers
<1> QED BY <1>7, <1>8 DEF x, y, z

LEMMA RecordTradeClosedRemembers ==
  ASSUME NEW p \in Figures, NEW q \in Figures, NEW v \in Int, NEW date \in Nat, Remembers(p, q)
  PROVE  Remembers(RecordTradeClosed(p, v, date), RecordTradeClosed(q, v, date))
<1>1. \A r \in Figures :
        /\ RecordTradeClosed(r, v, date).day = date
        /\ RecordTradeClosed(r, v, date).pnl = (IF r.day = date THEN r.pnl ELSE 0) + v
        /\ RecordTradeClosed(r, v, date).streak =
             IF v < 0 THEN r.streak + 1 ELSE IF v > 0 THEN 0 ELSE r.streak
        /\ RecordTradeClosed(r, v, date).peak = r.peak
        /\ RecordTradeClosed(r, v, date).last = r.last
  BY DEF Figures, RecordTradeClosed
<1> QED BY <1>1 DEF Remembers

\* A loss is a share of the equity, of naturals.
LEMMA LossIsNumber ==
  ASSUME NEW p \in Figures, NEW e \in Equities
  PROVE  LossPercent(p, e) \in Nat
<1> DEFINE c == 100000
           x == DailyRealizedPnl(p)
           d == AtLeast(1, e)
<1>1. c \in Nat
  BY SMT
<1>2. LossPercent(p, e) = IF x < 0 THEN ((0 - x) * c) \div d ELSE 0
  BY SMT DEF LossPercent
<1>3. x \in Int
  BY DEF DailyRealizedPnl, Figures
<1>4. d \in Nat \ {0}
  <2>1. e \in Nat
    BY GovernorAssumption
  <2> QED BY <2>1 DEF AtLeast
<1> HIDE DEF c, x, d
<1>5. CASE x < 0
  <2>1. 0 - x \in Nat
    BY <1>3, <1>5
  <2> DEFINE y == (0 - x) * c
  <2>2. y \in Nat /\ y <= y * d
    <3> DEFINE m == 0 - x
    <3>1. m * c \in Nat
      <4> HIDE DEF m
      <4> QED BY <1>1, <2>1 DEF m
    <3>2. y \in Nat
      BY <3>1
    <3> HIDE DEF y
    <3> QED BY <1>4, <3>2
  <2> HIDE DEF y
  <2>3. y \div d \in 0 .. y
    BY <1>4, <2>2, ShareOf
  <2> QED BY <1>2, <1>5, <2>2, <2>3 DEF y
<1> QED BY <1>2, <1>3, <1>5

LEMMA GovernorInvInit ==
  ASSUME GovernorInit
  PROVE  GovernorInv
<1>1. FreshPerf \in Unwritten /\ <<>> \in Seq(Lines) /\ Len(<<>>) = 0
  <2>1. 0 \in Percents
    BY SMT DEF Percents
  <2> QED BY <2>1 DEF Unwritten, Figures, FreshPerf, Unpersisted
<1>2. Recalled(<<>>) = FreshPerf
  <2>1. PICK run \in [0 .. Len(<<>>) -> Unwritten] :
             run[0] = FreshPerf /\ Recalled(<<>>) = run[Len(<<>>)]
    BY <1>1, RecalledRun
  <2> QED BY <1>1, <2>1
<1>3. Remembers(FreshPerf, FreshPerf)
  BY GovernorAssumption DEF Remembers, FreshPerf
<1>4. NoAccount \in Account
  BY DEF NoAccount, Account
<1>5. /\ 0 \in 0 .. LastInstant /\ 0 \in 0 .. MaxHappenings /\ 0 \in 0 .. MaxReboots
      /\ 0 <= GovernorView
  BY GovernorAssumption
<1>6. Remembers(perf, Recalled(damageLog))
  BY <1>2, <1>3 DEF GovernorInit
<1>7. /\ perf = FreshPerf /\ damageLog = <<>> /\ portfolio = NoAccount /\ verdict = "none"
      /\ instant = 0 /\ happened = 0 /\ reboots = 0 /\ slid = FALSE /\ cut = FALSE
  BY DEF GovernorInit
<1> QED BY <1>1, <1>4, <1>5, <1>6, <1>7 DEF GovernorInv, Unwritten

LEMMA RefreshKeeps ==
  ASSUME GovernorInv, NEW e \in Equities, RefreshPortfolio(e)
  PROVE  GovernorInv'
<1> DEFINE p == RecordEquity(perf, e)
           line == [kind |-> "equity", v |-> e, day |-> 0]
           z == [p EXCEPT !.last = [equity |-> e, at |-> instant]]
           loss == LossPercent(p, e)
<1>0. /\ perf \in Figures /\ instant \in Nat /\ Recalled(damageLog) \in Figures
      /\ damageLog \in Seq(Lines)
  <2>1. \A x \in Lines : Recalled(damageLog) \in Unwritten
    BY RecalledAppend DEF GovernorInv
  <2> QED BY <2>1, TelegramIsLine, GovernorAssumption DEF GovernorInv, Unwritten
<1>1. p \in Figures /\ loss \in Nat /\ e \in Nat
  BY <1>0, RecordEquityType, LossIsNumber, GovernorAssumption
<1>2. line \in Lines /\ z \in Figures
  <2>1. line \in Lines
    BY <1>1, GovernorAssumption DEF Lines
  <2> HIDE DEF p
  <2> QED BY <1>0, <1>1, <2>1 DEF Figures
<1>3. portfolio' = [equity |-> e, loss |-> loss, drawdown |-> p.drawdown, streak |-> p.streak]
  BY DEF RefreshPortfolio
<1>4. portfolio' \in Account
  <2>1. p.drawdown \in Nat /\ p.streak \in Nat
    <3> HIDE DEF p
    <3>1. p.drawdown \in Percents /\ p.streak \in Nat
      BY <1>1 DEF Figures
    <3>2. \A d \in Percents : d \in Nat
      BY PercentsAreNumbers
    <3> QED BY <3>1, <3>2
  <2> HIDE DEF p, loss
  <2> QED BY <1>1, <1>3, <2>1 DEF Account
<1>5. /\ happened' \in 0 .. MaxHappenings /\ UNCHANGED <<instant, reboots>> /\ verdict' = "none"
  <2>1. Counted /\ UNCHANGED <<instant, reboots>> /\ verdict' = "none"
    BY DEF RefreshPortfolio
  <2> QED BY <2>1, GovernorAssumption DEF Counted, GovernorInv
<1>6. CASE ShouldPersistEquity(perf, e)
  <2>1. perf' = z /\ Journals(line)
    BY <1>6 DEF RefreshPortfolio
  <2>2. /\ damageLog' \in Seq(Lines) /\ Len(damageLog') <= GovernorView
        /\ slid' \in BOOLEAN /\ cut' \in BOOLEAN
        /\ ~ slid' /\ ~ cut' => /\ ~ slid /\ ~ cut
                                /\ Recalled(damageLog') = Rehydrated(Recalled(damageLog), line)
    BY <1>2, <2>1, JournalsKeeps
  <2>3. Rehydrated(Recalled(damageLog), line) = RecordEquity(Recalled(damageLog), e)
    BY DEF Rehydrated
  <2>4. ASSUME ~ slid', ~ cut' PROVE Remembers(z, Recalled(damageLog'))
    <3>1. Remembers(perf, Recalled(damageLog))
      BY <2>2, <2>4 DEF GovernorInv
    <3> QED BY <1>0, <2>2, <2>3, <2>4, <3>1, RecordEquityRemembers
  <2>5. ~ slid' /\ ~ cut' => Remembers(perf', Recalled(damageLog'))
    BY <2>1, <2>4
  <2> HIDE DEF p, line, z, loss
  <2> QED BY <1>2, <1>4, <1>5, <2>1, <2>2, <2>5 DEF GovernorInv
<1>7. CASE ~ ShouldPersistEquity(perf, e)
  <2>1. perf' = p /\ UNCHANGED <<damageLog, slid, cut>>
    BY <1>7 DEF RefreshPortfolio
  <2>2. ASSUME ~ slid, ~ cut PROVE Remembers(p, Recalled(damageLog))
    <3>1. Remembers(perf, Recalled(damageLog))
      BY <2>2 DEF GovernorInv
    <3> QED BY <1>0, <1>7, <3>1, RecordEquityRemembers
  <2> HIDE DEF p, line, z, loss
  <2>3. ~ slid' /\ ~ cut' => Remembers(perf', Recalled(damageLog'))
    BY <2>1, <2>2
  <2> QED BY <1>1, <1>4, <1>5, <2>1, <2>3 DEF GovernorInv
<1> QED BY <1>6, <1>7

LEMMA CloseKeeps ==
  ASSUME GovernorInv, NEW v \in Outcomes, TradeCloses(v)
  PROVE  GovernorInv'
<1> DEFINE date == Day(instant)
           p == RecordTradeClosed(perf, v, date)
           line == [kind |-> "closed", v |-> v, day |-> date]
<1>0. /\ perf \in Figures /\ Recalled(damageLog) \in Figures /\ v \in Int
      /\ instant \in Nat /\ DayLength \in Nat \ {0}
  <2>1. \A x \in Lines : Recalled(damageLog) \in Unwritten
    BY RecalledAppend DEF GovernorInv
  <2> QED BY <2>1, TelegramIsLine, GovernorAssumption DEF GovernorInv, Unwritten
<1>1. date \in Nat
  BY <1>0, SMT DEF Day
<1> HIDE DEF date
<1>2. p \in Figures /\ line \in Lines
  BY <1>0, <1>1, RecordTradeClosedType DEF Lines
<1>3. /\ perf' = p /\ Journals(line) /\ UNCHANGED <<portfolio, verdict, instant, reboots>> /\ Counted
  BY DEF TradeCloses, date
<1>4. /\ damageLog' \in Seq(Lines) /\ Len(damageLog') <= GovernorView
      /\ slid' \in BOOLEAN /\ cut' \in BOOLEAN
      /\ ~ slid' /\ ~ cut' => /\ ~ slid /\ ~ cut
                              /\ Recalled(damageLog') = Rehydrated(Recalled(damageLog), line)
  BY <1>2, <1>3, JournalsKeeps
<1>5. Rehydrated(Recalled(damageLog), line) = RecordTradeClosed(Recalled(damageLog), v, date)
  BY DEF Rehydrated
<1>6. ASSUME ~ slid', ~ cut' PROVE Remembers(p, Recalled(damageLog'))
  <2>1. Remembers(perf, Recalled(damageLog))
    BY <1>4, <1>6 DEF GovernorInv
  <2> QED BY <1>0, <1>1, <1>4, <1>5, <1>6, <2>1, RecordTradeClosedRemembers
<1>7. happened' \in 0 .. MaxHappenings
  BY <1>3, GovernorAssumption DEF Counted, GovernorInv
<1> HIDE DEF p, line
<1>8. ~ slid' /\ ~ cut' => Remembers(perf', Recalled(damageLog'))
  BY <1>3, <1>6
<1> QED BY <1>2, <1>3, <1>4, <1>7, <1>8 DEF GovernorInv

LEMMA OtherLineKeeps ==
  ASSUME GovernorInv, KernelJournals
  PROVE  GovernorInv'
<1>1. /\ damageLog' \in Seq(Lines) /\ Len(damageLog') <= GovernorView
      /\ slid' \in BOOLEAN /\ cut' \in BOOLEAN
      /\ ~ slid' /\ ~ cut' => /\ ~ slid /\ ~ cut
                              /\ Recalled(damageLog') = Rehydrated(Recalled(damageLog), Telegram)
  BY TelegramIsLine, JournalsKeeps DEF KernelJournals
<1>2. Rehydrated(Recalled(damageLog), Telegram) = Recalled(damageLog)
  BY TelegramIsLine DEF Rehydrated
<1>3. UNCHANGED <<perf, portfolio, verdict, instant, reboots>> /\ happened' \in 0 .. MaxHappenings
  BY GovernorAssumption DEF KernelJournals, Counted, GovernorInv
<1>4. ~ slid' /\ ~ cut' => Remembers(perf', Recalled(damageLog'))
  BY <1>1, <1>2, <1>3 DEF GovernorInv
<1> QED BY <1>1, <1>3, <1>4 DEF GovernorInv

\* A restart knows what the log says, and nothing else.
LEMMA RebootKeeps ==
  ASSUME GovernorInv, GovernorReboots
  PROVE  GovernorInv' /\ perf' = Recalled(damageLog)
<1>1. /\ perf' = Recalled(damageLog) /\ portfolio' = NoAccount /\ verdict' = "none"
      /\ UNCHANGED <<damageLog, instant, happened, slid, cut>> /\ reboots' \in 0 .. MaxReboots
  BY GovernorAssumption DEF GovernorReboots, Recalled, GovernorInv
<1>2. Recalled(damageLog) \in Unwritten
  BY RecalledAppend, TelegramIsLine DEF GovernorInv
<1>3. NoAccount \in Account
  BY DEF NoAccount, Account
<1>4. Remembers(Recalled(damageLog), Recalled(damageLog))
  <2>1. Recalled(damageLog).peak \in Nat
    <3>1. Recalled(damageLog).peak \in {0} \union Equities
      BY <1>2 DEF Unwritten, Figures
    <3>2. \A v \in {0} \union Equities : v \in Nat
      BY GovernorAssumption
    <3> QED BY <3>1, <3>2
  <2>2. PersistDelta \in Nat /\ 0 < PersistDelta
    BY GovernorAssumption
  <2>3. Recalled(damageLog).last = Unpersisted
    BY <1>2 DEF Unwritten
  <2> QED BY <2>1, <2>2, <2>3 DEF Remembers
<1>5. Remembers(perf', Recalled(damageLog'))
  BY <1>1, <1>4
<1> QED BY <1>1, <1>2, <1>3, <1>5 DEF GovernorInv, Unwritten

LEMMA GovernorInvStep == GovernorInv /\ [GovernorNext]_governorVars => GovernorInv'
<1> SUFFICES ASSUME GovernorInv, [GovernorNext]_governorVars PROVE GovernorInv'
  OBVIOUS
<1>1. CASE \E e \in Equities : RefreshPortfolio(e)
  BY <1>1, RefreshKeeps
<1>2. CASE \E v \in Outcomes : TradeCloses(v)
  BY <1>2, CloseKeeps
<1>3. CASE \E q \in Questions : Asks(q)
  <2>1. /\ UNCHANGED <<perf, damageLog, portfolio, instant, happened, reboots, slid, cut>>
        /\ verdict' \in {"none", "approved", "rejected"}
    BY <1>3 DEF Asks
  <2> QED BY <2>1 DEF GovernorInv
<1>4. CASE InstantPasses
  <2>1. /\ UNCHANGED <<perf, damageLog, portfolio, verdict, happened, reboots, slid, cut>>
        /\ instant' \in 0 .. LastInstant
    BY <1>4, GovernorAssumption DEF InstantPasses, GovernorInv
  <2> QED BY <2>1 DEF GovernorInv
<1>5. CASE UNCHANGED governorVars
  BY <1>5 DEF governorVars, GovernorInv
<1> QED BY <1>1, <1>2, <1>3, <1>4, <1>5, OtherLineKeeps, RebootKeeps DEF GovernorNext

\* The figures keep their types, the log its lines.
THEOREM GovernorTypes == GovernorSpec => []GovernorTypeOK
<1>1. GovernorInv => GovernorTypeOK
  <2> SUFFICES ASSUME GovernorInv PROVE GovernorTypeOK
    OBVIOUS
  <2>1. damageLog \in Seq([kind : {"equity", "closed", "other"}, v : Int, day : Nat])
    <3> DEFINE T == [kind : {"equity", "closed", "other"}, v : Int, day : Nat]
    <3>1. damageLog \in Seq(Lines) /\ Lines \subseteq T
      BY DEF GovernorInv, Lines
    <3> HIDE DEF T
    <3>2. damageLog \in [1 .. Len(damageLog) -> T] /\ Len(damageLog) \in Nat
      BY <3>1, LenProperties
    <3>3. damageLog \in Seq(T)
      BY <3>2, SeqDef
    <3> QED BY <3>3 DEF T
  <2>2. perf \in [peak : {0} \union Equities, drawdown : Percents, day : Nat, pnl : Int,
                 streak : Nat, last : [equity : Nat, at : Nat]]
    <3>1. perf \in Figures
      BY DEF GovernorInv
    <3> QED BY <3>1 DEF Figures
  <2>3. Len(damageLog) <= GovernorView
    BY DEF GovernorInv
  <2>4. /\ portfolio \in Account /\ verdict \in {"none", "approved", "rejected"}
        /\ instant \in 0 .. LastInstant /\ happened \in 0 .. MaxHappenings
        /\ reboots \in 0 .. MaxReboots /\ slid \in BOOLEAN /\ cut \in BOOLEAN
    BY DEF GovernorInv
  <2> QED BY <2>1, <2>2, <2>3, <2>4 DEF GovernorTypeOK
<1> QED BY <1>1, GovernorInvInit, GovernorInvStep, PTL DEF GovernorSpec

\* As long as every line is in the window and every append went through, a restart
\* remembers the streak and the day's result exactly, and the peak to within what the
\* throttle holds back, for any limits, window, throttle and outcomes.  Alone it is not
\* inductive: what the log gives back must be followed through every append
\* (performance-engine.ts:76-98).
THEOREM RestartRemembersDamage == GovernorSpec => DamageSurvivesRestart
<1>1. GovernorInv /\ [GovernorNext]_governorVars
        => [reboots' # reboots /\ ~ slid /\ ~ cut => StillKnown(perf, perf')]_governorVars
  <2> SUFFICES ASSUME GovernorInv, [GovernorNext]_governorVars, reboots' # reboots, ~ slid, ~ cut
               PROVE  StillKnown(perf, perf')
    OBVIOUS
  <2>1. GovernorReboots
    BY DEF GovernorNext, governorVars, RefreshPortfolio, TradeCloses, Asks, KernelJournals, InstantPasses
  <2>2. perf' = Recalled(damageLog) /\ Remembers(perf, Recalled(damageLog))
    BY <2>1, RebootKeeps DEF GovernorInv
  <2>3. Remembers(perf, perf')
    BY <2>2
  <2> QED BY <2>3 DEF StillKnown, Remembers, DailyRealizedPnl
<1> QED BY <1>1, GovernorInvInit, GovernorInvStep, PTL DEF GovernorSpec, DamageSurvivesRestart

(***************************************************************************)
(* More damage never leaves more risk, for any limits.  The circuit alone  *)
(* does not have this order: half the daily loss makes of REDUCED, which a *)
(* full streak gives, the milder CAUTION.  The check of the streak that    *)
(* evaluateRisk makes beside it restores the order.                        *)
(***************************************************************************)

\* While the streak is not full the states are ordered by the damage.
Gravity(s) ==
  IF s = "NORMAL" THEN 0 ELSE IF s = "CAUTION" THEN 1 ELSE IF s = "REDUCED" THEN 2
  ELSE IF s = "HALTED" THEN 3 ELSE 4

LEMMA LimitsAreNumbers ==
  /\ Limits.dailyLoss \in Nat /\ Limits.drawdown \in Nat /\ Limits.streak \in Nat
BY LimitsAssumption

LEMMA Floor ==
  /\ AtLeast(1, Limits.streak - 1) \in Nat
  /\ Limits.streak > AtLeast(1, Limits.streak - 1) \/ Limits.streak <= 1
BY LimitsAreNumbers DEF AtLeast

LEMMA ShareOfGravity ==
  ASSUME NEW a \in Account
  PROVE  /\ Gravity(Circuit(a)) \in 0 .. 4
         /\ Circuit(a) \in {"HALTED", "EMERGENCY"} <=> Gravity(Circuit(a)) >= 3
         /\ Gravity(Circuit(a)) < 3
              => CircuitRiskMultiplier(Circuit(a)) = 4 - Gravity(Circuit(a))
BY DEF Circuit, DeriveCircuitState, Gravity, CircuitRiskMultiplier

\* Without a full streak the circuit is as severe as its worst cause.
LEMMA CircuitOrdered ==
  ASSUME NEW a \in Account, NEW b \in Account, MoreDamaged(a, b), b.streak < Limits.streak
  PROVE  Gravity(Circuit(a)) <= Gravity(Circuit(b))
<1>1. /\ a.loss \in Nat /\ a.drawdown \in Nat /\ a.streak \in Nat
      /\ b.loss \in Nat /\ b.drawdown \in Nat /\ b.streak \in Nat
      /\ b.loss >= a.loss /\ b.drawdown >= a.drawdown /\ b.streak >= a.streak
  BY DEF Account, MoreDamaged
<1>2. a.streak < Limits.streak
  BY <1>1, LimitsAreNumbers
<1> QED BY <1>1, <1>2, LimitsAreNumbers, Floor DEF Circuit, DeriveCircuitState, Gravity

LEMMA DamageOrdersRisk ==
  ASSUME NEW a \in Account, NEW b \in Account, MoreDamaged(a, b)
  PROVE  RiskLeft(b) <= RiskLeft(a)
<1>1. RiskLeft(a) \in Nat
  BY ShareOfGravity DEF RiskLeft, CircuitRiskMultiplier
<1>2. CASE ~ MayTrade(b)
  BY <1>1, <1>2 DEF RiskLeft
<1>3. CASE MayTrade(b)
  <2>1. /\ b.streak < Limits.streak /\ b.loss < Limits.dailyLoss
        /\ Circuit(b) \notin {"HALTED", "EMERGENCY"}
    BY <1>3 DEF MayTrade
  <2>2. Gravity(Circuit(a)) <= Gravity(Circuit(b)) /\ Gravity(Circuit(b)) < 3
    BY <2>1, CircuitOrdered, ShareOfGravity
  <2>3. Gravity(Circuit(a)) < 3 /\ Gravity(Circuit(a)) \in Nat /\ Gravity(Circuit(b)) \in Nat
    BY <2>2, ShareOfGravity
  <2>4. MayTrade(a)
    <3>1. Circuit(a) \notin {"HALTED", "EMERGENCY"}
      BY <2>3, ShareOfGravity
    <3>2. a.loss < Limits.dailyLoss /\ a.streak < Limits.streak
      BY <2>1, LimitsAreNumbers DEF Account, MoreDamaged
    <3> QED BY <3>1, <3>2 DEF MayTrade
  <2>5. /\ CircuitRiskMultiplier(Circuit(a)) = 4 - Gravity(Circuit(a))
        /\ CircuitRiskMultiplier(Circuit(b)) = 4 - Gravity(Circuit(b))
    BY <2>2, <2>3, ShareOfGravity
  <2> QED BY <1>3, <2>2, <2>3, <2>4, <2>5 DEF RiskLeft
<1> QED BY <1>2, <1>3

\* Whatever a step does to the account it answers for, more damage in all three
\* measures leaves no larger share of the risk per trade, across refreshes, closes and
\* restarts (risk-config.ts:79-92, risk-engine.ts: circuit_breaker, daily_loss,
\* loss_streak).
THEOREM DamageNeverBuysRisk == GovernorSpec => MoreDamageNeverMoreRisk
<1>1. ASSUME portfolio \in Account, portfolio' \in Account, MoreDamaged(portfolio, portfolio')
      PROVE  RiskLeft(portfolio') <= RiskLeft(portfolio)
  BY <1>1, DamageOrdersRisk
<1>2. GovernorInv /\ GovernorInv'
        => (portfolio # NoAccount /\ MoreDamaged(portfolio, portfolio')
              => RiskLeft(portfolio') <= RiskLeft(portfolio))
  <2> SUFFICES ASSUME GovernorInv, GovernorInv', MoreDamaged(portfolio, portfolio')
               PROVE  RiskLeft(portfolio') <= RiskLeft(portfolio)
    OBVIOUS
  <2>1. portfolio \in Account /\ portfolio' \in Account
    BY DEF GovernorInv, Account
  <2> QED BY <1>1, <2>1
<1>3. GovernorInv /\ [GovernorNext]_governorVars => GovernorInv'
  BY GovernorInvStep
<1> QED BY <1>2, <1>3, GovernorInvInit, PTL DEF GovernorSpec, MoreDamageNeverMoreRisk

(***************************************************************************)
(* A release is guarded when it is due: the last stage of its approach     *)
(* comes within Imminent, and a scan in that time raises the flag.         *)
(***************************************************************************)

MacroSpec == MacroInit /\ [][MacroNext]_macroVars

Eta(e) == ReleaseAt[e] - macroTime

\* No other release is near enough to move the flag while e is guarded.
Alone(e) ==
  \A f \in Releases \ {e} :
    ReleaseAt[f] - ReleaseAt[e] \notin -(Approach + Resolve) .. (Approach + Resolve)

\* The last stage of a release is reached only within the last Imminent of it, a
\* scan in that time reaches it, and it keeps the flag up until the release is due.
GuardInv ==
  /\ macroTime \in Nat /\ scanned \subseteq Releases
  /\ DOMAIN stages = Releases
  /\ \A e \in Releases : stages[e] = "T5" => Eta(e) <= Imminent
  /\ \A e \in scanned : Eta(e) \in 0 .. Imminent => stages[e] = "T5"
  /\ \A e \in Releases : Alone(e) /\ stages[e] = "T5" /\ Eta(e) >= 0 => risk = "VERY_HIGH"

LEMMA MacroNumbers ==
  /\ Approach \in Nat /\ Imminent \in Nat /\ Imminent <= Approach /\ Resolve \in Nat
  /\ \A e \in Releases : ReleaseAt[e] \in Nat
BY MacroAssumption

\* Steps that move neither the clock, the stages nor the flag, and scan nothing new.
LEMMA CalendarStepKeeps ==
  ASSUME GuardInv, UNCHANGED <<macroTime, stages, risk>>, scanned' \subseteq scanned
  PROVE  GuardInv'
BY DEF GuardInv, Eta, Alone

\* The minute that passes brings every release nearer.
LEMMA ClockKeeps ==
  ASSUME GuardInv, MacroClock
  PROVE  GuardInv'
<1>1. /\ macroTime \in Nat /\ macroTime' = macroTime + 1 /\ scanned' = {}
      /\ UNCHANGED <<stages, risk>>
  BY DEF MacroClock, GuardInv
<1>2. ASSUME NEW e \in Releases PROVE Eta(e) \in Int /\ Eta(e)' = Eta(e) - 1
  BY <1>1, MacroNumbers DEF Eta
<1>3. ASSUME NEW e \in Releases, stages'[e] = "T5" PROVE Eta(e)' <= Imminent
  <2>1. Eta(e) <= Imminent
    BY <1>1, <1>3 DEF GuardInv
  <2> QED BY <1>2, <2>1, MacroNumbers
<1>4. ASSUME NEW e \in Releases, Alone(e), stages'[e] = "T5", Eta(e)' >= 0 PROVE risk' = "VERY_HIGH"
  <2>1. Eta(e) >= 0
    BY <1>2, <1>4
  <2> QED BY <1>1, <1>4, <2>1 DEF GuardInv
<1>5. ASSUME NEW e \in Releases PROVE Alone(e)' = Alone(e)
  BY DEF Alone
<1> QED BY <1>1, <1>3, <1>4, <1>5 DEF GuardInv

\* What a scan of e does to its stage and to the flag.
LEMMA ScanFacts ==
  ASSUME GuardInv, NEW e \in Releases, ScanRelease(e)
  PROVE  /\ UNCHANGED macroTime /\ scanned' = scanned \union {e}
         /\ DOMAIN stages' = Releases /\ \A f \in Releases \ {e} : stages'[f] = stages[f]
         /\ Eta(e) \in 0 .. Imminent => stages'[e] = "T5"
         /\ stages'[e] = "T5" => Eta(e) <= Imminent
         /\ stages'[e] = "T5" => risk' = "VERY_HIGH" \/ (stages[e] = "T5" /\ risk' = risk)
         /\ risk' # risk => Eta(e) \in -Resolve .. Approach
<1> DEFINE stage == IF Eta(e) < -Resolve THEN NoStage
                    ELSE IF Eta(e) > Approach THEN stages[e] ELSE Stage(Eta(e))
           moved == stage # stages[e] /\ stage # NoStage
<1>1. /\ UNCHANGED macroTime /\ scanned' = scanned \union {e}
      /\ stages' = [stages EXCEPT ![e] = stage]
      /\ risk' = IF moved THEN RiskAt(stage, stages[e]) ELSE risk
  BY DEF ScanRelease, Eta
<1>2. Eta(e) \in Int
  BY MacroNumbers DEF Eta, GuardInv
<1>3. DOMAIN stages' = Releases /\ stages'[e] = stage /\ \A f \in Releases \ {e} : stages'[f] = stages[f]
  BY <1>1 DEF GuardInv
<1>4. Eta(e) \in 0 .. Imminent => stage = "T5"
  BY <1>2, MacroNumbers DEF Stage
<1>5. stage = "T5" => Eta(e) <= Imminent
  BY <1>2, MacroNumbers DEF Stage, NoStage, GuardInv
<1>6. moved => Eta(e) \in -Resolve .. Approach
  BY <1>2, MacroNumbers
<1>7. stage = "T5" => stage # NoStage /\ RiskAt(stage, stages[e]) = "VERY_HIGH"
  BY DEF NoStage, RiskAt
<1> HIDE DEF stage
<1> QED BY <1>1, <1>3, <1>4, <1>5, <1>6, <1>7

LEMMA ScanKeeps ==
  ASSUME GuardInv, NEW e \in Releases, ScanRelease(e)
  PROVE  GuardInv'
<1>1. /\ UNCHANGED macroTime /\ scanned' = scanned \union {e}
      /\ DOMAIN stages' = Releases /\ \A f \in Releases \ {e} : stages'[f] = stages[f]
      /\ Eta(e) \in 0 .. Imminent => stages'[e] = "T5"
      /\ stages'[e] = "T5" => Eta(e) <= Imminent
      /\ stages'[e] = "T5" => risk' = "VERY_HIGH" \/ (stages[e] = "T5" /\ risk' = risk)
      /\ risk' # risk => Eta(e) \in -Resolve .. Approach
  BY ScanFacts
<1>2. \A f \in Releases : Eta(f)' = Eta(f) /\ Alone(f)' = Alone(f) /\ Eta(f) \in Int
  BY <1>1, MacroNumbers DEF Eta, Alone, GuardInv
<1>3. ASSUME NEW f \in Releases, Alone(f), stages'[f] = "T5", Eta(f) >= 0 PROVE risk' = "VERY_HIGH"
  <2>1. CASE f = e
    BY <1>1, <1>3, <2>1 DEF GuardInv
  <2>2. CASE f # e
    <3>1. stages[f] = "T5" /\ Eta(f) <= Imminent /\ risk = "VERY_HIGH"
      BY <1>1, <1>3, <2>2 DEF GuardInv
    <3>2. ASSUME risk' # risk PROVE FALSE
      <4>1. Eta(e) \in -Resolve .. Approach /\ Eta(f) \in 0 .. Imminent
        BY <1>1, <1>2, <1>3, <3>1, <3>2, MacroNumbers
      <4>2. ReleaseAt[e] - ReleaseAt[f] = Eta(e) - Eta(f)
        BY MacroNumbers DEF Eta, GuardInv
      <4>3. ReleaseAt[e] - ReleaseAt[f] \in -(Approach + Resolve) .. (Approach + Resolve)
        BY <4>1, <4>2, MacroNumbers
      <4> QED BY <1>3, <2>2, <4>3 DEF Alone
    <3> QED BY <3>1, <3>2
  <2> QED BY <2>1, <2>2
<1>4. \A f \in Releases : stages'[f] = "T5" => Eta(f)' <= Imminent
  BY <1>1, <1>2 DEF GuardInv
<1>5. \A f \in scanned' : Eta(f)' \in 0 .. Imminent => stages'[f] = "T5"
  BY <1>1, <1>2 DEF GuardInv
<1> QED BY <1>1, <1>2, <1>3, <1>4, <1>5 DEF GuardInv

LEMMA GuardInvStep ==
  ASSUME GuardInv, [MacroNext]_macroVars
  PROVE  GuardInv'
<1>1. CASE RefreshFeeds
  BY <1>1, CalendarStepKeeps DEF RefreshFeeds
<1>2. CASE FeedAnswers
  BY <1>2, CalendarStepKeeps DEF FeedAnswers
<1>3. CASE MacroClock
  BY <1>3, ClockKeeps
<1>4. CASE \E e \in Releases : ScanRelease(e)
  BY <1>4, ScanKeeps
<1>5. CASE \E n \in News : NewsTold(n)
  BY <1>5, CalendarStepKeeps DEF NewsTold
<1>6. CASE UNCHANGED macroVars
  BY <1>6, CalendarStepKeeps DEF macroVars
<1> QED BY <1>1, <1>2, <1>3, <1>4, <1>5, <1>6 DEF MacroNext

\* From the first scan within the last Imminent before a release until it is due the
\* flag stops every signal, for any calendar, whatever the feeds answer and whenever
\* they replace it, provided no other release is near (macro-engine.ts:95).
THEOREM ReleasesAreGuarded == MacroSpec => []GuardedRelease
<1>1. MacroInit => GuardInv
  BY DEF MacroInit, GuardInv, NoStage
<1>2. GuardInv /\ [MacroNext]_macroVars => GuardInv'
  BY GuardInvStep
<1>3. GuardInv => GuardedRelease
  <2> SUFFICES ASSUME GuardInv, NEW e \in scanned, Eta(e) \in 0 .. Imminent, Alone(e)
               PROVE  risk = "VERY_HIGH"
    BY DEF GuardedRelease, Eta, Alone
  <2>1. e \in Releases /\ stages[e] = "T5"
    BY DEF GuardInv
  <2>2. Eta(e) >= 0
    BY MacroNumbers
  <2> QED BY <2>1, <2>2 DEF GuardInv
<1> QED BY <1>1, <1>2, <1>3, PTL DEF MacroSpec

-----------------------------------------------------------------------------

(***************************************************************************)
(* What the paper broker opened is what it closed and what it holds, for   *)
(* any requests, marks and protections.                                    *)
(***************************************************************************)

PaperSpec == PaperInit /\ [][PaperNext]_paperVars

Places == Pairs \X BookSides
IsPosition(p) ==
  /\ p.size \in Nat
  /\ p = [size |-> p.size, entry |-> p.entry, margin |-> p.margin, mark |-> p.mark,
          stop |-> p.stop, take |-> p.take]
ArePositions(pos) == pos = [b \in Places |-> pos[b]] /\ \A b \in Places : IsPosition(pos[b])

Sizes(pos) == [b \in Places |-> pos[b].size]
HeldIn(pos, S) == MapThenSumSet(LAMBDA b : pos[b].size, S)

PaperInv ==
  /\ ArePositions(positions) /\ entered \in Nat /\ closedOut \in Nat
  /\ entered = closedOut + SumOver(Sizes(positions), Places)

LEMMA PlacesAre == IsFiniteSet(Places) /\ IsFiniteSet(BookSides)
<1>1. IsFiniteSet({"long"}) /\ IsFiniteSet({"short"})
  BY FS_Singleton
<1>2. IsFiniteSet({"long"} \cup {"short"})
  BY <1>1, FS_Union
<1>3. BookSides = {"long"} \cup {"short"}
  BY DEF BookSides
<1> QED BY <1>2, <1>3, FS_Product, PaperAssumption DEF Places

\* The library's sum of the sizes is the sum of the tokens.
LEMMA HeldIs ==
  ASSUME NEW pos, \A b \in Places : pos[b].size \in Nat, NEW S \in SUBSET Places
  PROVE  HeldIn(pos, S) = SumOver(Sizes(pos), S)
<1> DEFINE C(u) == CHOOSE x \in u : TRUE
           Eq(h) == h = [u \in SUBSET S |-> IF u = {} THEN 0 ELSE pos[C(u)].size + h[u \ {C(u)}]]
           it == CHOOSE h : Eq(h)
           f == Sizes(pos)
<1>1. IsFiniteSet(S) /\ \A x \in S : f[x] \in Nat /\ f[x] = pos[x].size
  BY PlacesAre, FS_Subset DEF Sizes
<1>2. HeldIn(pos, S) = it[S]
  BY DEF HeldIn, MapThenSumSet, MapThenFoldSet
<1>3. ASSUME NEW u \in SUBSET S, u # {} PROVE pos[C(u)].size = f[C(u)]
  <2>1. C(u) \in u
    BY <1>3
  <2> HIDE DEF C, f
  <2> QED BY <1>1, <2>1
<1>4. ASSUME NEW h PROVE IsSum(h, f, S) <=> Eq(h)
  <2> DEFINE A(u) == IF u = {} THEN 0 ELSE f[C(u)] + h[u \ {C(u)}]
             B(u) == IF u = {} THEN 0 ELSE pos[C(u)].size + h[u \ {C(u)}]
  <2>1. \A u \in SUBSET S : A(u) = B(u)
    <3> HIDE DEF C, f
    <3> QED BY <1>3
  <2>2. [u \in SUBSET S |-> A(u)] = [u \in SUBSET S |-> B(u)]
    <3> HIDE DEF A, B
    <3> QED BY <2>1
  <2>3. IsSum(h, f, S) <=> h = [u \in SUBSET S |-> A(u)]
    BY DEF IsSum
  <2>4. Eq(h) <=> h = [u \in SUBSET S |-> B(u)]
    OBVIOUS
  <2> HIDE DEF A, B, Eq
  <2> QED BY <2>2, <2>3, <2>4
<1>5. \A h : IsSum(h, f, S) => IsSum(it, f, S)
  <2> SUFFICES ASSUME NEW h, IsSum(h, f, S) PROVE IsSum(it, f, S)
    OBVIOUS
  <2>1. Eq(h)
    BY <1>4
  <2>2. Eq(it)
    <3> HIDE DEF Eq
    <3> QED BY <2>1
  <2> HIDE DEF Eq, it, f
  <2> QED BY <1>4, <2>2
<1> HIDE DEF it, f
<1>6. it[S] = SumOver(f, S)
  BY <1>1, <1>5, SumIsTokens
<1> QED BY <1>2, <1>6 DEF f

\* A position stays one when fields change.
Marked(q, m) == [q EXCEPT !.mark = m]
Guarded(q, m, n) == [q EXCEPT !.stop = m, !.take = n]
Grown(q, k, m) == [q EXCEPT !.size = k, !.entry = m]

LEMMA Fields ==
  ASSUME NEW q, IsPosition(q), NEW m, NEW n, NEW k \in Nat
  PROVE  /\ IsPosition(Marked(q, m)) /\ Marked(q, m).size = q.size
         /\ IsPosition(Guarded(q, m, n)) /\ Guarded(q, m, n).size = q.size
         /\ IsPosition(Grown(q, k, m)) /\ Grown(q, k, m).size = k
<1> DEFINE Rec(sz, en, mg, mk, st, tk) ==
             [size |-> sz, entry |-> en, margin |-> mg, mark |-> mk, stop |-> st, take |-> tk]
<1>1. PICK sz, en, mg, mk, st, tk : q = Rec(sz, en, mg, mk, st, tk)
  BY DEF IsPosition
<1>2. q.size = sz /\ sz \in Nat
  BY <1>1 DEF IsPosition
<1>3. Marked(q, m) = Rec(sz, en, mg, m, st, tk)
  BY <1>1 DEF Marked
<1>4. Guarded(q, m, n) = Rec(sz, en, mg, mk, m, n)
  <2> DEFINE r == [q EXCEPT !.stop = m]
  <2>1. r = Rec(sz, en, mg, mk, m, tk)
    BY <1>1
  <2>2. Guarded(q, m, n) = [r EXCEPT !.take = n]
    BY DEF Guarded
  <2> HIDE DEF r
  <2>3. [r EXCEPT !.take = n] = Rec(sz, en, mg, mk, m, n)
    BY <2>1
  <2> QED BY <2>2, <2>3, Zenon
<1>5. Grown(q, k, m) = Rec(k, m, mg, mk, st, tk)
  <2> DEFINE r == [q EXCEPT !.size = k]
  <2>1. r = Rec(k, en, mg, mk, st, tk)
    BY <1>1
  <2>2. Grown(q, k, m) = [r EXCEPT !.entry = m]
    BY DEF Grown
  <2> HIDE DEF r
  <2>3. [r EXCEPT !.entry = m] = Rec(k, m, mg, mk, st, tk)
    BY <2>1
  <2> QED BY <2>2, <2>3, Zenon
<1>6. \A a \in Nat : \A b, c, d, e, f : IsPosition(Rec(a, b, c, d, e, f)) /\ Rec(a, b, c, d, e, f).size = a
  BY DEF IsPosition
<1> HIDE DEF Rec
<1> QED BY <1>2, <1>3, <1>4, <1>5, <1>6

\* One position changes, and the history with it.
LEMMA OnePlace ==
  ASSUME PaperInv, NEW b \in Places, NEW p, IsPosition(p), NEW n \in Nat, NEW m \in Nat,
         p.size + m = positions[b].size + n,
         positions' = [positions EXCEPT ![b] = p],
         entered' = entered + n, closedOut' = closedOut + m
  PROVE  PaperInv'
<1> DEFINE f == Sizes(positions)
           g == Sizes(positions')
<1>1. ArePositions(positions)'
  <2>1. positions' = [x \in Places |-> IF x = b THEN p ELSE positions[x]]
    BY DEF PaperInv, ArePositions
  <2> QED BY <2>1 DEF PaperInv, ArePositions
<1>2. /\ \A x \in Places : f[x] \in Nat
      /\ f[b] = positions[b].size /\ g[b] = p.size /\ p.size \in Nat
      /\ \A x \in Places \ {b} : g[x] = f[x]
  BY DEF PaperInv, ArePositions, IsPosition, Sizes
<1> HIDE DEF f, g
<1>3. /\ SumOver(f, Places) \in Nat /\ SumOver(g, Places) \in Nat
      /\ SumOver(g, Places) - g[b] = SumOver(f, Places) - f[b]
  BY <1>2, PlacesAre, SumWithout
<1>4. entered = closedOut + SumOver(f, Places) /\ entered \in Nat /\ closedOut \in Nat
  BY DEF PaperInv, f
<1>5. f[b] \in Nat
  BY <1>2
<1>6. entered' = closedOut' + SumOver(g, Places) /\ entered' \in Nat /\ closedOut' \in Nat
  <2>1. \A s, t, c, k, h \in Nat : t - h = s - k /\ h + m = k + n => c + s + n = c + m + t
    OBVIOUS
  <2>2. g[b] + m = f[b] + n /\ g[b] \in Nat
    BY <1>2
  <2>3. closedOut + SumOver(f, Places) + n = closedOut + m + SumOver(g, Places)
    BY <1>3, <1>4, <1>5, <2>2, SMTT(30)
  <2> QED BY <1>3, <1>4, <2>3
<1> QED BY <1>1, <1>6 DEF PaperInv, g

\* Sizes stay: so does everything.
LEMMA SizesStay ==
  ASSUME PaperInv, ArePositions(positions'), \A b \in Places : positions'[b].size = positions[b].size,
         UNCHANGED <<entered, closedOut>>
  PROVE  PaperInv'
<1>1. Sizes(positions') = Sizes(positions)
  BY DEF Sizes
<1> QED BY <1>1 DEF PaperInv

\* Some positions are closed.
LEMMA ClosesSome ==
  ASSUME PaperInv, NEW B \in SUBSET Places,
         positions' = [b \in DOMAIN positions |-> IF b \in B THEN NoPosition ELSE positions[b]],
         closedOut' = closedOut + HeldIn(positions, B), entered' = entered
  PROVE  PaperInv'
<1> DEFINE f == Sizes(positions)
           g == Sizes(positions')
<1>0. positions' = [b \in Places |-> IF b \in B THEN NoPosition ELSE positions[b]]
  BY DEF PaperInv, ArePositions
<1>1. ArePositions(positions)'
  <2>1. IsPosition(NoPosition)
    BY DEF IsPosition, NoPosition
  <2> QED BY <1>0, <2>1 DEF PaperInv, ArePositions
<1>2. /\ \A x \in Places : f[x] \in Nat
      /\ \A x \in Places : g[x] = IF x \in B THEN 0 ELSE f[x]
  BY <1>0 DEF PaperInv, ArePositions, IsPosition, Sizes, NoPosition
<1>3. HeldIn(positions, B) = SumOver(f, B)
  BY HeldIs DEF PaperInv, ArePositions, IsPosition
<1> HIDE DEF f, g
<1>4. /\ SumOver(f, Places) \in Nat /\ SumOver(g, Places) \in Nat /\ SumOver(f, B) \in Nat
      /\ SumOver(f, Places) = SumOver(f, B) + SumOver(g, Places)
  BY <1>2, PlacesAre, SumCleared
<1>5. entered = closedOut + SumOver(f, Places) /\ entered \in Nat /\ closedOut \in Nat
  BY DEF PaperInv, f
<1>6. entered' = closedOut' + SumOver(g, Places) /\ entered' \in Nat /\ closedOut' \in Nat
  BY <1>3, <1>4, <1>5
<1> QED BY <1>1, <1>6 DEF PaperInv, g

LEMMA FillsKeep ==
  ASSUME PaperInv, NEW o \in PaperOrders, NEW price, Fills(o, price)
  PROVE  PaperInv'
<1>0. o.pair \in Pairs /\ o.side \in {"buy", "sell"} /\ o.quantity \in Nat
  BY PaperAssumption
<1>1. ASSUME UNCHANGED <<positions, entered, closedOut>> PROVE PaperInv'
  BY <1>1 DEF PaperInv
<1>2. CASE SlippageBreached(o, price) \/ Margin(o, price) + Fee(o, price) > Available
  BY <1>1, <1>2 DEF Fills, Rejects
<1>3. CASE ~ (SlippageBreached(o, price) \/ Margin(o, price) + Fee(o, price) > Available) /\ ~ o.reduceOnly
  <2> DEFINE b == <<o.pair, SideOf(o.side)>>
             p == IF positions[b] = NoPosition THEN Opened(o, price)
                  ELSE Merged(positions[b], o.quantity, price)
  <2>1. b \in Places
    BY <1>0 DEF Places, BookSides, SideOf
  <2>2. IsPosition(positions[b])
    BY <2>1 DEF PaperInv, ArePositions
  <2>3. IsPosition(p) /\ p.size = positions[b].size + o.quantity
    <3>1. CASE positions[b] = NoPosition
      BY <1>0, <3>1 DEF IsPosition, Opened, NoPosition
    <3>2. CASE positions[b] # NoPosition
      <4>1. p = Merged(positions[b], o.quantity, price)
        BY <3>2
      <4> HIDE DEF b, p
      <4> DEFINE size == positions[b].size + o.quantity
                 entry == (positions[b].entry * size + price * o.quantity) \div (size + o.quantity)
      <4>2. size \in Nat
        BY <1>0, <2>2 DEF IsPosition
      <4>3. p = [positions[b] EXCEPT !.size = size, !.entry = entry]
        BY <4>1 DEF Merged
      <4> HIDE DEF entry, size
      <4>4. IsPosition(p) /\ p.size = size
        <5> DEFINE q == positions[b]
        <5>1. IsPosition(q) /\ p = [q EXCEPT !.size = size, !.entry = entry]
          BY <2>2, <4>3
        <5> HIDE DEF q
        <5>2. p = Grown(q, size, entry)
          BY <5>1 DEF Grown
        <5> QED BY <4>2, <5>1, <5>2, Fields
      <4> QED BY <4>4 DEF size
    <3> QED BY <3>1, <3>2
  <2>4. /\ positions' = [positions EXCEPT ![b] = p]
        /\ entered' = entered + o.quantity /\ closedOut' = closedOut
    BY <1>3 DEF Fills
  <2>5. closedOut' = closedOut + 0 /\ p.size + 0 = positions[b].size + o.quantity
    BY <2>2, <2>3, <2>4, <1>0 DEF PaperInv, IsPosition
  <2> HIDE DEF b, p
  <2> QED BY <1>0, <2>1, <2>3, <2>4, <2>5, OnePlace
<1>4. CASE ~ (SlippageBreached(o, price) \/ Margin(o, price) + Fee(o, price) > Available) /\ o.reduceOnly
  <2> DEFINE b == <<o.pair, OtherSide(o.side)>>
             p == Reduced(positions[b], o.quantity)
             off == TakenOff(o.quantity, positions[b])
  <2>1. b \in Places
    BY <1>0 DEF Places, BookSides, OtherSide
  <2>2. IsPosition(positions[b])
    BY <2>1 DEF PaperInv, ArePositions
  <2>3. /\ positions' = [positions EXCEPT ![b] = p]
        /\ entered' = entered /\ closedOut' = closedOut + off
    BY <1>4 DEF Fills
  <2>4. off \in Nat /\ off <= positions[b].size
    <3> HIDE DEF b
    <3> QED BY <1>0, <2>2 DEF TakenOff, IsPosition
  <2>5. IsPosition(p) /\ p.size + off = positions[b].size
    <3> HIDE DEF b, off
    <3>1. p = IF positions[b].size - off <= 0 THEN NoPosition
              ELSE [positions[b] EXCEPT !.size = positions[b].size - off]
      BY DEF Reduced, off
    <3> HIDE DEF p
    <3>2. CASE positions[b].size - off <= 0
      BY <2>2, <2>4, <3>1, <3>2 DEF IsPosition, NoPosition
    <3>3. CASE ~ (positions[b].size - off <= 0)
      BY <2>2, <2>4, <3>1, <3>3 DEF IsPosition
    <3> QED BY <3>2, <3>3
  <2>6. entered' = entered + 0 /\ p.size + off = positions[b].size + 0
    BY <2>2, <2>3, <2>5 DEF PaperInv, IsPosition
  <2> HIDE DEF b, p, off
  <2> QED BY <2>1, <2>3, <2>4, <2>5, <2>6, OnePlace
<1> QED BY <1>2, <1>3, <1>4

LEMMA PaperStep ==
  ASSUME PaperInv, [PaperNext]_paperVars
  PROVE  PaperInv'
<1>0. DOMAIN positions = Places /\ ArePositions(positions)
  BY DEF PaperInv, ArePositions
<1>1. ASSUME UNCHANGED <<positions, entered, closedOut>> PROVE PaperInv'
  BY <1>1 DEF PaperInv
<1>2. ASSUME NEW o \in PaperOrders, PlacePaper(o) PROVE PaperInv'
  <2>1. PICK mark \in MarkFor(o.pair) :
          IF o.limit # 0 /\ ~ Crosses(o.side, mark, o.limit)
          THEN Rejects(o, "SUBMITTED") ELSE Fills(o, ApplySlippage(mark, o.side))
    BY <1>2 DEF PlacePaper
  <2>2. CASE Rejects(o, "SUBMITTED")
    BY <1>1, <2>2 DEF Rejects
  <2>3. CASE Fills(o, ApplySlippage(mark, o.side))
    BY <2>3, FillsKeep
  <2> QED BY <2>1, <2>2, <2>3
<1>3. ASSUME NEW i \in Intents, CancelPaper(i) PROVE PaperInv'
  BY <1>1, <1>3 DEF CancelPaper
<1>4. ASSUME NEW p \in Pairs, NEW m \in Marks, SetMarkPrice(p, m) PROVE PaperInv'
  <2>1. /\ positions' = [b \in Places |->
                           IF b \in HeldOn(p) THEN [positions[b] EXCEPT !.mark = m] ELSE positions[b]]
        /\ UNCHANGED <<entered, closedOut>>
    BY <1>0, <1>4 DEF SetMarkPrice
  <2>2. \A b \in Places : IsPosition(positions[b])
    BY <1>0 DEF ArePositions
  <2>3. ASSUME NEW b \in Places
        PROVE  IsPosition(positions'[b]) /\ positions'[b].size = positions[b].size
    <3>1. IsPosition(Marked(positions[b], m)) /\ Marked(positions[b], m).size = positions[b].size
      BY <2>2, Fields
    <3>2. positions'[b] = IF b \in HeldOn(p) THEN Marked(positions[b], m) ELSE positions[b]
      BY <2>1 DEF Marked
    <3> QED BY <2>2, <3>1, <3>2
  <2>4. ArePositions(positions')
    BY <2>1, <2>3 DEF ArePositions
  <2> QED BY <2>1, <2>3, <2>4, SizesStay
<1>5. ASSUME NEW p \in Pairs, NEW m \in Marks, CheckProtectiveFills(p, m) PROVE PaperInv'
  <2> DEFINE hit == {b \in HeldOn(p) : StopHit(b, m) \/ TakeHit(b, m)}
  <2>1. hit \in SUBSET Places
    BY DEF HeldOn, Places
  <2>2. /\ positions' = [b \in DOMAIN positions |-> IF b \in hit THEN NoPosition ELSE positions[b]]
        /\ closedOut' = closedOut + HeldIn(positions, hit) /\ entered' = entered
    BY <1>5 DEF CheckProtectiveFills, ClosesAt, HeldIn
  <2> HIDE DEF hit
  <2> QED BY <2>1, <2>2, ClosesSome
<1>6. ASSUME NEW p \in Pairs, ClosePosition(p) PROVE PaperInv'
  <2>1. HeldOn(p) \in SUBSET Places
    BY DEF HeldOn, Places
  <2>2. /\ positions' = [b \in DOMAIN positions |-> IF b \in HeldOn(p) THEN NoPosition ELSE positions[b]]
        /\ closedOut' = closedOut + HeldIn(positions, HeldOn(p)) /\ entered' = entered
    BY <1>6 DEF ClosePosition, ClosesAt, HeldIn
  <2> QED BY <2>1, <2>2, ClosesSome
<1>7. ASSUME NEW b \in Places, NEW x \in Protections, AttachTPSL(b, x[1], x[2]) PROVE PaperInv'
  <2> DEFINE q == positions[b]
             sl == IF x[1] = 0 THEN q.stop ELSE x[1]
             tp == IF x[2] = 0 THEN q.take ELSE x[2]
             p == Guarded(q, sl, tp)
  <2>1. positions' = [positions EXCEPT ![b] = p] /\ UNCHANGED <<entered, closedOut>>
    BY <1>7 DEF AttachTPSL, Guarded
  <2>2. IsPosition(q)
    BY <1>0 DEF ArePositions
  <2> HIDE DEF q, sl, tp
  <2>5. IsPosition(p) /\ p.size = q.size
    BY <2>2, Fields
  <2>3. IsPosition(p) /\ p.size = positions[b].size
    BY <2>5 DEF q
  <2>4. entered' = entered + 0 /\ closedOut' = closedOut + 0 /\ p.size + 0 = positions[b].size + 0
    BY <2>1, <2>2, <2>3 DEF PaperInv, IsPosition, q
  <2> HIDE DEF p
  <2> QED BY <2>1, <2>3, <2>4, OnePlace
<1>8. CASE UNCHANGED paperVars
  BY <1>1, <1>8 DEF paperVars
<1> QED BY <1>0, <1>2, <1>3, <1>4, <1>5, <1>6, <1>7, <1>8 DEF PaperNext

LEMMA PaperStart ==
  ASSUME PaperInit
  PROVE  PaperInv
<1>1. positions = [b \in Places |-> NoPosition] /\ entered = 0 /\ closedOut = 0
  BY DEF PaperInit, Places
<1>2. ArePositions(positions)
  BY <1>1 DEF ArePositions, IsPosition, NoPosition
<1>3. Tokens(Sizes(positions), Places) = {}
  <2>1. \A b \in Places : Sizes(positions)[b] = 0
    BY <1>1 DEF Sizes, NoPosition
  <2>2. \A b \in Places : {b} \X (0 .. Sizes(positions)[b] - 1) = {}
    BY <2>1
  <2> QED BY <2>2 DEF Tokens
<1>4. SumOver(Sizes(positions), Places) = 0
  BY <1>3, FS_EmptySet DEF SumOver
<1> QED BY <1>1, <1>2, <1>4 DEF PaperInv

\* For any pairs, requests, marks and protections, what entries opened is what closes
\* took off and what is still held: a reduce larger than its position, an entry merged
\* into a held side, a stop beside a take or both sides closed by one call lose nothing
\* and close nothing twice (paper-broker-adapter.ts:172-208).
THEOREM PaperIsConserved == PaperSpec => []PaperConserved
<1>1. PaperInit => PaperInv
  BY PaperStart
<1>2. PaperInv /\ [PaperNext]_paperVars => PaperInv'
  BY PaperStep
<1>3. PaperInv => PaperConserved
  <2> SUFFICES ASSUME PaperInv PROVE PaperConserved
    OBVIOUS
  <2>1. DOMAIN positions = Places /\ \A b \in Places : positions[b].size \in Nat
    BY DEF PaperInv, ArePositions, IsPosition
  <2>2. HeldIn(positions, DOMAIN positions) = SumOver(Sizes(positions), Places)
    BY <2>1, HeldIs
  <2>3. entered = closedOut + HeldIn(positions, DOMAIN positions)
    BY <2>2 DEF PaperInv
  <2> QED BY <2>3 DEF PaperConserved, HeldIn
<1> QED BY <1>1, <1>2, <1>3, PTL DEF PaperSpec

-----------------------------------------------------------------------------

(***************************************************************************)
(* What the watch saw go wrong has been told: the desk refuses to repeat   *)
(* only its last word on a topic, so to be silent is to have said it.      *)
(***************************************************************************)

\* Every word the desk remembers is the last that was told of its topic.
DeskOK(desk) ==
  /\ desk = [memory |-> desk.memory, subs |-> desk.subs, told |-> desk.told]
  /\ \E S : desk.memory \in Seq(S)
  /\ \A i \in DOMAIN desk.memory :
       /\ desk.memory[i].topic \in DOMAIN desk.told
       /\ desk.told[desk.memory[i].topic] = desk.memory[i].to

LEMMA NewDeskOK ==
  ASSUME NEW s
  PROVE  DeskOK(NewDesk(s)) /\ NewDesk(s).subs = s /\ \A t : LastTold(NewDesk(s), t) = "none"
<1>1. NewDesk(s).memory = <<>> /\ NewDesk(s).subs = s /\ DOMAIN NewDesk(s).told = {}
  BY DEF NewDesk
<1>2. <<>> \in Seq({})
  OBVIOUS
<1>3. DOMAIN NewDesk(s).memory = {}
  BY <1>1
<1>4. NewDesk(s) = [memory |-> NewDesk(s).memory, subs |-> NewDesk(s).subs, told |-> NewDesk(s).told]
  BY DEF NewDesk
<1> QED BY <1>1, <1>2, <1>3, <1>4 DEF DeskOK, LastTold

LEMMA DropsOldest ==
  ASSUME NEW S, NEW m \in Seq(S), NEW n \in Nat
  PROVE  /\ SubSeq(m, n + 1, Len(m)) \in Seq(S)
         /\ \A i \in DOMAIN SubSeq(m, n + 1, Len(m)) :
              \E j \in DOMAIN m : SubSeq(m, n + 1, Len(m))[i] = m[j]
<1> DEFINE r == SubSeq(m, n + 1, Len(m))
<1>1. DOMAIN m = 1 .. Len(m) /\ Len(m) \in Nat /\ \A i \in 1 .. Len(m) : m[i] \in S
  BY LenProperties
<1>2. \A i \in n + 1 .. Len(m) : i \in DOMAIN m
  BY <1>1
<1>3. r = [i \in 1 .. (IF n + 1 <= Len(m) THEN Len(m) - (n + 1) + 1 ELSE 0) |-> m[(n + 1) + i - 1]]
  BY <1>1
<1>4. r \in Seq(S)
  BY <1>1, <1>2, SubSeqProperties
<1> HIDE DEF r
<1>5. ASSUME NEW i \in DOMAIN r PROVE \E j \in DOMAIN m : r[i] = m[j]
  <2>1. CASE n + 1 <= Len(m)
    <3>1. DOMAIN r = 1 .. (Len(m) - (n + 1) + 1)
      BY <1>3, <2>1
    <3>2. i \in Nat /\ 1 <= i /\ i <= Len(m) - (n + 1) + 1
      BY <1>1, <3>1
    <3>3. (n + 1) + i - 1 \in DOMAIN m
      BY <1>1, <3>2
    <3>4. r[i] = m[(n + 1) + i - 1]
      BY <1>3, <2>1, <3>1
    <3> QED BY <3>3, <3>4
  <2>2. CASE ~ (n + 1 <= Len(m))
    <3>1. DOMAIN r = {}
      BY <1>3, <2>2
    <3> QED BY <3>1
  <2> QED BY <2>1, <2>2
<1> QED BY <1>4, <1>5 DEF r

\* A value put in the places K of a sequence, or at its end if there are none.
LEMMA Puts ==
  ASSUME NEW S, NEW m \in Seq(S), NEW K \in SUBSET DOMAIN m, NEW w,
         NEW all, all = IF K = {} THEN Append(m, w)
                        ELSE [i \in DOMAIN m |-> IF i \in K THEN w ELSE m[i]]
  PROVE  /\ all \in Seq(S \cup {w})
         /\ \A i \in DOMAIN all : all[i] = w \/ \E j \in DOMAIN m \ K : all[i] = m[j]
<1> DEFINE T == S \cup {w}
           over == [i \in DOMAIN m |-> IF i \in K THEN w ELSE m[i]]
<1>1. DOMAIN m = 1 .. Len(m) /\ Len(m) \in Nat /\ \A i \in DOMAIN m : m[i] \in S
  BY LenProperties
<1>2. CASE K # {}
  <2>1. all = over
    BY <1>2
  <2>2. over \in [1 .. Len(m) -> T]
    BY <1>1
  <2>3. over \in Seq(T)
    BY <1>1, <2>2, SeqDef
  <2>4. \A i \in DOMAIN over : over[i] = w \/ \E j \in DOMAIN m \ K : over[i] = m[j]
    OBVIOUS
  <2> HIDE DEF over, T
  <2>5. all \in Seq(T) /\ \A i \in DOMAIN all : all[i] = w \/ \E j \in DOMAIN m \ K : all[i] = m[j]
    BY <2>1, <2>3, <2>4
  <2> QED BY <2>5 DEF T
<1>3. CASE K = {}
  <2>1. m \in Seq(T) /\ w \in T
    BY <1>1, SeqDef
  <2>2. /\ Append(m, w) \in Seq(T) /\ DOMAIN Append(m, w) = 1 .. Len(m) + 1
        /\ \A i \in 1 .. Len(m) : Append(m, w)[i] = m[i]
        /\ Append(m, w)[Len(m) + 1] = w
    BY <2>1, AppendProperties, LenProperties
  <2> DEFINE app == Append(m, w)
  <2>3. all = app /\ app \in Seq(T) /\ DOMAIN app = 1 .. Len(m) + 1 /\ app[Len(m) + 1] = w
    BY <1>3, <2>2
  <2>4. \A i \in 1 .. Len(m) : app[i] = m[i]
    BY <2>2
  <2> HIDE DEF app, T
  <2>5. ASSUME NEW i \in DOMAIN app PROVE app[i] = w \/ \E j \in DOMAIN m \ K : app[i] = m[j]
    <3>1. i \in 1 .. Len(m) + 1
      BY <2>3
    <3>2. CASE i = Len(m) + 1
      BY <2>3, <3>2
    <3>3. CASE i # Len(m) + 1
      <4>1. i \in 1 .. Len(m)
        BY <1>1, <3>1, <3>3
      <4> QED BY <1>1, <1>3, <2>4, <4>1
    <3> QED BY <3>2, <3>3
  <2>6. all \in Seq(T) /\ \A i \in DOMAIN all : all[i] = w \/ \E j \in DOMAIN m \ K : all[i] = m[j]
    BY <2>3, <2>5
  <2> QED BY <2>6 DEF T
<1> QED BY <1>2, <1>3

FromOld(x, memory, a) ==
  \/ x.topic = a.topic /\ x.to = a.to
  \/ x.topic # a.topic /\ \E j \in DOMAIN memory : x = memory[j]
Recalls(m, memory, a) == \A i \in DOMAIN m : FromOld(m[i], memory, a)

LEMMA RememberingFacts ==
  ASSUME NEW S, NEW memory \in Seq(S), NEW a
  PROVE  /\ \E U : Remembering(memory, a) \in Seq(U)
         /\ Recalls(Remembering(memory, a), memory, a)
<1> DEFINE word == [topic |-> a.topic, to |-> a.to, at |-> a.at]
           K == On(memory, a.topic)
           all == IF K = {} THEN Append(memory, word)
                  ELSE [i \in DOMAIN memory |-> IF i \in K THEN word ELSE memory[i]]
           T == S \cup {word}
           r == SubSeq(all, MemoryDrop + 1, Len(all))
<1>1. word.topic = a.topic /\ word.to = a.to
  OBVIOUS
<1>2. K \in SUBSET DOMAIN memory /\ \A j \in DOMAIN memory \ K : memory[j].topic # a.topic
  BY DEF On
<1>3. Remembering(memory, a) = IF Len(all) > MemoryCap THEN r ELSE all
  BY DEF Remembering
<1> HIDE DEF word, K
<1>4. all \in Seq(T) /\ \A i \in DOMAIN all : all[i] = word \/ \E j \in DOMAIN memory \ K : all[i] = memory[j]
  BY <1>2, Puts
<1> HIDE DEF all, T
<1>5. Recalls(all, memory, a)
  BY <1>1, <1>2, <1>4 DEF Recalls, FromOld
<1>6. r \in Seq(T) /\ \A i \in DOMAIN r : \E j \in DOMAIN all : r[i] = all[j]
  BY <1>4, DropsOldest, DeskAssumption
<1> HIDE DEF r
<1>7. Recalls(r, memory, a)
  BY <1>5, <1>6 DEF Recalls
<1>8. (\E U : all \in Seq(U)) /\ \E U : r \in Seq(U)
  BY <1>4, <1>6
<1>9. CASE Len(all) > MemoryCap
  BY <1>3, <1>7, <1>8, <1>9
<1>10. CASE ~ (Len(all) > MemoryCap)
  BY <1>3, <1>5, <1>8, <1>10
<1> QED BY <1>9, <1>10

\* What one submission does: the desk stays in order, other topics stay as they
\* are told, and an alert that is wanted is the last word on its topic.
LEMMA SubmitFacts ==
  ASSUME NEW desk, DeskOK(desk), NEW a
  PROVE  /\ DeskOK(Submit(desk, a)) /\ Submit(desk, a).subs = desk.subs
         /\ \A t : t # a.topic => LastTold(Submit(desk, a), t) = LastTold(desk, t)
         /\ ~ Rejected(a, desk.subs) => LastTold(Submit(desk, a), a.topic) = a.to
<1> DEFINE d == Submit(desk, a)
           m == Remembering(desk.memory, a)
           w == Spoken(desk.told, a)
<1>1. CASE Rejected(a, desk.subs)
  BY <1>1 DEF Submit
<1>2. CASE ~ Rejected(a, desk.subs) /\ Repeated(desk.memory, a)
  <2>1. d = desk
    BY <1>2 DEF Submit
  <2>2. PICK i \in DOMAIN desk.memory : desk.memory[i].topic = a.topic /\ desk.memory[i].to = a.to
    BY <1>2 DEF Repeated, On
  <2>3. LastTold(desk, a.topic) = a.to
    BY <2>2 DEF LastTold, DeskOK
  <2> HIDE DEF d
  <2> QED BY <2>1, <2>3 DEF d
<1>3. CASE ~ Rejected(a, desk.subs) /\ ~ Repeated(desk.memory, a)
  <2>1. d = [memory |-> m, subs |-> desk.subs, told |-> w]
    <3>1. d = [desk EXCEPT !.memory = m, !.told = w]
      BY <1>3 DEF Submit
    <3>2. PICK x, y, z : desk = [memory |-> x, subs |-> y, told |-> z]
      BY DEF DeskOK
    <3>3. desk.subs = y
      BY <3>2
    <3> HIDE DEF d, m, w
    <3> DEFINE e == [desk EXCEPT !.memory = m]
    <3>4. e = [memory |-> m, subs |-> y, told |-> z]
      BY <3>2
    <3>5. d = [e EXCEPT !.told = w]
      BY <3>1
    <3> HIDE DEF e
    <3> QED BY <3>3, <3>4, <3>5
  <2>2. /\ DOMAIN w = {a.topic} \cup DOMAIN desk.told /\ w[a.topic] = a.to
        /\ \A t \in DOMAIN desk.told : t # a.topic => w[t] = desk.told[t]
    BY DEF Spoken
  <2>3. d.memory = m /\ d.subs = desk.subs /\ d.told = w
    BY <2>1
  <2>4. PICK S : desk.memory \in Seq(S)
    BY DEF DeskOK
  <2>5. (\E U : m \in Seq(U)) /\ Recalls(m, desk.memory, a)
    <3> DEFINE M == desk.memory
    <3>1. M \in Seq(S)
      BY <2>4
    <3> HIDE DEF M, m
    <3>2. (\E U : Remembering(M, a) \in Seq(U)) /\ Recalls(Remembering(M, a), M, a)
      BY <3>1, RememberingFacts
    <3> QED BY <3>2 DEF M, m
  <2> HIDE DEF m, w
  <2>6. ASSUME NEW i \in DOMAIN m PROVE m[i].topic \in DOMAIN w /\ w[m[i].topic] = m[i].to
    <3>1. CASE m[i].topic = a.topic /\ m[i].to = a.to
      BY <2>2, <3>1
    <3>2. CASE m[i].topic # a.topic /\ \E j \in DOMAIN desk.memory : m[i] = desk.memory[j]
      <4>1. PICK j \in DOMAIN desk.memory : m[i] = desk.memory[j]
        BY <3>2
      <4>2. desk.memory[j].topic \in DOMAIN desk.told /\ desk.told[desk.memory[j].topic] = desk.memory[j].to
        BY DEF DeskOK
      <4> QED BY <2>2, <3>2, <4>1, <4>2
    <3> QED BY <2>5, <3>1, <3>2 DEF Recalls, FromOld
  <2>7. d = [memory |-> d.memory, subs |-> d.subs, told |-> d.told]
    <3> HIDE DEF d
    <3> QED BY <2>1, <2>3
  <2> HIDE DEF d
  <2>8. DeskOK(d)
    BY <2>3, <2>5, <2>6, <2>7 DEF DeskOK
  <2>9. \A t : t # a.topic => LastTold(d, t) = LastTold(desk, t)
    BY <2>2, <2>3 DEF LastTold
  <2>10. LastTold(d, a.topic) = a.to
    BY <2>2, <2>3 DEF LastTold
  <2> QED BY <2>3, <2>8, <2>9, <2>10 DEF d
<1> QED BY <1>1, <1>2, <1>3

-----------------------------------------------------------------------------
WatchSpec == WatchInit /\ [][WatchNext]_watchVars

Subjects5 == {"stream", "stale", "circuit", "kill", "store"}
WatchInv == DeskOK(watchDesk) /\ DOMAIN seen = Subjects5 /\ BadNewsTold

\* Bad news about a subject is wanted, and it is told.
LEMMA BadNewsWanted ==
  ASSUME NEW look \in Subjects5 \ {"kill"}, NEW is \in BadSights, NEW was, NEW subs,
         "SYSTEM" \in subs.classes
  PROVE  Telling(look, was, is) /\ ~ Rejected(WatchAlert(look, is), subs)
<1> DEFINE a == WatchAlert(look, is)
<1>1. a.class = "SYSTEM" /\ a.severity = "CRITICAL" /\ a.to = is /\ is # "REACTION" /\ is # "NORMAL"
  BY DEF WatchAlert, Plain, BadSights
<1>2. ~ Rejected(a, subs)
  <2> HIDE DEF a
  <2> QED BY <1>1 DEF Rejected, SymbolScoped
<1>3. Telling(look, was, is)
  BY <1>1 DEF Telling, Subjects5
<1> QED BY <1>2, <1>3

\* A submission on another topic, while what was seen stays.
LEMMA OtherNews ==
  ASSUME WatchInv, NEW a, watchDesk' = Submit(watchDesk, a), seen' = seen,
         \A look \in Subjects5 : <<look>> # a.topic
  PROVE  WatchInv'
<1>1. /\ DeskOK(watchDesk') /\ watchDesk'.subs = watchDesk.subs
      /\ \A t : t # a.topic => LastTold(watchDesk', t) = LastTold(watchDesk, t)
  <2>1. DeskOK(watchDesk)
    BY DEF WatchInv
  <2>2. /\ DeskOK(Submit(watchDesk, a)) /\ Submit(watchDesk, a).subs = watchDesk.subs
        /\ \A t : t # a.topic => LastTold(Submit(watchDesk, a), t) = LastTold(watchDesk, t)
    BY <2>1, SubmitFacts
  <2> QED BY <2>2
<1>2. \A look \in DOMAIN Sights : LastTold(watchDesk', <<look>>) = LastTold(watchDesk, <<look>>)
  BY <1>1, WatchAssumption DEF Subjects5
<1>3. BadNewsTold'
  BY <1>1, <1>2 DEF WatchInv, BadNewsTold
<1> QED BY <1>1, <1>3 DEF WatchInv

LEMMA TopicsDiffer ==
  /\ \A look, d, k : <<look>> # <<d, k>>
  /\ \A look, other : look # other => <<look>> # <<other>>
<1>1. ASSUME NEW look, NEW d, NEW k, <<look>> = <<d, k>> PROVE FALSE
  <2>1. Len(<<look>>) = 1 /\ Len(<<d, k>>) = 2
    OBVIOUS
  <2> QED BY <1>1, <2>1
<1>2. ASSUME NEW look, NEW other, <<look>> = <<other>> PROVE look = other
  <2>1. <<look>>[1] = look /\ <<other>>[1] = other
    OBVIOUS
  <2> QED BY <1>2, <2>1
<1> QED BY <1>1, <1>2

LEMMA LookKeeps ==
  ASSUME WatchInv, NEW look \in DOMAIN Sights, Look(look)
  PROVE  WatchInv'
<1> DEFINE is == world[look]
           a == WatchAlert(look, is)
<1>1. /\ seen' = [seen EXCEPT ![look] = is]
      /\ watchDesk' = IF Telling(look, seen[look], is) THEN Submit(watchDesk, a) ELSE watchDesk
  BY DEF Look
<1>2. look \in Subjects5 /\ DOMAIN seen = Subjects5 /\ DOMAIN Sights \subseteq Subjects5
  BY WatchAssumption DEF WatchInv, Subjects5
<1>3. a.topic = <<look>> /\ a.to = is
  BY DEF WatchAlert, Plain
<1> HIDE DEF a, is
<1>4. /\ DeskOK(Submit(watchDesk, a)) /\ Submit(watchDesk, a).subs = watchDesk.subs
      /\ \A t : t # a.topic => LastTold(Submit(watchDesk, a), t) = LastTold(watchDesk, t)
      /\ ~ Rejected(a, watchDesk.subs) => LastTold(Submit(watchDesk, a), a.topic) = a.to
  BY SubmitFacts DEF WatchInv
<1>5. DeskOK(watchDesk') /\ watchDesk'.subs = watchDesk.subs /\ DOMAIN seen' = Subjects5
  BY <1>1, <1>2, <1>4 DEF WatchInv
<1>6. ASSUME "SYSTEM" \in watchDesk.subs.classes, NEW other \in DOMAIN Sights \ {"kill"},
             seen'[other] \in BadSights
      PROVE  LastTold(watchDesk', <<other>>) = seen'[other]
  <2>1. CASE other = look
    <3>1. seen'[other] = is /\ is \in BadSights /\ look \in Subjects5 \ {"kill"}
      BY <1>1, <1>2, <1>6, <2>1
    <3>2. Telling(look, seen[look], is) /\ ~ Rejected(WatchAlert(look, is), watchDesk.subs)
      BY <1>6, <3>1, BadNewsWanted
    <3>3. watchDesk' = Submit(watchDesk, a) /\ ~ Rejected(a, watchDesk.subs)
      BY <1>1, <3>2 DEF a
    <3> QED BY <1>3, <1>4, <2>1, <3>1, <3>3
  <2>2. CASE other # look
    <3>1. seen'[other] = seen[other]
      BY <1>1, <1>2, <1>6, <2>2
    <3>2. <<other>> # a.topic
      BY <1>3, <2>2, TopicsDiffer
    <3>3. LastTold(watchDesk', <<other>>) = LastTold(watchDesk, <<other>>)
      BY <1>1, <1>4, <3>2
    <3>4. LastTold(watchDesk, <<other>>) = seen[other]
      BY <1>6, <3>1 DEF WatchInv, BadNewsTold
    <3> QED BY <3>1, <3>3, <3>4
  <2> QED BY <2>1, <2>2
<1>7. BadNewsTold'
  BY <1>5, <1>6 DEF BadNewsTold
<1> QED BY <1>5, <1>7 DEF WatchInv

LEMMA WatchStep ==
  ASSUME WatchInv, [WatchNext]_watchVars
  PROVE  WatchInv'
<1>1. ASSUME UNCHANGED <<seen, watchDesk>> PROVE WatchInv'
  BY <1>1 DEF WatchInv, BadNewsTold
<1>2. ASSUME NEW look \in DOMAIN Sights, Happens(look) PROVE WatchInv'
  BY <1>1, <1>2 DEF Happens
<1>3. ASSUME NEW look \in DOMAIN Sights, Look(look) PROVE WatchInv'
  BY <1>3, LookKeeps
<1>4. ASSUME NEW d \in Deals, TradeEvent(d) PROVE WatchInv'
  <2> DEFINE topic(to) == CASE to \in {"ENTRY", "EXIT"} -> <<d, "fill">>
                            [] to = "OPEN" -> <<d, "open">>
                            [] to = "CLOSED" -> <<d, "close">>
                            [] OTHER -> <<d, to>>
             severity(to) == IF to \in {"CANCELLED", "REJECTED"} THEN "IMPORTANT" ELSE "SIGNAL"
  <2>1. PICK to \in TradeWords :
          watchDesk' = Submit(watchDesk, Plain("TRADE", severity(to), topic(to), to, day))
    BY <1>4 DEF TradeEvent
  <2>2. \E k : topic(to) = <<d, k>>
    OBVIOUS
  <2>3. seen' = seen
    BY <1>4 DEF TradeEvent
  <2> HIDE DEF topic, severity
  <2> DEFINE a == Plain("TRADE", severity(to), topic(to), to, day)
  <2>4. a.topic = topic(to)
    BY DEF Plain
  <2> HIDE DEF a
  <2>5. \A look \in Subjects5 : <<look>> # a.topic
    BY <2>2, <2>4, TopicsDiffer
  <2> QED BY <2>1, <2>3, <2>5, OtherNews DEF a
<1>5. CASE DailyReport
  <2> DEFINE a == Plain("RESEARCH", "INFO", <<"daily">>, ToString(day), day)
  <2>1. watchDesk' = Submit(watchDesk, a) /\ seen' = seen
    BY <1>5 DEF DailyReport
  <2>2. a.topic = <<"daily">>
    BY DEF Plain
  <2> HIDE DEF a
  <2>3. \A look \in Subjects5 : <<look>> # a.topic
    BY <2>2, TopicsDiffer DEF Subjects5
  <2> QED BY <2>1, <2>3, OtherNews
<1>6. ASSUME NEW c \in StrategyCells, PromotionTold(c) PROVE WatchInv'
  <2> DEFINE a == Plain("RESEARCH", "IMPORTANT", <<c, "promo">>, "ELIGIBLE", day)
  <2>1. watchDesk' = Submit(watchDesk, a) /\ seen' = seen
    BY <1>6 DEF PromotionTold
  <2>2. a.topic = <<c, "promo">>
    BY DEF Plain
  <2> HIDE DEF a
  <2>3. \A look \in Subjects5 : <<look>> # a.topic
    BY <2>2, TopicsDiffer
  <2> QED BY <2>1, <2>3, OtherNews
<1>7. ASSUME NEW c \in StrategyCells, CellPasses(c) PROVE WatchInv'
  BY <1>1, <1>7 DEF CellPasses
<1>8. CASE NextDay
  BY <1>1, <1>8 DEF NextDay
<1>9. CASE UNCHANGED watchVars
  BY <1>1, <1>9 DEF watchVars
<1> QED BY <1>2, <1>3, <1>4, <1>5, <1>6, <1>7, <1>8, <1>9 DEF WatchNext

LEMMA WatchStart ==
  ASSUME WatchInit
  PROVE  WatchInv
<1>1. PICK s \in WatchDesks : watchDesk = NewDesk(s)
  BY DEF WatchInit
<1>2. seen = [stream |-> Unseen, stale |-> "FRESH", circuit |-> Unseen, kill |-> Unseen, store |-> "HEALTHY"]
  BY DEF WatchInit
<1>3. DOMAIN seen = Subjects5
  BY <1>2 DEF Subjects5
<1>4. \A look \in Subjects5 : seen[look] \notin BadSights
  BY <1>2 DEF Subjects5, BadSights, Unseen
<1>5. BadNewsTold
  BY <1>4, WatchAssumption DEF BadNewsTold, Subjects5
<1> QED BY <1>1, <1>3, <1>5, NewDeskOK DEF WatchInv

\* For any sights, desks, deals and words: what the watch last saw go wrong is the
\* last word of an operator who takes SYSTEM alerts, whatever severity he asks for,
\* whatever ticks overlap and whatever the desk's memory has dropped
\* (system-monitor.ts:126-131, notification-engine.ts:76-91).
THEOREM BadNewsIsTold == WatchSpec => []BadNewsTold
<1>1. WatchInit => WatchInv
  BY WatchStart
<1>2. WatchInv /\ [WatchNext]_watchVars => WatchInv'
  BY WatchStep
<1>3. WatchInv => BadNewsTold
  BY DEF WatchInv
<1> QED BY <1>1, <1>2, <1>3, PTL DEF WatchSpec

-----------------------------------------------------------------------------

(***************************************************************************)
(* A setup's phase the tracker keeps is the phase its operator was told.   *)
(***************************************************************************)

ChartWatchSpec == ChartInit /\ [][ChartNext]_chartVars

Stands(e, desk) ==
  e.value \in Notified /\ ~ Rejected(SetupAlert(e.key, e.value), desk.subs)
    => LastTold(desk, <<"setup", e.key>>) = e.value
AllStand(map, desk) == (\E S : map \in Seq(S)) /\ \A i \in DOMAIN map : Stands(map[i], desk)
ChartWatchInv == DeskOK(chartDesk) /\ AllStand(setups, chartDesk)

\* The setups' words are as they were.
SameSetupWords(new, old) ==
  DeskOK(new) /\ new.subs = old.subs /\ \A z : LastTold(new, <<"setup", z>>) = LastTold(old, <<"setup", z>>)

LEMMA PairTopics ==
  /\ \A a, b, c, d : (a # c \/ b # d) => <<a, b>> # <<c, d>>
  /\ \A a, b, c, d, e : <<a, b>> # <<c, d, e>>
<1>1. ASSUME NEW a, NEW b, NEW c, NEW d, <<a, b>> = <<c, d>> PROVE a = c /\ b = d
  BY <1>1
<1>2. ASSUME NEW a, NEW b, NEW c, NEW d, NEW e, <<a, b>> = <<c, d, e>> PROVE FALSE
  <2>1. Len(<<a, b>>) = 2 /\ Len(<<c, d, e>>) = 3
    OBVIOUS
  <2> QED BY <1>2, <2>1
<1> QED BY <1>1, <1>2

\* An alert that is not about a setup.
LEMMA OffSetups ==
  ASSUME NEW desk, DeskOK(desk), NEW a, \A z : <<"setup", z>> # a.topic
  PROVE  SameSetupWords(Submit(desk, a), desk)
<1> DEFINE d == Submit(desk, a)
<1>1. DeskOK(d) /\ d.subs = desk.subs /\ \A t : t # a.topic => LastTold(d, t) = LastTold(desk, t)
  BY SubmitFacts
<1> HIDE DEF d
<1>2. ASSUME NEW z PROVE LastTold(d, <<"setup", z>>) = LastTold(desk, <<"setup", z>>)
  <2>1. <<"setup", z>> # a.topic
    OBVIOUS
  <2> QED BY <1>1, <2>1
<1>3. SameSetupWords(d, desk)
  BY <1>1, <1>2 DEF SameSetupWords
<1> QED BY <1>3 DEF d

LEMMA WordsKeep ==
  ASSUME NEW map, NEW new, NEW old, AllStand(map, old), SameSetupWords(new, old)
  PROVE  AllStand(map, new)
<1>1. ASSUME NEW i \in DOMAIN map PROVE Stands(map[i], new)
  <2>1. Stands(map[i], old)
    BY DEF AllStand
  <2> QED BY <2>1 DEF Stands, SameSetupWords
<1> QED BY <1>1 DEF AllStand

LEMMA AlertTopic ==
  ASSUME NEW class, NEW severity, NEW topic, NEW to, NEW symbol
  PROVE  /\ ChartAlert(class, severity, topic, to, symbol).topic = topic
         /\ ChartAlert(class, severity, topic, to, symbol).to = to
BY DEF ChartAlert, Plain

\* emit: the word on z is phase if it is wanted; the others stay.
LEMMA ToldFacts ==
  ASSUME NEW desk, DeskOK(desk), NEW z, NEW phase, NEW held
  PROVE  /\ DeskOK(Told(desk, z, phase, held)) /\ Told(desk, z, phase, held).subs = desk.subs
         /\ \A k : k # z =>
              LastTold(Told(desk, z, phase, held), <<"setup", k>>) = LastTold(desk, <<"setup", k>>)
         /\ ~ Rejected(SetupAlert(z, phase), desk.subs)
              => LastTold(Told(desk, z, phase, held), <<"setup", z>>) = phase
<1> DEFINE a == SetupAlert(z, phase)
           x == ChartAlert("TRADE", "CRITICAL", <<"exit", ChartOf[z]>>, "EXIT_REQUIRED", ChartOf[z])
           said == Submit(desk, a)
           d == Told(desk, z, phase, held)
<1>1. a.topic = <<"setup", z>> /\ a.to = phase
  BY AlertTopic DEF SetupAlert
<1>2. x.topic = <<"exit", ChartOf[z]>>
  BY AlertTopic
<1>3. d = said \/ d = Submit(said, x)
  BY DEF Told
<1> HIDE DEF a, x, d
<1>4. /\ DeskOK(said) /\ said.subs = desk.subs
      /\ \A t : t # a.topic => LastTold(said, t) = LastTold(desk, t)
      /\ ~ Rejected(a, desk.subs) => LastTold(said, a.topic) = a.to
  BY SubmitFacts
<1> HIDE DEF said
<1>5. \A k : <<"setup", k>> # x.topic /\ (k # z => <<"setup", k>> # a.topic)
  BY <1>1, <1>2, PairTopics
<1>6. SameSetupWords(said, said) /\ SameSetupWords(Submit(said, x), said)
  BY <1>4, <1>5, OffSetups DEF SameSetupWords
<1>7. SameSetupWords(d, said)
  BY <1>3, <1>6
<1>8. DeskOK(d) /\ d.subs = desk.subs
  BY <1>4, <1>7 DEF SameSetupWords
<1>9. \A k : k # z => LastTold(d, <<"setup", k>>) = LastTold(desk, <<"setup", k>>)
  BY <1>4, <1>5, <1>7 DEF SameSetupWords
<1>10. ~ Rejected(a, desk.subs) => LastTold(d, <<"setup", z>>) = phase
  BY <1>1, <1>4, <1>7 DEF SameSetupWords
<1> QED BY <1>8, <1>9, <1>10 DEF a, d

\* A setup's phase is set, and told unless it was the one before or is not to be told.
LEMMA PhaseSet ==
  ASSUME NEW map, NEW desk, DeskOK(desk), AllStand(map, desk), NEW z, NEW now, NEW held, NEW new,
         \/ new = Told(desk, z, now, held)
         \/ new = desk /\ (now \in Notified => \E i \in DOMAIN map : map[i].key = z /\ map[i].value = now)
  PROVE  DeskOK(new) /\ AllStand(SetEntry(map, z, now), new)
<1> DEFINE d == Told(desk, z, now, held)
<1>0. /\ DeskOK(d) /\ d.subs = desk.subs
      /\ \A x : x # z => LastTold(d, <<"setup", x>>) = LastTold(desk, <<"setup", x>>)
      /\ ~ Rejected(SetupAlert(z, now), desk.subs) => LastTold(d, <<"setup", z>>) = now
  BY ToldFacts
<1>11. new = d \/ new = desk
  OBVIOUS
<1> HIDE DEF d
<1> DEFINE entry == [key |-> z, value |-> now]
           K == Entry(map, z)
           all == IF K = {} THEN Append(map, entry)
                  ELSE [i \in DOMAIN map |-> IF i \in K THEN entry ELSE map[i]]
<1>1. SetEntry(map, z, now) = all
  BY DEF SetEntry
<1>2. K \in SUBSET DOMAIN map /\ \A j \in DOMAIN map \ K : map[j].key # z
  BY DEF Entry
<1>3. entry.key = z /\ entry.value = now
  OBVIOUS
<1>4. PICK S : map \in Seq(S)
  BY DEF AllStand
<1> HIDE DEF entry, K
<1>5. /\ all \in Seq(S \cup {entry})
      /\ \A i \in DOMAIN all : all[i] = entry \/ \E j \in DOMAIN map \ K : all[i] = map[j]
  BY <1>2, <1>4, Puts
<1> HIDE DEF all
<1>6. ASSUME NEW j \in DOMAIN map \ K PROVE Stands(map[j], new)
  <2>1. Stands(map[j], desk) /\ map[j].key # z
    BY <1>2 DEF AllStand
  <2> DEFINE topic == map[j].key
  <2>2. topic # z
    BY <2>1
  <2> HIDE DEF topic
  <2>3. new.subs = desk.subs /\ LastTold(new, <<"setup", topic>>) = LastTold(desk, <<"setup", topic>>)
    BY <1>0, <1>11, <2>2
  <2> QED BY <2>1, <2>3 DEF Stands, topic
<1>7. Stands(entry, new)
  <2>1. CASE new = Told(desk, z, now, held)
    <3>1. new.subs = desk.subs
      BY <1>0, <2>1 DEF d
    <3>2. ~ Rejected(SetupAlert(z, now), desk.subs) => LastTold(new, <<"setup", z>>) = now
      BY <1>0, <2>1 DEF d
    <3> QED BY <1>3, <3>1, <3>2 DEF Stands
  <2>2. CASE new = desk /\ (now \in Notified => \E i \in DOMAIN map : map[i].key = z /\ map[i].value = now)
    <3> SUFFICES ASSUME now \in Notified PROVE Stands(entry, new)
      BY <1>3 DEF Stands
    <3>1. PICK i \in DOMAIN map : map[i].key = z /\ map[i].value = now
      BY <2>2
    <3>2. Stands(map[i], desk)
      BY DEF AllStand
    <3> QED BY <1>3, <2>2, <3>1, <3>2 DEF Stands
  <2> QED BY <2>1, <2>2
<1>8. \A i \in DOMAIN all : Stands(all[i], new)
  BY <1>5, <1>6, <1>7
<1>9. \E U : all \in Seq(U)
  BY <1>5
<1>10. DeskOK(new)
  BY <1>0, <1>11
<1> QED BY <1>1, <1>8, <1>9, <1>10 DEF AllStand

LEMMA ChartWatchStep ==
  ASSUME ChartWatchInv, [ChartNext]_chartVars
  PROVE  ChartWatchInv'
<1>1. ASSUME UNCHANGED <<setups, chartDesk>> PROVE ChartWatchInv'
  BY <1>1 DEF ChartWatchInv
<1>2. ASSUME UNCHANGED setups, NEW a, chartDesk' = Submit(chartDesk, a), \A z : <<"setup", z>> # a.topic
      PROVE  ChartWatchInv'
  <2>1. SameSetupWords(chartDesk', chartDesk)
    BY <1>2, OffSetups DEF ChartWatchInv
  <2>2. AllStand(setups, chartDesk')
    BY <2>1, WordsKeep DEF ChartWatchInv
  <2> QED BY <1>2, <2>1, <2>2 DEF ChartWatchInv, SameSetupWords
<1>3. ASSUME NEW s \in Charts, MarketLook(s) PROVE ChartWatchInv'
  <2>1. UNCHANGED setups
    BY <1>3 DEF MarketLook
  <2>2. PICK what \in {"regime", "btc", "vol"}, now \in Moods :
          \/ chartDesk' = chartDesk
          \/ chartDesk' = Submit(chartDesk, ChartAlert("MARKET", "IMPORTANT", <<"market", s, what>>, now, s))
    BY <1>3 DEF MarketLook
  <2> DEFINE a == ChartAlert("MARKET", "IMPORTANT", <<"market", s, what>>, now, s)
  <2>3. \A z : <<"setup", z>> # a.topic
    BY AlertTopic, PairTopics
  <2> HIDE DEF a
  <2>4. chartDesk' = chartDesk \/ chartDesk' = Submit(chartDesk, a)
    BY <2>2 DEF a
  <2> QED BY <1>1, <1>2, <2>1, <2>3, <2>4
<1>4. ASSUME NEW l \in Levels, LevelLook(l) PROVE ChartWatchInv'
  <2>1. UNCHANGED setups
    BY <1>4 DEF LevelLook
  <2>2. \/ chartDesk' = chartDesk
        \/ \E severity, now : chartDesk' = Submit(chartDesk, ChartAlert("LEVEL", severity, <<"level", l>>, now, ChartOf[l]))
    BY <1>4 DEF LevelLook
  <2>3. CASE chartDesk' = chartDesk
    BY <1>1, <2>1, <2>3
  <2>4. ASSUME NEW severity, NEW now,
               chartDesk' = Submit(chartDesk, ChartAlert("LEVEL", severity, <<"level", l>>, now, ChartOf[l]))
        PROVE  ChartWatchInv'
    <3> DEFINE a == ChartAlert("LEVEL", severity, <<"level", l>>, now, ChartOf[l])
    <3>1. \A z : <<"setup", z>> # a.topic
      BY AlertTopic, PairTopics
    <3>2. chartDesk' = Submit(chartDesk, a)
      BY <2>4
    <3> HIDE DEF a
    <3> QED BY <1>2, <2>1, <3>1, <3>2
  <2> QED BY <2>2, <2>3, <2>4
<1>5. ASSUME NEW l \in Levels, BreakoutLook(l) PROVE ChartWatchInv'
  <2>1. UNCHANGED setups
    BY <1>5 DEF BreakoutLook
  <2>2. \/ chartDesk' = chartDesk
        \/ \E severity, now : chartDesk' = Submit(chartDesk, ChartAlert("LEVEL", severity, <<"breakout", l>>, now, ChartOf[l]))
    BY <1>5 DEF BreakoutLook
  <2>3. CASE chartDesk' = chartDesk
    BY <1>1, <2>1, <2>3
  <2>4. ASSUME NEW severity, NEW now,
               chartDesk' = Submit(chartDesk, ChartAlert("LEVEL", severity, <<"breakout", l>>, now, ChartOf[l]))
        PROVE  ChartWatchInv'
    <3> DEFINE a == ChartAlert("LEVEL", severity, <<"breakout", l>>, now, ChartOf[l])
    <3>1. \A z : <<"setup", z>> # a.topic
      BY AlertTopic, PairTopics
    <3>2. chartDesk' = Submit(chartDesk, a)
      BY <2>4
    <3> HIDE DEF a
    <3> QED BY <1>2, <2>1, <3>1, <3>2
  <2> QED BY <2>2, <2>3, <2>4
<1>6. ASSUME NEW s \in Charts, ReactionLook(s) PROVE ChartWatchInv'
  <2>1. UNCHANGED setups
    BY <1>6 DEF ReactionLook
  <2>2. PICK key : chartDesk' = Submit(chartDesk, ChartAlert("LEVEL", "IMPORTANT", <<"reaction", key>>, "REACTION", s))
    BY <1>6 DEF ReactionLook
  <2> DEFINE a == ChartAlert("LEVEL", "IMPORTANT", <<"reaction", key>>, "REACTION", s)
  <2>3. \A z : <<"setup", z>> # a.topic
    BY AlertTopic, PairTopics
  <2>4. chartDesk' = Submit(chartDesk, a)
    BY <2>2
  <2> HIDE DEF a
  <2> QED BY <1>2, <2>1, <2>3, <2>4
<1>7. ASSUME NEW s \in Charts, IngestBegins(s) PROVE ChartWatchInv'
  BY <1>1, <1>7 DEF IngestBegins
<1>8. ASSUME NEW g \in ingests, NEW z \in g.found, SetupLook(g, z) PROVE ChartWatchInv'
  <2> DEFINE was == ValueOf(setups, z, "NONE")
  <2>1. PICK breached, trigger, confident, held \in BOOLEAN, where \in {"inZone", "close", "away"} :
          LET now == InferPhase(breached, where, trigger, confident, was) IN
          /\ setups' = SetEntry(setups, z, now)
          /\ chartDesk' = IF now # was /\ now \in Notified THEN Told(chartDesk, z, now, held) ELSE chartDesk
    BY <1>8 DEF SetupLook
  <2> DEFINE now == InferPhase(breached, where, trigger, confident, was)
  <2>2. was = "NONE" \/ \E i \in DOMAIN setups : setups[i].key = z /\ setups[i].value = was
    BY DEF ValueOf, Entry
  <2>3. /\ setups' = SetEntry(setups, z, now)
        /\ chartDesk' = IF now # was /\ now \in Notified THEN Told(chartDesk, z, now, held) ELSE chartDesk
    BY <2>1
  <2> HIDE DEF was, now
  <2>4. \/ chartDesk' = Told(chartDesk, z, now, held)
        \/ /\ chartDesk' = chartDesk
           /\ now \in Notified => \E i \in DOMAIN setups : setups[i].key = z /\ setups[i].value = now
    BY <2>2, <2>3 DEF Notified
  <2>5. DeskOK(chartDesk) /\ AllStand(setups, chartDesk)
    BY DEF ChartWatchInv
  <2>6. DeskOK(chartDesk') /\ AllStand(SetEntry(setups, z, now), chartDesk')
    BY <2>4, <2>5, PhaseSet
  <2> QED BY <2>3, <2>6 DEF ChartWatchInv
<1>9. ASSUME NEW g \in ingests, NEW e \in Missing(g), SetupMissing(g, e) PROVE ChartWatchInv'
  <2>1. PICK now, held : setups' = SetEntry(setups, e.key, now) /\ chartDesk' = Told(chartDesk, e.key, now, held)
    BY <1>9 DEF SetupMissing
  <2>2. DeskOK(chartDesk) /\ AllStand(setups, chartDesk)
    BY DEF ChartWatchInv
  <2>3. DeskOK(chartDesk') /\ AllStand(SetEntry(setups, e.key, now), chartDesk')
    BY <2>1, <2>2, PhaseSet
  <2> QED BY <2>1, <2>3 DEF ChartWatchInv
<1>10. ASSUME NEW g \in ingests, IngestEnds(g) PROVE ChartWatchInv'
  <2> DEFINE pruned == SubSeq(setups, TrackedDrop + 1, Len(setups))
  <2>1. setups' = setups \/ setups' = pruned
    BY <1>10 DEF IngestEnds, Pruned
  <2>2. PICK strong \in BOOLEAN : chartDesk' = chartDesk \/ chartDesk' = SignalTold(chartDesk, g, strong)
    BY <1>10 DEF IngestEnds
  <2>3. SameSetupWords(chartDesk', chartDesk)
    <3> DEFINE c == ChartAlert("SIGNAL", "SIGNAL", <<"signal", g.confirmed>>, "CONFIRMED", g.symbol)
               a == [c EXCEPT !.rr = IF strong THEN 100 ELSE 0]
    <3>1. a.topic = <<"signal", g.confirmed>>
      BY DEF ChartAlert, Plain
    <3>2. \A z : <<"setup", z>> # a.topic
      BY <3>1, PairTopics
    <3>3. chartDesk' = chartDesk \/ chartDesk' = Submit(chartDesk, a)
      BY <2>2 DEF SignalTold
    <3> HIDE DEF a
    <3>4. DeskOK(chartDesk)
      BY DEF ChartWatchInv
    <3> QED BY <3>2, <3>3, <3>4, OffSetups DEF SameSetupWords
  <2>4. AllStand(setups, chartDesk')
    BY <2>3, WordsKeep DEF ChartWatchInv
  <2>5. PICK S : setups \in Seq(S)
    BY DEF ChartWatchInv, AllStand
  <2>6. pruned \in Seq(S) /\ \A i \in DOMAIN pruned : \E j \in DOMAIN setups : pruned[i] = setups[j]
    BY <2>5, TrackerAssumption, DropsOldest
  <2> HIDE DEF pruned
  <2>7. AllStand(pruned, chartDesk')
    BY <2>4, <2>6 DEF AllStand
  <2>8. AllStand(setups, chartDesk)'
    BY <2>1, <2>4, <2>7
  <2> QED BY <2>3, <2>8 DEF ChartWatchInv, SameSetupWords
<1>11. CASE UNCHANGED chartVars
  BY <1>1, <1>11 DEF chartVars
<1> QED BY <1>3, <1>4, <1>5, <1>6, <1>7, <1>8, <1>9, <1>10, <1>11 DEF ChartNext

LEMMA ChartWatchStart ==
  ASSUME ChartInit
  PROVE  ChartWatchInv
<1>1. PICK s \in ChartDesks : chartDesk = NewDesk(s)
  BY DEF ChartInit
<1>2. setups = <<>> /\ <<>> \in Seq({}) /\ DOMAIN setups = {}
  BY DEF ChartInit
<1>3. AllStand(setups, chartDesk)
  BY <1>2 DEF AllStand
<1> QED BY <1>1, <1>3, NewDeskOK DEF ChartWatchInv

\* For any charts, levels, zones and desks: of every setup the tracker keeps the phase
\* it is in, if it is one to be told and the operator wants it, is the last he was
\* told, however ingests overlap and whatever the tracker and the desk have dropped
\* (setup-tracker.ts:74-76, notification-engine.ts:95-102).
THEOREM LastWordsStand == ChartWatchSpec => []LastWordStands
<1>1. ChartInit => ChartWatchInv
  BY ChartWatchStart
<1>2. ChartWatchInv /\ [ChartNext]_chartVars => ChartWatchInv'
  BY ChartWatchStep
<1>3. ChartWatchInv => LastWordStands
  <2> SUFFICES ASSUME ChartWatchInv, NEW e \in ToSet(setups) PROVE Stands(e, chartDesk)
    BY DEF LastWordStands, Stands
  <2>1. PICK i \in DOMAIN setups : e = setups[i]
    BY DEF ToSet
  <2> QED BY <2>1 DEF ChartWatchInv, AllStand
<1> QED BY <1>1, <1>2, <1>3, PTL DEF ChartWatchSpec

-----------------------------------------------------------------------------
(***************************************************************************)
(* What the event log says of a strategy is no more than what was decided: *)
(* of the promotions that no registration follows, each has cells it still *)
(* has; a promotion nothing follows leaves it active.  That stays true of  *)
(* what a window reads and a rotation keeps, whose lines are those of the  *)
(* file from some place on, without the torn ones.                         *)
(***************************************************************************)

RegistrySpec == RegistryInit /\ [][RegistryNext]_registryVars

RegistryLine == RegistryEvent \union {Elsewhere, TornLine}

\* The places of the lines of these kinds about strategy s.
About(lines, kinds, s) ==
  {k \in DOMAIN lines : lines[k] \in RegistryEvent /\ lines[k].kind \in kinds /\ lines[k].id = s}

NoneAfter(lines, kinds, s, k) == \A j \in About(lines, kinds, s) : j <= k

SaysNoMore(lines, s, most) ==
  \A k \in About(lines, {"promoted"}, s) :
    /\ NoneAfter(lines, {"registered"}, s, k) => lines[k].cells \subseteq most.cells
    /\ NoneAfter(lines, {"registered", "retired"}, s, k) => most.status = "ACTIVE"

HasNoMore(def, most) ==
  /\ def.cells \subseteq most.cells
  /\ def.status = "ACTIVE" => most.status = "ACTIVE"

RegistryInv ==
  /\ RegistryTypeOK
  /\ unwritten \/ \A s \in Strategies :
       HasNoMore(strategies[s], decided[s]) /\ SaysNoMore(registryLog.lines, s, decided[s])

\* q is s from some place on, without the torn lines: its i-th line stood at at[i].
Reading(q, s, at, d) ==
  /\ \A i \in 1 .. Len(q) : at[i] \in 1 .. Len(s) /\ at[i] > d /\ q[i] = s[at[i]]
  /\ \A i, j \in 1 .. Len(q) : i < j => at[i] < at[j]
  /\ \A k \in 1 .. Len(s) : k > d /\ s[k] # TornLine => \E i \in 1 .. Len(q) : at[i] = k

LEMMA RegistryLines ==
  /\ TornLine \notin RegistryEvent /\ Elsewhere \notin RegistryEvent
  /\ \A e \in RegistryEvent : e.kind \in {"registered", "promoted", "retired"} /\ e.id \in Strategies
BY DEF TornLine, Elsewhere, RegistryEvent

Promotes(l, x) == l \in RegistryEvent /\ l.kind = "promoted" /\ l.id = x

LEMMA SaysNoMoreAppended ==
  ASSUME NEW s \in Seq(RegistryLine), NEW l \in RegistryLine, NEW x, NEW most,
         SaysNoMore(s, x, most),
         Promotes(l, x) => l.cells \subseteq most.cells /\ most.status = "ACTIVE"
  PROVE  SaysNoMore(Append(s, l), x, most)
<1> DEFINE t == Append(s, l)
<1>1. /\ Len(s) \in Nat /\ DOMAIN s = 1 .. Len(s) /\ DOMAIN t = 1 .. (Len(s) + 1)
      /\ t[Len(s) + 1] = l /\ \A i \in 1 .. Len(s) : t[i] = s[i]
  BY AppendProperties, LenProperties
<1> HIDE DEF t
<1>2. ASSUME NEW K, NEW k, NoneAfter(t, K, x, k) PROVE NoneAfter(s, K, x, k)
  BY <1>1, <1>2 DEF NoneAfter, About
<1>3. ASSUME NEW k \in About(t, {"promoted"}, x)
      PROVE  /\ NoneAfter(t, {"registered"}, x, k) => t[k].cells \subseteq most.cells
             /\ NoneAfter(t, {"registered", "retired"}, x, k) => most.status = "ACTIVE"
  <2>1. CASE k = Len(s) + 1
    BY <1>1, <2>1 DEF About, Promotes
  <2>2. CASE k # Len(s) + 1
    <3>1. k \in 1 .. Len(s) /\ t[k] = s[k] /\ k \in About(s, {"promoted"}, x)
      BY <1>1, <2>2 DEF About
    <3> QED BY <1>2, <3>1 DEF SaysNoMore
  <2> QED BY <2>1, <2>2
<1> QED BY <1>3 DEF SaysNoMore, t

LEMMA SaysNoMoreAtEnd ==
  ASSUME NEW s \in Seq(RegistryLine), s # <<>>, Last(s) \in RegistryEvent,
         Last(s).kind \in {"registered", "retired"}, NEW most,
         \/ Last(s).kind = "registered"
         \/ \E other : SaysNoMore(s, Last(s).id, other) /\ other.cells \subseteq most.cells
  PROVE  SaysNoMore(s, Last(s).id, most)
<1> DEFINE n == Len(s)
           e == Last(s)
<1>1. n \in Nat /\ n # 0 /\ DOMAIN s = 1 .. n /\ e = s[n]
  BY LenProperties, EmptySeq DEF Last
<1> HIDE DEF n, e
<1>2. ASSUME NEW k \in About(s, {"promoted"}, e.id), NEW K, e.kind \in K, NoneAfter(s, K, e.id, k)
      PROVE  FALSE
  <2>1. n \in About(s, K, e.id)
    BY <1>1, <1>2 DEF About, e
  <2>2. k = n
    BY <1>1, <1>2, <2>1 DEF About, NoneAfter
  <2>3. s[k].kind = "promoted"
    BY DEF About
  <2> QED BY <1>1, <2>2, <2>3 DEF e
<1>3. ASSUME NEW k \in About(s, {"promoted"}, e.id)
      PROVE  /\ NoneAfter(s, {"registered"}, e.id, k) => s[k].cells \subseteq most.cells
             /\ ~ NoneAfter(s, {"registered", "retired"}, e.id, k)
  <2>1. ~ NoneAfter(s, {"registered", "retired"}, e.id, k)
    BY <1>2 DEF e
  <2>2. CASE e.kind = "registered"
    BY <1>2, <2>1, <2>2
  <2>3. CASE e.kind # "registered"
    <3>1. PICK other : SaysNoMore(s, e.id, other) /\ other.cells \subseteq most.cells
      BY <2>3 DEF e
    <3> QED BY <2>1, <3>1 DEF SaysNoMore
  <2> QED BY <2>2, <2>3
<1> QED BY <1>3 DEF SaysNoMore, e

LEMMA SaysNoMoreRead ==
  ASSUME NEW s \in Seq(RegistryLine), NEW q \in Seq(RegistryLine), NEW at, NEW d \in Nat,
         Reading(q, s, at, d), NEW x, NEW most, SaysNoMore(s, x, most)
  PROVE  SaysNoMore(q, x, most)
<1>1. /\ Len(s) \in Nat /\ DOMAIN s = 1 .. Len(s)
      /\ Len(q) \in Nat /\ DOMAIN q = 1 .. Len(q)
  BY LenProperties
<1>2. ASSUME NEW K, NEW i \in About(q, K, x)
      PROVE  i \in 1 .. Len(q) /\ at[i] \in About(s, K, x) /\ q[i] = s[at[i]]
  BY <1>1 DEF About, Reading
<1>3. ASSUME NEW K, NEW i \in 1 .. Len(q), NoneAfter(q, K, x, i), NEW k \in About(s, K, x)
      PROVE  k <= at[i]
  <2>1. /\ k \in 1 .. Len(s) /\ s[k] # TornLine
        /\ at[i] \in 1 .. Len(s) /\ at[i] > d
    BY <1>1, RegistryLines DEF About, Reading
  <2> SUFFICES ASSUME k > at[i] PROVE FALSE
    BY <1>1, <2>1
  <2>2. k > d
    BY <1>1, <2>1
  <2>3. PICK j \in 1 .. Len(q) : at[j] = k
    BY <2>1, <2>2 DEF Reading
  <2>4. q[j] = s[k]
    BY <2>3 DEF Reading
  <2>5. j \in About(q, K, x)
    BY <1>1, <2>4 DEF About
  <2>6. j <= i
    BY <1>3, <2>5 DEF NoneAfter
  <2>7. j = i \/ at[j] < at[i]
    BY <1>1, <2>6 DEF Reading
  <2> QED BY <1>1, <2>1, <2>3, <2>7
<1>4. ASSUME NEW i \in About(q, {"promoted"}, x)
      PROVE  /\ NoneAfter(q, {"registered"}, x, i) => q[i].cells \subseteq most.cells
             /\ NoneAfter(q, {"registered", "retired"}, x, i) => most.status = "ACTIVE"
  <2>1. i \in 1 .. Len(q) /\ at[i] \in About(s, {"promoted"}, x) /\ q[i] = s[at[i]]
    BY <1>2
  <2>2. ASSUME NEW K, NoneAfter(q, K, x, i) PROVE NoneAfter(s, K, x, at[i])
    BY <1>3, <2>1, <2>2 DEF NoneAfter
  <2> QED BY <2>1, <2>2 DEF SaysNoMore
<1> QED BY <1>4 DEF SaysNoMore

\* The log's module counts as this one does.
LEMMA CountsAlike == \A S : L!Cardinality(S) = Cardinality(S)
BY DEF L!Cardinality, Cardinality

\* What a window reads of a file, and what a rotation keeps of it.
LEMMA ReadAllReads ==
  ASSUME NEW s \in Seq(RegistryLine), NEW n \in Nat, NEW f, f.lines = s
  PROVE  /\ L!ReadAll(f, n) \in Seq(RegistryLine)
         /\ Len(L!ReadAll(f, n)) <= n /\ Len(L!ReadAll(f, n)) <= Len(s)
         /\ \E at, d : /\ d \in Nat /\ Reading(L!ReadAll(f, n), s, at, d)
                       /\ n # 0 /\ Len(s) # 0 => d < Len(s)
<1> DEFINE m == 1 + (IF Len(s) > n THEN Len(s) - n ELSE 0)
           t == SubSeq(s, m, Len(s))
           P == {k \in DOMAIN t : t[k] # TornLine}
           c == Cardinality(P)
           q == L!ReadAll(f, n)
           at == [i \in 1 .. c |-> m - 1 + Nth(P, i)]
<1>1. Len(s) \in Nat /\ DOMAIN s = 1 .. Len(s) /\ m \in 1 .. (Len(s) + 1)
  BY LenProperties
<1>2. m \in Int /\ (m <= Len(s) => m \in 1 .. Len(s)) /\ \A i \in m .. Len(s) : s[i] \in RegistryLine
  BY <1>1, LenProperties
<1>3. Len(s) + 1 - m <= n /\ m - 1 \in Nat /\ Len(s) + 1 - m \in Nat /\ Len(s) + 1 - m <= Len(s)
  BY <1>1
<1>3a. n # 0 /\ Len(s) # 0 => m - 1 < Len(s)
  BY <1>1
<1>4. q = L!Readable(t)
  BY DEF L!ReadAll, L!Newest
<1> HIDE DEF m
<1>5. /\ t \in Seq(RegistryLine) /\ Len(t) = Len(s) + 1 - m
      /\ \A i \in 1 .. (Len(s) + 1 - m) : t[i] = s[m + i - 1]
  <2>1. /\ t \in Seq(RegistryLine) /\ Len(t) = IF m <= Len(s) THEN Len(s) - m + 1 ELSE 0
        /\ \A i \in 1 .. (Len(s) - m + 1) : t[i] = s[m + i - 1]
    BY <1>1, <1>2, SubSeqProperties
  <2>2. (IF m <= Len(s) THEN Len(s) - m + 1 ELSE 0) = Len(s) + 1 - m /\ Len(s) - m + 1 = Len(s) + 1 - m
    BY <1>1
  <2> QED BY <2>1, <2>2
<1> HIDE DEF t, q
<1>6. q = [i \in 1 .. c |-> t[Nth(P, i)]]
  BY <1>4 DEF L!Readable, Nth, Rank, L!Cardinality, Cardinality
<1>7. DOMAIN t = 1 .. Len(t) /\ Len(t) \in Nat /\ P \subseteq 1 .. Len(t)
  BY <1>5, LenProperties
<1>8. /\ c \in 0 .. Len(t)
      /\ \A k \in P : Rank(P, k) \in 1 .. c /\ Nth(P, Rank(P, k)) = k
      /\ \A i \in 1 .. c : Nth(P, i) \in P
      /\ \A i, j \in 1 .. c : i < j => Nth(P, i) < Nth(P, j)
  BY <1>7, RankCounts
<1>9. \A k \in P : k \in 1 .. Len(t) /\ t[k] \in RegistryLine /\ t[k] = s[m + k - 1]
  BY <1>5, <1>7, LenProperties
<1>10. \A k \in 1 .. Len(t) : t[k] # TornLine => k \in P
  BY <1>7
<1> HIDE DEF P, c
<1>11. q \in [1 .. c -> RegistryLine] /\ c \in Nat
  <2>1. c \in Nat
    BY <1>7, <1>8
  <2>2. \A i \in 1 .. c : t[Nth(P, i)] \in RegistryLine
    BY <1>8, <1>9
  <2> QED BY <1>6, <2>1, <2>2, Zenon
<1>12. q \in Seq(RegistryLine) /\ Len(q) = c
  BY <1>11, SeqDef, LenProperties
<1>13. ASSUME NEW i \in 1 .. c
       PROVE  at[i] \in 1 .. Len(s) /\ at[i] > m - 1 /\ q[i] = s[at[i]]
  <2>1. Nth(P, i) \in 1 .. Len(t) /\ q[i] = t[Nth(P, i)] /\ t[Nth(P, i)] = s[m + Nth(P, i) - 1]
    BY <1>6, <1>8, <1>9
  <2>2. at[i] = m - 1 + Nth(P, i)
    OBVIOUS
  <2>3. /\ m + Nth(P, i) - 1 = m - 1 + Nth(P, i)
        /\ m - 1 + Nth(P, i) \in 1 .. Len(s) /\ m - 1 + Nth(P, i) > m - 1
    <3>1. /\ m \in Int /\ m >= 1 /\ Len(s) \in Int /\ Nth(P, i) \in Int
          /\ Nth(P, i) >= 1 /\ Nth(P, i) <= Len(s) + 1 - m
      BY <1>1, <1>2, <1>5, <2>1
    <3> QED BY <3>1, SMTT(30)
  <2> QED BY <2>1, <2>2, <2>3
<1>14. ASSUME NEW i \in 1 .. c, NEW j \in 1 .. c, i < j PROVE at[i] < at[j]
  <2>1. Nth(P, i) < Nth(P, j) /\ Nth(P, i) \in P /\ Nth(P, j) \in P
    BY <1>8, <1>14, Zenon
  <2>2. Nth(P, i) \in Int /\ Nth(P, j) \in Int
    BY <1>9, <2>1
  <2>3. m - 1 + Nth(P, i) < m - 1 + Nth(P, j)
    BY <1>2, <2>1, <2>2
  <2> QED BY <2>3
<1>15. ASSUME NEW k \in 1 .. Len(s), k > m - 1, s[k] # TornLine PROVE \E i \in 1 .. c : at[i] = k
  <2>1. k - (m - 1) \in 1 .. Len(t) /\ m + (k - (m - 1)) - 1 = k
    <3>1. m \in Int /\ Len(s) \in Int /\ k \in Int /\ k <= Len(s) /\ k > m - 1
      BY <1>1, <1>2, <1>15
    <3>2. k - (m - 1) \in 1 .. (Len(s) + 1 - m) /\ m + (k - (m - 1)) - 1 = k
      BY <3>1, SMTT(30)
    <3> QED BY <1>5, <3>2
  <2>2. k - (m - 1) \in P
    BY <1>5, <1>10, <1>15, <2>1
  <2>3. Rank(P, k - (m - 1)) \in 1 .. c /\ Nth(P, Rank(P, k - (m - 1))) = k - (m - 1)
    BY <1>8, <2>2
  <2>4. at[Rank(P, k - (m - 1))] = m - 1 + (k - (m - 1))
    BY <2>3
  <2>5. m - 1 + (k - (m - 1)) = k
    <3>1. m \in Int /\ k \in Int
      BY <1>1, <1>2, <1>15
    <3> QED BY <3>1
  <2> QED BY <2>3, <2>4, <2>5
<1> HIDE DEF at
<1>16. Reading(q, s, at, m - 1)
  BY <1>12, <1>13, <1>14, <1>15 DEF Reading
<1>17. Len(q) <= n /\ Len(q) <= Len(s)
  <2>1. Len(t) <= n /\ Len(t) <= Len(s) /\ Len(t) \in Nat /\ Len(s) \in Nat
    BY <1>1, <1>3, <1>5
  <2>2. Len(q) \in Nat /\ Len(q) <= Len(t)
    BY <1>8, <1>12, <2>1
  <2> QED BY <2>1, <2>2
<1> QED BY <1>3, <1>3a, <1>12, <1>16, <1>17 DEF q

\* What an append may leave: the file, with the line or half a line, or a reading of that.
LEMMA AppendsRead ==
  ASSUME NEW f, f = [lines |-> f.lines, open |-> f.open], f.lines \in Seq(RegistryLine), f.open \in BOOLEAN, Len(f.lines) <= LogLines,
         NEW e \in RegistryEvent \union {Elsewhere}, NEW a \in L!Appends(f, e)
  PROVE  /\ a.log = [lines |-> a.log.lines, open |-> a.log.open] /\ a.log.open \in BOOLEAN
         /\ a.log.lines \in Seq(RegistryLine) /\ Len(a.log.lines) <= LogLines
         /\ \E base \in {f.lines, Append(f.lines, e), Append(f.lines, TornLine)} :
              \E at, d : d \in Nat /\ Reading(a.log.lines, base, at, d)
<1> DEFINE lines == IF f.open THEN f.lines ELSE Append(f.lines, e)
           torn == IF f.open THEN f.lines ELSE Append(f.lines, TornLine)
<1>0. LogKeeps \in Nat \ {0} /\ LogLines \in Nat /\ LogKeeps < LogLines
  BY RegistryAssumption
<1>1. e \in RegistryLine /\ TornLine \in RegistryLine
  BY DEF RegistryLine
<1>2. \A l \in RegistryLine : /\ Append(f.lines, l) \in Seq(RegistryLine)
                              /\ Len(Append(f.lines, l)) = Len(f.lines) + 1
  BY AppendProperties
<1>3. /\ lines \in Seq(RegistryLine) /\ lines \in {f.lines, Append(f.lines, e)}
      /\ torn \in Seq(RegistryLine) /\ torn \in {f.lines, Append(f.lines, TornLine)}
      /\ Len(lines) <= Len(f.lines) + 1 /\ Len(torn) <= Len(f.lines) + 1
      /\ Len(torn) = Len(lines) /\ Len(f.lines) \in Nat /\ Len(lines) \in Nat
  BY <1>1, <1>2, LenProperties
<1>4. L!Continued(f, e) = lines /\ L!Continued(f, TornLine) = torn
  BY DEF L!Continued
<1> HIDE DEF lines, torn
<1>5. ASSUME NEW s \in Seq(RegistryLine)
      PROVE  \E at, d : d \in Nat /\ Reading(s, s, at, d)
  <2>1. Reading(s, s, [i \in 1 .. Len(s) |-> i], 0)
    BY LenProperties DEF Reading
  <2> QED BY <2>1
<1>6. /\ L!Rotated(lines) \in Seq(RegistryLine)
      /\ Len(L!Rotated(lines)) <= LogKeeps \/ L!Rotated(lines) = f.lines
      /\ \E at, d : d \in Nat /\ Reading(L!Rotated(lines), lines, at, d)
  <2> DEFINE file == [lines |-> lines, open |-> FALSE]
             tail == L!ReadAll(file, LogKeeps)
  <2>1. /\ tail \in Seq(RegistryLine) /\ Len(tail) <= LogKeeps
        /\ \E at, d : d \in Nat /\ Reading(tail, lines, at, d) /\ (Len(lines) # 0 => d < Len(lines))
    <3>1. file.lines = lines
      OBVIOUS
    <3> HIDE DEF file
    <3> QED BY <1>0, <1>3, <3>1, ReadAllReads
  <2>2. L!Rotated(lines) = IF tail = <<>> THEN lines ELSE tail
    BY DEF L!Rotated
  <2> HIDE DEF tail
  <2>3. ASSUME tail = <<>> PROVE lines = f.lines
    <3> SUFFICES ASSUME lines = Append(f.lines, e) PROVE FALSE
      BY <1>3
    <3>1. Len(lines) = Len(f.lines) + 1 /\ lines[Len(lines)] = e
      BY <1>1, <1>3, AppendProperties
    <3>2. Len(lines) \in 1 .. Len(lines) /\ e # TornLine /\ Len(lines) # 0
      BY <1>3, <3>1, RegistryLines DEF Elsewhere, TornLine
    <3>3. PICK i \in 1 .. Len(tail) : TRUE
      BY <2>1, <3>1, <3>2 DEF Reading
    <3>4. Len(tail) = 0
      BY <2>3
    <3> QED BY <3>3, <3>4
  <2> QED BY <1>3, <1>5, <2>1, <2>2, <2>3
<1> DEFINE kept == (IF Len(lines) < LogLines THEN {lines} ELSE {})
                     \union (IF Len(lines) > LogKeeps THEN {L!Rotated(lines)} ELSE {})
           written == {[log |-> [lines |-> g, open |-> FALSE], ok |-> TRUE] : g \in kept}
           lost == IF DiskFails THEN {[log |-> f, ok |-> FALSE]} ELSE {}
           half == IF DiskTears /\ Len(lines) < LogLines
                   THEN {[log |-> [lines |-> torn, open |-> TRUE], ok |-> FALSE]} ELSE {}
<1>7. L!Appends(f, e) = written \union lost \union half
  BY <1>4 DEF L!Appends
<1>8. a \in written \/ a \in lost \/ a \in half
  BY <1>7
<1>9. ASSUME a \in lost
      PROVE  /\ a.log.lines = f.lines /\ a.log = f
             /\ \E at, d : d \in Nat /\ Reading(f.lines, f.lines, at, d)
  BY <1>5, <1>9
<1>10. ASSUME a \in half
       PROVE  /\ a.log.lines = torn /\ a.log = [lines |-> torn, open |-> TRUE] /\ a.log.open = TRUE
              /\ Len(torn) <= LogLines
              /\ \E at, d : d \in Nat /\ Reading(torn, torn, at, d)
  <2>0. /\ Len(lines) < LogLines
        /\ a \in {[log |-> [lines |-> torn, open |-> TRUE], ok |-> FALSE]}
    BY <1>10, Zenon
  <2>1. a.log = [lines |-> torn, open |-> TRUE] /\ Len(lines) < LogLines
    BY <2>0
  <2>2. Len(torn) <= LogLines
    BY <1>0, <1>3, <2>1
  <2>3. \E at, d : d \in Nat /\ Reading(torn, torn, at, d)
    BY <1>3, <1>5
  <2> QED BY <2>1, <2>2, <2>3
<1>11. ASSUME a \in written
       PROVE  \E g : /\ a.log.lines = g /\ a.log = [lines |-> g, open |-> FALSE] /\ a.log.open = FALSE
                     /\ g \in Seq(RegistryLine) /\ Len(g) <= LogLines
                     /\ \E at, d : d \in Nat /\ Reading(g, lines, at, d)
  <2>1. PICK g \in kept : a = [log |-> [lines |-> g, open |-> FALSE], ok |-> TRUE]
    BY <1>11
  <2>2. \/ g = lines /\ Len(lines) < LogLines
        \/ g = L!Rotated(lines) /\ Len(lines) > LogKeeps
    OBVIOUS
  <2>3. a.log = [lines |-> g, open |-> FALSE] /\ a.log.lines = g /\ a.log.open = FALSE
    BY <2>1
  <2>4. g \in Seq(RegistryLine) /\ \E at, d : d \in Nat /\ Reading(g, lines, at, d)
    BY <1>3, <1>5, <1>6, <2>2
  <2>5. Len(g) <= LogLines
    <3>1. CASE g = lines /\ Len(lines) < LogLines
      BY <1>0, <1>3, <3>1
    <3>2. CASE g = f.lines
      BY <3>2
    <3>3. CASE g = L!Rotated(lines) /\ g # f.lines
      <4>1. Len(g) <= LogKeeps /\ Len(g) \in Nat
        BY <1>6, <2>4, <3>3, LenProperties
      <4> QED BY <1>0, <4>1
    <3> QED BY <2>2, <3>1, <3>2, <3>3
  <2> QED BY <2>3, <2>4, <2>5
<1> HIDE DEF written, lost, half
<1> QED BY <1>3, <1>8, <1>9, <1>10, <1>11

-----------------------------------------------------------------------------
(* The replay of a log. *)

Definitions == {Unknown} \union [status : Status, version : 1 .. MaxVersion, gate : Gates,
                                 cells : SUBSET Regimes]
Registries == [Strategies -> Definitions]

Withdrawn(def) == [def EXCEPT !.status = "RETIRED"]

LEMMA ReplayedType ==
  ASSUME NEW reg \in Registries, NEW e \in RegistryLine
  PROVE  /\ Replayed(reg, e) \in Registries
         /\ \A s \in Strategies : Replayed(reg, e)[s] =
              IF e \notin RegistryEvent \/ e.id # s THEN reg[s]
              ELSE IF e.kind = "registered" THEN Candidate(e.version, e.gate)
              ELSE IF reg[s] = Unknown THEN Unknown
              ELSE IF e.kind = "promoted" THEN Promoted(reg[s], e.cells)
              ELSE Withdrawn(reg[s])
<1>1. CASE e \notin RegistryEvent
  BY <1>1 DEF RegistryLine, Elsewhere, TornLine, Replayed
<1>2. ASSUME e \in RegistryEvent, e.kind = "registered"
      PROVE  /\ Replayed(reg, e) = [reg EXCEPT ![e.id] = Candidate(e.version, e.gate)]
             /\ e.id \in Strategies /\ Candidate(e.version, e.gate) \in Definitions
  BY <1>2 DEF RegistryEvent, Replayed, Candidate, Definitions, Status
<1>3. ASSUME e \in RegistryEvent, e.kind = "promoted", reg[e.id] # Unknown
      PROVE  /\ Replayed(reg, e) = [reg EXCEPT ![e.id] = Promoted(reg[e.id], e.cells)]
             /\ e.id \in Strategies /\ Promoted(reg[e.id], e.cells) \in Definitions
  <2>1. e.id \in Strategies /\ e.cells \in SUBSET Regimes
    BY <1>3 DEF RegistryEvent
  <2>2. reg[e.id] \in Definitions
    BY <2>1 DEF Registries
  <2>3. Promoted(reg[e.id], e.cells) \in Definitions
    BY <1>3, <2>1, <2>2 DEF Promoted, Definitions, Status
  <2>4. Replayed(reg, e) = [reg EXCEPT ![e.id] = Promoted(@, e.cells)]
    BY <1>3 DEF Replayed
  <2> QED BY <2>1, <2>3, <2>4
<1>4. ASSUME e \in RegistryEvent, e.kind = "retired", reg[e.id] # Unknown
      PROVE  /\ Replayed(reg, e) = [reg EXCEPT ![e.id] = Withdrawn(reg[e.id])]
             /\ e.id \in Strategies /\ Withdrawn(reg[e.id]) \in Definitions
  <2>1. e.id \in Strategies
    BY <1>4 DEF RegistryEvent
  <2>2. reg[e.id] \in Definitions
    BY <2>1 DEF Registries
  <2>3. Withdrawn(reg[e.id]) \in Definitions
    BY <1>4, <2>2 DEF Withdrawn, Definitions, Status
  <2>4. Replayed(reg, e) = [reg EXCEPT ![e.id].status = "RETIRED"]
    BY <1>4 DEF Replayed
  <2>5. Replayed(reg, e) = [reg EXCEPT ![e.id] = Withdrawn(reg[e.id])]
    BY <2>4 DEF Withdrawn
  <2> QED BY <2>1, <2>3, <2>5
<1>5. ASSUME e \in RegistryEvent, e.kind # "registered", reg[e.id] = Unknown
      PROVE  Replayed(reg, e) = reg
  BY <1>5 DEF Replayed
<1>6. e \in RegistryEvent => e.kind \in {"registered", "promoted", "retired"}
  BY RegistryLines
<1>7. ASSUME NEW b \in Strategies, NEW def \in Definitions
      PROVE  /\ [reg EXCEPT ![b] = def] \in Registries
             /\ \A s \in Strategies : [reg EXCEPT ![b] = def][s] = IF b # s THEN reg[s] ELSE def
  BY DEF Registries
<1>9. CASE e \in RegistryEvent /\ e.kind = "registered"
  <2> DEFINE def == Candidate(e.version, e.gate)
  <2>1. /\ Replayed(reg, e) = [reg EXCEPT ![e.id] = def]
        /\ e.id \in Strategies /\ def \in Definitions
    BY <1>2, <1>9
  <2> HIDE DEF def
  <2>2. /\ Replayed(reg, e) \in Registries
        /\ \A s \in Strategies : Replayed(reg, e)[s] = IF e.id # s THEN reg[s] ELSE def
    BY <2>1 DEF Registries
  <2> QED BY <1>9, <2>2 DEF def
<1>10. CASE e \in RegistryEvent /\ e.kind # "registered" /\ reg[e.id] = Unknown
  BY <1>5, <1>10
<1>11. CASE e \in RegistryEvent /\ e.kind = "promoted" /\ reg[e.id] # Unknown
  <2> DEFINE def == Promoted(reg[e.id], e.cells)
  <2>1. /\ Replayed(reg, e) = [reg EXCEPT ![e.id] = def]
        /\ e.id \in Strategies /\ def \in Definitions
    BY <1>3, <1>11
  <2> HIDE DEF def
  <2>2. /\ Replayed(reg, e) \in Registries
        /\ \A s \in Strategies : Replayed(reg, e)[s] = IF e.id # s THEN reg[s] ELSE def
    BY <2>1 DEF Registries
  <2> QED BY <1>11, <2>2 DEF def
<1>12. CASE e \in RegistryEvent /\ e.kind = "retired" /\ reg[e.id] # Unknown
  <2> DEFINE def == Withdrawn(reg[e.id])
  <2>1. /\ Replayed(reg, e) = [reg EXCEPT ![e.id] = def]
        /\ e.id \in Strategies /\ def \in Definitions
    BY <1>4, <1>12
  <2> HIDE DEF def
  <2>2. /\ Replayed(reg, e) \in Registries
        /\ \A s \in Strategies : Replayed(reg, e)[s] = IF e.id # s THEN reg[s] ELSE def
    BY <2>1 DEF Registries
  <2> QED BY <1>12, <2>2 DEF def
<1>13. CASE e \notin RegistryEvent
  BY <1>1, <1>13
<1> QED BY <1>6, <1>9, <1>10, <1>11, <1>12, <1>13

LEMMA HydratedRun ==
  ASSUME NEW f, NEW w \in Seq(RegistryLine), w = L!ReadAll(f, RegistryView)
  PROVE  \E run \in [0 .. Len(w) -> Registries] :
           /\ run[0] = [s \in Strategies |-> Unknown]
           /\ \A i \in 1 .. Len(w) : run[i] = Replayed(run[i - 1], w[i])
           /\ RegistryHydrated(f) = run[Len(w)]
<1> DEFINE n == Len(w)
           A == Registries
           base == [s \in Strategies |-> Unknown]
           F == [p \in (1 .. n) \X A |-> Replayed(p[2], w[p[1]])]
           Eq(h) == h = [u \in SUBSET (1 .. n) |->
                           IF u = {} THEN base ELSE Replayed(h[u \ {Max(u)}], w[Max(u)])]
           it == CHOOSE h : Eq(h)
<1>1. n \in Nat /\ DOMAIN w = 1 .. n /\ \A i \in 1 .. n : w[i] \in RegistryLine
  BY LenProperties
<1>2. F \in [(1 .. n) \X A -> A] /\ base \in A
  <2>1. base \in A
    BY DEF Registries, Definitions
  <2>2. \A p \in (1 .. n) \X A : Replayed(p[2], w[p[1]]) \in A
    BY <1>1, ReplayedType
  <2> QED BY <2>1, <2>2
<1>3. ASSUME NEW i \in 1 .. n, NEW a \in A PROVE F[<<i, a>>] = Replayed(a, w[i])
  BY <1>3
<1>4. RegistryHydrated(f) = it[1 .. n]
  BY <1>1 DEF RegistryHydrated, FoldLeft, MapThenFoldSet
<1> HIDE DEF F, n, A, base
<1>5. ASSUME NEW u \in SUBSET (1 .. n), u # {} PROVE Max(u) \in 1 .. n /\ u \ {Max(u)} \in SUBSET (1 .. n)
  BY <1>1, <1>5, MaxOfSome
<1>6. ASSUME NEW h, IsTable(h, A, base, n, F) PROVE Obeys(it, A, base, n, F)
  <2>1. Eq(h)
    BY <1>3, <1>5, <1>6 DEF IsTable
  <2> HIDE DEF Eq
  <2>2. Eq(it)
    BY <2>1
  <2> HIDE DEF it
  <2> USE DEF Eq
  <2> QED BY <1>3, <1>5, <2>2 DEF Obeys
<1> HIDE DEF it
<1>7. PICK run : IsRun(run, A, base, n, F) /\ it[1 .. n] = run[n]
  <2>1. Folds(it, A, base, n, F)
    BY <1>1, <1>2, <1>6, FoldRun
  <2> QED BY <2>1 DEF Folds
<1>8. ASSUME NEW i \in 1 .. n PROVE run[i] = Replayed(run[i - 1], w[i])
  <2>1. i - 1 \in 0 .. n
    BY <1>1
  <2>2. run[i - 1] \in A /\ run[i] = F[<<i, run[i - 1]>>]
    BY <1>7, <2>1 DEF IsRun
  <2> QED BY <1>3, <2>2
<1>9. run \in [0 .. n -> A] /\ run[0] = base
  BY <1>7 DEF IsRun
<1> QED BY <1>4, <1>7, <1>8, <1>9 DEF n, A, base

\* What the replay of the first i lines makes of s, they say themselves.
Earned(w, i, s, def) ==
  /\ \A c \in def.cells : \E k \in About(w, {"promoted"}, s) :
       k <= i /\ c \in w[k].cells /\ \A m \in About(w, {"registered"}, s) : m <= i => m <= k
  /\ def.status = "ACTIVE" => \E k \in About(w, {"promoted"}, s) :
       k <= i /\ \A m \in About(w, {"registered", "retired"}, s) : m <= i => m <= k

LEMMA EarnedStep ==
  ASSUME NEW w \in Seq(RegistryLine), NEW i \in 1 .. Len(w), NEW s \in Strategies,
         NEW reg \in Registries, Earned(w, i - 1, s, reg[s])
  PROVE  Earned(w, i, s, Replayed(reg, w[i])[s])
<1> DEFINE e == w[i]
           def == reg[s]
           new == Replayed(reg, w[i])[s]
<1>1. Len(w) \in Nat /\ DOMAIN w = 1 .. Len(w) /\ e \in RegistryLine
  BY LenProperties
<1>2. new = IF e \notin RegistryEvent \/ e.id # s THEN def
            ELSE IF e.kind = "registered" THEN Candidate(e.version, e.gate)
            ELSE IF def = Unknown THEN Unknown
            ELSE IF e.kind = "promoted" THEN Promoted(def, e.cells)
            ELSE Withdrawn(def)
  BY <1>1, ReplayedType
<1>3. def \in Definitions /\ (e \in RegistryEvent => e.kind \in {"registered", "promoted", "retired"})
  BY RegistryLines DEF Registries
<1>4. i \in Nat /\ \A K : About(w, K, s) \subseteq Nat
  BY <1>1 DEF About
<1> HIDE DEF new, def
<1>5. ASSUME NEW K, i \notin About(w, K, s), NEW m \in About(w, K, s), m <= i PROVE m <= i - 1
  BY <1>4, <1>5
<1>6. ASSUME i \notin About(w, {"registered"}, s), NEW c \in def.cells
      PROVE  \E k \in About(w, {"promoted"}, s) :
               k <= i /\ c \in w[k].cells /\ \A m \in About(w, {"registered"}, s) : m <= i => m <= k
  <2>1. PICK k \in About(w, {"promoted"}, s) :
          k <= i - 1 /\ c \in w[k].cells /\ \A m \in About(w, {"registered"}, s) : m <= i - 1 => m <= k
    BY DEF Earned, def
  <2>2. k <= i /\ \A m \in About(w, {"registered"}, s) : m <= i => m <= k
    BY <1>4, <1>5, <1>6, <2>1
  <2> QED BY <2>1, <2>2
<1>7. CASE e \notin RegistryEvent \/ e.id # s
  <2>1. new = def /\ \A K : i \notin About(w, K, s)
    BY <1>2, <1>7 DEF About
  <2>2. ASSUME def.status = "ACTIVE"
        PROVE  \E k \in About(w, {"promoted"}, s) :
                 k <= i /\ \A m \in About(w, {"registered", "retired"}, s) : m <= i => m <= k
    <3>1. PICK k \in About(w, {"promoted"}, s) :
            k <= i - 1 /\ \A m \in About(w, {"registered", "retired"}, s) : m <= i - 1 => m <= k
      BY <2>2 DEF Earned, def
    <3>2. k <= i /\ \A m \in About(w, {"registered", "retired"}, s) : m <= i => m <= k
      BY <1>4, <1>5, <2>1, <3>1
    <3> QED BY <3>1, <3>2
  <2> QED BY <1>6, <2>1, <2>2 DEF Earned, new
<1>8. CASE new.cells = {} /\ new.status # "ACTIVE"
  BY <1>8 DEF Earned, new
<1>9. CASE e \in RegistryEvent /\ e.id = s /\ e.kind = "promoted" /\ def # Unknown
  <2>1. new.cells = def.cells \union e.cells
    BY <1>2, <1>3, <1>9 DEF Promoted, Definitions
  <2>2. i \in About(w, {"promoted"}, s) /\ i \notin About(w, {"registered"}, s)
    BY <1>1, <1>9 DEF About
  <2>3. \A c \in e.cells : c \in w[i].cells
    OBVIOUS
  <2> HIDE DEF e
  <2>4. i <= i /\ \A K : \A m \in About(w, K, s) : m <= i => m <= i
    BY <1>4
  <2>5. ASSUME NEW c \in new.cells
        PROVE  \E k \in About(w, {"promoted"}, s) :
                 k <= i /\ c \in w[k].cells /\ \A m \in About(w, {"registered"}, s) : m <= i => m <= k
    <3>1. CASE c \in def.cells
      BY <1>6, <2>2, <3>1
    <3>2. CASE c \in e.cells
      BY <2>2, <2>3, <2>4, <3>2
    <3> QED BY <2>1, <3>1, <3>2
  <2> QED BY <2>2, <2>4, <2>5 DEF Earned, new
<1>10. CASE e \in RegistryEvent /\ e.id = s /\ e.kind = "retired" /\ def # Unknown
  <2>1. new.cells = def.cells /\ new.status = "RETIRED"
    BY <1>2, <1>3, <1>10 DEF Withdrawn, Definitions
  <2>2. i \notin About(w, {"registered"}, s)
    BY <1>10 DEF About
  <2> QED BY <1>6, <2>1, <2>2 DEF Earned, new
<1>11. CASE e \in RegistryEvent /\ e.id = s /\ (e.kind = "registered" \/ def = Unknown)
  BY <1>2, <1>8, <1>11 DEF Candidate, Unknown
<1> QED BY <1>3, <1>7, <1>9, <1>10, <1>11

\* What a restart reads back is no more than what the log says.
LEMMA HydratedHasNoMore ==
  ASSUME NEW f, NEW w \in Seq(RegistryLine), w = L!ReadAll(f, RegistryView)
  PROVE  /\ RegistryHydrated(f) \in Registries
         /\ \A s \in Strategies : \A most :
              SaysNoMore(w, s, most) => HasNoMore(RegistryHydrated(f)[s], most)
<1>1. PICK run \in [0 .. Len(w) -> Registries] :
        /\ run[0] = [s \in Strategies |-> Unknown]
        /\ \A i \in 1 .. Len(w) : run[i] = Replayed(run[i - 1], w[i])
        /\ RegistryHydrated(f) = run[Len(w)]
  BY HydratedRun
<1> DEFINE n == Len(w)
           P == {i \in 0 .. n : \A s \in Strategies : Earned(w, i, s, run[i][s])}
<1>2. n \in Nat /\ DOMAIN w = 1 .. n /\ n \in 0 .. n
  BY LenProperties
<1>3. 0 \in P
  BY <1>1, <1>2 DEF Earned, Unknown
<1>4. ASSUME NEW i \in 1 .. n, i - 1 \in P PROVE i \in P
  <2>1. i - 1 \in 0 .. n /\ i \in 0 .. n /\ run[i - 1] \in Registries
    BY <1>2
  <2>2. \A s \in Strategies : Earned(w, i - 1, s, run[i - 1][s])
    BY <1>4
  <2>3. \A s \in Strategies : Earned(w, i, s, Replayed(run[i - 1], w[i])[s])
    BY <2>1, <2>2, EarnedStep
  <2>4. run[i] = Replayed(run[i - 1], w[i])
    BY <1>1
  <2> QED BY <2>1, <2>3, <2>4
<1>5. n \in P
  <2> HIDE DEF P, n
  <2> QED BY <1>2, <1>3, <1>4, UpTo
<1>6. run[n] \in Registries /\ \A s \in Strategies : Earned(w, n, s, run[n][s])
  BY <1>2, <1>5
<1>7. \A K, s : \A m \in About(w, K, s) : m <= n
  BY <1>2 DEF About
<1>8. ASSUME NEW s \in Strategies, NEW most, SaysNoMore(w, s, most), NEW def, Earned(w, n, s, def)
      PROVE  HasNoMore(def, most)
  <2>1. ASSUME NEW c \in def.cells PROVE c \in most.cells
    <3>1. PICK k \in About(w, {"promoted"}, s) :
            c \in w[k].cells /\ \A m \in About(w, {"registered"}, s) : m <= n => m <= k
      BY <1>8 DEF Earned
    <3>2. NoneAfter(w, {"registered"}, s, k)
      BY <1>7, <3>1 DEF NoneAfter
    <3> QED BY <1>8, <3>1, <3>2 DEF SaysNoMore
  <2>2. ASSUME def.status = "ACTIVE" PROVE most.status = "ACTIVE"
    <3>1. PICK k \in About(w, {"promoted"}, s) :
            \A m \in About(w, {"registered", "retired"}, s) : m <= n => m <= k
      BY <1>8, <2>2 DEF Earned
    <3>2. NoneAfter(w, {"registered", "retired"}, s, k)
      BY <1>7, <3>1 DEF NoneAfter
    <3> QED BY <1>8, <3>1, <3>2 DEF SaysNoMore
  <2> QED BY <2>1, <2>2 DEF HasNoMore
<1> HIDE DEF n
<1> QED BY <1>1, <1>6, <1>8 DEF n

-----------------------------------------------------------------------------
(* The steps. *)

\* The line was lost, or is the file's last.
Lost(e) == registryLog'.lines = <<>> \/ Last(registryLog'.lines) # e

LEMMA WritesKeeps ==
  ASSUME RegistryInv, NEW e \in RegistryEvent \union {Elsewhere}, Writes(e)
  PROVE  /\ ~ unwritten /\ unwritten' \in BOOLEAN
         /\ unwritten' \/ e.kind \notin {"registered", "retired"} \/ ~ Lost(e)
         /\ registryLog' \in [lines : Seq(RegistryLine), open : BOOLEAN]
         /\ registryLog'.lines \in Seq(RegistryLine)
         /\ Len(registryLog'.lines) <= LogLines
         /\ \A x, most : /\ SaysNoMore(registryLog.lines, x, most)
                         /\ Promotes(e, x) => e.cells \subseteq most.cells /\ most.status = "ACTIVE"
                         => SaysNoMore(registryLog'.lines, x, most)
<1> DEFINE f == registryLog
<1>1. /\ f = [lines |-> f.lines, open |-> f.open] /\ f.lines \in Seq(RegistryLine)
      /\ f.open \in BOOLEAN /\ Len(f.lines) <= LogLines /\ unwritten \in BOOLEAN
  BY DEF RegistryInv, RegistryTypeOK, RegistryLine
<1>2. PICK a \in L!Appends(f, e) :
        /\ ~ unwritten /\ registryLog' = a.log
        /\ unwritten' = (unwritten \/ (e.kind \in {"registered", "retired"}
                                         /\ (a.log.lines = <<>> \/ Last(a.log.lines) # e)))
  BY DEF Writes
<1>3. /\ a.log = [lines |-> a.log.lines, open |-> a.log.open] /\ a.log.open \in BOOLEAN
      /\ a.log.lines \in Seq(RegistryLine) /\ Len(a.log.lines) <= LogLines
      /\ \E base \in {f.lines, Append(f.lines, e), Append(f.lines, TornLine)} :
           \E at, d : d \in Nat /\ Reading(a.log.lines, base, at, d)
  <2> HIDE DEF f
  <2> QED BY <1>1, <1>2, AppendsRead
<1>4. PICK base \in {f.lines, Append(f.lines, e), Append(f.lines, TornLine)} :
        \E at, d : d \in Nat /\ Reading(a.log.lines, base, at, d)
  BY <1>3
<1>5. e \in RegistryLine /\ TornLine \in RegistryLine /\ TornLine \notin RegistryEvent
  BY RegistryLines DEF RegistryLine
<1>6. base \in Seq(RegistryLine)
  <2>1. Append(f.lines, e) \in Seq(RegistryLine) /\ Append(f.lines, TornLine) \in Seq(RegistryLine)
    <3> HIDE DEF f
    <3> QED BY <1>1, <1>5, AppendProperties
  <2> QED BY <1>1, <2>1
<1>7. ASSUME NEW x, NEW most, SaysNoMore(f.lines, x, most),
             Promotes(e, x) => e.cells \subseteq most.cells /\ most.status = "ACTIVE"
      PROVE  SaysNoMore(a.log.lines, x, most)
  <2>1. SaysNoMore(Append(f.lines, e), x, most)
    BY <1>1, <1>5, <1>7, SaysNoMoreAppended
  <2>2. SaysNoMore(Append(f.lines, TornLine), x, most)
    BY <1>1, <1>5, <1>7, SaysNoMoreAppended DEF Promotes
  <2>3. SaysNoMore(base, x, most)
    BY <1>4, <1>7, <2>1, <2>2
  <2>4. PICK at, d : d \in Nat /\ Reading(a.log.lines, base, at, d)
    BY <1>4
  <2> QED BY <1>3, <1>6, <2>3, <2>4, SaysNoMoreRead
<1>8. registryLog'.lines = a.log.lines
  BY <1>2
<1>9. registryLog' \in [lines : Seq(RegistryLine), open : BOOLEAN]
  BY <1>2, <1>3
<1>10. unwritten' \in BOOLEAN /\ (unwritten' \/ e.kind \notin {"registered", "retired"} \/ ~ Lost(e))
  BY <1>1, <1>2, <1>8 DEF Lost
<1> QED BY <1>2, <1>3, <1>7, <1>8, <1>9, <1>10

Decisions == [status : Status \union {"unknown"}, version : 0 .. MaxVersion,
              gate : {0} \union Gates, cells : SUBSET Regimes]

LEMMA RegistryTypes ==
  RegistryTypeOK <=> /\ strategies \in Registries /\ decided \in [Strategies -> Decisions]
                     /\ registryLog \in [lines : Seq(RegistryLine), open : BOOLEAN]
                     /\ Len(registryLog.lines) <= LogLines
                     /\ unwritten \in BOOLEAN /\ boots \in 0 .. MaxBoots
BY DEF RegistryTypeOK, Registries, Definitions, Decisions, RegistryLine

LEMMA RegisterKeeps ==
  ASSUME RegistryInv, NEW s \in Strategies, NEW g \in Gates, Register(s, g)
  PROVE  RegistryInv'
<1> DEFINE v == strategies[s].version + 1
           def == Candidate(v, g)
           e == [kind |-> "registered", id |-> s, version |-> v, gate |-> g]
<1>1. /\ strategies \in Registries /\ decided \in [Strategies -> Decisions]
      /\ boots \in 0 .. MaxBoots /\ boots' = boots
  BY RegistryTypes DEF RegistryInv, Register
<1>2. v \in 1 .. MaxVersion
  <2>1. strategies[s].version \in 0 .. MaxVersion /\ strategies[s].version < MaxVersion
    BY <1>1, RegistryAssumption DEF Registries, Definitions, Unknown, Register
  <2> QED BY <2>1, RegistryAssumption
<1>3. strategies' = [strategies EXCEPT ![s] = def] /\ strategies'[s] = def
  BY <1>1 DEF Register, Registries
<1>4. decided' = [decided EXCEPT ![s] = def] /\ Writes(e)
  <2>1. strategies'[s].version = v
    BY <1>3 DEF Candidate
  <2> QED BY <1>3, <2>1 DEF Register
<1>5. /\ def \in Definitions /\ def \in Decisions /\ HasNoMore(def, def)
      /\ e \in RegistryEvent /\ e.kind = "registered" /\ e.id = s
  BY <1>2 DEF Candidate, Definitions, Decisions, Status, HasNoMore, RegistryEvent
<1> HIDE DEF v, def, e
<1>6. /\ ~ unwritten /\ unwritten' \in BOOLEAN /\ (unwritten' \/ ~ Lost(e))
      /\ registryLog' \in [lines : Seq(RegistryLine), open : BOOLEAN]
      /\ registryLog'.lines \in Seq(RegistryLine)
      /\ Len(registryLog'.lines) <= LogLines
      /\ \A x, most : x # s /\ SaysNoMore(registryLog.lines, x, most)
                        => SaysNoMore(registryLog'.lines, x, most)
  BY <1>4, <1>5, WritesKeeps DEF Promotes
<1>7. RegistryTypeOK'
  <2>1. strategies' \in Registries /\ decided' \in [Strategies -> Decisions]
    BY <1>1, <1>3, <1>4, <1>5 DEF Registries
  <2> QED BY <1>1, <1>6, <2>1 DEF RegistryTypeOK, Registries, Definitions, Decisions, RegistryLine
<1>8. ASSUME ~ unwritten', NEW x \in Strategies
      PROVE  HasNoMore(strategies'[x], decided'[x]) /\ SaysNoMore(registryLog'.lines, x, decided'[x])
  <2>1. CASE x = s
    <3>1. strategies'[x] = def /\ decided'[x] = def
      BY <1>1, <1>3, <1>4, <2>1 DEF Registries
    <3>2. SaysNoMore(registryLog'.lines, s, def)
      <4>1. registryLog'.lines # <<>> /\ Last(registryLog'.lines) = e
        BY <1>6, <1>8 DEF Lost
      <4> QED BY <1>5, <1>6, <4>1, SaysNoMoreAtEnd
    <3> QED BY <1>5, <2>1, <3>1, <3>2
  <2>2. CASE x # s
    <3>1. strategies'[x] = strategies[x] /\ decided'[x] = decided[x]
      BY <1>1, <1>3, <1>4, <2>2 DEF Registries
    <3>2. HasNoMore(strategies[x], decided[x]) /\ SaysNoMore(registryLog.lines, x, decided[x])
      BY <1>6 DEF RegistryInv
    <3> QED BY <1>6, <2>2, <3>1, <3>2
  <2> QED BY <2>1, <2>2
<1> QED BY <1>7, <1>8 DEF RegistryInv

LEMMA PromoteKeeps ==
  ASSUME RegistryInv, NEW s \in Strategies, NEW r \in Regimes, NEW score, NEW force,
         Promote(s, r, score, force)
  PROVE  RegistryInv'
<1> DEFINE def == Promoted(strategies[s], {r})
           most == Promoted(decided[s], {r})
           e == [kind |-> "promoted", id |-> s, cells |-> def.cells]
<1>1. /\ strategies \in Registries /\ decided \in [Strategies -> Decisions]
      /\ boots \in 0 .. MaxBoots /\ boots' = boots
  BY RegistryTypes DEF RegistryInv, Promote
<1>2. strategies[s] \in Definitions /\ strategies[s] # Unknown /\ decided[s] \in Decisions
  BY <1>1 DEF Registries, Promote
<1>3. strategies' = [strategies EXCEPT ![s] = def] /\ strategies'[s] = def
  BY <1>1 DEF Promote, Registries
<1>4. decided' = [decided EXCEPT ![s] = most] /\ Writes(e)
  BY <1>3 DEF Promote
<1>5. /\ def \in Definitions /\ most \in Decisions
      /\ def.cells = strategies[s].cells \union {r} /\ most.cells = decided[s].cells \union {r}
      /\ def.status = "ACTIVE" /\ most.status = "ACTIVE"
  BY <1>2 DEF Promoted, Definitions, Decisions, Status
<1>6. e \in RegistryEvent /\ e.kind = "promoted" /\ e.id = s /\ e.cells = def.cells
  BY <1>2, <1>5 DEF RegistryEvent, Definitions
<1> HIDE DEF def, most, e
<1>7. /\ ~ unwritten /\ unwritten' \in BOOLEAN
      /\ registryLog' \in [lines : Seq(RegistryLine), open : BOOLEAN]
      /\ Len(registryLog'.lines) <= LogLines
      /\ \A x, y : /\ SaysNoMore(registryLog.lines, x, y)
                   /\ x = s => def.cells \subseteq y.cells /\ y.status = "ACTIVE"
                   => SaysNoMore(registryLog'.lines, x, y)
  BY <1>4, <1>6, WritesKeeps DEF Promotes
<1>8. RegistryTypeOK'
  <2>1. strategies' \in Registries /\ decided' \in [Strategies -> Decisions]
    BY <1>1, <1>3, <1>4, <1>5 DEF Registries
  <2> QED BY <1>1, <1>7, <2>1 DEF RegistryTypeOK, Registries, Definitions, Decisions, RegistryLine
<1>9. ASSUME NEW x \in Strategies
      PROVE  HasNoMore(strategies'[x], decided'[x]) /\ SaysNoMore(registryLog'.lines, x, decided'[x])
  <2>0. HasNoMore(strategies[x], decided[x]) /\ SaysNoMore(registryLog.lines, x, decided[x])
    BY <1>7 DEF RegistryInv
  <2>1. CASE x = s
    <3>1. strategies'[x] = def /\ decided'[x] = most
      BY <1>1, <1>3, <1>4, <2>1 DEF Registries
    <3>2. HasNoMore(def, most) /\ def.cells \subseteq most.cells
      BY <1>5, <2>0, <2>1 DEF HasNoMore
    <3>3. SaysNoMore(registryLog.lines, s, most)
      BY <1>5, <2>0, <2>1 DEF SaysNoMore
    <3>4. SaysNoMore(registryLog'.lines, s, most)
      BY <1>5, <1>7, <3>2, <3>3
    <3> QED BY <2>1, <3>1, <3>2, <3>4
  <2>2. CASE x # s
    <3>1. strategies'[x] = strategies[x] /\ decided'[x] = decided[x]
      BY <1>1, <1>3, <1>4, <2>2 DEF Registries
    <3> QED BY <1>7, <2>0, <2>2, <3>1
  <2> QED BY <2>1, <2>2
<1> QED BY <1>8, <1>9 DEF RegistryInv

LEMMA RetireKeeps ==
  ASSUME RegistryInv, NEW s \in Strategies, Retire(s)
  PROVE  RegistryInv'
<1> DEFINE def == Withdrawn(strategies[s])
           most == Withdrawn(decided[s])
           e == [kind |-> "retired", id |-> s]
<1>1. /\ strategies \in Registries /\ decided \in [Strategies -> Decisions]
      /\ boots \in 0 .. MaxBoots /\ boots' = boots
  BY RegistryTypes DEF RegistryInv, Retire
<1>2. strategies[s] \in Definitions /\ strategies[s] # Unknown /\ decided[s] \in Decisions
  BY <1>1 DEF Registries, Retire
<1>3. strategies' = [strategies EXCEPT ![s] = def] /\ decided' = [decided EXCEPT ![s] = most] /\ Writes(e)
  BY DEF Retire, Withdrawn
<1>4. /\ def \in Definitions /\ most \in Decisions
      /\ def.cells = strategies[s].cells /\ most.cells = decided[s].cells /\ def.status = "RETIRED"
  BY <1>2 DEF Withdrawn, Definitions, Decisions, Status
<1>5. e \in RegistryEvent /\ e.kind = "retired" /\ e.id = s
  BY DEF RegistryEvent
<1> HIDE DEF def, most, e
<1>6. /\ ~ unwritten /\ unwritten' \in BOOLEAN /\ (unwritten' \/ ~ Lost(e))
      /\ registryLog' \in [lines : Seq(RegistryLine), open : BOOLEAN]
      /\ registryLog'.lines \in Seq(RegistryLine)
      /\ Len(registryLog'.lines) <= LogLines
      /\ \A x, y : SaysNoMore(registryLog.lines, x, y) => SaysNoMore(registryLog'.lines, x, y)
  BY <1>3, <1>5, WritesKeeps DEF Promotes
<1>7. RegistryTypeOK'
  <2>1. strategies' \in Registries /\ decided' \in [Strategies -> Decisions]
    BY <1>1, <1>3, <1>4 DEF Registries
  <2> QED BY <1>1, <1>6, <2>1 DEF RegistryTypeOK, Registries, Definitions, Decisions, RegistryLine
<1>8. ASSUME ~ unwritten', NEW x \in Strategies
      PROVE  HasNoMore(strategies'[x], decided'[x]) /\ SaysNoMore(registryLog'.lines, x, decided'[x])
  <2>0. HasNoMore(strategies[x], decided[x]) /\ SaysNoMore(registryLog'.lines, x, decided[x])
    BY <1>6 DEF RegistryInv
  <2>1. CASE x = s
    <3>1. strategies'[x] = def /\ decided'[x] = most
      BY <1>1, <1>3, <2>1 DEF Registries
    <3>2. HasNoMore(def, most)
      BY <1>4, <2>0, <2>1 DEF HasNoMore
    <3>3. registryLog'.lines # <<>> /\ Last(registryLog'.lines) = e
      BY <1>6, <1>8 DEF Lost
    <3>4. SaysNoMore(registryLog'.lines, s, decided[s]) /\ decided[s].cells \subseteq most.cells
      BY <1>4, <2>0, <2>1
    <3>5. SaysNoMore(registryLog'.lines, s, most)
      BY <1>5, <1>6, <3>3, <3>4, SaysNoMoreAtEnd
    <3> QED BY <2>1, <3>1, <3>2, <3>5
  <2>2. CASE x # s
    <3>1. strategies'[x] = strategies[x] /\ decided'[x] = decided[x]
      BY <1>1, <1>3, <2>2 DEF Registries
    <3> QED BY <2>0, <3>1
  <2> QED BY <2>1, <2>2
<1> QED BY <1>7, <1>8 DEF RegistryInv

LEMMA RestartKeeps ==
  ASSUME RegistryInv, RegistryRestart
  PROVE  RegistryInv'
<1> DEFINE w == L!ReadAll(registryLog, RegistryView)
           back == RegistryHydrated(registryLog)
<1>1. /\ strategies \in Registries /\ decided \in [Strategies -> Decisions]
      /\ registryLog \in [lines : Seq(RegistryLine), open : BOOLEAN]
      /\ Len(registryLog.lines) <= LogLines /\ unwritten \in BOOLEAN /\ boots \in 0 .. MaxBoots
  BY RegistryTypes DEF RegistryInv
<1>2. /\ strategies' = back /\ boots' = boots + 1 /\ boots < MaxBoots
      /\ UNCHANGED <<decided, registryLog, unwritten>>
  BY DEF RegistryRestart
<1>3. RegistryView \in Nat /\ registryLog.lines \in Seq(RegistryLine)
  BY <1>1, RegistryAssumption
<1>4. w \in Seq(RegistryLine) /\ \E at, d : d \in Nat /\ Reading(w, registryLog.lines, at, d)
  BY <1>3, ReadAllReads
<1>5. /\ back \in Registries
      /\ \A s \in Strategies : \A most : SaysNoMore(w, s, most) => HasNoMore(back[s], most)
  <2>1. w = L!ReadAll(registryLog, RegistryView)
    OBVIOUS
  <2> HIDE DEF w
  <2> QED BY <1>4, <2>1, HydratedHasNoMore
<1> HIDE DEF w, back
<1>6. RegistryTypeOK'
  <2>1. boots' \in 0 .. MaxBoots
    BY <1>1, <1>2, RegistryAssumption
  <2> QED BY <1>1, <1>2, <1>5, <2>1 DEF RegistryTypeOK, Registries, Definitions, Decisions, RegistryLine
<1>7. ASSUME ~ unwritten', NEW s \in Strategies
      PROVE  HasNoMore(strategies'[s], decided'[s]) /\ SaysNoMore(registryLog'.lines, s, decided'[s])
  <2>1. SaysNoMore(registryLog.lines, s, decided[s])
    BY <1>2, <1>7 DEF RegistryInv
  <2>2. SaysNoMore(w, s, decided[s])
    BY <1>3, <1>4, <2>1, SaysNoMoreRead
  <2> QED BY <1>2, <1>5, <2>1, <2>2
<1> QED BY <1>6, <1>7 DEF RegistryInv

LEMMA RegistryInvStep == RegistryInv /\ [RegistryNext]_registryVars => RegistryInv'
<1> SUFFICES ASSUME RegistryInv, [RegistryNext]_registryVars PROVE RegistryInv'
  OBVIOUS
<1>1. ASSUME NEW s \in Strategies, NEW g \in Gates, Register(s, g) PROVE RegistryInv'
  BY <1>1, RegisterKeeps
<1>2. ASSUME NEW s \in Strategies, NEW r \in Regimes, NEW score \in Scores, NEW force \in BOOLEAN,
             Promote(s, r, score, force)
      PROVE  RegistryInv'
  BY <1>2, PromoteKeeps
<1>3. ASSUME NEW s \in Strategies, RegisterOnce(s) PROVE RegistryInv'
  <2> DEFINE top == CHOOSE g \in Gates : \A k \in Gates : g >= k
  <2>1. top \in Gates
    BY RegistryAssumption
  <2> QED BY <1>3, <2>1, RegisterKeeps DEF RegisterOnce
<1>4. ASSUME NEW s \in Strategies, Retire(s) PROVE RegistryInv'
  BY <1>4, RetireKeeps
<1>5. ASSUME WritesElsewhere PROVE RegistryInv'
  <2>1. Writes(Elsewhere) /\ UNCHANGED <<strategies, decided, boots>>
    BY <1>5 DEF WritesElsewhere
  <2>2. /\ ~ unwritten /\ unwritten' \in BOOLEAN
        /\ registryLog' \in [lines : Seq(RegistryLine), open : BOOLEAN]
        /\ Len(registryLog'.lines) <= LogLines
        /\ \A x, y : SaysNoMore(registryLog.lines, x, y) => SaysNoMore(registryLog'.lines, x, y)
    BY <2>1, RegistryLines, WritesKeeps DEF Promotes
  <2>3. RegistryTypeOK'
    BY <2>1, <2>2 DEF RegistryInv, RegistryTypeOK, RegistryLine
  <2> QED BY <2>1, <2>2, <2>3 DEF RegistryInv
<1>6. CASE UNCHANGED registryVars
  BY <1>6 DEF RegistryInv, RegistryTypeOK, registryVars
<1> QED BY <1>1, <1>2, <1>3, <1>4, <1>5, <1>6, RestartKeeps DEF RegistryNext

LEMMA RegistryInvInit == RegistryInit => RegistryInv
<1> SUFFICES ASSUME RegistryInit PROVE RegistryInv
  OBVIOUS
<1>1. /\ strategies = [s \in Strategies |-> Unknown] /\ decided = strategies
      /\ registryLog = [lines |-> <<>>, open |-> FALSE] /\ unwritten = FALSE /\ boots = 0
  BY DEF RegistryInit, L!EmptyLog
<1>2. <<>> \in Seq(RegistryLine) /\ Len(<<>>) = 0 /\ DOMAIN <<>> = {}
  OBVIOUS
<1>3. RegistryTypeOK
  <2>1. Unknown \in Definitions /\ Unknown \in Decisions /\ 0 \in 0 .. MaxBoots
    BY RegistryAssumption DEF Unknown, Definitions, Decisions
  <2>2. Len(registryLog.lines) <= LogLines
    BY <1>1, <1>2, RegistryAssumption
  <2>3. registryLog \in [lines : Seq(RegistryLine), open : BOOLEAN]
    BY <1>1, <1>2
  <2> QED BY <1>1, <2>1, <2>2, <2>3, RegistryTypes DEF Registries
<1>4. \A s \in Strategies : HasNoMore(strategies[s], decided[s]) /\ SaysNoMore(registryLog.lines, s, decided[s])
  BY <1>1, <1>2 DEF HasNoMore, SaysNoMore, About
<1> QED BY <1>3, <1>4 DEF RegistryInv

\* For any strategies, gates, window, log and number of restarts, with a disk that loses
\* and tears lines: no restart and no promotion after one makes a cell tradable that a
\* re-registration or a retirement took away, unless every strategy is forgotten or the
\* taking away never became a line (strategy-registry.ts:110-141, event-store.ts:91-104).
THEOREM CellsStayTaken == RegistrySpec => []NoCellTakenBack
<1>1. RegistryInv => NoCellTakenBack
  BY DEF RegistryInv, NoCellTakenBack, HasNoMore, CellTradable
<1> QED BY <1>1, RegistryInvInit, RegistryInvStep, PTL DEF RegistrySpec

(***************************************************************************)
(* A sized order fits the venue and the account.  The bump to the minimum  *)
(* notional is the hard case: it leaves the grid only if the venue's least *)
(* quantity were above the notional's, and then nothing is bumped.         *)
(***************************************************************************)

PlanSpec == PlanInit /\ [][PlanNext]_planVars

LEMMA MultipleOf ==
  ASSUME NEW k \in Int, NEW n \in Nat \ {0}
  PROVE  (k * n) % n = 0
<1> DEFINE x == k * n
           j == k - (x \div n)
           m == x % n
<1>1. x \in Int /\ (x \div n) \in Int /\ m \in Int /\ 0 <= m /\ m < n /\ x = n * (x \div n) + m
  OBVIOUS
<1>2. j \in Int /\ m = n * j
  BY <1>1
<1> HIDE DEF x, j, m
<1>3. j = 0
  <2>1. j >= 1 => n * j >= n
    BY <1>2
  <2>2. j <= -1 => n * j <= -n
    BY <1>2
  <2> QED BY <1>1, <1>2, <2>1, <2>2
<1>4. m = 0
  BY <1>2, <1>3
<1> QED BY <1>4 DEF m, x

LEMMA FloorOnGrid ==
  ASSUME NEW a \in Int, NEW b \in Nat \ {0}, NEW step \in Nat \ {0}
  PROVE  FloorToStep(a, b, step) \in Int /\ FloorToStep(a, b, step) % step = 0
<1>1. b * step \in Nat \ {0}
  OBVIOUS
<1>2. a \div (b * step) \in Int
  BY <1>1
<1> QED BY <1>2, MultipleOf DEF FloorToStep

LEMMA CeilingCovers ==
  ASSUME NEW a \in Int, NEW b \in Nat \ {0}
  PROVE  Ceiling(a, b) \in Int /\ Ceiling(a, b) * b >= a
<1> DEFINE x == -a
           k == x \div b
           m == x % b
<1>1. x \in Int /\ k \in Int /\ m \in Int /\ 0 <= m /\ x = b * k + m
  OBVIOUS
<1>2. Ceiling(a, b) = -k
  BY DEF Ceiling
<1>3. a = -x
  OBVIOUS
<1> HIDE DEF x, k, m
<1>4. b * k <= x /\ (-k) * b = -(b * k) /\ b * k \in Int
  BY <1>1
<1> QED BY <1>1, <1>2, <1>3, <1>4

LEMMA CeilOnGrid ==
  ASSUME NEW a \in Nat, NEW b \in Nat \ {0}, NEW step \in Nat \ {0}
  PROVE  /\ CeilToStep(a, b, step) \in Int /\ CeilToStep(a, b, step) % step = 0
         /\ CeilToStep(a, b, step) * b >= a
<1> DEFINE k == Ceiling(a, b * step)
<1>1. b * step \in Nat \ {0}
  OBVIOUS
<1>2. k \in Int /\ k * (b * step) >= a
  BY <1>1, CeilingCovers
<1> HIDE DEF k
<1>3. (k * step) * b = k * (b * step) /\ k * step \in Int
  BY <1>2
<1>4. (k * step) % step = 0
  BY <1>2, MultipleOf
<1>5. CeilToStep(a, b, step) = k * step
  BY DEF CeilToStep, k
<1> QED BY <1>2, <1>3, <1>4, <1>5

LEMMA SizeFits ==
  ASSUME NEW p, NEW a \in PlanAccounts, NEW c \in Circuits, NEW spec \in Specs,
         p.entry \in Int, p.stop \in Int, p.stop < p.entry, p.leverage \in Int,
         reading.close \in Nat \ {0}, SizePosition(p, a, c, spec).ok
  PROVE  LET z == SizePosition(p, a, c, spec)
         IN  /\ z.spec = spec
             /\ z.qty >= spec.minQuantity /\ z.qty % spec.lot = 0
             /\ ~ z.capped => z.qty * reading.close >= spec.minNotional
             /\ Affordable(z.qty, p, a, c)
             /\ z.qty * reading.close <= a.margin * z.leverage
<1> DEFINE px == reading.close
           wanted == Wanted(p, a, c, spec)
           bump == wanted * px < spec.minNotional
           least == MinimumLots(p, spec)
           raised == IF bump THEN least ELSE wanted
           capped == raised * px > Cap(spec)
           kept == FloorToStep(Cap(spec), px, spec.lot)
           qty == IF capped THEN kept ELSE raised
           leverage == Most(1, Least(p.leverage, Least(PlanLimits.leverage, spec.leverage)))
           refused == \/ RiskBudget(a, c) <= 0 \/ wanted < spec.minQuantity
                      \/ bump /\ ~Affordable(raised, p, a, c)
                      \/ capped /\ qty < spec.minQuantity
                      \/ qty * px > a.margin * leverage
                      \/ ~Affordable(qty, p, a, c)
<1>1. /\ px \in Nat \ {0} /\ spec.lot \in Nat \ {0} /\ spec.minQuantity \in Nat /\ spec.maxQuantity \in Nat
      /\ spec.minNotional \in Nat /\ spec.leverage \in Nat /\ PlanLimits.leverage \in Nat
      /\ PlanLimits.notional \in Nat /\ a.equity \in Int /\ a.margin \in Int
      /\ PlanLimits.riskPerTrade \in Nat /\ PlanLimits.cost \in Nat
  BY PlanAssumption
<1>2. RiskBudget(a, c) \in Int
  <2>1. Multiplier(c) \in Int
    BY DEF Multiplier, Circuits
  <2>2. (a.equity * PlanLimits.riskPerTrade * Multiplier(c)) \in Int
    BY <1>1, <2>1
  <2> QED BY <2>2 DEF RiskBudget
<1>3. RiskPerUnit(p) \in Nat \ {0}
  <2> DEFINE size == IF p.entry < 0 THEN -p.entry ELSE p.entry
  <2>1. size \in Nat
    OBVIOUS
  <2> HIDE DEF size
  <2>2. size * PlanLimits.cost \in Nat
    BY <1>1, <2>1
  <2>3. (size * PlanLimits.cost) \div 1000 \in Nat
    BY <2>2
  <2>4. p.entry - p.stop \in Nat \ {0}
    OBVIOUS
  <2> QED BY <2>3, <2>4 DEF RiskPerUnit, size
<1>4. wanted \in Int /\ wanted % spec.lot = 0
  <2>1. 100 * RiskPerUnit(p) \in Nat \ {0}
    BY <1>3
  <2> QED BY <1>1, <1>2, <2>1, FloorOnGrid DEF Wanted
<1>5. Cap(spec) \in Int
  BY <1>1 DEF Cap, Least
<1>6. kept \in Int /\ kept % spec.lot = 0
  BY <1>1, <1>5, FloorOnGrid
<1>7. ~ refused /\ SizePosition(p, a, c, spec) =
                    [ok |-> TRUE, qty |-> qty, leverage |-> leverage, capped |-> capped, spec |-> spec]
  <2>1. SizePosition(p, a, c, spec) = IF refused THEN NoSizing
          ELSE [ok |-> TRUE, qty |-> qty, leverage |-> leverage, capped |-> capped, spec |-> spec]
    BY DEF SizePosition
  <2> HIDE DEF refused, qty, leverage, capped
  <2>2. ~ NoSizing.ok
    BY DEF NoSizing
  <2> QED BY <2>1, <2>2
<1>8. /\ raised \in Int /\ raised % spec.lot = 0 /\ raised >= spec.minQuantity
      /\ raised * px >= spec.minNotional
  <2>1. wanted >= spec.minQuantity
    BY <1>1, <1>4, <1>7
  <2>2. CASE bump
    <3> DEFINE k == CeilToStep(spec.minNotional, px, spec.lot)
    <3>1. k \in Int /\ k % spec.lot = 0 /\ k * px >= spec.minNotional
      BY <1>1, CeilOnGrid
    <3> HIDE DEF k, wanted
    <3>2. wanted < k
      <4> SUFFICES ASSUME wanted >= k PROVE FALSE
        BY <1>4, <3>1
      <4>1. wanted * px >= k * px
        BY <1>1, <1>4, <3>1
      <4> QED BY <1>1, <1>4, <2>2, <3>1, <4>1
    <3>3. least = k
      BY <1>1, <1>4, <2>1, <3>1, <3>2 DEF MinimumLots, Most, k
    <3> QED BY <1>1, <1>4, <2>1, <2>2, <3>1, <3>2, <3>3
  <2>3. CASE ~ bump
    <3> HIDE DEF wanted
    <3>1. wanted * px \in Int
      BY <1>1, <1>4
    <3> QED BY <1>1, <1>4, <2>1, <2>3, <3>1
  <2> QED BY <2>2, <2>3
<1> HIDE DEF raised, wanted, bump, least
<1>9. qty \in Int /\ qty % spec.lot = 0 /\ qty >= spec.minQuantity
      /\ (~ capped => qty * px >= spec.minNotional)
  <2>1. CASE capped
    <3>1. ~ (qty < spec.minQuantity)
      BY <1>7, <2>1
    <3> HIDE DEF capped, kept
    <3> QED BY <1>1, <1>6, <2>1, <3>1
  <2>2. CASE ~ capped
    <3> HIDE DEF capped, kept
    <3> QED BY <1>8, <2>2
  <2> QED BY <2>1, <2>2
<1>10. ~ (qty * px > a.margin * leverage) /\ Affordable(qty, p, a, c)
  <2> HIDE DEF qty, leverage, capped
  <2> QED BY <1>7
<1>11. leverage \in Int
  BY <1>1 DEF Most, Least
<1> HIDE DEF qty, leverage, capped, refused
<1>12. qty * px <= a.margin * leverage
  BY <1>1, <1>9, <1>10, <1>11
<1> QED BY <1>7, <1>9, <1>10, <1>12

(***************************************************************************)
(* What the detectors find.                                                *)
(***************************************************************************)

Directions == {"LONG", "SHORT"}
Types == {"PULLBACK_RECLAIM", "LIQUIDITY_SWEEP_REVERSAL", "BREAKOUT_RETEST", "TREND_CONTINUATION"}
Raws == [type : Types, stop : Int]
Pullbacks(r, d) ==
  LET f == Signed(r, d) IN
  IF r.trend["15m"] = Trends(d).trend /\ f.close > f.swing5 /\ f.momentum > 0 /\ f.rsi >= 45
  THEN <<Raw("PULLBACK_RECLAIM", f.swing5)>> ELSE <<>>
Heard(r) == {d \in Directions : ~ BlockedDirection(r, d)}
Finds(r, c) ==
  UNION {{Finalized(r, d, Detected(r, d)[k], c) : k \in DOMAIN Detected(r, d)} : d \in Heard(r)}
Valid(S) == {s \in S : s.valid}
Good(r, c) == Valid(Finds(r, c))

\* Ranking the members of s one after the other.
Ranks(run, s, G) ==
  /\ run \in [0 .. Len(s) -> Seq(G)] /\ run[0] = <<>>
  /\ \A i \in 1 .. Len(s) : run[i] = Placed(run[i - 1], s[i])
  /\ FoldLeft(Placed, <<>>, s) = run[Len(s)]

LEMMA SignedInts ==
  ASSUME NEW r, Priced(r), NEW d \in Directions
  PROVE  LET f == Signed(r, d)
         IN  /\ {f.close, f.swing5, f.broken, f.target} \subseteq Int /\ f.price \in Nat \ {0}
<1>1. {r.close, r.low5, r.high5, r.low1h, r.high1h, r.nearHigh, r.nearLow} \subseteq Int /\ r.close \in Nat \ {0}
  BY DEF Priced
<1>2. CASE d = "LONG"
  BY <1>1, <1>2 DEF Signed
<1>3. CASE d = "SHORT"
  BY <1>1, <1>3 DEF Signed
<1> QED BY <1>2, <1>3 DEF Directions

LEMMA OneOrNone ==
  ASSUME NEW S, NEW x \in S, NEW b
  PROVE  (IF b THEN <<x>> ELSE <<>>) \in Seq(S)
<1>1. CASE b
  BY <1>1
<1>2. CASE ~ b
  BY <1>2, EmptySeq
<1> QED BY <1>1, <1>2

LEMMA DetectorsInTurn ==
  ASSUME NEW r, Priced(r), NEW d \in Directions
  PROVE  \E a, b, x, y \in Seq(Raws) :
           /\ Detected(r, d) = ((a \o b) \o x) \o y
           /\ a = Pullbacks(r, d)
<1> DEFINE f == Signed(r, d)
           with(t) == r.trend[t] = Trends(d).trend
           isReclaim == with("15m") /\ f.close > f.swing5 /\ f.momentum > 0 /\ f.rsi >= 45
           isSweep == r.sweep = Trends(d).sweep /\ (r.choch5 \/ with("5m"))
           isRetest == r.bos1h /\ with("1h") /\ f.close >= f.broken - f.price \div 1000
           isFurther == d = "LONG" /\ with("15m") /\ r.bos15 /\ with("5m")
           raw1 == Raw("PULLBACK_RECLAIM", f.swing5)
           raw2 == Raw("LIQUIDITY_SWEEP_REVERSAL", Least(f.swing5, f.close - f.price \div 200))
           raw3 == Raw("BREAKOUT_RETEST", Least(f.broken, f.swing5))
           raw4 == Raw("TREND_CONTINUATION", f.swing5)
           reclaim == IF isReclaim THEN <<raw1>> ELSE <<>>
           sweep == IF isSweep THEN <<raw2>> ELSE <<>>
           retest == IF isRetest THEN <<raw3>> ELSE <<>>
           further == IF isFurther THEN <<raw4>> ELSE <<>>
<1>1. f.close \in Int /\ f.swing5 \in Int /\ f.broken \in Int /\ f.price \in Nat \ {0}
  BY SignedInts
<1>2. Detected(r, d) = ((reclaim \o sweep) \o retest) \o further
  BY DEF Detected
<1> HIDE DEF f
<1>3. Least(f.swing5, f.close - f.price \div 200) \in Int /\ Least(f.broken, f.swing5) \in Int
  BY <1>1 DEF Least
<1>4. raw1 \in Raws /\ raw2 \in Raws /\ raw3 \in Raws /\ raw4 \in Raws
  <2>1. \A t \in Types, x \in Int : Raw(t, x) \in Raws
    BY DEF Raw, Raws
  <2>2. /\ "PULLBACK_RECLAIM" \in Types /\ "BREAKOUT_RETEST" \in Types
        /\ "LIQUIDITY_SWEEP_REVERSAL" \in Types /\ "TREND_CONTINUATION" \in Types
    BY DEF Types
  <2> QED BY <1>1, <1>3, <2>1, <2>2, Zenon
<1>6. reclaim = Pullbacks(r, d)
  BY DEF f, Pullbacks
<1> HIDE DEF isReclaim, isSweep, isRetest, isFurther, raw1, raw2, raw3, raw4
<1>5. reclaim \in Seq(Raws) /\ sweep \in Seq(Raws) /\ retest \in Seq(Raws) /\ further \in Seq(Raws)
  BY <1>4, OneOrNone, Zenon
<1> HIDE DEF reclaim, sweep, retest, further
<1> QED BY <1>2, <1>5, <1>6

\* What comes first stays first.
LEMMA FirstStays ==
  ASSUME NEW S, NEW a \in Seq(S), NEW b \in Seq(S)
  PROVE  /\ a \o b \in Seq(S)
         /\ Len(a) >= 1 => Len(a \o b) >= 1 /\ (a \o b)[1] = a[1]
<1>1. Len(a) \in Nat /\ Len(b) \in Nat
  BY LenProperties
<1> DEFINE q == a \o b
<1>2. /\ q \in Seq(S) /\ Len(q) = Len(a) + Len(b)
      /\ \A i \in 1 .. (Len(a) + Len(b)) : q[i] = IF i <= Len(a) THEN a[i] ELSE b[i - Len(a)]
  BY ConcatProperties
<1> HIDE DEF q
<1>3. ASSUME Len(a) >= 1 PROVE Len(q) >= 1 /\ q[1] = a[1]
  <2>1. 1 \in 1 .. (Len(a) + Len(b)) /\ 1 <= Len(a)
    BY <1>1, <1>3
  <2> QED BY <1>1, <1>2, <2>1
<1> QED BY <1>2, <1>3 DEF q

\* The detectors' findings in a row, a pullback before all others.
LEMMA DetectedRaws ==
  ASSUME NEW r, Priced(r), NEW d \in Directions
  PROVE  /\ Detected(r, d) \in Seq(Raws)
         /\ \A raw \in Raws : Pullbacks(r, d) = <<raw>>
              => Len(Detected(r, d)) >= 1 /\ Detected(r, d)[1] = raw
<1>1. PICK a, b, x, y \in Seq(Raws) : Detected(r, d) = ((a \o b) \o x) \o y /\ a = Pullbacks(r, d)
  BY DetectorsInTurn
<1> DEFINE ab == a \o b
           abx == ab \o x
           all == abx \o y
<1>2. ab \in Seq(Raws) /\ (Len(a) >= 1 => Len(ab) >= 1 /\ ab[1] = a[1])
  BY FirstStays
<1> HIDE DEF ab
<1>3. abx \in Seq(Raws) /\ (Len(ab) >= 1 => Len(abx) >= 1 /\ abx[1] = ab[1])
  BY <1>2, FirstStays
<1> HIDE DEF abx
<1>4. all \in Seq(Raws) /\ (Len(abx) >= 1 => Len(all) >= 1 /\ all[1] = abx[1])
  BY <1>3, FirstStays
<1> HIDE DEF all
<1>5. Detected(r, d) = all
  BY <1>1 DEF ab, abx, all
<1>6. ASSUME NEW raw \in Raws, Pullbacks(r, d) = <<raw>> PROVE Len(all) >= 1 /\ all[1] = raw
  <2>1. Len(a) >= 1 /\ a[1] = raw
    BY <1>1, <1>6
  <2> QED BY <1>2, <1>3, <1>4, <2>1
<1> QED BY <1>4, <1>5, <1>6

\* Every detector of an open direction is heard, and no other.
LEMMA CollectedFacts ==
  ASSUME NEW r, Priced(r), NEW c
  PROVE  /\ Collected(r, c) \in Seq(Finds(r, c))
         /\ \A s \in Finds(r, c) : \E i \in DOMAIN Collected(r, c) : Collected(r, c)[i] = s
<1> DEFINE S == Finds(r, c)
           of(d) == IF BlockedDirection(r, d) THEN <<>>
                    ELSE [i \in DOMAIN Detected(r, d) |-> Finalized(r, d, Detected(r, d)[i], c)]
<1>1. ASSUME NEW d \in Directions
      PROVE  /\ of(d) \in Seq(S)
             /\ d \in Heard(r) => \A k \in DOMAIN Detected(r, d) :
                  k \in DOMAIN of(d) /\ of(d)[k] = Finalized(r, d, Detected(r, d)[k], c)
  <2>1. CASE BlockedDirection(r, d)
    BY <2>1, EmptySeq DEF Heard
  <2>2. CASE ~ BlockedDirection(r, d)
    <3> DEFINE n == Len(Detected(r, d))
               g == [i \in 1 .. n |-> Finalized(r, d, Detected(r, d)[i], c)]
    <3>1. n \in Nat /\ DOMAIN Detected(r, d) = 1 .. n
      BY DetectedRaws, LenProperties
    <3>2. of(d) = g /\ d \in Heard(r)
      BY <2>2, <3>1 DEF Heard
    <3>3. \A i \in 1 .. n : g[i] \in S
      BY <3>1, <3>2 DEF Finds
    <3> HIDE DEF S, n
    <3>4. g \in Seq(S) /\ DOMAIN g = 1 .. n
      BY <3>1, <3>3
    <3> QED BY <3>1, <3>2, <3>4
  <2> QED BY <2>1, <2>2
<1>2. of("LONG") \in Seq(S) /\ of("SHORT") \in Seq(S)
  BY <1>1 DEF Directions
<1>3. Collected(r, c) = of("LONG") \o of("SHORT")
  BY DEF Collected
<1> DEFINE l == of("LONG")
           h == of("SHORT")
           q == l \o h
<1>4. l \in Seq(S) /\ h \in Seq(S)
  BY <1>2
<1>5. ASSUME NEW s \in S PROVE \E d \in Heard(r) : \E k \in DOMAIN of(d) : of(d)[k] = s
  <2>1. PICK d \in Heard(r) : \E k \in DOMAIN Detected(r, d) : s = Finalized(r, d, Detected(r, d)[k], c)
    BY DEF Finds
  <2> QED BY <1>1, <2>1 DEF Heard
<1>6. ASSUME NEW s \in S PROVE (\E k \in DOMAIN l : l[k] = s) \/ (\E k \in DOMAIN h : h[k] = s)
  BY <1>5 DEF Heard, Directions
<1> HIDE DEF S, of, l, h
<1>7. /\ q \in Seq(S) /\ Len(q) = Len(l) + Len(h) /\ Len(l) \in Nat /\ Len(h) \in Nat
      /\ DOMAIN l = 1 .. Len(l) /\ DOMAIN h = 1 .. Len(h) /\ DOMAIN q = 1 .. Len(q)
      /\ \A i \in 1 .. (Len(l) + Len(h)) : q[i] = IF i <= Len(l) THEN l[i] ELSE h[i - Len(l)]
  BY <1>4, ConcatProperties, LenProperties
<1>8. ASSUME NEW s \in S PROVE \E i \in DOMAIN q : q[i] = s
  <2> HIDE DEF q
  <2>1. CASE \E k \in DOMAIN l : l[k] = s
    <3>1. PICK k \in 1 .. Len(l) : l[k] = s
      BY <1>7, <2>1
    <3>2. k \in 1 .. (Len(l) + Len(h)) /\ k <= Len(l)
      BY <1>7
    <3> QED BY <1>7, <3>1, <3>2
  <2>2. CASE \E k \in DOMAIN h : h[k] = s
    <3>1. PICK k \in 1 .. Len(h) : h[k] = s
      BY <1>7, <2>2
    <3> DEFINE i == Len(l) + k
    <3>2. i \in 1 .. (Len(l) + Len(h)) /\ ~ (i <= Len(l)) /\ i - Len(l) = k
      BY <1>7
    <3> HIDE DEF i
    <3> QED BY <1>7, <3>1, <3>2
  <2> QED BY <1>6, <2>1, <2>2
<1> QED BY <1>3, <1>7, <1>8 DEF l, h, q, S

\* A valid setup finds its place among those that are.
LEMMA PlacedFacts ==
  ASSUME NEW S, NEW a \in Seq(Valid(S)), NEW s \in S
  PROVE  /\ Placed(a, s) \in Seq(Valid(S)) /\ Len(a) \in Nat /\ Len(Placed(a, s)) \in Nat
         /\ Len(Placed(a, s)) >= Len(a)
         /\ s.valid => Len(Placed(a, s)) >= 1
<1> DEFINE G == Valid(S)
           n == Len(a)
           above == {i \in DOMAIN a : a[i].confidence >= s.confidence}
           k == 1 + Cardinality(above)
           front == SubSeq(a, 1, k - 1)
           back == SubSeq(a, k, n)
<1>1. n \in Nat /\ DOMAIN a = 1 .. n /\ \A i \in 1 .. n : a[i] \in G
  BY LenProperties
<1>0. s.valid => s \in G
  BY DEF Valid
<1> HIDE DEF G
<1>2. k \in 1 .. (n + 1)
  <2>1. IsFiniteSet(1 .. n) /\ Cardinality(1 .. n) = n
    <3>1. 1 \in Int /\ n \in Int /\ (1 <= n \/ n = 0)
      BY <1>1
    <3> QED BY <1>1, <3>1, FS_Interval
  <2>2. above \subseteq 1 .. n
    BY <1>1
  <2>3. Cardinality(above) \in Nat /\ Cardinality(above) <= n
    BY <2>1, <2>2, FS_Subset, FS_CardinalityType
  <2> HIDE DEF above
  <2> QED BY <1>1, <2>3
<1> HIDE DEF n, k
<1>5. a \in Seq(G)
  BY DEF G
<1>3. CASE s.valid
  <2>1. Placed(a, s) = (front \o <<s>>) \o back
    BY <1>3 DEF Placed, InsertAt, k, n
  <2>2. front \in Seq(G) /\ Len(front) = k - 1
    <3>1. \A i \in 1 .. (k - 1) : a[i] \in G
      BY <1>1, <1>2
    <3>2. k - 1 \in Int /\ 1 \in Int /\ (1 <= k - 1 \/ k - 1 = 0)
      BY <1>1, <1>2
    <3> QED BY <3>1, <3>2, SubSeqProperties
  <2>3. back \in Seq(G) /\ Len(back) = n + 1 - k
    <3>1. \A i \in k .. n : a[i] \in G
      BY <1>1, <1>2
    <3>2. k \in Int /\ n \in Int /\ (k <= n \/ k = n + 1)
      BY <1>1, <1>2
    <3> QED BY <3>1, <3>2, SubSeqProperties
  <2>4. <<s>> \in Seq(G) /\ Len(<<s>>) = 1
    BY <1>0, <1>3
  <2> HIDE DEF front, back
  <2>5. front \o <<s>> \in Seq(G) /\ Len(front \o <<s>>) = k
    BY <1>1, <1>2, <2>2, <2>4, ConcatProperties
  <2> DEFINE w == front \o <<s>>
  <2> HIDE DEF w
  <2>6. w \o back \in Seq(G) /\ Len(w \o back) = k + (n + 1 - k)
    <3>1. w \in Seq(G) /\ Len(w) = k
      BY <2>5 DEF w
    <3>2. w \o back \in Seq(G) /\ Len(w \o back) = Len(w) + Len(back)
      BY <2>3, <3>1, ConcatProperties
    <3> QED BY <2>3, <3>1, <3>2
  <2>7. k + (n + 1 - k) = n + 1
    BY <1>1, <1>2
  <2> DEFINE all == w \o back
  <2>8. all \in Seq(G) /\ Len(all) = n + 1
    BY <2>6, <2>7
  <2>9. Placed(a, s) = all
    BY <2>1 DEF w
  <2> HIDE DEF all
  <2> QED BY <1>1, <2>8, <2>9 DEF n, G
<1>4. CASE ~ s.valid
  BY <1>1, <1>4 DEF Placed, n
<1> QED BY <1>3, <1>4 DEF G

\* Ranking the setups found, one after the other.
LEMMA RankingRun ==
  ASSUME NEW S, NEW s \in Seq(S)
  PROVE  \E run : Ranks(run, s, Valid(S))
<1> DEFINE G == Valid(S)
           n == Len(s)
           A == Seq(G)
           base == <<>>
           F == [p \in (1 .. n) \X A |-> Placed(p[2], s[p[1]])]
           Eq(h) == h = [u \in SUBSET (1 .. n) |->
                           IF u = {} THEN base ELSE Placed(h[u \ {Max(u)}], s[Max(u)])]
           it == CHOOSE h : Eq(h)
<1>1. n \in Nat /\ DOMAIN s = 1 .. n /\ \A i \in 1 .. n : s[i] \in S
  BY LenProperties
<1>2. F \in [(1 .. n) \X A -> A] /\ base \in A
  <2>1. ASSUME NEW a \in A, NEW e \in S PROVE Placed(a, e) \in A
    BY PlacedFacts
  <2>2. \A p \in (1 .. n) \X A : Placed(p[2], s[p[1]]) \in A
    BY <1>1, <2>1
  <2> QED BY <2>2, EmptySeq
<1>3. ASSUME NEW i \in 1 .. n, NEW a \in A PROVE F[<<i, a>>] = Placed(a, s[i])
  BY <1>3
<1>4. FoldLeft(Placed, <<>>, s) = it[1 .. n]
  BY <1>1 DEF FoldLeft, MapThenFoldSet
<1> HIDE DEF F, n, G, A, base
<1>5. ASSUME NEW u \in SUBSET (1 .. n), u # {} PROVE Max(u) \in 1 .. n /\ u \ {Max(u)} \in SUBSET (1 .. n)
  BY <1>1, <1>5, MaxOfSome
<1>6. ASSUME NEW h, IsTable(h, A, base, n, F) PROVE Obeys(it, A, base, n, F)
  <2>1. Eq(h)
    BY <1>3, <1>5, <1>6 DEF IsTable
  <2> HIDE DEF Eq
  <2>2. Eq(it)
    BY <2>1
  <2> HIDE DEF it
  <2> USE DEF Eq
  <2> QED BY <1>3, <1>5, <2>2 DEF Obeys
<1> HIDE DEF it
<1>7. PICK run : IsRun(run, A, base, n, F) /\ it[1 .. n] = run[n]
  <2>1. Folds(it, A, base, n, F)
    BY <1>1, <1>2, <1>6, FoldRun
  <2> QED BY <2>1 DEF Folds
<1>8. ASSUME NEW i \in 1 .. n PROVE run[i] = Placed(run[i - 1], s[i])
  <2>1. i - 1 \in 0 .. n
    BY <1>1
  <2>2. run[i - 1] \in A /\ run[i] = F[<<i, run[i - 1]>>]
    BY <1>7, <2>1 DEF IsRun
  <2> QED BY <1>3, <2>2
<1>9. run \in [0 .. n -> A] /\ run[0] = base
  BY <1>7 DEF IsRun
<1> QED BY <1>4, <1>7, <1>8, <1>9 DEF Ranks, n, G, A, base

\* The setups detected are of the good ones, and some if there are any.
LEMMA DetectFacts ==
  ASSUME NEW r, Priced(r), NEW c
  PROVE  /\ DetectSetups(r, c) \in Seq(Good(r, c))
         /\ Good(r, c) # {} => DetectSetups(r, c) # <<>>
<1> DEFINE S == Finds(r, c)
           G == Good(r, c)
           q == Collected(r, c)
           n == Len(q)
<1>1. q \in Seq(S) /\ (\A s \in S : \E i \in DOMAIN q : q[i] = s) /\ G = Valid(S)
  BY CollectedFacts DEF Good
<1>2. DetectSetups(r, c) = LET ranked == FoldLeft(Placed, <<>>, q)
                           IN  SubSeq(ranked, 1, Least(3, Len(ranked)))
  BY DEF DetectSetups
<1> HIDE DEF S, G, q
<1>3. n \in Nat /\ DOMAIN q = 1 .. n /\ \A i \in 1 .. n : q[i] \in S
  BY <1>1, LenProperties
<1>4. PICK run : Ranks(run, q, G)
  BY <1>1, RankingRun
<1>20. /\ \A i \in 0 .. n : run[i] \in Seq(G)
       /\ run[0] = <<>> /\ \A i \in 1 .. n : run[i] = Placed(run[i - 1], q[i])
       /\ FoldLeft(Placed, <<>>, q) = run[n]
  BY <1>4 DEF Ranks
<1> DEFINE ranked == run[n]
           m == Len(ranked)
<1>5. ranked \in Seq(G) /\ m \in Nat /\ DOMAIN ranked = 1 .. m /\ \A i \in 1 .. m : ranked[i] \in G
  <2>1. ranked \in Seq(G)
    BY <1>3, <1>20
  <2> QED BY <2>1, LenProperties
<1>6. ASSUME NEW x \in G PROVE m >= 1
  <2>2. x \in S /\ x.valid
    BY <1>1, <1>6 DEF Valid
  <2>1. PICK j \in 1 .. n : q[j] = x
    BY <1>1, <1>3, <2>2, Zenon
  <2> DEFINE P == {i \in 0 .. n : Len(run[i]) \in Nat /\ (i >= j => Len(run[i]) >= 1)}
  <2>3. 0 \in P
    <3>1. Len(run[0]) = 0 /\ 0 \in 0 .. n /\ ~ (0 >= j)
      BY <1>3, <1>20, EmptySeq
    <3> QED BY <3>1
  <2>4. ASSUME NEW i \in 1 .. n, i - 1 \in P PROVE i \in P
    <3>1. i \in 0 .. n /\ i - 1 \in 0 .. n /\ i \in Nat /\ run[i - 1] \in Seq(G) /\ run[i] = Placed(run[i - 1], q[i])
          /\ q[i] \in S
      <4>1. i \in 0 .. n /\ i - 1 \in 0 .. n /\ i \in Nat
        BY <1>3
      <4> QED BY <1>3, <1>20, <4>1
    <3>2. /\ Len(run[i - 1]) \in Nat /\ Len(run[i]) \in Nat /\ Len(run[i]) >= Len(run[i - 1])
          /\ q[i].valid => Len(run[i]) >= 1
      <4> DEFINE g == run[i - 1]
                 e == q[i]
      <4>1. g \in Seq(G) /\ e \in S /\ run[i] = Placed(g, e)
        BY <3>1
      <4> HIDE DEF g, e
      <4>2. /\ Len(g) \in Nat /\ Len(Placed(g, e)) \in Nat /\ Len(Placed(g, e)) >= Len(g)
            /\ e.valid => Len(Placed(g, e)) >= 1
        BY <1>1, <4>1, PlacedFacts
      <4> QED BY <4>1, <4>2 DEF g, e
    <3>3. i - 1 >= j => Len(run[i - 1]) >= 1
      BY <2>4
    <3>4. i >= j => Len(run[i]) >= 1
      <4>1. CASE i = j
        BY <2>1, <2>2, <3>2, <4>1
      <4>2. CASE i # j
        BY <3>1, <3>2, <3>3, <4>2
      <4> QED BY <4>1, <4>2
    <3> QED BY <3>1, <3>2, <3>4
  <2>5. \A i \in 0 .. n : i \in P
    <3> HIDE DEF P
    <3> QED BY <1>3, <2>3, <2>4, UpTo
  <2> QED BY <1>3, <2>1, <2>5
<1> HIDE DEF ranked, m
<1> DEFINE top == Least(3, m)
<1>7. top \in Int /\ top <= m /\ (m >= 1 => top >= 1)
  BY <1>5 DEF Least
<1>8. DetectSetups(r, c) = SubSeq(ranked, 1, top)
  BY <1>2, <1>20 DEF ranked, m
<1> HIDE DEF top
<1>9. \A i \in 1 .. top : ranked[i] \in G
  BY <1>5, <1>7
<1>10. SubSeq(ranked, 1, top) \in Seq(G) /\ (top >= 1 => Len(SubSeq(ranked, 1, top)) = top)
  <2>1. /\ SubSeq(ranked, 1, top) \in Seq(G)
        /\ Len(SubSeq(ranked, 1, top)) = IF 1 <= top THEN top - 1 + 1 ELSE 0
    BY <1>7, <1>9, SubSeqProperties
  <2> QED BY <1>7, <2>1
<1>11. G # {} => SubSeq(ranked, 1, top) # <<>>
  <2> SUFFICES ASSUME G # {} PROVE SubSeq(ranked, 1, top) # <<>>
    OBVIOUS
  <2>1. top >= 1 /\ top \in Nat
    BY <1>5, <1>6, <1>7
  <2> DEFINE w == SubSeq(ranked, 1, top)
  <2>2. Len(w) = top
    BY <1>10, <2>1
  <2> HIDE DEF w
  <2>3. ASSUME w = <<>> PROVE FALSE
    <3>1. Len(w) = 0
      BY <2>3, EmptySeq
    <3> QED BY <2>1, <2>2, <3>1
  <2> QED BY <2>3 DEF w
<1> QED BY <1>8, <1>10, <1>11 DEF G


(***************************************************************************)
(* The plan: what is proposed was detected on the reading, and only what   *)
(* its validation passed is sized.                                         *)
(***************************************************************************)

PlanInv ==
  /\ planStage \in {"idle", "strategize", "gate", "size", "ended"}
  /\ reading \in Readings /\ account \in PlanAccounts /\ circuit \in Circuits
  /\ setupsFound \in Seq(Good(reading, circuit))
  /\ planStage = "strategize" => setupsFound # <<>>
  /\ planStage \in {"gate", "size"} => proposal \in Finds(reading, circuit)
  /\ planStage = "size" => ValidProposal(proposal)
  /\ planStage # "ended" => sizing = NoSizing
  /\ OrderFitsVenueAndAccount

\* A setup's stop and entry are whole numbers.
LEMMA FindsAreWhole ==
  ASSUME NEW r, Priced(r), NEW c, NEW s \in Finds(r, c)
  PROVE  s.entry \in Int /\ s.stop \in Int
<1>1. PICK d \in Heard(r) : \E k \in DOMAIN Detected(r, d) : s = Finalized(r, d, Detected(r, d)[k], c)
  BY DEF Finds
<1>2. PICK k \in DOMAIN Detected(r, d) : s = Finalized(r, d, Detected(r, d)[k], c)
  BY <1>1
<1>3. d \in Directions
  BY DEF Heard
<1> DEFINE raw == Detected(r, d)[k]
<1>4. raw \in Raws
  <2> DEFINE q == Detected(r, d)
  <2>1. q \in Seq(Raws) /\ k \in DOMAIN q
    BY <1>2, <1>3, DetectedRaws
  <2> HIDE DEF q
  <2>2. q[k] \in Raws
    BY <2>1, LenProperties
  <2> QED BY <2>2 DEF q
<1> HIDE DEF raw
<1>5. s.entry = Signed(r, d).close /\ s.stop = raw.stop
  BY <1>2 DEF Finalized, raw
<1>6. Signed(r, d).close \in Int
  BY <1>3, SignedInts
<1> QED BY <1>4, <1>5, <1>6 DEF Raws

LEMMA PlanInvInit == PlanInit => PlanInv
<1> SUFFICES ASSUME PlanInit PROVE PlanInv
  OBVIOUS
<1>1. setupsFound = <<>> /\ <<>> \in Seq(Good(reading, circuit))
  BY EmptySeq DEF PlanInit
<1>2. ~ NoSizing.ok
  BY DEF NoSizing
<1> QED BY <1>1, <1>2 DEF PlanInit, PlanInv, OrderFitsVenueAndAccount

\* The candidate taken, by name or for want of one, was detected.
LEMMA ChosenWasFound ==
  ASSUME NEW G, NEW s \in Seq(G), s # <<>>, NEW i \in 0 .. Len(s)
  PROVE  ResolvedCandidate(s, i) \in G
<1>1. Len(s) \in Nat /\ Len(s) # 0 /\ \A j \in 1 .. Len(s) : s[j] \in G
  BY LenProperties, EmptySeq
<1>2. CASE i = 0
  BY <1>1, <1>2 DEF ResolvedCandidate
<1>3. CASE i # 0
  BY <1>1, <1>3 DEF ResolvedCandidate
<1> QED BY <1>2, <1>3

LEMMA PlanInvStep == PlanInv /\ [PlanNext]_planVars => PlanInv'
<1> SUFFICES ASSUME PlanInv, [PlanNext]_planVars PROVE PlanInv'
  OBVIOUS
<1>1. Priced(reading) /\ reading \in Readings /\ account \in PlanAccounts /\ circuit \in Circuits
  BY PlanAssumption DEF PlanInv
<1>2. ~ NoSizing.ok
  BY DEF NoSizing
<1>3. CASE Gather
  <2>1. /\ planStage' \in {"strategize", "ended"} /\ (planStage' = "strategize" => setupsFound' # <<>>)
        /\ setupsFound' = DetectSetups(reading, circuit)
        /\ UNCHANGED <<reading, account, circuit, proposal, sizing>> /\ sizing = NoSizing
    BY <1>3 DEF Gather, Ends, PlanInv
  <2>2. setupsFound' \in Seq(Good(reading, circuit))
    BY <1>1, <2>1, DetectFacts
  <2> QED BY <1>1, <1>2, <2>1, <2>2 DEF PlanInv, OrderFitsVenueAndAccount
<1>4. CASE Strategize
  <2>1. /\ UNCHANGED <<reading, account, circuit, setupsFound, sizing>> /\ sizing = NoSizing
        /\ planStage' \in {"gate", "ended"} /\ setupsFound # <<>>
        /\ setupsFound \in Seq(Good(reading, circuit))
    BY <1>4 DEF Strategize, Ends, PlanInv
  <2>2. planStage' = "gate" => proposal' \in Finds(reading, circuit)
    <3> SUFFICES ASSUME planStage' = "gate" PROVE proposal' \in Finds(reading, circuit)
      OBVIOUS
    <3>1. PICK i \in 0 .. Len(setupsFound) : proposal' = ResolvedCandidate(setupsFound, i)
      BY <1>4 DEF Strategize, Ends
    <3>2. proposal' \in Good(reading, circuit)
      BY <2>1, <3>1, ChosenWasFound
    <3> QED BY <3>2 DEF Good, Valid
  <2> QED BY <1>1, <1>2, <2>1, <2>2 DEF PlanInv, OrderFitsVenueAndAccount
<1>5. CASE PassGates
  <2>1. /\ UNCHANGED <<reading, account, circuit, setupsFound, proposal, sizing>> /\ sizing = NoSizing
        /\ planStage' \in {"size", "ended"} /\ proposal \in Finds(reading, circuit)
        /\ setupsFound \in Seq(Good(reading, circuit))
    BY <1>5 DEF PassGates, Ends, PlanInv
  <2>2. planStage' = "size" => ValidProposal(proposal)
    BY <1>5 DEF PassGates, Ends
  <2>3. ValidProposal(proposal)' = ValidProposal(proposal)
    BY <2>1 DEF ValidProposal
  <2> QED BY <1>1, <1>2, <2>1, <2>2, <2>3 DEF PlanInv, OrderFitsVenueAndAccount
<1>6. CASE Size
  <2>1. /\ UNCHANGED <<reading, account, circuit, setupsFound, proposal>> /\ planStage' = "ended"
        /\ proposal \in Finds(reading, circuit) /\ ValidProposal(proposal)
        /\ setupsFound \in Seq(Good(reading, circuit))
    BY <1>6 DEF Size, Ends, PlanInv
  <2>2. /\ proposal.entry \in Int /\ proposal.stop \in Int /\ proposal.stop < proposal.entry
        /\ proposal.leverage \in Int /\ reading.close \in Nat \ {0}
    <3>1. proposal.leverage \in 1 .. PlanLimits.leverage
      BY <2>1 DEF ValidProposal
    <3>2. proposal.entry \in Int /\ proposal.stop \in Int
      BY <1>1, <2>1, FindsAreWhole
    <3>3. proposal.stop < proposal.entry
      BY <2>1 DEF ValidProposal
    <3>4. proposal.leverage \in Int
      BY <3>1
    <3>5. reading.close \in Nat \ {0}
      BY <1>1 DEF Priced
    <3> QED BY <3>2, <3>3, <3>4, <3>5
  <2>3. OrderFitsVenueAndAccount'
    <3>1. CASE sizing' = NoSizing
      BY <1>2, <3>1 DEF OrderFitsVenueAndAccount
    <3>2. CASE \E spec \in Specs : sizing' = SizePosition(proposal, account, circuit, spec)
      <4>1. PICK spec \in Specs : sizing' = SizePosition(proposal, account, circuit, spec)
        BY <3>2
      <4>2. CASE SizePosition(proposal, account, circuit, spec).ok
        <5> DEFINE z == SizePosition(proposal, account, circuit, spec)
        <5>1. /\ z.spec = spec
              /\ z.qty >= spec.minQuantity /\ z.qty % spec.lot = 0
              /\ ~ z.capped => z.qty * reading.close >= spec.minNotional
              /\ Affordable(z.qty, proposal, account, circuit)
              /\ z.qty * reading.close <= account.margin * z.leverage
          BY <1>1, <2>2, <4>2, SizeFits
        <5>2. sizing' = z
          BY <4>1
        <5> HIDE DEF z
        <5>3. Affordable(sizing.qty, proposal, account, circuit)'
          BY <2>1, <5>1, <5>2 DEF Affordable, RiskPerUnit, RiskBudget
        <5> QED BY <2>1, <5>1, <5>2, <5>3 DEF OrderFitsVenueAndAccount
      <4>3. CASE ~ SizePosition(proposal, account, circuit, spec).ok
        BY <4>1, <4>3 DEF OrderFitsVenueAndAccount
      <4> QED BY <4>2, <4>3
    <3> QED BY <1>6, <3>1, <3>2 DEF Size
  <2> QED BY <1>1, <2>1, <2>3 DEF PlanInv
<1>7. CASE UNCHANGED planVars
  BY <1>7 DEF planVars, PlanInv, OrderFitsVenueAndAccount, ValidProposal, Affordable, RiskPerUnit, RiskBudget
<1> QED BY <1>3, <1>4, <1>5, <1>6, <1>7 DEF PlanNext

\* A sized order is on the venue's grid, meets its minima and stays within the
\* risk budget and the margin (SizePosition, position-sizer.ts).
THEOREM OrdersFit == PlanSpec => []OrderFitsVenueAndAccount
<1>1. PlanInv => OrderFitsVenueAndAccount
  BY DEF PlanInv
<1> QED BY PlanInvInit, PlanInvStep, <1>1, PTL DEF PlanSpec


(***************************************************************************)
(* The funnel's account of a bar is the engine's.  A bar that passes every *)
(* gate has no detector of the other direction: structure, bias and        *)
(* liquidity, which the detectors ask for, are all of this one.            *)
(***************************************************************************)

FunnelSpec == FunnelInit /\ [][FunnelNext]_funnelVars

Rows == UNION {{EvaluateDirection(r, d) : d \in Directions} : r \in FunnelReadings}
FunnelInv == funnelRows \in Seq(Rows)

AllGates(g) == \A n \in DOMAIN Sequential : g[Sequential[n]]

\* The gates that all pass, by name.
LEMMA GatesByName ==
  ASSUME NEW r, NEW d, AllGates(GateResults(r, d))
  PROVE  /\ r.trend["1h"] = Trends(d).trend /\ r.trend["15m"] = Trends(d).trend
         /\ r.sweep = Trends(d).sweep /\ DiagnosticRrPasses(Signed(r, d)) /\ RiskGate(r, d)
<1> DEFINE g == GateResults(r, d)
<1>1. {2, 3, 4, 8, 9} \subseteq DOMAIN Sequential
  BY DEF Sequential
<1>2. /\ Sequential[2] = "bias" /\ Sequential[3] = "structure" /\ Sequential[4] = "liquidity"
      /\ Sequential[8] = "rr" /\ Sequential[9] = "risk"
  BY DEF Sequential
<1>3. g["bias"] /\ g["structure"] /\ g["liquidity"] /\ g["rr"] /\ g["risk"]
  <2> HIDE DEF g
  <2>1. \A n \in {2, 3, 4, 8, 9} : g[Sequential[n]]
    BY <1>1 DEF AllGates, g
  <2>2. g[Sequential[2]] /\ g[Sequential[3]] /\ g[Sequential[4]] /\ g[Sequential[8]] /\ g[Sequential[9]]
    BY <2>1
  <2> QED BY <1>2, <2>2, Zenon
<1> QED BY <1>3 DEF GateResults

\* Then the other direction detects nothing.
LEMMA OtherIsSilent ==
  ASSUME NEW r, NEW d \in Directions, AllGates(GateResults(r, d)),
         NEW e \in Directions, e # d
  PROVE  Detected(r, e) = <<>>
<1>1. /\ r.trend["1h"] # Trends(e).trend /\ r.trend["15m"] # Trends(e).trend
      /\ r.sweep # Trends(e).sweep
  <2>1. Trends(d).trend # Trends(e).trend /\ Trends(d).sweep # Trends(e).sweep
    BY DEF Directions, Trends
  <2> QED BY <2>1, GatesByName
<1>2. Detected(r, e) = ((<<>> \o <<>>) \o <<>>) \o <<>>
  BY <1>1 DEF Detected
<1>3. <<>> \o <<>> = <<>>
  BY EmptySeq, ConcatProperties
<1> QED BY <1>2, <1>3

\* And the pullback of this one, its trigger by momentum, makes a valid setup.
LEMMA PullbackTrades ==
  ASSUME NEW r, Priced(r), NEW d \in Directions, NEW c, AllGates(GateResults(r, d)),
         Signed(r, d).momentum > 0 /\ Signed(r, d).rsi >= 45
  PROVE  Good(r, c) # {}
<1> DEFINE f == Signed(r, d)
           raw == Raw("PULLBACK_RECLAIM", f.swing5)
           loss == f.close - f.swing5
<1>1. /\ r.trend["15m"] = Trends(d).trend /\ DiagnosticRrPasses(f) /\ RiskGate(r, d)
  BY GatesByName
<1>2. f.close \in Int /\ f.swing5 \in Int /\ f.target \in Int /\ PlanLimits.minRr \in Nat \ {0}
  BY SignedInts, PlanAssumption
<1>3. d \in Heard(r)
  BY <1>1 DEF RiskGate, BlockedDirection, Heard
<1> DEFINE trigger == f.momentum > 0 /\ f.rsi >= 45
<1>4. trigger
  OBVIOUS
<1>5. 1 \in DOMAIN Detected(r, d) /\ Detected(r, d)[1] = raw
  <2>1. f.close > f.swing5
    <3> HIDE DEF f
    <3> QED BY <1>1, <1>2 DEF DiagnosticRrPasses
  <2>2. Pullbacks(r, d) = <<raw>>
    BY <1>1, <1>4, <2>1 DEF Pullbacks
  <2> DEFINE q == Detected(r, d)
  <2>3. q \in Seq(Raws) /\ Len(q) >= 1 /\ q[1] = raw
    <3>1. raw \in Raws
      BY <1>2 DEF Raws, Raw, Types
    <3> HIDE DEF raw
    <3> QED BY <2>2, <3>1, DetectedRaws
  <2> HIDE DEF q
  <2>4. 1 \in DOMAIN q
    BY <2>3, LenProperties
  <2> QED BY <2>3, <2>4 DEF q
<1> DEFINE s == Finalized(r, d, raw, c)
<1>6. raw.stop = f.swing5
  BY DEF Raw
<1> HIDE DEF f, raw
<1>7. /\ loss \in Int /\ loss > 0 /\ PlanLimits.minRr * loss \in Int /\ PlanLimits.minRr * loss > 0
      /\ (f.target - f.close) * 10 >= PlanLimits.minRr * loss
  <2>1. loss \in Int /\ loss > 0 /\ (f.target - f.close) * 10 >= PlanLimits.minRr * loss
    BY <1>1, <1>2 DEF DiagnosticRrPasses
  <2> HIDE DEF loss
  <2> QED BY <1>2, <2>1
<1>8. Target(f, raw.stop, r.hair) = f.target
  <2> DEFINE natural == f.target - f.close
             need == PlanLimits.minRr * loss
  <2>1. natural \in Int /\ natural * 10 >= need /\ need > 0 /\ need \in Int
    BY <1>2, <1>7
  <2>2. PlanLimits.minRr * 9 * loss = 9 * need
    BY <1>2, <1>7
  <2> HIDE DEF natural, need
  <2>3. natural * 100 >= 9 * need
    BY <2>1
  <2> HIDE DEF loss
  <2>4. natural * 100 >= PlanLimits.minRr * 9 * loss
    BY <2>2, <2>3
  <2> QED BY <1>6, <2>4 DEF Target, natural, loss
<1>9. s.valid
  <2> DEFINE tp == Target(f, raw.stop, r.hair)
  <2>1. s.valid = (raw.stop < f.close /\ tp > f.close /\ (tp - f.close) * 10 >= PlanLimits.minRr * (f.close - raw.stop))
    BY DEF Finalized, f
  <2>2. raw.stop < f.close
    BY <1>2, <1>6, <1>7
  <2>3. f.target > f.close
    <3> HIDE DEF loss
    <3> QED BY <1>2, <1>7
  <2> HIDE DEF s
  <2> QED BY <1>6, <1>7, <1>8, <2>1, <2>2, <2>3
<1>10. s \in Finds(r, c)
  BY <1>3, <1>5 DEF Finds
<1> HIDE DEF s
<1> QED BY <1>9, <1>10 DEF Good, Valid

\* What the engine detects is of a direction that is open.
LEMMA DetectedIsHeard ==
  ASSUME NEW r, Priced(r), NEW c, NEW i \in DOMAIN DetectSetups(r, c)
  PROVE  LET s == DetectSetups(r, c)[i]
         IN  s.direction \in Heard(r) /\ Detected(r, s.direction) # <<>>
<1> DEFINE q == DetectSetups(r, c)
<1>1. q \in Seq(Good(r, c)) /\ i \in DOMAIN q
  BY DetectFacts
<1> HIDE DEF q
<1>2. q[i] \in Good(r, c)
  BY <1>1, LenProperties
<1>3. PICK d \in Heard(r) : \E k \in DOMAIN Detected(r, d) : q[i] = Finalized(r, d, Detected(r, d)[k], c)
  BY <1>2 DEF Good, Valid, Finds
<1>4. q[i].direction = d
  BY <1>3 DEF Finalized
<1>5. Detected(r, d) # <<>>
  BY <1>3
<1> QED BY <1>4, <1>5 DEF q

\* One row: what trades passed the funnel's risk gate, what passes all gates trades.
LEMMA RowHolds ==
  ASSUME NEW r \in FunnelReadings, NEW d \in Directions
  PROVE  LET o == EvaluateDirection(r, d)
         IN  /\ o.executable => o.gates["risk"]
             /\ o.momentum /\ AllGates(o.gates) => o.executable
             /\ o.executable \/ o.reason = FirstReject(o.gates)
<1> DEFINE q == DetectSetups(r, "NORMAL")
           live == \E i \in DOMAIN q : q[i].direction = d
           o == EvaluateDirection(r, d)
<1>1. Priced(r)
  BY FunnelAssumption
<1>2. /\ o.executable = live /\ o.gates = GateResults(r, d)
      /\ o.momentum = (Signed(r, d).momentum > 0 /\ Signed(r, d).rsi >= 45)
      /\ o.reason = IF live THEN "none" ELSE FirstReject(GateResults(r, d))
  BY DEF EvaluateDirection
<1>3. ASSUME live PROVE GateResults(r, d)["risk"]
  <2>1. d \in Heard(r)
    BY <1>1, <1>3, DetectedIsHeard
  <2>2. RiskGate(r, d)
    BY <2>1 DEF Heard, RiskGate, BlockedDirection
  <2> QED BY <2>2 DEF GateResults
<1>4. ASSUME AllGates(GateResults(r, d)), Signed(r, d).momentum > 0 /\ Signed(r, d).rsi >= 45 PROVE live
  <2>1. q # <<>> /\ q \in Seq(Good(r, "NORMAL"))
    BY <1>1, <1>4, PullbackTrades, DetectFacts
  <2>2. 1 \in DOMAIN q
    <3> HIDE DEF q
    <3> QED BY <2>1, LenProperties, EmptySeq
  <2>3. q[1].direction \in Directions /\ Detected(r, q[1].direction) # <<>>
    BY <1>1, <2>2, DetectedIsHeard DEF Heard
  <2> HIDE DEF q
  <2>4. q[1].direction = d
    BY <1>4, <2>3, OtherIsSilent
  <2> QED BY <2>2, <2>4
<1> HIDE DEF live, o
<1> QED BY <1>2, <1>3, <1>4 DEF o

\* The first gate that failed is the one a bar is counted lost at.
LEMMA FirstFailure ==
  ASSUME NEW g, NEW n \in DOMAIN Sequential, ~ g[Sequential[n]],
         \A k \in 1 .. (n - 1) : g[Sequential[k]]
  PROVE  FirstReject(g) = Sequential[n]
<1> DEFINE failed == {k \in DOMAIN RejectOrder : ~ g[RejectOrder[k]]}
           first == CHOOSE k \in failed : \A m \in failed : k <= m
<1>1. RejectOrder = Sequential /\ DOMAIN Sequential = 1 .. 9
  BY DEF RejectOrder, Sequential
<1>2. n \in failed /\ failed \subseteq Int
  BY <1>1
<1>3. \A m \in failed : n <= m
  BY <1>1
<1>4. FirstReject(g) = RejectOrder[first]
  BY <1>2 DEF FirstReject
<1> HIDE DEF failed
<1>5. first \in failed /\ \A m \in failed : first <= m
  BY <1>2, <1>3
<1>6. first = n
  <2> HIDE DEF first
  <2> QED BY <1>2, <1>3, <1>5
<1> QED BY <1>1, <1>4, <1>6

LEMMA FunnelInvInit == FunnelInit => FunnelInv
  BY EmptySeq DEF FunnelInit, FunnelInv

LEMMA FunnelInvStep == FunnelInv /\ [FunnelNext]_funnelVars => FunnelInv'
<1> SUFFICES ASSUME FunnelInv, [FunnelNext]_funnelVars PROVE FunnelInv'
  OBVIOUS
<1>1. CASE Observes
  <2>1. PICK r \in FunnelReadings : funnelRows' = Append(funnelRows, EvaluateFunnelBar(r))
    BY <1>1 DEF Observes
  <2>2. EvaluateFunnelBar(r) \in {EvaluateDirection(r, "LONG"), EvaluateDirection(r, "SHORT")}
    BY DEF EvaluateFunnelBar
  <2>3. EvaluateDirection(r, "LONG") \in Rows /\ EvaluateDirection(r, "SHORT") \in Rows
    BY DEF Rows, Directions
  <2>4. EvaluateFunnelBar(r) \in Rows
    BY <2>2, <2>3
  <2> QED BY <2>1, <2>4, AppendProperties DEF FunnelInv
<1>2. CASE UNCHANGED funnelVars
  BY <1>2 DEF funnelVars, FunnelInv
<1> QED BY <1>1, <1>2 DEF FunnelNext

LEMMA FunnelInvExplains == FunnelInv => FunnelExplains
<1> SUFFICES ASSUME FunnelInv PROVE FunnelExplains
  OBVIOUS
<1>1. ASSUME NEW i \in DOMAIN funnelRows
      PROVE  LET o == funnelRows[i]
             IN  /\ o.executable => o.gates["risk"]
                 /\ o.momentum /\ AllGates(o.gates) => o.executable
                 /\ o.executable \/ o.reason = FirstReject(o.gates)
  <2>1. funnelRows[i] \in Rows
    BY LenProperties DEF FunnelInv
  <2>2. PICK r \in FunnelReadings : \E d \in Directions : funnelRows[i] = EvaluateDirection(r, d)
    BY <2>1 DEF Rows
  <2>3. PICK d \in Directions : funnelRows[i] = EvaluateDirection(r, d)
    BY <2>2
  <2> QED BY <2>3, RowHolds
<1>2. ASSUME NEW n \in DOMAIN Sequential, NEW i \in SeenAt(n) \ PassedAt(n)
      PROVE  funnelRows[i].executable \/ funnelRows[i].reason = Sequential[n]
  <2>1. /\ i \in DOMAIN funnelRows /\ ~ funnelRows[i].gates[Sequential[n]]
        /\ \A k \in 1 .. (n - 1) : funnelRows[i].gates[Sequential[k]]
    BY <1>2 DEF SeenAt, PassedAt
  <2>2. FirstReject(funnelRows[i].gates) = Sequential[n]
    BY <1>2, <2>1, FirstFailure
  <2> QED BY <1>1, <2>1, <2>2
<1> QED BY <1>1, <1>2 DEF FunnelExplains, AllGates

\* The funnel refuses no bar the engine trades at its risk gate, trades what passes
\* every gate, and counts a bar lost at the gate that refused it (EvaluateDirection,
\* funnel-gates.ts and funnel-aggregate.ts).
THEOREM FunnelToldRight == FunnelSpec => []FunnelExplains
BY FunnelInvInit, FunnelInvStep, FunnelInvExplains, PTL DEF FunnelSpec

(***************************************************************************)
(* The replay claims nothing the kernel could not have had.  A stop costs  *)
(* at least its distance: slippage is against the position on both fills,  *)
(* fees are paid on both, and funding pays less than a stop.               *)
(***************************************************************************)

ReplaySpec == ReplayInit /\ [][ReplayNext]_replayVars

LEMMA SlipUp ==
  ASSUME NEW x \in Nat, NEW k \in Int, k >= 1000
  PROVE  (x * k) \div 1000 \in Nat /\ (x * k) \div 1000 >= x
<1> DEFINE y == x * k
<1>1. y \in Int /\ y >= x * 1000
  OBVIOUS
<1> HIDE DEF y
<1>2. y \div 1000 \in Int /\ y \div 1000 >= x
  BY <1>1
<1> QED BY <1>2 DEF y

LEMMA SlipDown ==
  ASSUME NEW x \in Nat, NEW k \in Nat, k <= 1000
  PROVE  (x * k) \div 1000 \in Nat /\ (x * k) \div 1000 <= x
<1> DEFINE y == x * k
<1>1. y \in Nat /\ y <= x * 1000
  OBVIOUS
<1> HIDE DEF y
<1>2. y \div 1000 \in Nat /\ y \div 1000 <= x
  BY <1>1
<1> QED BY <1>2 DEF y

\* A fill slips against the position.
LEMMA SlippedAgainst ==
  ASSUME NEW x \in Nat
  PROVE  /\ Slipped(x, 1) \in Nat /\ Slipped(x, 1) >= x
         /\ Slipped(x, -1) \in Nat /\ Slipped(x, -1) <= x
<1> DEFINE k == Replay.slip
<1>1. k \in 0 .. 1000
  BY ReplayAssumption
<1>2. Slipped(x, 1) = (x * (1000 + 1 * k)) \div 1000 /\ Slipped(x, -1) = (x * (1000 + (-1) * k)) \div 1000
  BY DEF Slipped
<1> HIDE DEF k
<1> DEFINE up == 1000 + 1 * k
           down == 1000 + (-1) * k
<1>3. up \in Int /\ up >= 1000 /\ down \in Nat /\ down <= 1000
  BY <1>1
<1>4. Slipped(x, 1) = (x * up) \div 1000 /\ Slipped(x, -1) = (x * down) \div 1000
  BY <1>2
<1> HIDE DEF up, down
<1>5. (x * up) \div 1000 \in Nat /\ (x * up) \div 1000 >= x
  BY <1>3, SlipUp
<1>6. (x * down) \div 1000 \in Nat /\ (x * down) \div 1000 <= x
  BY <1>3, SlipDown
<1> QED BY <1>4, <1>5, <1>6

\* A part of what is bounded on both sides is bounded by it.
LEMMA PartBounded ==
  ASSUME NEW e \in Int, NEW n \in Nat, NEW m \in 0 .. n, NEW b \in Nat, -b <= e * n, e * n <= b
  PROVE  -b <= e * m /\ e * m <= b /\ e * m \in Int
<1>1. CASE e >= 0
  <2>1. e * m <= e * n /\ e * m >= 0
    BY <1>1
  <2> QED BY <2>1
<1>2. CASE e < 0
  <2>1. e * m >= e * n /\ e * m <= 0
    BY <1>2
  <2> QED BY <2>1
<1> QED BY <1>1, <1>2

LEMMA Times ==
  ASSUME NEW x \in Int, NEW y \in Int, x <= y, NEW q \in Nat
  PROVE  x * q <= y * q
<1> DEFINE z == y - x
<1>1. z \in Nat /\ y = x + z
  OBVIOUS
<1> HIDE DEF z
<1>2. (x + z) * q = x * q + z * q /\ x * q \in Int /\ z * q \in Nat
  BY <1>1
<1> QED BY <1>1, <1>2

LEMMA Negated == ASSUME NEW x \in Int PROVE -x = 0 - x
OBVIOUS

LEMMA LossAfterCosts ==
  ASSUME NEW x \in Int, NEW u \in Int, NEW q \in Nat \ {0}, NEW fees \in Nat, NEW fund \in Int,
         x <= - u, fund >= - (u - q)
  PROVE  x - fees - fund \in Int /\ x - fees - fund < 0
<1>1. x - fees - fund \in Int
  OBVIOUS
<1>2. x - fees - fund <= - q
  OBVIOUS
<1> QED BY <1>1, <1>2

\* A sized trade that is out at its stop, d from its entry.
StoppedOut(t, way, d, res) ==
  /\ way \in {1, -1} /\ way = Sign(t.direction)
  /\ d \in Nat \ {0} /\ t.entry \in Nat \ {0} /\ d < t.entry /\ t.stop = t.entry - way * d
  /\ Sized(t.entry, d) \in Nat \ {0}
  /\ res.exit = t.stop /\ res.held \in 0 .. MaxHold
  /\ t.entry * Replay.funding * (MaxHold \div Replay.fundingBars) \in -1000 * (d - 1) .. 1000 * (d - 1)

LEMMA StopLoses ==
  ASSUME NEW t, NEW way, NEW d, NEW res, StoppedOut(t, way, d, res)
  PROVE  Accounted(t, res) \in Int /\ Accounted(t, res) < 0
<1> DEFINE q == Sized(t.entry, d)
<1>q. /\ way \in {1, -1} /\ way = Sign(t.direction)
      /\ d \in Nat \ {0} /\ t.entry \in Nat \ {0} /\ d < t.entry /\ t.stop = t.entry - way * d
      /\ q \in Nat \ {0} /\ q = Sized(t.entry, d)
      /\ res.exit = t.stop /\ res.held \in 0 .. MaxHold
      /\ t.entry * Replay.funding * (MaxHold \div Replay.fundingBars) \in -1000 * (d - 1) .. 1000 * (d - 1)
  BY DEF StoppedOut
<1> HIDE DEF q
<1>n. way \in Int
  BY <1>q
<1>m. way = -1 => -way = 1
  <2>1. -way = 0 - way
    BY <1>n, Negated, Zenon
  <2>2. way = -1 => 0 - way = 1
    BY <1>n
  <2> QED BY <2>1, <2>2, Zenon
<1> USE <1>q
<1> DEFINE in == Slipped(t.entry, way)
           out == Slipped(t.stop, -way)
           rent == t.entry * Replay.funding
           most == MaxHold \div Replay.fundingBars
           periods == res.held \div Replay.fundingBars
           fees == ((in + out) * q * Replay.fee) \div 1000
           fund == Funding(t, res.held)
<1>0. /\ Replay.slip \in 0 .. 1000 /\ Replay.fee \in Nat /\ Replay.funding \in Int
      /\ Replay.fundingBars \in Nat \ {0} /\ Replay.risked \in Nat \ {0} /\ MaxHold \in Nat \ {0}
  BY ReplayAssumption
<1>1. t.stop \in Nat /\ AtRisk(t) = d
  <2>1. CASE way = 1
    BY <2>1 DEF AtRisk
  <2>2. CASE way = -1
    BY <2>2 DEF AtRisk
  <2> QED BY <2>1, <2>2
<1>2. in \in Nat /\ out \in Nat /\ (out - in) * way <= - d
  <2>1. CASE way = 1
    <3>1. in \in Nat /\ in >= t.entry /\ out \in Nat /\ out <= t.stop
      BY <1>1, <2>1, SlippedAgainst
    <3> HIDE DEF in, out
    <3> QED BY <1>1, <2>1, <3>1
  <2>2. CASE way = -1
    <3>1. -way = 1
      BY <1>m, <2>2
    <3>2. in \in Nat /\ in <= t.entry /\ out \in Nat /\ out >= t.stop
      BY <1>1, <2>2, <3>1, SlippedAgainst
    <3> HIDE DEF in, out
    <3> QED BY <1>1, <2>2, <3>2
  <2> QED BY <2>1, <2>2
<1>3. Accounted(t, res) = (((out - in) * way * q - fees - fund) * 100) \div Replay.risked
  BY <1>1 DEF Accounted
<1> HIDE DEF in, out
<1>4. fees \in Nat
  <2>1. (in + out) * q \in Nat
    BY <1>2
  <2>2. ((in + out) * q) * Replay.fee \in Nat
    BY <1>0, <2>1
  <2> DEFINE y == (in + out) * q * Replay.fee
  <2>3. y \in Nat
    BY <2>2
  <2> HIDE DEF y
  <2>4. y \div 1000 \in Nat
    BY <2>3
  <2> QED BY <2>4 DEF y
<1>5. fund \in Int /\ fund >= - ((d - 1) * q)
  <2> DEFINE part == rent * periods
             b == 1000 * (d - 1)
  <2>0. rent \in Int /\ most \in Nat /\ b \in Nat /\ -b <= rent * most /\ rent * most <= b
    <3>1. rent \in Int /\ most \in Nat /\ b \in Nat
      BY <1>0
    <3>2. rent * most \in -1000 * (d - 1) .. 1000 * (d - 1)
      OBVIOUS
    <3> HIDE DEF rent, most
    <3> QED BY <3>1, <3>2
  <2>1. periods \in 0 .. most
    BY <1>0
  <2> HIDE DEF rent, periods, most, b
  <2>2. part \in Int /\ -b <= part /\ part <= b
    BY <2>0, <2>1, PartBounded
  <2> HIDE DEF part
  <2>3. Funding(t, res.held) = (way * q * rent * periods) \div 1000
    <3>1. Funding(t, res.held) = (way * q * t.entry * Replay.funding * periods) \div 1000
      BY <1>1 DEF Funding, periods
    <3>2. way * q * t.entry * Replay.funding * periods = way * q * rent * periods
      <4>1. periods \in Int /\ way \in Int /\ q \in Int
        BY <2>0, <2>1
      <4>2. way * q * t.entry * Replay.funding = way * q * rent
        BY <1>0, <4>1 DEF rent
      <4> QED BY <4>2
    <3> QED BY <3>1, <3>2
  <2>4. way * q * rent * periods = (way * part) * q
    <3>1. periods \in Int /\ way \in Int /\ q \in Int /\ rent \in Int
      BY <2>0, <2>1
    <3> QED BY <3>1 DEF part
  <2> DEFINE z == (way * part) * q
  <2>5. z \in Int /\ z >= (- b) * q
    <3>1. way * part \in Int /\ way * part >= - b
      BY <2>0, <2>2
    <3>2. (- b) * q <= (way * part) * q
      BY <2>0, <3>1, Times
    <3> QED BY <3>1, <3>2
  <2>6. (- b) * q = 1000 * (- ((d - 1) * q))
    BY DEF b
  <2> HIDE DEF z
  <2> DEFINE w == - ((d - 1) * q)
  <2>7. w \in Int /\ z >= 1000 * w
    BY <2>5, <2>6
  <2> HIDE DEF w
  <2>8. z \div 1000 \in Int /\ z \div 1000 >= w
    BY <2>5, <2>7
  <2> QED BY <2>3, <2>4, <2>8 DEF z, w
<1>6. (out - in) * way * q <= (- d) * q /\ (out - in) * way * q \in Int
  <2>1. (out - in) * way \in Int /\ - d \in Int
    BY <1>2
  <2> QED BY <1>2, <2>1, Times
<1> DEFINE won == (out - in) * way * q - fees - fund
<1>7. won \in Int /\ won < 0
  <2> DEFINE x == (out - in) * way * q
             u == d * q
  <2>1. x \in Int /\ x <= - u /\ u \in Int
    <3>1. (- d) * q = - u /\ u \in Int
      OBVIOUS
    <3> QED BY <1>6, <3>1
  <2>2. (d - 1) * q = u - q
    OBVIOUS
  <2>3. won = x - fees - fund /\ fund \in Int
    BY <1>5
  <2> HIDE DEF x, u, fees, fund, won
  <2>4. fund >= - (u - q)
    BY <1>5, <2>2
  <2> QED BY <1>4, <2>1, <2>3, <2>4, LossAfterCosts
<1> HIDE DEF won
<1>8. (won * 100) \div Replay.risked \in Int /\ (won * 100) \div Replay.risked < 0
  BY <1>0, <1>7
<1> QED BY <1>3, <1>8 DEF won

(***************************************************************************)
(* How a trade resolves on the bars that follow it.                        *)
(***************************************************************************)

LEMMA SmallestFacts ==
  ASSUME NEW S, S \subseteq Nat, S # {}
  PROVE  SmallestOf(S) \in S /\ \A y \in S : SmallestOf(S) <= y
<1>1. \E x \in S : \A y \in S : x <= y
  BY LeastNatural
<1> QED BY <1>1, Zenon DEF SmallestOf

LEMMA LargestFacts ==
  ASSUME NEW S, S \subseteq Nat, S # {}, NEW b \in Nat, \A m \in S : m <= b
  PROVE  LargestOf(S) \in S /\ \A y \in S : LargestOf(S) >= y
<1>1. \E x \in S : \A y \in S : x >= y
  BY Greatest
<1> QED BY <1>1, Zenon DEF LargestOf

Tape == [high : Nat, low : Nat, close : Nat \ {0}]

LEMMA SightIsABar ==
  ASSUME recorded \in Tapes, NEW i \in Nat
  PROVE  SeesUntil(i) \in Nat
<1> DEFINE n == Len(recorded)
           S == {i} \cup {SmallestOf({k * HigherSpan, n}) : k \in HigherOpened(i)}
<1>1. n \in Nat /\ HigherSpan \in Nat \ {0}
  <2>1. recorded \in Seq(Tape)
    BY ReplayAssumption DEF Tape
  <2> QED BY <2>1, LenProperties, ReplayAssumption
<1> HIDE DEF n
<1>2. ASSUME NEW k \in HigherOpened(i)
      PROVE  SmallestOf({k * HigherSpan, n}) \in Nat /\ SmallestOf({k * HigherSpan, n}) <= n
  <2>1. k \in Nat
    BY <1>1, <1>2 DEF HigherOpened, n
  <2> DEFINE a == k * HigherSpan
  <2>2. a \in Nat
    BY <1>1, <2>1
  <2> HIDE DEF a
  <2>3. {a, n} \subseteq Nat /\ {a, n} # {} /\ n \in {a, n}
    BY <1>1, <2>2
  <2> DEFINE T == {a, n}
  <2> HIDE DEF T
  <2>4. SmallestOf(T) \in T /\ SmallestOf(T) <= n
    <3>1. T \subseteq Nat /\ T # {} /\ n \in T
      BY <2>3 DEF T
    <3> QED BY <3>1, SmallestFacts
  <2> QED BY <2>3, <2>4 DEF T, a
<1>3. S \subseteq Nat /\ S # {} /\ \A m \in S : m <= i + n
  <2>1. ASSUME NEW m \in S PROVE m \in Nat /\ m <= i + n
    <3>1. CASE m = i
      BY <1>1, <3>1
    <3>2. CASE m # i
      <4>1. PICK k \in HigherOpened(i) : m = SmallestOf({k * HigherSpan, n})
        BY <3>2
      <4>2. m \in Nat /\ m <= n
        BY <1>2, <4>1
      <4> QED BY <1>1, <4>2
    <3> QED BY <3>1, <3>2
  <2> QED BY <2>1
<1>4. i + n \in Nat
  BY <1>1
<1>5. SeesUntil(i) = LargestOf(S)
  BY DEF SeesUntil, n
<1> HIDE DEF S
<1> QED BY <1>3, <1>4, <1>5, LargestFacts

\* A stop is told of before a target, a target only before any stop.
LEMMA ResolutionFacts ==
  ASSUME recorded \in Tapes, NEW t, t.openedAt \in 1 .. (Len(recorded) - 1), t.stop \in Int, t.target \in Int
  PROVE  LET res == Resolution(t)
             clean == \A j \in (t.openedAt + 1) .. res.closedAt : ~ StopTouched(t, recorded[j])
         IN  /\ res.closedAt \in (t.openedAt + 1) .. Len(recorded)
             /\ res.exit \in Int /\ res.held \in 0 .. MaxHold
             /\ res.outcome \in {"TARGET", "STOP", "TIMEOUT"}
             /\ IF res.outcome = "STOP" THEN res.exit = t.stop ELSE clean
<1> DEFINE n == Len(recorded)
           a == t.openedAt
           res == Resolution(t)
           bars == HeldBars(a)
           touch(j) == StopTouched(t, recorded[j]) \/ TargetTouched(t, recorded[j])
           ends == {j \in bars : touch(j)}
           last == SmallestOf({a + MaxHold, n})
           j0 == SmallestOf(ends)
<1>1. /\ n \in Nat /\ MaxHold \in Nat \ {0} /\ a \in Nat /\ a + 1 <= n
      /\ \A j \in 1 .. n : recorded[j].close \in Int
  <2>1. recorded \in Seq(Tape)
    BY ReplayAssumption DEF Tape
  <2>2. \A j \in 1 .. n : recorded[j] \in Tape
    BY <2>1, LenProperties
  <2>3. n \in Nat
    BY <2>1, LenProperties
  <2>4. \A j \in 1 .. n : recorded[j].close \in Int
    BY <2>2 DEF Tape
  <2>5. MaxHold \in Nat \ {0}
    BY ReplayAssumption
  <2>6. a \in 1 .. (n - 1)
    OBVIOUS
  <2> HIDE DEF n, a
  <2>7. a \in Nat /\ a + 1 <= n
    BY <2>3, <2>6
  <2> QED BY <2>3, <2>4, <2>5, <2>7
<1>2. res = IF ends = {} THEN [outcome |-> "TIMEOUT", closedAt |-> last, exit |-> recorded[last].close, held |-> MaxHold]
            ELSE IF StopTouched(t, recorded[j0])
            THEN [outcome |-> "STOP", closedAt |-> j0, exit |-> t.stop, held |-> j0 - a]
            ELSE [outcome |-> "TARGET", closedAt |-> j0, exit |-> t.target, held |-> j0 - a]
  BY DEF Resolution
<1>3. bars = {j \in (a + 1) .. (a + MaxHold) : j <= n}
  BY DEF HeldBars
<1> HIDE DEF n, a, res, bars
<1>4. bars \subseteq Nat /\ \A j \in bars : j \in (a + 1) .. n /\ j <= a + MaxHold
  BY <1>1, <1>3
<1>5. last \in (a + 1) .. n /\ last <= a + MaxHold
  <2> DEFINE T == {a + MaxHold, n}
  <2>1. T \subseteq Nat /\ T # {} /\ (\A x \in T : x >= a + 1) /\ n \in T /\ a + MaxHold \in T
    BY <1>1
  <2> HIDE DEF T
  <2>2. SmallestOf(T) \in T /\ \A y \in T : SmallestOf(T) <= y
    BY <2>1, SmallestFacts
  <2>3. SmallestOf(T) \in Nat /\ SmallestOf(T) >= a + 1 /\ SmallestOf(T) <= n /\ SmallestOf(T) <= a + MaxHold
    BY <2>1, <2>2
  <2> DEFINE x == SmallestOf(T)
  <2>4. x \in (a + 1) .. n /\ x <= a + MaxHold
    <3> HIDE DEF x
    <3>1. x \in Nat /\ x >= a + 1 /\ x <= n /\ x <= a + MaxHold
      BY <2>3 DEF x
    <3> QED BY <1>1, <3>1
  <2> QED BY <2>4 DEF T
<1> HIDE DEF last
<1>6. CASE ends = {}
  <2>1. /\ res.outcome = "TIMEOUT" /\ res.closedAt = last /\ res.exit = recorded[last].close /\ res.held = MaxHold
    BY <1>2, <1>6
  <2>2. ASSUME NEW j \in (a + 1) .. last PROVE ~ StopTouched(t, recorded[j])
    <3>1. j \in bars
      BY <1>1, <1>3, <1>5
    <3> QED BY <1>6, <3>1
  <2>3. recorded[last].close \in Int
    BY <1>1, <1>5
  <2> QED BY <1>1, <1>5, <2>1, <2>2, <2>3 DEF n, a, res
<1>7. CASE ends # {}
  <2>1. j0 \in ends /\ \A y \in ends : j0 <= y
    <3>1. ends \subseteq Nat
      BY <1>4
    <3> HIDE DEF ends
    <3> QED BY <1>7, <3>1, SmallestFacts
  <2>2. j0 \in (a + 1) .. n /\ j0 <= a + MaxHold /\ touch(j0)
    <3> HIDE DEF j0
    <3> QED BY <1>4, <2>1
  <2> HIDE DEF j0
  <2>3. j0 - a \in 0 .. MaxHold
    BY <1>1, <2>2
  <2>4. CASE StopTouched(t, recorded[j0])
    <3>1. res.outcome = "STOP" /\ res.closedAt = j0 /\ res.exit = t.stop /\ res.held = j0 - a
      <4> HIDE DEF ends
      <4> QED BY <1>2, <1>7, <2>4
    <3> QED BY <2>2, <2>3, <3>1 DEF n, a, res
  <2>5. CASE ~ StopTouched(t, recorded[j0])
    <3>1. res.outcome = "TARGET" /\ res.closedAt = j0 /\ res.exit = t.target /\ res.held = j0 - a
      <4> HIDE DEF ends
      <4> QED BY <1>2, <1>7, <2>5
    <3>2. ASSUME NEW j \in (a + 1) .. j0 PROVE ~ StopTouched(t, recorded[j])
      <4>1. CASE j = j0
        BY <2>5, <4>1
      <4>2. CASE j # j0
        <5>1. j < j0 /\ j \in bars
          BY <1>1, <1>3, <2>2, <4>2
        <5>2. j \notin ends
          <6> HIDE DEF ends
          <6> QED BY <1>1, <2>1, <2>2, <5>1
        <5> QED BY <5>1, <5>2
      <4> QED BY <4>1, <4>2
    <3> QED BY <2>2, <2>3, <3>1, <3>2 DEF n, a, res
  <2> QED BY <2>4, <2>5
<1> QED BY <1>6, <1>7

\* What a trade may show once it is closed.
Honest(t) ==
  LET stopped == \E j \in (t.openedAt + 1) .. t.closedAt : StopTouched(t, recorded[j])
  IN  /\ t.outcome = "TARGET" => ~ stopped
      /\ stopped => t.r < 0

Trades == [cell : {c.cell : c \in Candidates}, direction : {"LONG", "SHORT"}, entry : Int, openedAt : Nat,
           stop : Int, target : Int, saw : Nat, outcome : {"OPEN", "TARGET", "STOP", "TIMEOUT"},
           closedAt : Nat, r : Int]

LEMMA SizedFacts ==
  ASSUME NEW entry, NEW d \in Int, Sized(entry, d) # 0
  PROVE  d \in Nat \ {0} /\ Sized(entry, d) \in Nat \ {0}
<1> DEFINE q == (Replay.risked \div (d * Replay.lot)) * Replay.lot
<1>1. Replay.risked \in Nat \ {0} /\ Replay.lot \in Nat \ {0}
  BY ReplayAssumption
<1>2. ~ (d <= 0) /\ Sized(entry, d) = q
  BY DEF Sized
<1>3. d \in Nat \ {0}
  BY <1>2
<1>4. q \in Nat
  <2>1. d * Replay.lot \in Nat \ {0}
    BY <1>1, <1>3
  <2>2. Replay.risked \div (d * Replay.lot) \in Nat
    BY <1>1, <2>1
  <2> QED BY <1>1, <2>2
<1> HIDE DEF q
<1> QED BY <1>2, <1>3, <1>4

\* The costs of the replay in any outcome are a number.
Accountable(t, res) ==
  /\ t.direction \in {"LONG", "SHORT"} /\ t.entry \in Int /\ t.stop \in Int
  /\ Sized(t.entry, AtRisk(t)) \in Int /\ res.exit \in Int /\ res.held \in 0 .. MaxHold

LEMMA AccountedIsInt ==
  ASSUME NEW t, NEW res, Accountable(t, res)
  PROVE  Accounted(t, res) \in Int
<1> DEFINE way == Sign(t.direction)
           q == Sized(t.entry, AtRisk(t))
           in == Slipped(t.entry, way)
           out == Slipped(res.exit, -way)
           fund == Funding(t, res.held)
<1>0. /\ Replay.slip \in Int /\ Replay.fee \in Int /\ Replay.funding \in Int
      /\ Replay.fundingBars \in Nat \ {0} /\ Replay.risked \in Nat \ {0} /\ MaxHold \in Nat \ {0}
  <2>1. Replay.slip \in 0 .. 1000 /\ Replay.fee \in Nat
    BY ReplayAssumption
  <2>2. Replay.slip \in Int /\ Replay.fee \in Int
    BY <2>1
  <2> QED BY <2>2, ReplayAssumption
<1> USE DEF Accountable
<1>1. way \in Int /\ -way \in Int
  BY DEF Sign
<1>2. \A x \in Int, w \in Int : Slipped(x, w) \in Int
  <2> SUFFICES ASSUME NEW x \in Int, NEW w \in Int PROVE Slipped(x, w) \in Int
    OBVIOUS
  <2> DEFINE y == x * (1000 + w * Replay.slip)
  <2>1. y \in Int
    BY <1>0
  <2> HIDE DEF y
  <2>2. y \div 1000 \in Int
    BY <2>1
  <2> QED BY <2>2 DEF Slipped, y
<1>3. in \in Int /\ out \in Int
  <2> HIDE DEF way
  <2> QED BY <1>1, <1>2
<1>4. fund \in Int
  <2> DEFINE n == res.held \div Replay.fundingBars
             y == way * q * t.entry * Replay.funding * n
  <2>1. n \in Int
    BY <1>0
  <2> HIDE DEF n, way, q
  <2>2. y \in Int
    BY <1>0, <1>1, <2>1 DEF q
  <2> HIDE DEF y
  <2>3. y \div 1000 \in Int
    BY <2>2
  <2> QED BY <2>3 DEF Funding, y, n, way, q
<1>5. Accounted(t, res) = (((out - in) * way * q - ((in + out) * q * Replay.fee) \div 1000 - fund) * 100) \div Replay.risked
  BY DEF Accounted
<1> HIDE DEF in, out, fund, way
<1> DEFINE y == (in + out) * q * Replay.fee
           x == (out - in) * way * q
<1>6. x \in Int /\ y \in Int
  <2>1. q \in Int
    OBVIOUS
  <2> HIDE DEF q
  <2> QED BY <1>0, <1>1, <1>3, <2>1
<1> HIDE DEF x, y
<1>7. y \div 1000 \in Int
  BY <1>6
<1> DEFINE z == (x - y \div 1000 - fund) * 100
<1>8. z \in Int
  BY <1>4, <1>6, <1>7
<1> HIDE DEF z
<1>9. z \div Replay.risked \in Int
  BY <1>0, <1>8
<1> QED BY <1>5, <1>9 DEF x, y, z

\* A trade simulated here, in the ways that matter later.
LEMMA SimulatedFacts ==
  ASSUME recorded \in Tapes, cursor \in 1 .. (Len(recorded) - 1), NEW c \in Candidates,
         Sized(recorded[cursor].close, c.stop) # 0
  PROVE  LET t == Simulated(Asked(c))
         IN  /\ t \in Trades /\ t.openedAt = cursor /\ t.closedAt > cursor /\ t.closedAt <= Len(recorded)
             /\ Honest(t)
<1> DEFINE a == Asked(c)
           res == Resolution(a)
           t == Simulated(a)
           entry == recorded[cursor].close
           d == c.stop
           way == Sign(c.direction)
<1>1. entry \in Nat \ {0} /\ cursor \in DOMAIN recorded /\ Len(recorded) \in Nat /\ cursor \in Nat
  <2>1. recorded \in Seq(Tape)
    BY ReplayAssumption DEF Tape
  <2>2. Len(recorded) \in Nat /\ DOMAIN recorded = 1 .. Len(recorded) /\ \A j \in 1 .. Len(recorded) : recorded[j] \in Tape
    BY <2>1, LenProperties
  <2>3. cursor \in 1 .. Len(recorded) /\ cursor \in Nat
    BY <2>2
  <2>4. recorded[cursor] \in Tape
    BY <2>2, <2>3
  <2> QED BY <2>2, <2>3, <2>4 DEF Tape
<1>2. c.direction \in {"LONG", "SHORT"} /\ c.stop \in Int /\ c.target \in Int
  BY ReplayAssumption
<1>3. d \in Nat \ {0} /\ Sized(entry, d) \in Nat \ {0}
  BY <1>2, SizedFacts
<1>4. /\ d < entry
      /\ entry * Replay.funding * (MaxHold \div Replay.fundingBars) \in -1000 * (d - 1) .. 1000 * (d - 1)
  <2>1. \A i \in DOMAIN recorded, x \in Candidates :
          LET due == recorded[i].close * Replay.funding * (MaxHold \div Replay.fundingBars)
          IN  x.stop < recorded[i].close /\ (x.stop > 0 => due \in -1000 * (x.stop - 1) .. 1000 * (x.stop - 1))
    BY ReplayAssumption
  <2>2. c.stop > 0
    BY <1>3
  <2> QED BY <1>1, <2>1, <2>2
<1>5. way \in {1, -1}
  BY DEF Sign
<1>6. /\ a.cell = c.cell /\ a.direction = c.direction /\ a.entry = entry /\ a.openedAt = cursor
      /\ a.stop = entry - way * d /\ a.target = entry + way * c.target
      /\ a.saw = SeesUntil(cursor) /\ a.outcome = "OPEN" /\ a.closedAt = cursor /\ a.r = 0
      /\ a = [cell |-> a.cell, direction |-> a.direction, entry |-> a.entry, openedAt |-> a.openedAt,
              stop |-> a.stop, target |-> a.target, saw |-> a.saw, outcome |-> a.outcome,
              closedAt |-> a.closedAt, r |-> a.r]
  BY DEF Asked
<1>7. t = [a EXCEPT !.outcome = res.outcome, !.closedAt = res.closedAt, !.r = Accounted(a, res)]
  BY DEF Simulated
<1> HIDE DEF a, t, res, way
<1>8. /\ t.cell = a.cell /\ t.direction = a.direction /\ t.entry = a.entry /\ t.openedAt = a.openedAt
      /\ t.stop = a.stop /\ t.target = a.target /\ t.saw = a.saw /\ t.outcome = res.outcome
      /\ t.closedAt = res.closedAt /\ t.r = Accounted(a, res)
      /\ t = [cell |-> t.cell, direction |-> t.direction, entry |-> t.entry, openedAt |-> t.openedAt,
              stop |-> t.stop, target |-> t.target, saw |-> t.saw, outcome |-> t.outcome,
              closedAt |-> t.closedAt, r |-> t.r]
  BY <1>6, <1>7
<1> HIDE DEF entry
<1>9. a.stop \in Int /\ a.target \in Int /\ a.entry \in Int
  BY <1>1, <1>2, <1>5, <1>6
<1>10. /\ res.closedAt \in (cursor + 1) .. Len(recorded)
       /\ res.exit \in Int /\ res.held \in 0 .. MaxHold /\ res.outcome \in {"TARGET", "STOP", "TIMEOUT"}
       /\ IF res.outcome = "STOP" THEN res.exit = a.stop
          ELSE \A j \in (cursor + 1) .. res.closedAt : ~ StopTouched(a, recorded[j])
  <2>1. a.openedAt \in 1 .. (Len(recorded) - 1)
    BY <1>6
  <2> QED BY <1>6, <1>9, <2>1, ResolutionFacts DEF res
<1>11. AtRisk(a) = d
  <2>1. CASE way = 1
    BY <1>1, <1>3, <1>6, <2>1 DEF AtRisk
  <2>2. CASE way = -1
    BY <1>1, <1>3, <1>6, <2>2 DEF AtRisk
  <2> QED BY <1>5, <2>1, <2>2
<1>12. t.r \in Int
  <2>1. Sized(a.entry, AtRisk(a)) \in Int
    BY <1>3, <1>6, <1>11
  <2>2. Accounted(a, res) \in Int
    <3>1. Accountable(a, res)
      BY <1>2, <1>6, <1>9, <1>10, <2>1 DEF Accountable
    <3> QED BY <3>1, AccountedIsInt
  <2> QED BY <1>8, <2>2
<1>13. ASSUME res.outcome = "STOP" PROVE t.r < 0
  <2> DEFINE q == Sized(entry, d)
  <2>1. way = Sign(a.direction) /\ res.exit = a.stop /\ q \in Nat \ {0} /\ q = Sized(a.entry, d)
    BY <1>3, <1>6, <1>10, <1>13 DEF way
  <2> HIDE DEF q
  <2>2. Accounted(a, res) < 0
    <3>1. /\ a.entry \in Nat \ {0} /\ d < a.entry /\ a.stop = a.entry - way * d /\ res.held \in 0 .. MaxHold
          /\ a.entry * Replay.funding * (MaxHold \div Replay.fundingBars) \in -1000 * (d - 1) .. 1000 * (d - 1)
      BY <1>1, <1>4, <1>6, <1>10
    <3>2. Sized(a.entry, d) \in Nat \ {0} /\ way \in {1, -1} /\ d \in Nat \ {0}
      BY <1>3, <1>5, <2>1
    <3>3. StoppedOut(a, way, d, res)
      BY <2>1, <3>1, <3>2 DEF StoppedOut
    <3> QED BY <3>3, StopLoses
  <2> QED BY <1>8, <2>2
<1>14. \A j : StopTouched(t, recorded[j]) = StopTouched(a, recorded[j])
  BY <1>8 DEF StopTouched
<1>15. Honest(t)
  <2>1. CASE res.outcome = "STOP"
    BY <1>8, <1>13, <2>1 DEF Honest
  <2>2. CASE res.outcome # "STOP"
    <3>1. ~ \E j \in (t.openedAt + 1) .. t.closedAt : StopTouched(t, recorded[j])
      BY <1>6, <1>8, <1>10, <1>14, <2>2
    <3> QED BY <3>1, Zenon DEF Honest
  <2> QED BY <2>1, <2>2
<1>16. t.closedAt \in Nat /\ t.closedAt > cursor /\ t.closedAt <= Len(recorded)
  BY <1>1, <1>8, <1>10
<1>17. t \in Trades
  <2>1. t.saw \in Nat
    BY <1>1, <1>6, <1>8, SightIsABar
  <2>2. t.cell \in {x.cell : x \in Candidates}
    BY <1>6, <1>8
  <2> QED BY <1>1, <1>2, <1>6, <1>8, <1>9, <1>10, <1>12, <1>16, <2>1, <2>2 DEF Trades
<1> QED BY <1>6, <1>8, <1>15, <1>16, <1>17 DEF t, a

(***************************************************************************)
(* Slots.  At any bar to come there are as many closing times in the queue *)
(* as trades still open, so a free slot in the queue is one in the market. *)
(***************************************************************************)

Later(s, b) == {k \in DOMAIN s : s[k] > b}

LEMMA LaterFinite ==
  ASSUME NEW s \in Seq(Nat), NEW b
  PROVE  /\ IsFiniteSet(Later(s, b)) /\ Cardinality(Later(s, b)) \in Nat
         /\ Cardinality(Later(s, b)) <= Len(s)
<1>1. Len(s) \in Nat /\ DOMAIN s = 1 .. Len(s)
  BY LenProperties
<1> DEFINE n == Len(s)
<1> HIDE DEF n
<1>2. IsFiniteSet(1 .. n) /\ Cardinality(1 .. n) = n
  <2>1. n \in Int /\ 1 \in Int /\ n >= 0
    BY <1>1 DEF n
  <2>2. IsFiniteSet(1 .. n) /\ Cardinality(1 .. n) = IF 1 > n THEN 0 ELSE n - 1 + 1
    BY <2>1, FS_Interval
  <2> QED BY <2>1, <2>2
<1>3. Later(s, b) \in SUBSET (1 .. n)
  BY <1>1 DEF Later, n
<1>4. IsFiniteSet(Later(s, b)) /\ Cardinality(Later(s, b)) <= Cardinality(1 .. n)
  BY <1>2, <1>3, FS_Subset
<1> QED BY <1>2, <1>4, FS_CardinalityType DEF n

\* Dropping what is before the first that is later than b loses none that is later.
LEMMA RestLater ==
  ASSUME NEW s \in Seq(Nat), NEW b \in Nat, NEW f \in 1 .. Len(s), \A k \in Later(s, b) : f <= k,
         NEW e \in Nat, b <= e
  PROVE  /\ SubSeq(s, f, Len(s)) \in Seq(Nat) /\ Len(SubSeq(s, f, Len(s))) <= Len(s)
         /\ Cardinality(Later(s, e)) <= Cardinality(Later(SubSeq(s, f, Len(s)), e))
<1> DEFINE n == Len(s)
           r == SubSeq(s, f, n)
<1>1. n \in Nat /\ DOMAIN s = 1 .. n /\ f \in 1 .. n /\ \A k \in 1 .. n : s[k] \in Nat
  BY LenProperties, ElementOfSeq
<1> HIDE DEF n
<1>2. r \in Seq(Nat) /\ Len(r) = n - f + 1 /\ \A i \in 1 .. (n - f + 1) : r[i] = s[f + i - 1]
  <2>1. \A i \in f .. n : s[i] \in Nat
    BY <1>1
  <2>2. f \in Int /\ n \in Int /\ f <= n
    BY <1>1
  <2>3. /\ SubSeq(s, f, n) \in Seq(Nat)
        /\ Len(SubSeq(s, f, n)) = IF f <= n THEN n - f + 1 ELSE 0
        /\ \A i \in 1 .. n - f + 1 : SubSeq(s, f, n)[i] = s[f + i - 1]
    BY <2>1, <2>2, SubSeqProperties
  <2> QED BY <2>2, <2>3
<1> HIDE DEF r
<1>3. DOMAIN r = 1 .. (n - f + 1)
  BY <1>2, LenProperties
<1>4. ASSUME NEW k \in Later(s, e) PROVE k \in f .. n /\ k - f + 1 \in Later(r, e)
  <2>1. k \in 1 .. n /\ s[k] > e
    BY <1>1 DEF Later
  <2>2. s[k] > b
    BY <1>1, <2>1
  <2>3. k \in Later(s, b)
    BY <1>1, <2>1, <2>2 DEF Later
  <2>4. f <= k
    BY <2>3
  <2>5. k - f + 1 \in 1 .. (n - f + 1) /\ f + (k - f + 1) - 1 = k
    BY <1>1, <2>1, <2>4
  <2>6. r[k - f + 1] = s[k]
    BY <1>2, <2>5
  <2> QED BY <1>1, <1>3, <2>1, <2>4, <2>5, <2>6 DEF Later
<1> DEFINE m == [k \in Later(s, e) |-> k - f + 1]
<1>5. m \in Injection(Later(s, e), Later(r, e))
  <2>1. m \in [Later(s, e) -> Later(r, e)]
    BY <1>4
  <2>2. ASSUME NEW x \in Later(s, e), NEW y \in Later(s, e), m[x] = m[y] PROVE x = y
    <3>1. x \in Int /\ y \in Int /\ f \in Int /\ x - f + 1 = y - f + 1
      BY <1>1, <1>4, <2>2
    <3> QED BY <3>1
  <2> HIDE DEF m
  <2> QED BY <2>1, <2>2 DEF Injection, IsInjective
<1>6. Cardinality(Later(s, e)) <= Cardinality(Later(r, e))
  <2> HIDE DEF m
  <2>1. IsFiniteSet(Later(r, e))
    BY <1>2, LaterFinite
  <2> QED BY <1>5, <2>1, FS_Injection
<1> QED BY <1>1, <1>2, <1>6 DEF n, r

\* A closing time put into the queue is one more that is later than any bar before it.
LEMMA QueuedLater ==
  ASSUME NEW s \in Seq(Nat), NEW t \in Nat
  PROVE  /\ Queued(s, t) \in Seq(Nat) /\ Len(Queued(s, t)) = Len(s) + 1
         /\ \A e \in Nat : /\ Cardinality(Later(s, e)) <= Cardinality(Later(Queued(s, t), e))
                           /\ t > e => Cardinality(Later(s, e)) + 1 <= Cardinality(Later(Queued(s, t), e))
<1> DEFINE n == Len(s)
           before == {k \in DOMAIN s : s[k] <= t}
           p == 1 + Cardinality(before)
           r == Queued(s, t)
           head == SubSeq(s, 1, p - 1)
           tail == SubSeq(s, p, n)
           one == <<t>>
           ht == head \o one
<1>1. n \in Nat /\ DOMAIN s = 1 .. n /\ \A k \in 1 .. n : s[k] \in Nat
  BY LenProperties, ElementOfSeq
<1>2. r = ht \o tail
  BY DEF Queued, InsertAt
<1>3. p \in 1 .. (n + 1)
  <2>1. before \in SUBSET (1 .. n)
    BY <1>1
  <2> HIDE DEF before, n
  <2>2. n \in Int /\ 1 \in Int /\ n >= 0
    BY <1>1
  <2>3. IsFiniteSet(1 .. n) /\ Cardinality(1 .. n) = IF 1 > n THEN 0 ELSE n - 1 + 1
    BY <2>2, FS_Interval
  <2>4. IsFiniteSet(before) /\ Cardinality(before) <= Cardinality(1 .. n)
    BY <2>1, <2>3, FS_Subset
  <2>5. Cardinality(before) \in Nat /\ Cardinality(before) <= n
    BY <2>2, <2>3, <2>4, FS_CardinalityType
  <2> HIDE DEF before
  <2> QED BY <1>1, <2>5
<1> HIDE DEF n, p, r
<1>4. head \in Seq(Nat) /\ Len(head) = p - 1 /\ \A i \in 1 .. (p - 1) : head[i] = s[i]
  <2>1. p - 1 \in Int /\ p - 1 >= 0 /\ p - 1 <= n
    BY <1>1, <1>3
  <2> DEFINE q == p - 1
  <2> HIDE DEF q
  <2>2. \A i \in 1 .. q : s[i] \in Nat
    BY <1>1, <2>1 DEF q
  <2>3. q \in Int /\ 1 \in Int
    BY <2>1 DEF q
  <2>4. /\ SubSeq(s, 1, q) \in Seq(Nat)
        /\ Len(SubSeq(s, 1, q)) = IF 1 <= q THEN q - 1 + 1 ELSE 0
        /\ \A i \in 1 .. q - 1 + 1 : SubSeq(s, 1, q)[i] = s[1 + i - 1]
    BY <2>2, <2>3, SubSeqProperties
  <2>5. Len(SubSeq(s, 1, q)) = q /\ \A i \in 1 .. q : SubSeq(s, 1, q)[i] = s[i]
    <3>1. \A i \in 1 .. q : i \in 1 .. q - 1 + 1 /\ 1 + i - 1 = i
      BY <2>3
    <3> QED BY <2>1, <2>3, <2>4, <3>1 DEF q
  <2> QED BY <2>4, <2>5 DEF q
<1>5. tail \in Seq(Nat) /\ Len(tail) = n - p + 1 /\ \A i \in 1 .. (n - p + 1) : tail[i] = s[p + i - 1]
  <2>1. p \in Int /\ n \in Int /\ \A i \in p .. n : s[i] \in Nat
    BY <1>1, <1>3
  <2>2. /\ SubSeq(s, p, n) \in Seq(Nat)
        /\ Len(SubSeq(s, p, n)) = IF p <= n THEN n - p + 1 ELSE 0
        /\ \A i \in 1 .. n - p + 1 : SubSeq(s, p, n)[i] = s[p + i - 1]
    BY <2>1, SubSeqProperties
  <2> QED BY <1>1, <1>3, <2>2
<1>6. one \in Seq(Nat) /\ Len(one) = 1 /\ one[1] = t
  OBVIOUS
<1> HIDE DEF head, tail, one
<1>7. /\ ht \in Seq(Nat) /\ Len(ht) = p
      /\ \A i \in 1 .. p : ht[i] = IF i < p THEN s[i] ELSE t
  <2>1. /\ ht \in Seq(Nat) /\ Len(ht) = Len(head) + Len(one)
        /\ \A i \in 1 .. Len(head) + Len(one) : ht[i] = IF i <= Len(head) THEN head[i] ELSE one[i - Len(head)]
    BY <1>4, <1>6, ConcatProperties
  <2> HIDE DEF ht
  <2>2. Len(ht) = p /\ \A i \in 1 .. p : ht[i] = IF i <= p - 1 THEN head[i] ELSE one[i - (p - 1)]
    BY <1>3, <1>4, <1>6, <2>1
  <2>3. ASSUME NEW i \in 1 .. p PROVE ht[i] = IF i < p THEN s[i] ELSE t
    <3>1. CASE i < p
      <4>1. i \in 1 .. (p - 1)
        BY <1>3, <3>1
      <4> QED BY <1>4, <2>2, <3>1, <4>1
    <3>2. CASE ~ (i < p)
      <4>1. i = p /\ i - (p - 1) = 1 /\ ~ (i <= p - 1)
        BY <1>3, <3>2
      <4> QED BY <1>6, <2>2, <3>2, <4>1
    <3> QED BY <3>1, <3>2
  <2> QED BY <2>1, <2>2, <2>3
<1> HIDE DEF ht
<1>8. /\ r \in Seq(Nat) /\ Len(r) = n + 1
      /\ \A i \in 1 .. (n + 1) : r[i] = IF i < p THEN s[i] ELSE IF i = p THEN t ELSE s[i - 1]
  <2>1. /\ ht \o tail \in Seq(Nat) /\ Len(ht \o tail) = Len(ht) + Len(tail)
        /\ \A i \in 1 .. Len(ht) + Len(tail) : (ht \o tail)[i] = IF i <= Len(ht) THEN ht[i] ELSE tail[i - Len(ht)]
    BY <1>5, <1>7, ConcatProperties
  <2>2. r \in Seq(Nat) /\ Len(r) = n + 1 /\ \A i \in 1 .. (n + 1) : r[i] = IF i <= p THEN ht[i] ELSE tail[i - p]
    <3>1. Len(ht) + Len(tail) = n + 1 /\ Len(ht) = p
      BY <1>1, <1>3, <1>5, <1>7
    <3> QED BY <1>2, <2>1, <3>1
  <2>3. ASSUME NEW i \in 1 .. (n + 1) PROVE r[i] = IF i < p THEN s[i] ELSE IF i = p THEN t ELSE s[i - 1]
    <3>1. CASE i <= p
      <4>1. i \in 1 .. p
        BY <1>3, <3>1
      <4> QED BY <1>3, <1>7, <2>2, <3>1, <4>1
    <3>2. CASE ~ (i <= p)
      <4>1. i - p \in 1 .. (n - p + 1) /\ p + (i - p) - 1 = i - 1 /\ ~ (i < p) /\ i # p
        BY <1>1, <1>3, <3>2
      <4>2. tail[i - p] = s[p + (i - p) - 1]
        BY <1>5, <4>1
      <4> QED BY <2>2, <3>2, <4>1, <4>2
    <3> QED BY <3>1, <3>2
  <2> QED BY <2>2, <2>3
<1>9. DOMAIN r = 1 .. (n + 1)
  BY <1>8, LenProperties
<1>10. ASSUME NEW e \in Nat
       PROVE  /\ Cardinality(Later(s, e)) <= Cardinality(Later(r, e))
              /\ t > e => Cardinality(Later(s, e)) + 1 <= Cardinality(Later(r, e))
  <2> DEFINE A == Later(s, e)
             B == Later(r, e)
             C == B \ {p}
             m == [k \in A |-> IF k < p THEN k ELSE k + 1]
  <2>1. IsFiniteSet(A) /\ IsFiniteSet(B) /\ Cardinality(A) \in Nat /\ Cardinality(B) \in Nat
    BY <1>8, LaterFinite
  <2>2. ASSUME NEW k \in A PROVE k \in 1 .. n /\ (IF k < p THEN k ELSE k + 1) \in C
    <3>1. k \in 1 .. n /\ s[k] > e
      BY <1>1 DEF Later
    <3>2. CASE k < p
      <4>1. k \in 1 .. (n + 1) /\ k # p
        BY <1>1, <1>3, <3>1, <3>2
      <4>2. r[k] = s[k]
        BY <1>8, <3>2, <4>1
      <4> QED BY <1>9, <3>1, <3>2, <4>1, <4>2 DEF Later
    <3>3. CASE ~ (k < p)
      <4>1. k + 1 \in 1 .. (n + 1) /\ k + 1 # p /\ ~ (k + 1 < p) /\ k + 1 - 1 = k
        BY <1>1, <1>3, <3>1, <3>3
      <4>2. r[k + 1] = s[k]
        <5> DEFINE i == k + 1
        <5>1. i \in 1 .. (n + 1) /\ i # p /\ ~ (i < p) /\ i - 1 = k
          BY <1>1, <3>1, <4>1
        <5> HIDE DEF i
        <5>2. r[i] = s[i - 1]
          BY <1>8, <5>1
        <5> QED BY <5>1, <5>2 DEF i
      <4> QED BY <1>9, <3>1, <3>3, <4>1, <4>2 DEF Later
    <3> QED BY <3>2, <3>3
  <2>3. m \in Injection(A, C)
    <3>1. m \in [A -> C]
      BY <2>2
    <3>2. ASSUME NEW x \in A, NEW y \in A, m[x] = m[y] PROVE x = y
      <4>1. x \in Int /\ y \in Int /\ p \in Int
        BY <1>3, <2>2
      <4>2. (IF x < p THEN x ELSE x + 1) = (IF y < p THEN y ELSE y + 1)
        BY <3>2
      <4> QED BY <4>1, <4>2
    <3> HIDE DEF m, A, C
    <3> QED BY <3>1, <3>2 DEF Injection, IsInjective
  <2> HIDE DEF A, B, m
  <2>4. IsFiniteSet(C) /\ Cardinality(C) <= Cardinality(B)
    <3>1. C \in SUBSET B
      OBVIOUS
    <3> QED BY <2>1, <3>1, FS_Subset
  <2>5. Cardinality(A) <= Cardinality(C) /\ Cardinality(C) \in Nat
    <3> HIDE DEF C
    <3> QED BY <2>3, <2>4, FS_Injection, FS_CardinalityType
  <2>6. ASSUME t > e PROVE Cardinality(A) + 1 <= Cardinality(B)
    <3>1. p \in B
      <4>1. p \in 1 .. (n + 1) /\ ~ (p < p)
        BY <1>3
      <4>2. r[p] = t
        BY <1>8, <4>1
      <4> QED BY <1>9, <2>6, <4>1, <4>2 DEF B, Later
    <3>2. B = C \cup {p} /\ p \notin C
      BY <3>1
    <3> HIDE DEF C
    <3>3. Cardinality(C \cup {p}) = Cardinality(C) + 1
      BY <2>4, <3>2, FS_AddElement
    <3> QED BY <2>1, <2>5, <3>2, <3>3
  <2>7. Cardinality(A) <= Cardinality(B)
    BY <2>1, <2>4, <2>5
  <2> QED BY <2>6, <2>7 DEF A, B
<1> QED BY <1>8, <1>10 DEF n, r

StillOpenAfter(b) == {i \in DOMAIN replayed : replayed[i].closedAt > b}
OpenAt(b) == {i \in DOMAIN replayed : replayed[i].openedAt <= b /\ b < replayed[i].closedAt}

\* A queue holds a closing time for every trade still open at a bar from this one on.
Covers(queue) ==
  \A b \in Nat : b >= cursor => Cardinality(StillOpenAfter(b)) <= Cardinality(Later(queue, b))

ReplayInv ==
  /\ recorded \in Tapes /\ cursor \in Nat \ {0}
  /\ openUntil \in Seq(Nat) /\ replayed \in Seq(Trades)
  /\ Len(openUntil) <= Replay.slots
  /\ \A i \in DOMAIN replayed : replayed[i].openedAt < cursor /\ Honest(replayed[i])
  /\ Covers(openUntil)
  /\ \A b \in Nat : Cardinality(OpenAt(b)) <= Replay.slots

LEMMA ReplayInvInit == ReplayInit => ReplayInv
<1> SUFFICES ASSUME ReplayInit PROVE ReplayInv
  OBVIOUS
<1>0. WarmUp \in Nat /\ StepBars \in Nat \ {0} /\ Replay.slots \in Nat
  BY ReplayAssumption
<1>1. recorded \in Tapes /\ cursor \in Nat \ {0} /\ openUntil = <<>> /\ replayed = <<>>
  BY <1>0 DEF ReplayInit
<1>2. openUntil \in Seq(Nat) /\ replayed \in Seq(Trades) /\ Len(openUntil) = 0 /\ DOMAIN replayed = {}
      /\ DOMAIN openUntil = {}
  BY <1>1
<1>3. \A b : StillOpenAfter(b) = {} /\ OpenAt(b) = {} /\ Later(openUntil, b) = {}
  BY <1>2 DEF StillOpenAfter, OpenAt, Later
<1>4. Cardinality({}) = 0
  BY FS_EmptySet
<1>5. Covers(openUntil)
  BY <1>3, <1>4 DEF Covers
<1>6. \A b \in Nat : Cardinality(OpenAt(b)) <= Replay.slots
  <2>1. 0 <= Replay.slots
    BY <1>0
  <2> QED BY <1>3, <1>4, <2>1
<1>7. Len(openUntil) <= Replay.slots
  BY <1>0, <1>2
<1> QED BY <1>1, <1>2, <1>5, <1>6, <1>7, Zenon DEF ReplayInv

\* The trades open after a bar, or at it, are finitely many.
LEMMA OpenFinite ==
  ASSUME ReplayInv, NEW b
  PROVE  /\ IsFiniteSet(StillOpenAfter(b)) /\ Cardinality(StillOpenAfter(b)) \in Nat
         /\ IsFiniteSet(OpenAt(b)) /\ Cardinality(OpenAt(b)) \in Nat
<1> DEFINE n == Len(replayed)
<1>1. n \in Nat /\ DOMAIN replayed = 1 .. n
  BY LenProperties DEF ReplayInv
<1> HIDE DEF n
<1>2. IsFiniteSet(1 .. n)
  <2>1. n \in Int /\ 1 \in Int
    BY <1>1
  <2> QED BY <2>1, FS_Interval
<1>3. StillOpenAfter(b) \in SUBSET (1 .. n) /\ OpenAt(b) \in SUBSET (1 .. n)
  BY <1>1 DEF StillOpenAfter, OpenAt
<1> QED BY <1>2, <1>3, FS_Subset, FS_CardinalityType

\* Positions closed by now leave their slots; those still open keep theirs.
LEMMA StillOpenFacts ==
  ASSUME ReplayInv
  PROVE  /\ StillOpen \in Seq(Nat) /\ Len(StillOpen) <= Len(openUntil) /\ Covers(StillOpen)
<1> DEFINE later == Later(openUntil, cursor)
           f == SmallestOf(later)
           n == Len(openUntil)
<1>0. cursor \in Nat /\ openUntil \in Seq(Nat) /\ n \in Nat /\ DOMAIN openUntil = 1 .. n /\ Covers(openUntil)
  BY LenProperties DEF ReplayInv
<1>1. StillOpen = IF later = {} THEN <<>> ELSE SubSeq(openUntil, f, n)
  BY DEF StillOpen, Later
<1>2. CASE later = {}
  <2>1. StillOpen = <<>> /\ StillOpen \in Seq(Nat) /\ Len(StillOpen) = 0 /\ DOMAIN StillOpen = {}
    BY <1>1, <1>2
  <2>2. ASSUME NEW b \in Nat, b >= cursor
        PROVE  Cardinality(StillOpenAfter(b)) <= Cardinality(Later(StillOpen, b))
    <3>1. Later(openUntil, b) = {} /\ Later(StillOpen, b) = {}
      <4>1. ASSUME NEW k \in Later(openUntil, b) PROVE FALSE
        <5>1. k \in 1 .. n /\ openUntil[k] > b /\ openUntil[k] \in Nat
          BY <1>0, ElementOfSeq DEF Later
        <5>2. openUntil[k] > cursor
          BY <1>0, <2>2, <5>1
        <5> QED BY <1>0, <1>2, <5>1, <5>2 DEF Later
      <4> QED BY <2>1, <4>1 DEF Later
    <3> QED BY <1>0, <2>2, <3>1 DEF Covers
  <2> QED BY <1>0, <2>1, <2>2 DEF Covers
<1>3. CASE later # {}
  <2>1. f \in 1 .. n /\ \A k \in later : f <= k
    <3>1. later \subseteq 1 .. n /\ later \subseteq Nat
      BY <1>0 DEF Later
    <3> HIDE DEF later
    <3> QED BY <1>3, <3>1, SmallestFacts
  <2> HIDE DEF f
  <2>2. ASSUME NEW b \in Nat, b >= cursor
        PROVE  /\ SubSeq(openUntil, f, n) \in Seq(Nat) /\ Len(SubSeq(openUntil, f, n)) <= n
               /\ Cardinality(StillOpenAfter(b)) <= Cardinality(Later(SubSeq(openUntil, f, n), b))
    <3>1. /\ SubSeq(openUntil, f, n) \in Seq(Nat) /\ Len(SubSeq(openUntil, f, n)) <= n
          /\ Cardinality(Later(openUntil, b)) <= Cardinality(Later(SubSeq(openUntil, f, n), b))
      BY <1>0, <2>1, <2>2, RestLater
    <3>2. Cardinality(StillOpenAfter(b)) <= Cardinality(Later(openUntil, b))
      BY <1>0, <2>2 DEF Covers
    <3>3. Cardinality(Later(openUntil, b)) \in Nat /\ Cardinality(Later(SubSeq(openUntil, f, n), b)) \in Nat
      BY <1>0, <3>1, LaterFinite
    <3>4. Cardinality(StillOpenAfter(b)) \in Nat
      BY OpenFinite
    <3> QED BY <3>1, <3>2, <3>3, <3>4
  <2>3. StillOpen = SubSeq(openUntil, f, n)
    BY <1>1, <1>3
  <2>4. StillOpen \in Seq(Nat) /\ Len(StillOpen) <= n
    <3>1. cursor \in Nat /\ cursor >= cursor
      BY <1>0
    <3> QED BY <2>2, <2>3, <3>1
  <2> QED BY <2>2, <2>3, <2>4 DEF Covers
<1> QED BY <1>2, <1>3

\* Nothing is opened and the queue is one that covers.
LEMMA SameTrades ==
  ASSUME ReplayInv, replayed' = replayed, recorded' = recorded, cursor' \in Nat \ {0}, cursor' > cursor,
         openUntil' \in Seq(Nat), Len(openUntil') <= Replay.slots, Covers(openUntil')
  PROVE  ReplayInv'
<1>1. /\ recorded \in Tapes /\ cursor \in Nat \ {0} /\ replayed \in Seq(Trades)
      /\ \A i \in DOMAIN replayed : replayed[i].openedAt < cursor /\ Honest(replayed[i])
      /\ \A b \in Nat : Cardinality(OpenAt(b)) <= Replay.slots
  BY DEF ReplayInv
<1>2. \A i \in DOMAIN replayed' : (replayed[i].openedAt < cursor /\ Honest(replayed[i]))'
  <2> SUFFICES ASSUME NEW i \in DOMAIN replayed PROVE (replayed[i].openedAt < cursor /\ Honest(replayed[i]))'
    OBVIOUS
  <2>1. replayed[i].openedAt \in Nat
    <3>1. replayed[i] \in Trades
      BY <1>1, ElementOfSeq, LenProperties
    <3> QED BY <3>1 DEF Trades
  <2>2. replayed[i].openedAt < cursor /\ Honest(replayed[i])
    BY <1>1
  <2> QED BY <1>1, <2>1, <2>2 DEF Honest
<1>3. \A b : (StillOpenAfter(b))' = StillOpenAfter(b) /\ (OpenAt(b))' = OpenAt(b)
  BY DEF StillOpenAfter, OpenAt
<1>4. Covers(openUntil)'
  <2> SUFFICES ASSUME NEW b \in Nat, b >= cursor'
               PROVE  Cardinality((StillOpenAfter(b))') <= Cardinality(Later(openUntil', b))
    BY DEF Covers
  <2>1. b >= cursor
    BY <1>1
  <2> QED BY <1>3, <2>1 DEF Covers
<1> QED BY <1>1, <1>2, <1>3, <1>4 DEF ReplayInv

\* One decision: the trade it opens takes a slot the queue knows to be free.
LEMMA DecidesKeeps ==
  ASSUME ReplayInv, Decides
  PROVE  ReplayInv'
<1> DEFINE q == StillOpen
           n == Len(replayed)
<1>0. /\ recorded \in Tapes /\ cursor \in Nat \ {0} /\ replayed \in Seq(Trades) /\ n \in Nat
      /\ DOMAIN replayed = 1 .. n /\ Replay.slots \in Nat /\ StepBars \in Nat \ {0}
      /\ \A i \in 1 .. n : replayed[i].openedAt < cursor /\ Honest(replayed[i])
      /\ \A b \in Nat : Cardinality(OpenAt(b)) <= Replay.slots
  <2>1. Replay.slots \in Nat /\ StepBars \in Nat \ {0}
    BY ReplayAssumption
  <2> QED BY <2>1, LenProperties DEF ReplayInv
<1>1. q \in Seq(Nat) /\ Covers(q)
  BY StillOpenFacts
<1>2. /\ cursor < Len(recorded) /\ Len(q) < Replay.slots
      /\ cursor' = cursor + StepBars /\ recorded' = recorded
  BY DEF Decides, Advance
<1>3. PICK c \in Candidates :
         IF Sized(recorded[cursor].close, c.stop) = 0
         THEN unsizable' = unsizable + 1 /\ openUntil' = q /\ UNCHANGED replayed
         ELSE /\ replayed' = Append(replayed, Simulated(Asked(c)))
              /\ openUntil' = Queued(q, Simulated(Asked(c)).closedAt)
              /\ UNCHANGED unsizable
  BY DEF Decides
<1> HIDE DEF q
<1>4. cursor' \in Nat \ {0} /\ cursor' > cursor /\ cursor \in 1 .. (Len(recorded) - 1)
  <2>1. Len(recorded) \in Nat
    <3>1. recorded \in Seq(Tape)
      BY <1>0, ReplayAssumption DEF Tape
    <3> QED BY <3>1, LenProperties
  <2> QED BY <1>0, <1>2, <2>1
<1>5. CASE Sized(recorded[cursor].close, c.stop) = 0
  <2>1. openUntil' = q /\ replayed' = replayed
    BY <1>3, <1>5
  <2> QED BY <1>0, <1>1, <1>2, <1>4, <2>1, SameTrades
<1>6. CASE Sized(recorded[cursor].close, c.stop) # 0
  <2> DEFINE t == Simulated(Asked(c))
             r == Queued(q, t.closedAt)
  <2>1. replayed' = Append(replayed, t) /\ openUntil' = r
    BY <1>3, <1>6
  <2>2. t \in Trades /\ t.openedAt = cursor /\ t.closedAt > cursor /\ Honest(t) /\ t.closedAt \in Nat
    <3>1. t \in Trades /\ t.openedAt = cursor /\ t.closedAt > cursor /\ Honest(t)
      BY <1>0, <1>4, <1>6, SimulatedFacts
    <3>2. t.closedAt \in Nat
      <4> HIDE DEF t
      <4> QED BY <3>1 DEF Trades
    <3> QED BY <3>1, <3>2
  <2> HIDE DEF t
  <2>3. /\ r \in Seq(Nat) /\ Len(r) = Len(q) + 1
        /\ \A e \in Nat : /\ Cardinality(Later(q, e)) <= Cardinality(Later(r, e))
                          /\ t.closedAt > e => Cardinality(Later(q, e)) + 1 <= Cardinality(Later(r, e))
    BY <1>1, <2>2, QueuedLater
  <2> HIDE DEF r
  <2>4. /\ replayed' \in Seq(Trades) /\ DOMAIN replayed' = 1 .. (n + 1)
        /\ \A i \in 1 .. (n + 1) : replayed'[i] = IF i = n + 1 THEN t ELSE replayed[i]
    BY <1>0, <2>1, <2>2, AppendProperties, LenProperties
  <2>5. ASSUME NEW i \in DOMAIN replayed' PROVE (replayed[i].openedAt < cursor /\ Honest(replayed[i]))'
    <3>1. CASE i = n + 1
      <4>1. replayed'[i] = t
        BY <2>4, <3>1
      <4> QED BY <1>0, <1>2, <1>4, <2>2, <4>1 DEF Honest
    <3>2. CASE i # n + 1
      <4>1. i \in 1 .. n /\ replayed'[i] = replayed[i]
        BY <1>0, <2>4, <3>2
      <4>2. replayed[i].openedAt < cursor /\ Honest(replayed[i]) /\ replayed[i].openedAt \in Nat
        <5>1. replayed[i] \in Trades
          BY <1>0, <4>1
        <5> QED BY <1>0, <4>1, <5>1 DEF Trades
      <4> QED BY <1>0, <1>2, <1>4, <4>1, <4>2 DEF Honest
    <3> QED BY <3>1, <3>2
  <2>6. ASSUME NEW b \in Nat
        PROVE  /\ (StillOpenAfter(b))' = IF t.closedAt > b THEN StillOpenAfter(b) \cup {n + 1} ELSE StillOpenAfter(b)
               /\ (OpenAt(b))' = IF cursor <= b /\ b < t.closedAt THEN OpenAt(b) \cup {n + 1} ELSE OpenAt(b)
    BY <1>0, <2>2, <2>4 DEF StillOpenAfter, OpenAt
  <2>7. ASSUME NEW b \in Nat, b >= cursor
        PROVE  Cardinality((StillOpenAfter(b))') <= Cardinality(Later(r, b))
    <3>1. Cardinality(StillOpenAfter(b)) <= Cardinality(Later(q, b))
      BY <1>1, <2>7 DEF Covers
    <3>2. /\ IsFiniteSet(StillOpenAfter(b)) /\ Cardinality(StillOpenAfter(b)) \in Nat
          /\ Cardinality(Later(q, b)) \in Nat /\ Cardinality(Later(r, b)) \in Nat
      BY <1>1, <2>3, OpenFinite, LaterFinite
    <3>3. CASE t.closedAt > b
      <4>1. n + 1 \notin StillOpenAfter(b)
        BY <1>0 DEF StillOpenAfter
      <4>2. Cardinality((StillOpenAfter(b))') = Cardinality(StillOpenAfter(b)) + 1
        BY <2>6, <3>2, <3>3, <4>1, FS_AddElement
      <4>3. Cardinality(Later(q, b)) + 1 <= Cardinality(Later(r, b))
        BY <2>3, <3>3
      <4> QED BY <3>1, <3>2, <4>2, <4>3
    <3>4. CASE ~ (t.closedAt > b)
      <4>1. (StillOpenAfter(b))' = StillOpenAfter(b)
        BY <2>6, <3>4
      <4>2. Cardinality(Later(q, b)) <= Cardinality(Later(r, b))
        BY <2>3
      <4> QED BY <3>1, <3>2, <4>1, <4>2
    <3> QED BY <3>3, <3>4
  <2>8. ASSUME NEW b \in Nat PROVE Cardinality((OpenAt(b))') <= Replay.slots
    <3>1. IsFiniteSet(OpenAt(b)) /\ Cardinality(OpenAt(b)) \in Nat /\ Cardinality(OpenAt(b)) <= Replay.slots
      BY <1>0, OpenFinite
    <3>2. CASE cursor <= b /\ b < t.closedAt
      <4>1. n + 1 \notin OpenAt(b)
        BY <1>0 DEF OpenAt
      <4>2. Cardinality((OpenAt(b))') = Cardinality(OpenAt(b)) + 1
        BY <2>6, <3>1, <3>2, <4>1, FS_AddElement
      <4>3. Cardinality(OpenAt(b)) <= Cardinality(StillOpenAfter(b)) /\ Cardinality(StillOpenAfter(b)) \in Nat
        <5>1. OpenAt(b) \in SUBSET StillOpenAfter(b)
          <6>1. ASSUME NEW i \in OpenAt(b) PROVE i \in StillOpenAfter(b)
            <7>1. i \in 1 .. n /\ b < replayed[i].closedAt
              BY <1>0 DEF OpenAt
            <7>2. replayed[i].closedAt \in Nat
              <8>1. replayed[i] \in Trades
                BY <1>0, <7>1
              <8> QED BY <8>1 DEF Trades
            <7> QED BY <1>0, <7>1, <7>2 DEF StillOpenAfter
          <6> QED BY <6>1
        <5> QED BY <5>1, OpenFinite, FS_Subset
      <4>4. Cardinality(StillOpenAfter(b)) <= Cardinality(Later(q, b))
        BY <1>0, <1>1, <3>2 DEF Covers
      <4>5. Cardinality(Later(q, b)) <= Len(q) /\ Len(q) \in Nat /\ Cardinality(Later(q, b)) \in Nat
        BY <1>1, LaterFinite, LenProperties
      <4> QED BY <1>0, <1>2, <3>1, <4>2, <4>3, <4>4, <4>5
    <3>3. CASE ~ (cursor <= b /\ b < t.closedAt)
      BY <2>6, <3>1, <3>3
    <3> QED BY <3>2, <3>3
  <2>9. Covers(openUntil)'
    <3>1. ASSUME NEW b \in Nat, b >= cursor'
          PROVE  Cardinality((StillOpenAfter(b))') <= Cardinality(Later(r, b))
      <4>1. b >= cursor
        BY <1>0, <1>4, <3>1
      <4> QED BY <2>7, <4>1
    <3> QED BY <2>1, <3>1 DEF Covers
  <2>10. Len(r) <= Replay.slots
    <3>1. Len(q) \in Nat
      BY <1>1, LenProperties
    <3> QED BY <1>0, <1>2, <2>3, <3>1
  <2> QED BY <1>0, <1>2, <1>4, <2>1, <2>3, <2>4, <2>5, <2>8, <2>9, <2>10 DEF ReplayInv
<1> QED BY <1>5, <1>6

LEMMA ReplayInvStep == ReplayInv /\ [ReplayNext]_replayVars => ReplayInv'
<1> SUFFICES ASSUME ReplayInv, [ReplayNext]_replayVars PROVE ReplayInv'
  OBVIOUS
<1>1. CASE Waits
  <2>1. /\ StillOpen \in Seq(Nat) /\ Covers(StillOpen) /\ Len(StillOpen) <= Len(openUntil)
        /\ openUntil' = StillOpen /\ replayed' = replayed /\ recorded' = recorded /\ cursor' = cursor + StepBars
    BY <1>1, StillOpenFacts DEF Waits, Advance
  <2>2. Replay.slots \in Nat /\ StepBars \in Nat \ {0}
    BY ReplayAssumption
  <2>3. /\ openUntil \in Seq(Nat) /\ Len(openUntil) <= Replay.slots /\ cursor \in Nat \ {0}
    BY DEF ReplayInv
  <2>4. Len(StillOpen) <= Replay.slots /\ cursor' \in Nat \ {0} /\ cursor' > cursor
    <3>1. Len(openUntil) \in Nat /\ Len(StillOpen) \in Nat
      BY <2>1, <2>3, LenProperties
    <3> QED BY <2>1, <2>2, <2>3, <3>1
  <2> QED BY <2>1, <2>4, SameTrades
<1>2. CASE Decides
  BY <1>2, DecidesKeeps
<1>3. CASE Evaluates \/ UNCHANGED replayVars
  <2>1. UNCHANGED <<recorded, cursor, openUntil, replayed>>
    BY <1>3 DEF Evaluates, replayVars
  <2> QED BY <2>1 DEF ReplayInv, Covers, StillOpenAfter, OpenAt, Honest
<1> QED BY <1>1, <1>2, <1>3 DEF ReplayNext

LEMMA ReplayInvConserves == ReplayInv => ReplayIsConservative
<1> SUFFICES ASSUME ReplayInv PROVE ReplayIsConservative
  OBVIOUS
<1>1. DOMAIN recorded \subseteq Nat
  <2>1. recorded \in Seq(Tape)
    BY ReplayAssumption DEF ReplayInv, Tape
  <2> QED BY <2>1, LenProperties
<1>2. \A b \in DOMAIN recorded : Cardinality(OpenAt(b)) <= Replay.slots
  BY <1>1 DEF ReplayInv
<1>3. \A i \in DOMAIN replayed : Honest(replayed[i])
  BY DEF ReplayInv
<1> QED BY <1>2, <1>3, Zenon DEF ReplayIsConservative, OpenAt, Honest

\* Never more simulated trades are open at a bar than there are slots; a trade
\* counted as a win had not touched its stop before, and one that had is a loss,
\* whatever funding pays it (walk-forward.ts:142, 201, futures-replay.ts:180).
THEOREM ReplayStaysConservative == ReplaySpec => []ReplayIsConservative
<1>1. ReplayInit => ReplayInv
  BY ReplayInvInit
<1>2. ReplayInv /\ [ReplayNext]_replayVars => ReplayInv'
  BY ReplayInvStep
<1>3. ReplayInv => ReplayIsConservative
  BY ReplayInvConserves
<1> QED BY <1>1, <1>2, <1>3, PTL DEF ReplaySpec

-----------------------------------------------------------------------------

(***************************************************************************)
(* The services side by side: each is what it is by itself, and the        *)
(* variables of all of them keep their types.                              *)
(***************************************************************************)

\* A step of the composition is a step of each service, or leaves it as it was.
LEMMA ServicesStep ==
  ASSUME [ServicesNext]_ServicesVars
  PROVE  /\ [RegistryNext]_registryVars /\ [GovernorNext]_governorVars /\ [PaperNext]_paperVars
         /\ [WatchNext]_watchVars /\ [ChartNext]_chartVars /\ [MacroNext]_macroVars
         /\ [PlanNext]_planVars /\ [ReplayNext]_replayVars /\ [FunnelNext]_funnelVars
         /\ UNCHANGED subject
<1>1. CASE UNCHANGED ServicesVars
  BY <1>1 DEF ServicesVars
<1>2. CASE Moves("registry") /\ RegistryNext
  BY <1>2 DEF Moves
<1>3. CASE Moves("governor") /\ GovernorNext
  BY <1>3 DEF Moves
<1>4. CASE Moves("paper") /\ PaperNext
  BY <1>4 DEF Moves
<1>5. CASE Moves("watch") /\ WatchNext
  BY <1>5 DEF Moves
<1>6. CASE Moves("chart") /\ ChartNext
  BY <1>6 DEF Moves
<1>7. CASE Moves("macro") /\ MacroNext
  BY <1>7 DEF Moves
<1>8. CASE Moves("plan") /\ PlanNext
  BY <1>8 DEF Moves
<1>9. CASE Moves("replay") /\ ReplayNext
  BY <1>9 DEF Moves
<1>10. CASE Moves("funnel") /\ FunnelNext
  BY <1>10 DEF Moves
<1> QED BY <1>1, <1>2, <1>3, <1>4, <1>5, <1>6, <1>7, <1>8, <1>9, <1>10 DEF ServicesNext

\* What is proved of a service by itself holds of the composition that is checked: a
\* behaviour of the composition is a behaviour of each of its services.
THEOREM ServicesAreParts ==
  Spec => /\ RegistrySpec /\ GovernorSpec /\ PaperSpec /\ WatchSpec /\ ChartWatchSpec /\ MacroSpec
          /\ PlanSpec /\ ReplaySpec /\ FunnelSpec /\ [](subject \in Subjects)
<1>1. ServicesInit => /\ RegistryInit /\ GovernorInit /\ PaperInit /\ WatchInit /\ ChartInit /\ MacroInit
                      /\ PlanInit /\ ReplayInit /\ FunnelInit /\ subject \in Subjects
  BY DEF ServicesInit
<1>2. subject \in Subjects /\ UNCHANGED subject => (subject \in Subjects)'
  OBVIOUS
<1> QED
  BY <1>1, <1>2, ServicesStep, PTL
  DEF Spec, RegistrySpec, GovernorSpec, PaperSpec, WatchSpec, ChartWatchSpec, MacroSpec, PlanSpec,
      ReplaySpec, FunnelSpec

\* Positions by their types; whoever is short may have been entered off a slipped mark.
Position == [size : Nat, entry : Nat, margin : Nat, mark : Nat, stop : Nat, take : Nat]
LeastMark(b) == IF b[2] = "long" THEN 2 * Slip ELSE Slip
Kept(b, q) == q \in Position /\ (q.mark # 0 => q.mark > LeastMark(b))
HighMarks == \A p \in Pairs : marks[p] # 0 => marks[p] > 2 * Slip
PaperTyped ==
  /\ PaperInv /\ PaperTypeOK /\ HighMarks
  /\ \A b \in Places : Kept(b, positions[b])

LEMMA PaperNumbers ==
  /\ Slip \in Nat /\ FeeRate \in Nat /\ InitialBalance \in Nat /\ FallbackMark \in Nat
  /\ FallbackMark > 2 * Slip /\ \A m \in Marks : m \in Nat /\ m > 2 * Slip
  /\ MaxOrders \in Nat /\ MaxTouches \in Nat
BY PaperAssumption

\* The mark an order is filled at lies above the slippage, and further where no short is held.
LEMMA MarksFound ==
  ASSUME PaperTyped, NEW p \in Pairs, NEW m \in MarkFor(p)
  PROVE  /\ m \in Nat /\ m > Slip
         /\ positions[<<p, "short">>] = NoPosition => m > 2 * Slip
<1>1. <<p, "long">> \in Places /\ <<p, "short">> \in Places
  BY DEF Places, BookSides
<1>2. Kept(<<p, "long">>, positions[<<p, "long">>]) /\ Kept(<<p, "short">>, positions[<<p, "short">>])
  BY <1>1 DEF PaperTyped
<1>3. marks[p] \in Nat /\ (marks[p] # 0 => marks[p] > 2 * Slip)
  BY DEF PaperTyped, PaperTypeOK, HighMarks
<1>4. \/ m = marks[p] /\ m # 0
      \/ \E s \in BookSides : m = positions[<<p, s>>].mark /\ m # 0
      \/ m = FallbackMark
  BY DEF MarkFor
<1>5. ASSUME NEW q, Kept(<<p, "long">>, q), m = q.mark, m # 0 PROVE m \in Nat /\ m > 2 * Slip
  BY <1>5 DEF Kept, Position, LeastMark
<1>6. ASSUME NEW q, Kept(<<p, "short">>, q), m = q.mark, m # 0 PROVE m \in Nat /\ m > Slip /\ q # NoPosition
  BY <1>6 DEF Kept, Position, LeastMark, NoPosition
<1>7. \/ m = marks[p] /\ m # 0
      \/ m = positions[<<p, "long">>].mark /\ m # 0
      \/ m = positions[<<p, "short">>].mark /\ m # 0
      \/ m = FallbackMark
  BY <1>4 DEF BookSides
<1>8. Slip \in Nat /\ \A k \in Nat : k > 2 * Slip => k > Slip
  BY PaperNumbers
<1> QED BY <1>2, <1>3, <1>5, <1>6, <1>7, <1>8, PaperNumbers

\* The price of a fill is positive where a position is opened or grows.
LEMMA FillPrices ==
  ASSUME PaperTyped, NEW o \in PaperOrders, NEW m \in MarkFor(o.pair)
  PROVE  /\ ApplySlippage(m, o.side) \in Nat
         /\ positions[<<o.pair, SideOf(o.side)>>] = NoPosition
              => ApplySlippage(m, o.side) > LeastMark(<<o.pair, SideOf(o.side)>>)
<1>1. o.pair \in Pairs /\ o.side \in {"buy", "sell"}
  BY PaperAssumption
<1>2. /\ m \in Nat /\ m > Slip
      /\ positions[<<o.pair, "short">>] = NoPosition => m > 2 * Slip
  BY <1>1, MarksFound
<1>3. CASE o.side = "buy"
  <2>1. ApplySlippage(m, o.side) = m + Slip /\ LeastMark(<<o.pair, SideOf(o.side)>>) = 2 * Slip
    BY <1>3 DEF ApplySlippage, SideOf, LeastMark
  <2> QED BY <1>2, <2>1, PaperNumbers
<1>4. CASE o.side = "sell"
  <2>1. ApplySlippage(m, o.side) = m - Slip /\ LeastMark(<<o.pair, SideOf(o.side)>>) = Slip
        /\ SideOf(o.side) = "short"
    BY <1>4 DEF ApplySlippage, SideOf, LeastMark
  <2> QED BY <1>2, <2>1, PaperNumbers
<1> QED BY <1>1, <1>3, <1>4

Lessened(q, k) == [q EXCEPT !.size = k]

LEMMA KeptFields ==
  ASSUME NEW b, NEW q, Kept(b, q), NEW k \in Nat, NEW e \in Nat
  PROVE  /\ Kept(b, Lessened(q, k)) /\ Kept(b, Grown(q, k, e)) /\ Kept(b, Guarded(q, k, e))
         /\ k > 2 * Slip => Kept(b, Marked(q, k))
<1>0. q \in Position /\ Slip \in Nat
  BY PaperNumbers DEF Kept
<1>1. Lessened(q, k) \in Position /\ Lessened(q, k).mark = q.mark
  BY <1>0 DEF Lessened, Position
<1>2. Marked(q, k) \in Position /\ Marked(q, k).mark = k
  BY <1>0 DEF Marked, Position
<1>3. Grown(q, k, e) \in Position /\ Grown(q, k, e).mark = q.mark
  <2> DEFINE r == [q EXCEPT !.size = k]
  <2>1. r \in Position /\ r.mark = q.mark
    BY <1>0 DEF Position
  <2>2. Grown(q, k, e) = [r EXCEPT !.entry = e]
    BY DEF Grown
  <2> HIDE DEF r
  <2>3. [r EXCEPT !.entry = e] \in Position /\ [r EXCEPT !.entry = e].mark = r.mark
    BY <2>1 DEF Position
  <2> QED BY <2>1, <2>2, <2>3, Zenon
<1>4. Guarded(q, k, e) \in Position /\ Guarded(q, k, e).mark = q.mark
  <2> DEFINE r == [q EXCEPT !.stop = k]
  <2>1. r \in Position /\ r.mark = q.mark
    BY <1>0 DEF Position
  <2>2. Guarded(q, k, e) = [r EXCEPT !.take = e]
    BY DEF Guarded
  <2> HIDE DEF r
  <2>3. [r EXCEPT !.take = e] \in Position /\ [r EXCEPT !.take = e].mark = r.mark
    BY <2>1 DEF Position
  <2> QED BY <2>1, <2>2, <2>3, Zenon
<1> QED BY <1>0, <1>1, <1>2, <1>3, <1>4 DEF Kept, LeastMark

\* What an entry makes of a position.
LEMMA EnteredIsKept ==
  ASSUME NEW o \in PaperOrders, NEW b, NEW q, Kept(b, q), NEW price \in Nat,
         q = NoPosition => price > LeastMark(b)
  PROVE  Kept(b, IF q = NoPosition THEN Opened(o, price) ELSE Merged(q, o.quantity, price))
<1>0. /\ o.quantity \in Nat /\ o.quantity > 0 /\ o.leverage \in Nat /\ o.stop \in Nat /\ o.take \in Nat
  BY PaperAssumption
<1>1. CASE q = NoPosition
  <2>1. price * o.quantity \in Nat /\ 1000 * (price * o.quantity) \in Nat
    BY <1>0
  <2>1a. 1000 * price * o.quantity \in Nat
    BY <1>0
  <2>2. \A a \in Nat, c \in Nat : a \div (IF c > 1 THEN c ELSE 1) \in Nat
    OBVIOUS
  <2>3. Margin(o, price) \in Nat
    BY <1>0, <2>1a, <2>2 DEF Margin
  <2>4. Opened(o, price) \in Position /\ Opened(o, price).mark = price
    BY <1>0, <2>3 DEF Opened, Position
  <2> QED BY <1>1, <2>4 DEF Kept
<1>2. CASE q # NoPosition
  <2> DEFINE size == q.size + o.quantity
             worth == q.entry * size + price * o.quantity
  <2>1. q.size \in Nat /\ q.entry \in Nat
    BY DEF Kept, Position
  <2>2. size \in Nat /\ size > 0
    BY <1>0, <2>1
  <2>3. q.entry * size \in Nat /\ price * o.quantity \in Nat
    <3> HIDE DEF size
    <3>1. \A x, y \in Nat : x * y \in Nat
      OBVIOUS
    <3> QED BY <1>0, <2>1, <2>2, <3>1
  <2>4. worth \in Nat /\ size + o.quantity \in Nat /\ size + o.quantity > 0
    <3> HIDE DEF size
    <3> QED BY <1>0, <2>2, <2>3
  <2>5. worth \div (size + o.quantity) \in Nat
    <3> HIDE DEF worth, size
    <3> QED BY <2>4
  <2>6. Merged(q, o.quantity, price) = Grown(q, size, worth \div (size + o.quantity))
    BY DEF Merged, Grown
  <2> HIDE DEF worth, size
  <2>7. Kept(b, Merged(q, o.quantity, price))
    BY <2>2, <2>5, <2>6, KeptFields
  <2> QED BY <1>2, <2>7
<1> QED BY <1>1, <1>2

ProfitsIn(B, price) == MapThenSumSet(LAMBDA b : Profit(b[2], positions[b].size, positions[b], price[b]), B)

\* The profits of closes are whole numbers, and so is their sum.
LEMMA ProfitsAreWhole ==
  ASSUME \A b \in Places : positions[b] \in Position, NEW B \in SUBSET Places,
         NEW price, \A b \in B : price[b] \in Nat
  PROVE  ProfitsIn(B, price) \in Int
<1> DEFINE v(b) == Profit(b[2], positions[b].size, positions[b], price[b])
           f == [b \in B |-> v(b)]
           C(u) == CHOOSE x \in u : TRUE
           Eq(h) == h = [u \in SUBSET B |-> IF u = {} THEN 0 ELSE v(C(u)) + h[u \ {C(u)}]]
           it == CHOOSE h : Eq(h)
<1>1. \A b \in B : v(b) \in Int
  <2> SUFFICES ASSUME NEW b \in B PROVE v(b) \in Int
    OBVIOUS
  <2>1. positions[b].size \in Nat /\ positions[b].entry \in Nat /\ price[b] \in Nat
    BY DEF Position
  <2>2. (IF b[2] = "long" THEN price[b] - positions[b].entry ELSE positions[b].entry - price[b]) \in Int
    BY <2>1
  <2>3. \A x, y \in Int : 1000 * x * y \in Int
    OBVIOUS
  <2> QED BY <2>1, <2>2, <2>3 DEF Profit
<1>2. ProfitsIn(B, price) = it[B]
  BY DEF ProfitsIn, MapThenSumSet, MapThenFoldSet
<1> HIDE DEF v
<1>3. IsFiniteSet(B) /\ \A x \in B : f[x] \in Int /\ f[x] = v(x)
  BY <1>1, PlacesAre, FS_Subset
<1>4. ASSUME NEW h PROVE IsSum(h, f, B) <=> Eq(h)
  <2> DEFINE X(u) == IF u = {} THEN 0 ELSE f[C(u)] + h[u \ {C(u)}]
             Y(u) == IF u = {} THEN 0 ELSE v(C(u)) + h[u \ {C(u)}]
  <2>0. ASSUME NEW u \in SUBSET B, u # {} PROVE f[C(u)] = v(C(u))
    <3>1. C(u) \in u
      BY <2>0
    <3> HIDE DEF C, f
    <3> QED BY <1>3, <3>1
  <2>1. \A u \in SUBSET B : X(u) = Y(u)
    <3> HIDE DEF C, f
    <3> QED BY <2>0
  <2>2. [u \in SUBSET B |-> X(u)] = [u \in SUBSET B |-> Y(u)]
    <3> HIDE DEF X, Y
    <3> QED BY <2>1
  <2>3. IsSum(h, f, B) <=> h = [u \in SUBSET B |-> X(u)]
    BY DEF IsSum
  <2>4. Eq(h) <=> h = [u \in SUBSET B |-> Y(u)]
    OBVIOUS
  <2> HIDE DEF X, Y, Eq
  <2> QED BY <2>2, <2>3, <2>4
<1>5. \A h : IsSum(h, f, B) => IsSum(it, f, B)
  <2> SUFFICES ASSUME NEW h, IsSum(h, f, B) PROVE IsSum(it, f, B)
    OBVIOUS
  <2>1. Eq(h)
    BY <1>4
  <2>2. Eq(it)
    <3> HIDE DEF Eq
    <3> QED BY <2>1
  <2> HIDE DEF Eq, it, f
  <2> QED BY <1>4, <2>2
<1> HIDE DEF it, f
<1>6. it[B] \in Int
  BY <1>3, <1>5, SumOfInts
<1> QED BY <1>2, <1>6

\* One position changes, or none, and the types of the rest are given.
LEMMA KeptOnce ==
  ASSUME \A b \in Places : Kept(b, positions[b]), ArePositions(positions), NEW b \in Places, NEW p, Kept(b, p),
         positions' = [positions EXCEPT ![b] = p]
  PROVE  \A x \in Places : Kept(x, positions'[x])
<1>1. positions' = [x \in Places |-> IF x = b THEN p ELSE positions[x]]
  BY DEF ArePositions
<1> QED BY <1>1

\* The conjuncts of the types that speak of positions.
LEMMA PositionsTyped ==
  ASSUME ArePositions(positions'), \A b \in Places : Kept(b, positions'[b])
  PROVE  positions' \in [Pairs \X BookSides -> Position]
<1>1. positions' = [b \in Places |-> positions'[b]]
  BY DEF ArePositions
<1>2. \A b \in Places : positions'[b] \in Position
  BY DEF Kept
<1> QED BY <1>1, <1>2 DEF Places

PaperRecords == [Intents -> [status : {"none", "SUBMITTED", "FILLED", "REJECTED", "CANCELLED"}, filled : Nat]]

\* What is left to show of a step: the types of what it changes.
LEMMA TypedAgain ==
  ASSUME PaperInv', paperOrders' \in PaperRecords, \A b \in Places : Kept(b, positions'[b]),
         marks' \in [Pairs -> Nat], HighMarks', cash' \in Int,
         placedPaper' \in 0 .. MaxOrders, touches' \in 0 .. MaxTouches
  PROVE  PaperTyped'
<1>1. ArePositions(positions') /\ entered' \in Nat /\ closedOut' \in Nat
  BY DEF PaperInv
<1>2. positions' \in [Pairs \X BookSides -> Position]
  BY <1>1, PositionsTyped
<1>3. PaperTypeOK'
  BY <1>1, <1>2 DEF PaperTypeOK, PaperRecords, Position
<1>4. Places' = Places
  BY DEF Places, BookSides
<1>5. \A b \in Places : Kept(b, positions[b])'
  BY DEF Kept, LeastMark, Position
<1> QED BY <1>3, <1>4, <1>5 DEF PaperTyped

\* What is known before a step.
LEMMA TypedBefore ==
  ASSUME PaperTyped
  PROVE  /\ PaperInv /\ ArePositions(positions) /\ DOMAIN positions = Places
         /\ paperOrders \in PaperRecords /\ marks \in [Pairs -> Nat] /\ HighMarks /\ cash \in Int
         /\ placedPaper \in 0 .. MaxOrders /\ touches \in 0 .. MaxTouches
         /\ \A b \in Places : Kept(b, positions[b]) /\ positions[b] \in Position
BY DEF PaperTyped, PaperInv, ArePositions, PaperTypeOK, PaperRecords, Kept

LEMMA FillsTyped ==
  ASSUME PaperTyped, NEW o \in PaperOrders, NEW m \in MarkFor(o.pair), Fills(o, ApplySlippage(m, o.side))
  PROVE  /\ paperOrders' \in PaperRecords /\ cash' \in Int
         /\ \A b \in Places : Kept(b, positions'[b])
<1> DEFINE price == ApplySlippage(m, o.side)
<1>0. /\ o.pair \in Pairs /\ o.side \in {"buy", "sell"} /\ o.quantity \in Nat /\ o.intent \in Intents
  BY PaperAssumption DEF Intents
<1>1. /\ ArePositions(positions) /\ paperOrders \in PaperRecords /\ cash \in Int
      /\ \A b \in Places : Kept(b, positions[b]) /\ positions[b] \in Position
  BY TypedBefore
<1>2. price \in Nat
      /\ (positions[<<o.pair, SideOf(o.side)>>] = NoPosition => price > LeastMark(<<o.pair, SideOf(o.side)>>))
  BY FillPrices
<1>3. Fills(o, price)
  OBVIOUS
<1> HIDE DEF price
<1>4. Fee(o, price) \in Nat
  <2>1. FeeRate * price \in Nat
    BY <1>2, PaperNumbers
  <2> QED BY <1>0, <2>1 DEF Fee
<1>5. paperOrders' \in PaperRecords
  <2>1. PICK st \in {"REJECTED", "FILLED"}, n \in Nat :
          paperOrders' = [paperOrders EXCEPT ![o.intent] = [status |-> st, filled |-> n]]
    BY <1>0, <1>3 DEF Fills, Rejects
  <2> QED BY <1>0, <1>1, <2>1 DEF PaperRecords
<1>6. CASE UNCHANGED <<positions, cash>>
  BY <1>1, <1>5, <1>6
<1>7. CASE /\ ~ o.reduceOnly
           /\ LET b == <<o.pair, SideOf(o.side)>> IN
              positions' = [positions EXCEPT ![b] =
                 IF positions[b] = NoPosition THEN Opened(o, price) ELSE Merged(positions[b], o.quantity, price)]
           /\ cash' = cash - Fee(o, price)
  <2> DEFINE b == <<o.pair, SideOf(o.side)>>
             p == IF positions[b] = NoPosition THEN Opened(o, price) ELSE Merged(positions[b], o.quantity, price)
  <2>1. b \in Places
    BY <1>0 DEF Places, BookSides, SideOf
  <2>2. Kept(b, p)
    BY <1>1, <1>2, <2>1, EnteredIsKept
  <2>3. positions' = [positions EXCEPT ![b] = p]
    BY <1>7
  <2> HIDE DEF b, p
  <2>4. \A x \in Places : Kept(x, positions'[x])
    BY <1>1, <2>1, <2>2, <2>3, KeptOnce
  <2> QED BY <1>1, <1>4, <1>5, <1>7, <2>4
<1>8. CASE /\ o.reduceOnly
           /\ LET b == <<o.pair, OtherSide(o.side)>> IN
              /\ positions' = [positions EXCEPT ![b] = Reduced(positions[b], o.quantity)]
              /\ cash' = cash - Fee(o, price)
                   + (IF positions[b] = NoPosition THEN 0 ELSE Profit(b[2], o.quantity, positions[b], price))
  <2> DEFINE b == <<o.pair, OtherSide(o.side)>>
             q == positions[b]
  <2>1. b \in Places
    BY <1>0 DEF Places, BookSides, OtherSide
  <2>2. positions' = [positions EXCEPT ![b] = Reduced(q, o.quantity)]
        /\ cash' = cash - Fee(o, price) + (IF q = NoPosition THEN 0 ELSE Profit(b[2], o.quantity, q, price))
    BY <1>8
  <2>3. Kept(b, q) /\ q \in Position
    BY <1>1, <2>1
  <2> HIDE DEF b, q
  <2>4. Kept(b, NoPosition)
    BY DEF Kept, NoPosition, Position
  <2>5. q.size \in Nat /\ q.entry \in Nat
    BY <2>3 DEF Position
  <2>6. Kept(b, Reduced(q, o.quantity))
    <3> DEFINE left == q.size - TakenOff(o.quantity, q)
    <3>1. left \in Int
      BY <1>0, <2>5 DEF TakenOff
    <3>2. Reduced(q, o.quantity) = IF left <= 0 THEN NoPosition ELSE Lessened(q, left)
      BY DEF Reduced, Lessened
    <3> HIDE DEF left
    <3>3. CASE left <= 0
      BY <2>4, <3>2, <3>3
    <3>4. CASE ~ (left <= 0)
      <4>1. left \in Nat
        BY <3>1, <3>4
      <4>2. Kept(b, Lessened(q, left))
        BY <2>3, <4>1, KeptFields
      <4> QED BY <3>2, <3>4, <4>2
    <3> QED BY <3>3, <3>4
  <2>7. \A x \in Places : Kept(x, positions'[x])
    BY <1>1, <2>1, <2>2, <2>6, KeptOnce
  <2>8. Profit(b[2], o.quantity, q, price) \in Int
    <3>1. (IF b[2] = "long" THEN price - q.entry ELSE q.entry - price) \in Int
      BY <1>2, <2>5
    <3>2. \A x, y \in Int : 1000 * x * y \in Int
      OBVIOUS
    <3> QED BY <1>0, <3>1, <3>2 DEF Profit
  <2>9. cash' \in Int
    BY <1>1, <1>4, <2>2, <2>8
  <2> QED BY <1>5, <2>7, <2>9
<1> QED BY <1>3, <1>6, <1>7, <1>8 DEF Fills, Rejects

\* Closes at whole prices.
LEMMA ClosesTyped ==
  ASSUME PaperTyped, NEW B \in SUBSET Places, NEW price, \A b \in B : price[b] \in Nat, ClosesAt(B, price)
  PROVE  cash' \in Int /\ \A b \in Places : Kept(b, positions'[b])
<1>1. /\ ArePositions(positions) /\ cash \in Int /\ DOMAIN positions = Places
      /\ \A b \in Places : Kept(b, positions[b]) /\ positions[b] \in Position
  BY TypedBefore
<1>2. ProfitsIn(B, price) \in Int
  BY <1>1, ProfitsAreWhole
<1>3. cash' \in Int
  BY <1>1, <1>2 DEF ClosesAt, ProfitsIn
<1>4. positions' = [b \in Places |-> IF b \in B THEN NoPosition ELSE positions[b]]
  BY <1>1 DEF ClosesAt
<1>5. \A b \in Places : Kept(b, NoPosition)
  BY DEF Kept, NoPosition, Position
<1> QED BY <1>1, <1>3, <1>4, <1>5

LEMMA PaperTypesStep ==
  ASSUME PaperTyped, [PaperNext]_paperVars
  PROVE  PaperTyped'
<1>0. /\ PaperInv /\ ArePositions(positions) /\ DOMAIN positions = Places
      /\ paperOrders \in PaperRecords /\ marks \in [Pairs -> Nat] /\ HighMarks /\ cash \in Int
      /\ placedPaper \in 0 .. MaxOrders /\ touches \in 0 .. MaxTouches
      /\ \A b \in Places : Kept(b, positions[b]) /\ positions[b] \in Position
  BY TypedBefore
<1>1. PaperInv'
  BY <1>0, PaperStep
<1>2. ASSUME NEW o \in PaperOrders, PlacePaper(o) PROVE PaperTyped'
  <2>1. PICK m \in MarkFor(o.pair) :
          IF o.limit # 0 /\ ~ Crosses(o.side, m, o.limit)
          THEN Rejects(o, "SUBMITTED") ELSE Fills(o, ApplySlippage(m, o.side))
    BY <1>2 DEF PlacePaper
  <2>2. marks' = marks /\ placedPaper' \in 0 .. MaxOrders /\ touches' = touches
    BY <1>0, <1>2, PaperNumbers DEF PlacePaper
  <2>3. HighMarks'
    BY <1>0, <2>2 DEF HighMarks
  <2>4. CASE Rejects(o, "SUBMITTED")
    <3>1. o.intent \in Intents
      BY DEF Intents
    <3>2. paperOrders' \in PaperRecords /\ UNCHANGED <<positions, cash>>
      BY <1>0, <2>4, <3>1 DEF Rejects, PaperRecords
    <3> QED BY <1>0, <1>1, <2>2, <2>3, <3>2, TypedAgain
  <2>5. CASE Fills(o, ApplySlippage(m, o.side))
    <3>1. paperOrders' \in PaperRecords /\ cash' \in Int /\ \A b \in Places : Kept(b, positions'[b])
      BY <2>5, FillsTyped
    <3> QED BY <1>0, <1>1, <2>2, <2>3, <3>1, TypedAgain
  <2> QED BY <2>1, <2>4, <2>5
<1>3. ASSUME NEW i \in Intents, CancelPaper(i) PROVE PaperTyped'
  <2>1. paperOrders' \in PaperRecords
    BY <1>0, <1>3 DEF CancelPaper, PaperRecords
  <2>2. UNCHANGED <<positions, marks, cash, placedPaper, touches>>
    BY <1>3 DEF CancelPaper
  <2>3. HighMarks'
    BY <1>0, <2>2 DEF HighMarks
  <2> QED BY <1>0, <1>1, <2>1, <2>2, <2>3, TypedAgain
<1>4. ASSUME NEW p \in Pairs, NEW m \in Marks, SetMarkPrice(p, m) PROVE PaperTyped'
  <2>0. m \in Nat /\ m > 2 * Slip
    BY PaperNumbers
  <2>1. /\ marks' = [marks EXCEPT ![p] = m] /\ touches' \in 0 .. MaxTouches
        /\ UNCHANGED <<paperOrders, cash, placedPaper>>
    BY <1>0, <1>4, PaperNumbers DEF SetMarkPrice, Touches
  <2>2. HighMarks' /\ marks' \in [Pairs -> Nat]
    BY <1>0, <2>0, <2>1 DEF HighMarks
  <2>3. positions' = [b \in Places |-> IF b \in HeldOn(p) THEN Marked(positions[b], m) ELSE positions[b]]
    BY <1>0, <1>4 DEF SetMarkPrice, Marked
  <2>4. \A b \in Places : Kept(b, Marked(positions[b], m))
    BY <1>0, <2>0, KeptFields
  <2>5. \A b \in Places : Kept(b, positions'[b])
    BY <1>0, <2>3, <2>4
  <2> QED BY <1>0, <1>1, <2>1, <2>2, <2>5, TypedAgain
<1>5. ASSUME NEW B \in SUBSET Places, NEW price, \A b \in B : price[b] \in Nat, ClosesAt(B, price),
             UNCHANGED <<paperOrders, marks, placedPaper, touches>>
      PROVE  PaperTyped'
  <2>1. cash' \in Int /\ \A b \in Places : Kept(b, positions'[b])
    BY <1>5, ClosesTyped
  <2>2. HighMarks'
    BY <1>0, <1>5 DEF HighMarks
  <2> QED BY <1>0, <1>1, <1>5, <2>1, <2>2, TypedAgain
<1>6. ASSUME NEW p \in Pairs, NEW m \in Marks, CheckProtectiveFills(p, m) PROVE PaperTyped'
  <2> DEFINE hit == {b \in HeldOn(p) : StopHit(b, m) \/ TakeHit(b, m)}
             price == [b \in hit |-> IF StopHit(b, m) THEN positions[b].stop ELSE positions[b].take]
  <2>1. hit \in SUBSET Places
    BY DEF HeldOn, Places
  <2>2. ClosesAt(hit, price) /\ UNCHANGED <<paperOrders, marks, placedPaper, touches>>
    BY <1>6 DEF CheckProtectiveFills
  <2>3. \A b \in hit : price[b] \in Nat
    <3>1. \A b \in Places : positions[b].stop \in Nat /\ positions[b].take \in Nat
      BY <1>0 DEF Position
    <3> HIDE DEF hit
    <3> QED BY <2>1, <3>1
  <2> HIDE DEF hit, price
  <2> QED BY <1>5, <2>1, <2>2, <2>3
<1>7. ASSUME NEW p \in Pairs, ClosePosition(p) PROVE PaperTyped'
  <2> DEFINE price == [b \in HeldOn(p) |-> positions[b].mark]
  <2>1. HeldOn(p) \in SUBSET Places
    BY DEF HeldOn, Places
  <2>2. ClosesAt(HeldOn(p), price) /\ UNCHANGED <<paperOrders, marks, placedPaper, touches>>
    BY <1>7 DEF ClosePosition
  <2>3. \A b \in HeldOn(p) : price[b] \in Nat
    BY <1>0, <2>1 DEF Position
  <2> HIDE DEF price
  <2> QED BY <1>5, <2>1, <2>2, <2>3
<1>8. ASSUME NEW b \in Places, NEW x \in Protections, AttachTPSL(b, x[1], x[2]) PROVE PaperTyped'
  <2> DEFINE q == positions[b]
             sl == IF x[1] = 0 THEN q.stop ELSE x[1]
             tp == IF x[2] = 0 THEN q.take ELSE x[2]
             p == Guarded(q, sl, tp)
  <2>1. /\ positions' = [positions EXCEPT ![b] = p] /\ UNCHANGED <<paperOrders, marks, cash, placedPaper>>
        /\ touches' \in 0 .. MaxTouches
    BY <1>0, <1>8, PaperNumbers DEF AttachTPSL, Guarded, Touches
  <2>2. x[1] \in Nat /\ x[2] \in Nat
    BY PaperAssumption
  <2>3. Kept(b, q) /\ q.stop \in Nat /\ q.take \in Nat
    BY <1>0 DEF Position
  <2>4. sl \in Nat /\ tp \in Nat
    BY <2>2, <2>3
  <2> HIDE DEF q, sl, tp
  <2>5. Kept(b, p)
    BY <2>3, <2>4, KeptFields
  <2> HIDE DEF p
  <2>6. \A y \in Places : Kept(y, positions'[y])
    BY <1>0, <2>1, <2>5, KeptOnce
  <2>7. HighMarks'
    BY <1>0, <2>1 DEF HighMarks
  <2> QED BY <1>0, <1>1, <2>1, <2>6, <2>7, TypedAgain
<1>9. CASE UNCHANGED paperVars
  <2>1. UNCHANGED <<paperOrders, positions, marks, cash, placedPaper, touches>>
    BY <1>9 DEF paperVars
  <2>2. HighMarks'
    BY <1>0, <2>1 DEF HighMarks
  <2> QED BY <1>0, <1>1, <2>1, <2>2, TypedAgain
<1> QED BY <1>0, <1>2, <1>3, <1>4, <1>6, <1>7, <1>8, <1>9 DEF PaperNext

LEMMA PaperTypesStart ==
  ASSUME PaperInit
  PROVE  PaperTyped
<1>1. PaperInv
  BY PaperStart
<1>2. \A b \in Places : positions[b] = NoPosition /\ Kept(b, NoPosition)
  BY DEF PaperInit, Places, Kept, NoPosition, Position
<1>3. HighMarks
  BY DEF PaperInit, HighMarks
<1>4. PaperTypeOK
  <2>1. NoPosition \in Position /\ NoOrder \in [status : {"none", "SUBMITTED", "FILLED", "REJECTED", "CANCELLED"}, filled : Nat]
    BY DEF NoPosition, Position, NoOrder
  <2> QED BY <2>1, PaperNumbers DEF PaperInit, PaperTypeOK, Position
<1> QED BY <1>1, <1>2, <1>3, <1>4 DEF PaperTyped

\* The broker's orders, positions, marks and cash keep their types: no slippage, merge or
\* reduce makes a price, a size or a margin negative.
LEMMA PaperTypes == PaperSpec => []PaperTypeOK
<1>1. PaperInit => PaperTyped
  BY PaperTypesStart
<1>2. PaperTyped /\ [PaperNext]_paperVars => PaperTyped'
  BY PaperTypesStep
<1>3. PaperTyped => PaperTypeOK
  BY DEF PaperTyped
<1> QED BY <1>1, <1>2, <1>3, PTL DEF PaperSpec

\* The desk's memory stays within its capacity.
LEMMA PutsLength ==
  ASSUME NEW S, NEW m \in Seq(S), NEW K \in SUBSET DOMAIN m, NEW w,
         NEW all, all = IF K = {} THEN Append(m, w)
                        ELSE [i \in DOMAIN m |-> IF i \in K THEN w ELSE m[i]]
  PROVE  Len(all) \in Nat /\ Len(all) <= Len(m) + 1
<1> DEFINE T == S \cup {w}
<1>1. DOMAIN m = 1 .. Len(m) /\ Len(m) \in Nat /\ \A i \in DOMAIN m : m[i] \in S
  BY LenProperties
<1> DEFINE over == [i \in DOMAIN m |-> IF i \in K THEN w ELSE m[i]]
<1>2. CASE K # {}
  <2>1. all = over
    BY <1>2
  <2>1a. DOMAIN over = 1 .. Len(m)
    BY <1>1
  <2>2. over \in [1 .. Len(m) -> T]
    BY <1>1
  <2>3. over \in Seq(T)
    BY <1>1, <2>2, SeqDef
  <2> HIDE DEF over, T
  <2>4. DOMAIN over = 1 .. Len(over) /\ Len(over) \in Nat
    BY <2>3, LenProperties
  <2>5. 1 .. Len(over) = 1 .. Len(m)
    BY <2>1a, <2>4
  <2> HIDE DEF over
  <2>6. Len(over) >= 1 => Len(over) \in 1 .. Len(m)
    BY <2>4, <2>5
  <2>7. Len(over) <= Len(m) + 1
    BY <1>1, <2>4, <2>6
  <2> QED BY <2>1, <2>4, <2>7
<1>3. CASE K = {}
  <2>1. m \in Seq(T) /\ w \in T
    BY <1>1, SeqDef
  <2> QED BY <1>1, <1>3, <2>1, AppendProperties
<1> QED BY <1>2, <1>3

LEMMA CutLength ==
  ASSUME NEW S, NEW m \in Seq(S), NEW cap \in Nat, NEW n \in Nat \ {0}, Len(m) <= cap + 1
  PROVE  Len(SubSeq(m, n + 1, Len(m))) <= cap
<1>1. Len(m) \in Nat /\ DOMAIN m = 1 .. Len(m)
  BY LenProperties
<1>2. \A i \in n + 1 .. Len(m) : i \in DOMAIN m
  BY <1>1
<1>3. Len(SubSeq(m, n + 1, Len(m))) = IF n + 1 <= Len(m) THEN Len(m) - (n + 1) + 1 ELSE 0
  BY <1>1, <1>2, SubSeqProperties
<1> QED BY <1>1, <1>3

LEMMA RememberingFits ==
  ASSUME NEW S, NEW memory \in Seq(S), Len(memory) <= MemoryCap, NEW a
  PROVE  Len(Remembering(memory, a)) <= MemoryCap
<1> DEFINE word == [topic |-> a.topic, to |-> a.to, at |-> a.at]
           K == On(memory, a.topic)
           all == IF K = {} THEN Append(memory, word)
                  ELSE [i \in DOMAIN memory |-> IF i \in K THEN word ELSE memory[i]]
           T == S \cup {word}
           r == SubSeq(all, MemoryDrop + 1, Len(all))
<1>1. K \in SUBSET DOMAIN memory
  BY DEF On
<1>2. Remembering(memory, a) = IF Len(all) > MemoryCap THEN r ELSE all
  BY DEF Remembering
<1> HIDE DEF word, K
<1>3. all \in Seq(T) /\ Len(all) \in Nat /\ Len(all) <= Len(memory) + 1
  BY <1>1, Puts, PutsLength
<1>4. MemoryCap \in Nat /\ MemoryDrop \in Nat \ {0} /\ Len(memory) \in Nat
  BY DeskAssumption, LenProperties
<1> HIDE DEF all, T
<1>5. Len(r) <= MemoryCap
  BY <1>3, <1>4, CutLength
<1> HIDE DEF r
<1> QED BY <1>2, <1>3, <1>4, <1>5

LEMMA SubmitFits ==
  ASSUME NEW desk, DeskOK(desk), Len(desk.memory) <= MemoryCap, NEW a
  PROVE  Len(Submit(desk, a).memory) <= MemoryCap
<1> DEFINE d == Submit(desk, a)
           M == desk.memory
           m == Remembering(M, a)
           w == Spoken(desk.told, a)
<1>1. CASE Rejected(a, desk.subs) \/ Repeated(desk.memory, a)
  BY <1>1 DEF Submit
<1>2. CASE ~ (Rejected(a, desk.subs) \/ Repeated(desk.memory, a))
  <2>1. d = [desk EXCEPT !.memory = m, !.told = w]
    BY <1>2 DEF Submit
  <2>2. PICK x, y, z : desk = [memory |-> x, subs |-> y, told |-> z]
    BY DEF DeskOK
  <2>3. PICK S : M \in Seq(S)
    BY DEF DeskOK
  <2>4. Len(M) <= MemoryCap
    OBVIOUS
  <2> HIDE DEF M
  <2>5. Len(m) <= MemoryCap
    BY <2>3, <2>4, RememberingFits
  <2> HIDE DEF m, w, d
  <2> DEFINE e == [desk EXCEPT !.memory = m]
  <2>6. e = [memory |-> m, subs |-> y, told |-> z]
    BY <2>2
  <2>7. d = [e EXCEPT !.told = w]
    BY <2>1
  <2> HIDE DEF e
  <2>8. d.memory = m
    BY <2>6, <2>7
  <2> QED BY <2>5, <2>8 DEF d
<1> QED BY <1>1, <1>2

WatchTyped ==
  /\ WatchInv /\ WatchTypeOK /\ DOMAIN world = Subjects5 /\ day \in Int /\ lastDailyDay \in Int

LEMMA WatchTypesStep ==
  ASSUME WatchTyped, [WatchNext]_watchVars
  PROVE  WatchTyped'
<1>0. /\ WatchInv /\ DOMAIN world = Subjects5 /\ DOMAIN seen = Subjects5 /\ DOMAIN Sights = Subjects5
      /\ day \in Int /\ lastDailyDay \in Int /\ lastDailyDay <= day /\ promoted \subseteq eligible
      /\ \A look \in Subjects5 : world[look] \in Sights[look] /\ seen[look] \in Sights[look] \cup {Unseen}
      /\ Len(watchDesk.memory) <= MemoryCap /\ DeskOK(watchDesk)
  BY WatchAssumption DEF WatchTyped, WatchInv, WatchTypeOK, Subjects5
<1>1. WatchInv'
  BY <1>0, WatchStep
<1>2. \A a : Len(Submit(watchDesk, a).memory) <= MemoryCap
  BY <1>0, SubmitFits
<1>3. ASSUME DOMAIN world' = Subjects5,
             \A look \in Subjects5 : world'[look] \in Sights[look] /\ seen'[look] \in Sights[look] \cup {Unseen},
             watchDesk' = watchDesk \/ \E a : watchDesk' = Submit(watchDesk, a),
             day' \in Int, lastDailyDay' \in Int, lastDailyDay' <= day', promoted' \subseteq eligible'
      PROVE  WatchTyped'
  <2>1. Len(watchDesk'.memory) <= MemoryCap
    BY <1>0, <1>2, <1>3
  <2>2. WatchTypeOK'
    BY <1>0, <1>3, <2>1 DEF WatchTypeOK
  <2> QED BY <1>1, <1>3, <2>2 DEF WatchTyped
<1>4. ASSUME NEW look \in DOMAIN Sights, Happens(look) PROVE WatchTyped'
  <2>1. PICK sight \in Sights[look] : world' = [world EXCEPT ![look] = sight]
    BY <1>4 DEF Happens
  <2>2. UNCHANGED <<seen, watchDesk, day, lastDailyDay, eligible, promoted>>
    BY <1>4 DEF Happens
  <2> QED BY <1>0, <1>3, <2>1, <2>2
<1>5. ASSUME NEW look \in DOMAIN Sights, Look(look) PROVE WatchTyped'
  <2>1. seen' = [seen EXCEPT ![look] = world[look]]
    BY <1>5 DEF Look
  <2>2. watchDesk' = watchDesk \/ \E a : watchDesk' = Submit(watchDesk, a)
    BY <1>5 DEF Look
  <2>3. UNCHANGED <<world, day, lastDailyDay, eligible, promoted>>
    BY <1>5 DEF Look
  <2> QED BY <1>0, <1>3, <2>1, <2>2, <2>3
<1>6. ASSUME NEW d \in Deals, TradeEvent(d) PROVE WatchTyped'
  <2>1. \E a : watchDesk' = Submit(watchDesk, a)
    BY <1>6 DEF TradeEvent
  <2>2. UNCHANGED <<world, seen, day, lastDailyDay, eligible, promoted>>
    BY <1>6 DEF TradeEvent
  <2> QED BY <1>0, <1>3, <2>1, <2>2
<1>7. CASE DailyReport
  <2>1. /\ \E a : watchDesk' = Submit(watchDesk, a)
        /\ lastDailyDay' = day /\ UNCHANGED <<world, seen, day, eligible, promoted>>
    BY <1>7 DEF DailyReport
  <2> QED BY <1>0, <1>3, <2>1
<1>8. ASSUME NEW c \in StrategyCells, PromotionTold(c) PROVE WatchTyped'
  <2>1. /\ \E a : watchDesk' = Submit(watchDesk, a)
        /\ promoted' = promoted \cup {c} /\ c \in eligible
        /\ UNCHANGED <<world, seen, day, lastDailyDay, eligible>>
    BY <1>8 DEF PromotionTold
  <2> QED BY <1>0, <1>3, <2>1
<1>9. ASSUME NEW c \in StrategyCells, CellPasses(c) PROVE WatchTyped'
  BY <1>0, <1>3, <1>9 DEF CellPasses
<1>10. CASE NextDay
  BY <1>0, <1>3, <1>10 DEF NextDay
<1>11. CASE UNCHANGED watchVars
  BY <1>0, <1>3, <1>11 DEF watchVars
<1> QED BY <1>4, <1>5, <1>6, <1>7, <1>8, <1>9, <1>10, <1>11 DEF WatchNext

LEMMA WatchTypesStart ==
  ASSUME WatchInit
  PROVE  WatchTyped
<1>1. WatchInv
  BY WatchStart
<1>2. PICK c \in Sights.circuit, k \in Sights.kill :
        world = [stream |-> "CONNECTING", stale |-> "FRESH", circuit |-> c, kill |-> k, store |-> "HEALTHY"]
  BY DEF WatchInit
<1>3. seen = [stream |-> Unseen, stale |-> "FRESH", circuit |-> Unseen, kill |-> Unseen, store |-> "HEALTHY"]
  BY DEF WatchInit
<1>4. PICK s \in WatchDesks : watchDesk = NewDesk(s)
  BY DEF WatchInit
<1>5. watchDesk.memory = <<>> /\ Len(watchDesk.memory) <= MemoryCap
  BY <1>4, DeskAssumption DEF NewDesk
<1>6. /\ Sights.stream = Sights["stream"] /\ Sights.stale = Sights["stale"] /\ Sights.store = Sights["store"]
      /\ Sights.circuit = Sights["circuit"] /\ Sights.kill = Sights["kill"]
  OBVIOUS
<1>7. \A look \in DOMAIN Sights : world[look] \in Sights[look] /\ seen[look] \in Sights[look] \cup {Unseen}
  BY <1>2, <1>3, <1>6, WatchAssumption
<1>8. DOMAIN world = Subjects5
  BY <1>2 DEF Subjects5
<1> QED BY <1>1, <1>5, <1>7, <1>8 DEF WatchTyped, WatchTypeOK, WatchInit

\* What the watch saw is what there was to see, and the desk's memory is bounded.
LEMMA WatchTypes == WatchSpec => []WatchTypeOK
<1>1. WatchInit => WatchTyped
  BY WatchTypesStart
<1>2. WatchTyped /\ [WatchNext]_watchVars => WatchTyped'
  BY WatchTypesStep
<1>3. WatchTyped => WatchTypeOK
  BY DEF WatchTyped
<1> QED BY <1>1, <1>2, <1>3, PTL DEF WatchSpec

\* A tracker's map: no longer than its capacity, its keys and values of their kinds.
Mapped(map, keys, values) ==
  /\ map \in Seq([key : keys, value : values]) /\ Len(map) <= TrackedCap

LEMMA ValuesOfMaps ==
  ASSUME NEW keys, NEW values, NEW map \in Seq([key : keys, value : values]), NEW key,
         NEW default \in values
  PROVE  ValueOf(map, key, default) \in values
<1> DEFINE i == CHOOSE i \in Entry(map, key) : TRUE
<1>1. CASE Entry(map, key) = {}
  BY <1>1 DEF ValueOf
<1>2. CASE Entry(map, key) # {}
  <2>1. i \in Entry(map, key)
    BY <1>2
  <2>2. ValueOf(map, key, default) = map[i].value
    BY <1>2 DEF ValueOf
  <2>3. i \in DOMAIN map
    BY <2>1 DEF Entry
  <2> HIDE DEF i
  <2>4. map[i] \in [key : keys, value : values]
    BY <2>3, ElementOfSeq, LenProperties
  <2> QED BY <2>2, <2>4
<1> QED BY <1>1, <1>2

LEMMA MapsStayMapped ==
  ASSUME NEW keys, NEW values, NEW map, Mapped(map, keys, values), NEW key \in keys, NEW value \in values
  PROVE  Mapped(Pruned(SetEntry(map, key, value)), keys, values)
<1> DEFINE T == [key : keys, value : values]
           entry == [key |-> key, value |-> value]
           K == Entry(map, key)
           all == IF K = {} THEN Append(map, entry)
                  ELSE [i \in DOMAIN map |-> IF i \in K THEN entry ELSE map[i]]
           r == SubSeq(all, TrackedDrop + 1, Len(all))
<1>1. K \in SUBSET DOMAIN map
  BY DEF Entry
<1>1a. entry \in T
  OBVIOUS
<1>2. SetEntry(map, key, value) = all
  BY DEF SetEntry
<1>3. map \in Seq(T) /\ Len(map) <= TrackedCap
  BY DEF Mapped
<1> HIDE DEF entry, K, T
<1>4. all \in Seq(T \cup {entry}) /\ Len(all) \in Nat /\ Len(all) <= Len(map) + 1
  BY <1>1, <1>3, Puts, PutsLength
<1> HIDE DEF all
<1>5. all \in Seq(T)
  <2>1. T \cup {entry} = T
    BY <1>1a
  <2> QED BY <1>4, <2>1
<1>6. TrackedCap \in Nat /\ TrackedDrop \in Nat \ {0} /\ Len(map) \in Nat
  BY <1>3, TrackerAssumption, LenProperties
<1>7. Len(r) <= TrackedCap
  BY <1>3, <1>4, <1>5, <1>6, CutLength
<1>8. r \in Seq(T)
  <2>1. \A i \in TrackedDrop + 1 .. Len(all) : all[i] \in T
    BY <1>4, <1>5, <1>6, LenProperties, ElementOfSeq
  <2> QED BY <1>4, <1>6, <2>1, SubSeqProperties
<1>9. Pruned(all) = IF Len(all) > TrackedCap THEN r ELSE all
  BY DEF Pruned
<1> HIDE DEF r
<1>10. Pruned(all) \in Seq(T) /\ Len(Pruned(all)) <= TrackedCap
  BY <1>3, <1>4, <1>5, <1>6, <1>7, <1>8, <1>9
<1> QED BY <1>2, <1>10 DEF T, Mapped

Bands == {"FAR", "APPROACHING", "REACHED"}
Breakouts == {"NONE", "WATCH", "CONFIRMED", "FAILED"}
MoodsOf == [regime : Moods \cup {NotYet}, btc : Moods \cup {NotYet}, vol : Moods \cup {NotYet}]

ChartTyped ==
  /\ moods \in [Charts -> MoodsOf]
  /\ Mapped(bands, Levels, Bands) /\ Mapped(breakouts, Levels, Breakouts)
  /\ \A g \in ingests : g.seen \subseteq g.found /\ g.found \subseteq Zones

LEMMA MoodsSet ==
  ASSUME NEW old \in [Charts -> MoodsOf], NEW s \in Charts, NEW what \in {"regime", "btc", "vol"},
         NEW now \in Moods
  PROVE  [old EXCEPT ![s][what] = now] \in [Charts -> MoodsOf]
<1> DEFINE m == [old[s] EXCEPT ![what] = now]
<1>1. old[s] \in MoodsOf
  OBVIOUS
<1>2. m \in MoodsOf
  BY <1>1 DEF MoodsOf
<1>3. [old EXCEPT ![s][what] = now] = [old EXCEPT ![s] = m]
  OBVIOUS
<1> HIDE DEF m
<1> QED BY <1>2, <1>3

LEMMA ChartTypesStep ==
  ASSUME ChartTyped, [ChartNext]_chartVars
  PROVE  ChartTyped'
<1>0. ASSUME UNCHANGED <<moods, bands, breakouts>>,
             \A g \in ingests' : g.seen \subseteq g.found /\ g.found \subseteq Zones
      PROVE  ChartTyped'
  BY <1>0 DEF ChartTyped, Mapped
<1>1. ASSUME NEW s \in Charts, MarketLook(s) PROVE ChartTyped'
  <2>1. PICK what \in {"regime", "btc", "vol"}, now \in Moods : moods' = [moods EXCEPT ![s][what] = now]
    BY <1>1 DEF MarketLook
  <2>2. UNCHANGED <<bands, breakouts, ingests>>
    BY <1>1 DEF MarketLook
  <2>3. moods' \in [Charts -> MoodsOf]
    BY <2>1, MoodsSet DEF ChartTyped
  <2> QED BY <2>2, <2>3 DEF ChartTyped, Mapped
<1>2. ASSUME NEW s \in Charts, ReactionLook(s) PROVE ChartTyped'
  BY <1>0, <1>2 DEF ReactionLook, ChartTyped
<1>3. ASSUME NEW s \in Charts, IngestBegins(s) PROVE ChartTyped'
  <2>1. PICK found \in SUBSET {z \in Zones : ChartOf[z] = s} :
          ingests' = ingests \cup {[id |-> looks, symbol |-> s, found |-> found, seen |-> {},
                                    confirmed |-> NotYet]}
    BY <1>3 DEF IngestBegins
  <2>2. UNCHANGED <<moods, bands, breakouts>>
    BY <1>3 DEF IngestBegins
  <2> QED BY <1>0, <2>1, <2>2 DEF ChartTyped
<1>4. ASSUME NEW l \in Levels, LevelLook(l) PROVE ChartTyped'
  <2>1. PICK i \in 1 .. 4 :
          bands' = Pruned(SetEntry(bands, l, NextBand(Distances[i], ValueOf(bands, l, "FAR"))))
    BY <1>4 DEF LevelLook
  <2>2. UNCHANGED <<moods, breakouts, ingests>>
    BY <1>4 DEF LevelLook
  <2> DEFINE was == ValueOf(bands, l, "FAR")
             now == NextBand(Distances[i], was)
  <2>3. now \in Bands
    BY DEF NextBand, Bands
  <2> HIDE DEF now
  <2>4. Mapped(bands, Levels, Bands) /\ bands' = Pruned(SetEntry(bands, l, now))
    BY <2>1 DEF ChartTyped, now
  <2>5. Mapped(bands', Levels, Bands)
    BY <2>3, <2>4, MapsStayMapped
  <2> QED BY <2>2, <2>5 DEF ChartTyped, Mapped
<1>5. ASSUME NEW l \in Levels, BreakoutLook(l) PROVE ChartTyped'
  <2> DEFINE was == ValueOf(breakouts, l, "NONE")
  <2>1. PICK closeAbove \in BOOLEAN, below \in BOOLEAN, bosNear \in BOOLEAN :
          breakouts' = Pruned(SetEntry(breakouts, l, NextBreakout(closeAbove, below, bosNear, was)))
    BY <1>5 DEF BreakoutLook
  <2>2. UNCHANGED <<moods, bands, ingests>>
    BY <1>5 DEF BreakoutLook
  <2> DEFINE now == NextBreakout(closeAbove, below, bosNear, was)
  <2>3. was \in Breakouts
    <3>1. breakouts \in Seq([key : Levels, value : Breakouts]) /\ "NONE" \in Breakouts
      BY DEF ChartTyped, Mapped, Breakouts
    <3> QED BY <3>1, ValuesOfMaps
  <2> HIDE DEF was
  <2>4. now \in Breakouts
    BY <2>3 DEF NextBreakout, Breakouts
  <2> HIDE DEF now
  <2>5. Mapped(breakouts, Levels, Breakouts) /\ breakouts' = Pruned(SetEntry(breakouts, l, now))
    BY <2>1 DEF ChartTyped, now
  <2>6. Mapped(breakouts', Levels, Breakouts)
    BY <2>4, <2>5, MapsStayMapped
  <2> QED BY <2>2, <2>6 DEF ChartTyped, Mapped
<1>6. ASSUME NEW g \in ingests, NEW z \in g.found, SetupLook(g, z) PROVE ChartTyped'
  <2>1. PICK w : ingests' = (ingests \ {g}) \cup {[g EXCEPT !.seen = @ \cup {z}, !.confirmed = w]}
    BY <1>6 DEF SetupLook
  <2>2. UNCHANGED <<moods, bands, breakouts>>
    BY <1>6 DEF SetupLook
  <2>3. /\ [g EXCEPT !.seen = @ \cup {z}, !.confirmed = w].found = g.found
        /\ [g EXCEPT !.seen = @ \cup {z}, !.confirmed = w].seen \subseteq g.seen \cup {z}
    OBVIOUS
  <2> QED BY <1>0, <2>1, <2>2, <2>3 DEF ChartTyped
<1>7. ASSUME NEW g \in ingests, NEW e \in Missing(g), SetupMissing(g, e) PROVE ChartTyped'
  BY <1>0, <1>7 DEF SetupMissing, ChartTyped
<1>8. ASSUME NEW g \in ingests, IngestEnds(g) PROVE ChartTyped'
  BY <1>0, <1>8 DEF IngestEnds, ChartTyped
<1>9. CASE UNCHANGED chartVars
  BY <1>0, <1>9 DEF chartVars, ChartTyped
<1> QED BY <1>1, <1>2, <1>3, <1>4, <1>5, <1>6, <1>7, <1>8, <1>9 DEF ChartNext

LEMMA ChartTypes == ChartWatchSpec => []ChartTypeOK
<1>1. ChartInit => ChartTyped
  <2> SUFFICES ASSUME ChartInit PROVE ChartTyped
    OBVIOUS
  <2>1. moods \in [Charts -> MoodsOf]
    BY DEF ChartInit, MoodsOf
  <2>2. \A keys, values : Mapped(<<>>, keys, values)
    BY TrackerAssumption, EmptySeq DEF Mapped
  <2> QED BY <2>1, <2>2 DEF ChartInit, ChartTyped
<1>2. ChartTyped /\ [ChartNext]_chartVars => ChartTyped'
  BY ChartTypesStep
<1>3. ChartTyped => ChartTypeOK
  <2> SUFFICES ASSUME ChartTyped PROVE ChartTypeOK
    OBVIOUS
  <2>1. ASSUME NEW map, NEW keys, NEW values, Mapped(map, keys, values), NEW e \in ToSet(map)
        PROVE  e.key \in keys /\ e.value \in values
    <3>1. PICK i \in DOMAIN map : e = map[i]
      BY DEF ToSet
    <3>2. map[i] \in [key : keys, value : values]
      BY <2>1, ElementOfSeq, LenProperties DEF Mapped
    <3> QED BY <3>1, <3>2
  <2>2. \A e \in ToSet(bands) : e.key \in Levels /\ e.value \in Bands
    BY <2>1 DEF ChartTyped
  <2>3. \A e \in ToSet(breakouts) : e.value \in Breakouts
    BY <2>1 DEF ChartTyped
  <2> QED BY <2>2, <2>3 DEF ChartTyped, ChartTypeOK, Mapped, Bands, Breakouts, MoodsOf
<1> QED BY <1>1, <1>2, <1>3, PTL DEF ChartWatchSpec

MacroTyped ==
  /\ GuardInv /\ MacroTypeOK

LEMMA ScanTypes ==
  ASSUME MacroTyped, NEW e \in Releases, ScanRelease(e)
  PROVE  MacroTypeOK'
<1> DEFINE eta == ReleaseAt[e] - macroTime
           stage == IF eta < -Resolve THEN NoStage
                    ELSE IF eta > Approach THEN stages[e] ELSE Stage(eta)
           Stages == {NoStage, "T45", "T5", "LIVE"}
<1>1. /\ UNCHANGED <<macroTime, calendar>> /\ e \in calendar /\ scanned' = scanned \cup {e}
      /\ stages' = [stages EXCEPT ![e] = stage]
  BY DEF ScanRelease
<1>2. \E w : risk' = RiskAt(w, stages[e]) \/ risk' = risk
  BY DEF ScanRelease
<1>3. stage \in Stages
  <2>1. Stage(eta) \in Stages
    BY DEF Stage
  <2> QED BY <2>1 DEF MacroTyped, MacroTypeOK
<1> HIDE DEF stage
<1>4. stages' \in [Releases -> Stages]
  BY <1>1, <1>3 DEF MacroTyped, MacroTypeOK
<1>5. risk' \in {"NONE", "HIGH", "VERY_HIGH"}
  BY <1>2 DEF RiskAt, MacroTyped, MacroTypeOK
<1> QED BY <1>1, <1>4, <1>5 DEF MacroTyped, MacroTypeOK

LEMMA MacroTypesStep ==
  ASSUME MacroTyped, [MacroNext]_macroVars
  PROVE  MacroTyped'
<1>1. GuardInv'
  BY GuardInvStep DEF MacroTyped
<1>2. FileCalendar \subseteq Releases /\ \A f \in Feeds : f \subseteq Releases
  BY MacroAssumption
<1>3. CASE RefreshFeeds
  BY <1>1, <1>2, <1>3 DEF RefreshFeeds, MacroTyped, MacroTypeOK
<1>4. CASE FeedAnswers
  <2>1. calendar' \subseteq Releases /\ scanned' = scanned \cap calendar'
    BY <1>2, <1>4 DEF FeedAnswers, MacroTyped, MacroTypeOK
  <2>2. UNCHANGED <<macroTime, stages, risk>>
    BY <1>4 DEF FeedAnswers
  <2> QED BY <1>1, <2>1, <2>2 DEF MacroTyped, MacroTypeOK
<1>5. CASE MacroClock
  <2>1. macroTime' \in 0 .. MacroEnd
    BY <1>5, MacroAssumption DEF MacroClock, MacroTyped, MacroTypeOK
  <2> QED BY <1>1, <1>5, <2>1 DEF MacroClock, MacroTyped, MacroTypeOK
<1>6. CASE \E e \in Releases : ScanRelease(e)
  BY <1>1, <1>6, ScanTypes DEF MacroTyped
<1>7. CASE \E n \in News : NewsTold(n)
  BY <1>1, <1>7 DEF NewsTold, MacroTyped, MacroTypeOK
<1>8. CASE UNCHANGED macroVars
  BY <1>1, <1>8 DEF macroVars, MacroTyped, MacroTypeOK
<1> QED BY <1>3, <1>4, <1>5, <1>6, <1>7, <1>8 DEF MacroNext

\* What a tick has scanned is in the calendar of the moment, whatever the feeds answer.
LEMMA MacroTypes == MacroSpec => []MacroTypeOK
<1>1. MacroInit => MacroTyped
  BY MacroAssumption DEF MacroInit, MacroTyped, MacroTypeOK, GuardInv, NoStage
<1>2. MacroTyped /\ [MacroNext]_macroVars => MacroTyped'
  BY MacroTypesStep
<1>3. MacroTyped => MacroTypeOK
  BY DEF MacroTyped
<1> QED BY <1>1, <1>2, <1>3, PTL DEF MacroSpec

\* No more than three setups are kept.
LEMMA ThreeFound ==
  ASSUME NEW r, Priced(r), NEW c
  PROVE  Len(DetectSetups(r, c)) <= 3
<1> DEFINE G == Good(r, c)
           q == Collected(r, c)
           n == Len(q)
<1>1. q \in Seq(Finds(r, c)) /\ G = Valid(Finds(r, c))
  BY CollectedFacts DEF Good
<1>2. DetectSetups(r, c) = LET ranked == FoldLeft(Placed, <<>>, q)
                           IN  SubSeq(ranked, 1, Least(3, Len(ranked)))
  BY DEF DetectSetups
<1> HIDE DEF G, q
<1>3. n \in Nat
  BY <1>1, LenProperties
<1>4. PICK run : Ranks(run, q, G)
  BY <1>1, RankingRun
<1> DEFINE ranked == run[n]
           m == Len(ranked)
           top == Least(3, m)
<1>5. FoldLeft(Placed, <<>>, q) = ranked /\ ranked \in Seq(G)
  BY <1>3, <1>4 DEF Ranks
<1> HIDE DEF ranked
<1>6. m \in Nat /\ \A i \in 1 .. m : ranked[i] \in G
  BY <1>5, LenProperties
<1> HIDE DEF m
<1>7. top \in Nat /\ top <= m /\ top <= 3
  BY <1>6 DEF Least
<1>8. DetectSetups(r, c) = SubSeq(ranked, 1, top)
  BY <1>2, <1>5 DEF m
<1> HIDE DEF top
<1>9. \A i \in 1 .. top : ranked[i] \in G
  BY <1>6, <1>7
<1>10. Len(SubSeq(ranked, 1, top)) = IF 1 <= top THEN top - 1 + 1 ELSE 0
  BY <1>7, <1>9, SubSeqProperties
<1> QED BY <1>7, <1>8, <1>10

\* The leverage given is on the band, whatever the score.
LEMMA LeverageOnBand ==
  ASSUME NEW r, NEW d, NEW c
  PROVE  ResolveLeverage(r, d, c) \in 5 .. 15
<1> DEFINE T == {t \in {"4h", "1h", "15m"} : r.trend[t] = Trends(d).trend}
<1>1. Alignment(r, d) \in Nat
  <2>1. IsFiniteSet({"4h", "1h", "15m"})
    <3>1. IsFiniteSet({"4h"}) /\ IsFiniteSet({"1h"}) /\ IsFiniteSet({"15m"})
      BY FS_Singleton
    <3>2. IsFiniteSet({"4h"} \cup {"1h"})
      BY <3>1, FS_Union
    <3>3. IsFiniteSet(({"4h"} \cup {"1h"}) \cup {"15m"})
      BY <3>1, <3>2, FS_Union
    <3>4. {"4h", "1h", "15m"} = ({"4h"} \cup {"1h"}) \cup {"15m"}
      OBVIOUS
    <3> QED BY <3>3, <3>4
  <2>2. IsFiniteSet(T)
    BY <2>1, FS_Subset
  <2> QED BY <2>2, FS_CardinalityType DEF Alignment
<1> DEFINE al == Alignment(r, d)
           mi == MicroDelta(r, d)
           cf == Confidence(r, d)
<1>2. mi \in Int
  BY DEF MicroDelta
<1> HIDE DEF T, al, mi
<1>3. cf \in Int
  <2>1. cf = Most(5, Least(95, 40 + 10 * al + (IF r.regime = Trends(d).regime THEN 8 ELSE 0)
                       - (IF r.wild1h THEN 15 ELSE 0) + mi))
    BY DEF Confidence, al, mi
  <2> DEFINE x == IF r.regime = Trends(d).regime THEN 8 ELSE 0
             y == IF r.wild1h THEN 15 ELSE 0
  <2>2. x \in Int /\ y \in Int /\ al \in Int
    BY <1>1 DEF al
  <2>3. cf = Most(5, Least(95, 40 + 10 * al + x - y + mi))
    BY <2>1
  <2> HIDE DEF x, y, cf
  <2> QED BY <1>2, <2>2, <2>3 DEF Most, Least
<1> HIDE DEF cf
<1> DEFINE a == IF r.regime \in {Trends(d).regime, "BREAKOUT"} THEN 2 ELSE 0
           b == IF r.btc = Trends(d).regime THEN 1 ELSE 0
           e == IF r.flow = Trends(d).flow /\ Signed(r, d).imbalance > 10 THEN 1 ELSE 0
           f == IF r.wild1h \/ r.wild15 THEN 2 ELSE 0
           g == (cf * 3 + 50) \div 100
           score == a + b + al + g + e - f
           kept == Most(-2, Least(10, score))
           onBand == 5 + ((kept + 2) * 20 + 12) \div 24
           cap == CircuitCap(c)
<1>4. a \in Int /\ b \in Int /\ e \in Int /\ f \in Int /\ g \in Int /\ al \in Int
  BY <1>1, <1>3 DEF al
<1>5. ResolveLeverage(r, d, c) = IF "PANIC" \in {r.regime, r.btc} \/ cap <= 5 THEN 5
                                 ELSE Most(5, Least(cap, onBand))
  BY DEF ResolveLeverage, cf, al
<1>6. cap \in Int /\ cap <= 15
  BY DEF CircuitCap
<1> HIDE DEF a, b, e, f, g, cap
<1>7. score \in Int
  BY <1>4
<1> HIDE DEF score
<1>8. kept \in Int
  BY <1>7 DEF Most, Least
<1> HIDE DEF kept
<1>9. onBand \in Int
  BY <1>8
<1> HIDE DEF onBand
<1> QED BY <1>5, <1>6, <1>9 DEF Most, Least

PlanTyped ==
  /\ PlanInv /\ Len(setupsFound) <= 3
  /\ sizing.ok => sizing.leverage \in 1 .. 15

LEMMA FoundLeverage ==
  ASSUME NEW r, NEW c, NEW s \in Finds(r, c)
  PROVE  s.leverage \in 5 .. 15
<1>1. PICK d \in Heard(r) : \E k \in DOMAIN Detected(r, d) : s = Finalized(r, d, Detected(r, d)[k], c)
  BY DEF Finds
<1>2. PICK k \in DOMAIN Detected(r, d) : s = Finalized(r, d, Detected(r, d)[k], c)
  BY <1>1
<1>3. s.leverage = ResolveLeverage(r, d, c)
  BY <1>2 DEF Finalized
<1> QED BY <1>3, LeverageOnBand

LEMMA SizedLeverage ==
  ASSUME NEW p, p.leverage \in 5 .. 15, NEW a, NEW c, NEW spec \in Specs, SizePosition(p, a, c, spec).ok
  PROVE  SizePosition(p, a, c, spec).leverage \in 1 .. 15
<1> DEFINE z == SizePosition(p, a, c, spec)
           leverage == Most(1, Least(p.leverage, Least(PlanLimits.leverage, spec.leverage)))
<1>1. z.ok => z.leverage = leverage
  BY DEF SizePosition, NoSizing
<1>2. PlanLimits.leverage \in Nat /\ spec.leverage \in Nat
  BY PlanAssumption
<1>3. leverage \in 1 .. 15
  BY <1>2 DEF Most, Least
<1> HIDE DEF leverage
<1> QED BY <1>1, <1>3

LEMMA PlanTypesStep ==
  ASSUME PlanTyped, [PlanNext]_planVars
  PROVE  PlanTyped'
<1>1. PlanInv' /\ ~ NoSizing.ok /\ Priced(reading)
  BY PlanInvStep, PlanAssumption DEF PlanTyped, PlanInv, NoSizing
<1>2. CASE Gather
  <2>1. setupsFound' = DetectSetups(reading, circuit) /\ UNCHANGED sizing
    BY <1>2 DEF Gather
  <2> QED BY <1>1, <2>1, ThreeFound DEF PlanTyped
<1>3. CASE Strategize
  BY <1>1, <1>3 DEF Strategize, PlanTyped
<1>4. CASE PassGates
  BY <1>1, <1>4 DEF PassGates, PlanTyped
<1>5. CASE Size
  <2>1. proposal \in Finds(reading, circuit) /\ UNCHANGED setupsFound
    BY <1>5 DEF Size, PlanTyped, PlanInv
  <2>2. proposal.leverage \in 5 .. 15
    BY <2>1, FoundLeverage
  <2>3. sizing'.ok => sizing'.leverage \in 1 .. 15
    <3>1. CASE sizing' = NoSizing
      BY <1>1, <3>1
    <3>2. CASE \E spec \in Specs : sizing' = SizePosition(proposal, account, circuit, spec)
      BY <2>2, <3>2, SizedLeverage
    <3> QED BY <1>5, <3>1, <3>2 DEF Size
  <2> QED BY <1>1, <2>1, <2>3 DEF PlanTyped
<1>6. CASE UNCHANGED planVars
  BY <1>1, <1>6 DEF planVars, PlanTyped
<1> QED BY <1>2, <1>3, <1>4, <1>5, <1>6 DEF PlanNext

\* No more than three setups are put to the strategist, and what is sized is on the band.
LEMMA PlanTypes == PlanSpec => []PlanTypeOK
<1>1. PlanInit => PlanTyped
  <2> SUFFICES ASSUME PlanInit PROVE PlanTyped
    OBVIOUS
  <2>1. Len(setupsFound) = 0 /\ ~ NoSizing.ok /\ sizing = NoSizing
    BY DEF PlanInit, NoSizing
  <2> QED BY <2>1, PlanInvInit DEF PlanTyped
<1>2. PlanTyped /\ [PlanNext]_planVars => PlanTyped'
  BY PlanTypesStep
<1>3. PlanTyped => PlanTypeOK
  <2> SUFFICES ASSUME PlanTyped PROVE PlanTypeOK
    OBVIOUS
  <2>1. ~ NoSizing.ok
    BY DEF NoSizing
  <2>2. sizing.ok => planStage = "ended"
    BY <2>1 DEF PlanTyped, PlanInv
  <2> QED BY <2>2 DEF PlanTyped, PlanInv, PlanTypeOK
<1> QED BY <1>1, <1>2, <1>3, PTL DEF PlanSpec

ReplayTyped ==
  /\ ReplayInv /\ ReplayTypeOK

\* The clock of the replay never runs more than one step past the ladder.
LEMMA ClockAdvances ==
  ASSUME ReplayTyped, cursor < Len(recorded), Advance
  PROVE  cursor' \in (WarmUp + 1) .. (Len(recorded') + StepBars) /\ recorded' \in Tapes
<1>1. recorded \in Tapes /\ recorded' = recorded /\ cursor' = cursor + StepBars
  BY DEF Advance, ReplayTyped, ReplayTypeOK
<1>2. recorded \in Seq(Tape)
  BY <1>1, ReplayAssumption DEF Tape
<1>3. Len(recorded) \in Nat /\ WarmUp \in Nat /\ StepBars \in Nat \ {0}
  BY <1>2, ReplayAssumption, LenProperties
<1>4. cursor \in Nat /\ cursor >= WarmUp + 1
  BY <1>3 DEF ReplayTyped, ReplayTypeOK, ReplayInv
<1> QED BY <1>1, <1>3, <1>4

LEMMA ReplayTypesStep ==
  ASSUME ReplayTyped, [ReplayNext]_replayVars
  PROVE  ReplayTyped'
<1> DEFINE n == Len(replayed)
<1>0. ReplayInv' /\ Len(openUntil') <= Replay.slots
  BY ReplayInvStep DEF ReplayTyped, ReplayInv
<1>1. \A i \in DOMAIN replayed : replayed[i].closedAt > replayed[i].openedAt
  BY DEF ReplayTyped, ReplayTypeOK
<1>2. CASE Waits
  <2>1. cursor < Len(recorded) /\ Advance /\ UNCHANGED replayed
    BY <1>2 DEF Waits
  <2>2. cursor' \in (WarmUp + 1) .. (Len(recorded') + StepBars) /\ recorded' \in Tapes
    BY <2>1, ClockAdvances
  <2> QED BY <1>0, <1>1, <2>1, <2>2 DEF ReplayTyped, ReplayTypeOK
<1>3. CASE Decides
  <2>1. /\ cursor < Len(recorded) /\ Advance /\ cursor \in Nat \ {0} /\ recorded \in Tapes
        /\ replayed \in Seq(Trades)
    BY <1>3 DEF Decides, ReplayTyped, ReplayInv
  <2>2. cursor' \in (WarmUp + 1) .. (Len(recorded') + StepBars) /\ recorded' \in Tapes
    BY <2>1, ClockAdvances
  <2>3. cursor \in 1 .. (Len(recorded) - 1)
    <3>1. recorded \in Seq(Tape)
      BY <2>1, ReplayAssumption DEF Tape
    <3> QED BY <2>1, <3>1, LenProperties
  <2>4. PICK c \in Candidates :
          IF Sized(recorded[cursor].close, c.stop) = 0 THEN UNCHANGED replayed
          ELSE replayed' = Append(replayed, Simulated(Asked(c)))
    BY <1>3 DEF Decides
  <2> DEFINE t == Simulated(Asked(c))
  <2>5. \A i \in DOMAIN replayed' : replayed'[i].closedAt > replayed'[i].openedAt
    <3>1. CASE Sized(recorded[cursor].close, c.stop) = 0
      BY <1>1, <2>4, <3>1
    <3>2. CASE Sized(recorded[cursor].close, c.stop) # 0
      <4>1. t \in Trades /\ t.closedAt > t.openedAt /\ replayed' = Append(replayed, t)
        BY <2>1, <2>3, <2>4, <3>2, SimulatedFacts
      <4> HIDE DEF t
      <4>2. /\ DOMAIN replayed' = 1 .. n + 1 /\ n \in Nat /\ DOMAIN replayed = 1 .. n
            /\ \A i \in 1 .. n : replayed'[i] = replayed[i]
            /\ replayed'[n + 1] = t
        BY <2>1, <4>1, AppendProperties, LenProperties
      <4>3. ASSUME NEW i \in 1 .. n + 1 PROVE replayed'[i].closedAt > replayed'[i].openedAt
        <5>1. CASE i = n + 1
          BY <4>1, <4>2, <5>1
        <5>2. CASE i # n + 1
          <6>1. i \in 1 .. n
            BY <4>2, <5>2
          <6> QED BY <1>1, <4>2, <6>1
        <5> QED BY <5>1, <5>2
      <4> QED BY <4>2, <4>3
    <3> QED BY <3>1, <3>2
  <2> QED BY <1>0, <2>2, <2>5 DEF ReplayTyped, ReplayTypeOK
<1>4. CASE Evaluates \/ UNCHANGED replayVars
  <2>1. UNCHANGED <<recorded, cursor, openUntil, replayed>>
    BY <1>4 DEF Evaluates, replayVars
  <2> QED BY <1>0, <2>1 DEF ReplayTyped, ReplayTypeOK
<1> QED BY <1>2, <1>3, <1>4 DEF ReplayNext

\* The replay's clock stays within a step of its ladder, its positions within the slots,
\* and every trade closes after it opened.
LEMMA ReplayTypes == ReplaySpec => []ReplayTypeOK
<1>1. ReplayInit => ReplayTyped
  <2> SUFFICES ASSUME ReplayInit PROVE ReplayTyped
    OBVIOUS
  <2>1. ReplayInv
    BY ReplayInvInit
  <2>2. DOMAIN replayed = {}
    BY DEF ReplayInit
  <2> QED BY <2>1, <2>2 DEF ReplayInit, ReplayTyped, ReplayTypeOK, ReplayInv
<1>2. ReplayTyped /\ [ReplayNext]_replayVars => ReplayTyped'
  BY ReplayTypesStep
<1>3. ReplayTyped => ReplayTypeOK
  BY DEF ReplayTyped
<1> QED BY <1>1, <1>2, <1>3, PTL DEF ReplaySpec

\* No more rows than bars, and the dead gate named is a gate.
FunnelTyped == FunnelInv /\ Len(funnelRows) <= FunnelBars

LEMMA FunnelTypesStep ==
  ASSUME FunnelTyped, [FunnelNext]_funnelVars
  PROVE  FunnelTyped'
<1>1. FunnelInv' /\ funnelRows \in Seq(Rows)
  BY FunnelInvStep DEF FunnelTyped, FunnelInv
<1>2. CASE Observes
  <2>1. PICK r \in FunnelReadings : funnelRows' = Append(funnelRows, EvaluateFunnelBar(r))
    BY <1>2 DEF Observes
  <2> DEFINE row == EvaluateFunnelBar(r)
  <2>2. row \in Rows
    <3>1. row \in {EvaluateDirection(r, "LONG"), EvaluateDirection(r, "SHORT")}
      BY DEF EvaluateFunnelBar
    <3>2. EvaluateDirection(r, "LONG") \in Rows /\ EvaluateDirection(r, "SHORT") \in Rows
      BY DEF Rows, Directions
    <3> QED BY <3>1, <3>2
  <2> HIDE DEF row
  <2>3. Len(funnelRows') = Len(funnelRows) + 1 /\ Len(funnelRows) \in Nat
    BY <1>1, <2>1, <2>2, AppendProperties, LenProperties DEF row
  <2>4. Len(funnelRows') <= FunnelBars
    BY <1>2, <2>3, FunnelAssumption DEF Observes
  <2> QED BY <1>1, <2>4 DEF FunnelTyped
<1>3. CASE UNCHANGED funnelVars
  BY <1>1, <1>3 DEF funnelVars, FunnelTyped
<1> QED BY <1>2, <1>3 DEF FunnelNext

\* The dead gate is the first of the gates named dead.
LEMMA DeadGateIsGate ==
  SequentialDeadGate \in {"none"} \cup {Sequential[i] : i \in DOMAIN Sequential}
<1> DEFINE dead == {n \in DOMAIN Sequential :
                      /\ Cardinality(SeenAt(n)) >= DeadSeen
                      /\ Cardinality(PassedAt(n)) * 100 < DeadRate * Cardinality(SeenAt(n))}
           first == CHOOSE n \in dead : \A k \in dead : n <= k
<1>1. SequentialDeadGate = IF dead = {} THEN "none" ELSE Sequential[first]
  BY DEF SequentialDeadGate
<1>2. DOMAIN Sequential = 1 .. 9
  BY DEF Sequential
<1>3. dead \in SUBSET Nat /\ dead \subseteq DOMAIN Sequential
  BY <1>2
<1> HIDE DEF dead
<1>4. dead # {} => first \in dead
  <2> SUFFICES ASSUME dead # {} PROVE first \in dead
    OBVIOUS
  <2>1. PICK n \in dead : \A k \in dead : n <= k
    BY <1>3, LeastNatural
  <2> QED BY <2>1
<1> HIDE DEF first
<1> QED BY <1>1, <1>3, <1>4

LEMMA FunnelTypes == FunnelSpec => []FunnelTypeOK
<1>1. FunnelInit => FunnelTyped
  BY FunnelInvInit, FunnelAssumption, EmptySeq DEF FunnelInit, FunnelTyped
<1>2. FunnelTyped /\ [FunnelNext]_funnelVars => FunnelTyped'
  BY FunnelTypesStep
<1>3. FunnelTyped => FunnelTypeOK
  BY DeadGateIsGate DEF FunnelTyped, FunnelTypeOK
<1> QED BY <1>1, <1>2, <1>3, PTL DEF FunnelSpec

LEMMA RegistryTypesHold == RegistrySpec => []RegistryTypeOK
<1>1. RegistryInv => RegistryTypeOK
  BY DEF RegistryInv
<1> QED BY <1>1, RegistryInvInit, RegistryInvStep, PTL DEF RegistrySpec

\* Whichever service moves, its variables keep their types: strategies and their log,
\* the circuit and its journal, the broker's book, the memories of what was told, the
\* calendar, the candidates and their sizes, the replay's slots and clock
\* (the types ServicesTypeOK names, of nine parts of src/src).
THEOREM ServicesTypes == Spec => []ServicesTypeOK
<1>1. /\ subject \in Subjects /\ RegistryTypeOK /\ GovernorTypeOK /\ PaperTypeOK /\ WatchTypeOK
      /\ ChartTypeOK /\ MacroTypeOK /\ PlanTypeOK /\ ReplayTypeOK /\ FunnelTypeOK
      => ServicesTypeOK
  <2> SUFFICES ASSUME subject \in Subjects, RegistryTypeOK, GovernorTypeOK, PaperTypeOK, WatchTypeOK,
                      ChartTypeOK, MacroTypeOK, PlanTypeOK, ReplayTypeOK, FunnelTypeOK
               PROVE  ServicesTypeOK
    OBVIOUS
  <2>1. subject \in {"registry", "governor", "paper", "watch", "chart", "macro", "plan", "replay", "funnel"}
    BY ServicesAssumption
  <2> QED BY <2>1 DEF ServicesTypeOK
<1> QED
  BY <1>1, ServicesAreParts, RegistryTypesHold, GovernorTypes, PaperTypes, WatchTypes, ChartTypes,
     MacroTypes, PlanTypes, ReplayTypes, FunnelTypes, PTL

====
