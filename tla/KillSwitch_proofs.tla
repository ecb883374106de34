-------------------------- MODULE KillSwitch_proofs --------------------------
(***************************************************************************)
(* The switch obeys the last readable record of a set, for any log length, *)
(* window and any number of rotations; whatever was placed, was placed     *)
(* with the switch open on record.  Hydrating reads the last set of the    *)
(* tail: the greatest member of a set of positions.                        *)
(***************************************************************************)
EXTENDS KillSwitch, SequenceTheorems, Induction

\* The lines that parse are found again, in their order, and no others.
LEMMA ReadableFacts ==
  ASSUME NEW S, NEW s \in Seq(S)
  PROVE  LET q == Readable(s)
             P == {k \in DOMAIN s : s[k] # Unreadable}
         IN  /\ q \in Seq(S) /\ Len(q) = Cardinality(P) /\ Len(q) \in 0 .. Len(s)
             /\ \A i \in 1 .. Len(q) : Nth(P, i) \in P /\ q[i] = s[Nth(P, i)]
             /\ \A i, j \in 1 .. Len(q) : i < j => Nth(P, i) < Nth(P, j)
             /\ \A k \in P : Rank(P, k) \in 1 .. Len(q) /\ Nth(P, Rank(P, k)) = k
<1> DEFINE q == Readable(s)
           P == {k \in DOMAIN s : s[k] # Unreadable}
           c == Cardinality(P)
<1>1. Len(s) \in Nat /\ DOMAIN s = 1 .. Len(s) /\ \A k \in 1 .. Len(s) : s[k] \in S
  BY LenProperties
<1>2. /\ c \in 0 .. Len(s)
      /\ \A k \in P : Rank(P, k) \in 1 .. c /\ Nth(P, Rank(P, k)) = k
      /\ \A i \in 1 .. c : Nth(P, i) \in P
      /\ \A i, j \in 1 .. c : i < j => Nth(P, i) < Nth(P, j)
  BY <1>1, RankCounts
<1>3. q = [i \in 1 .. c |-> s[Nth(P, i)]]
  BY DEF Readable, Nth, Rank
<1>4. \A k \in P : s[k] \in S
  BY <1>1
<1> HIDE DEF q, P
<1>5. q \in [1 .. c -> S] /\ c \in Nat
  BY <1>2, <1>3, <1>4
<1>6. q \in Seq(S) /\ Len(q) = c
  BY <1>5, SeqDef, LenProperties
<1> QED BY <1>2, <1>3, <1>6 DEF q, P


LEMMA NewestFacts ==
  ASSUME NEW S, NEW s \in Seq(S), NEW n \in Nat
  PROVE  LET t == Newest(s, n)
             d == Len(s) - Len(t)
         IN  /\ t \in Seq(S) /\ Len(t) = (IF Len(s) > n THEN n ELSE Len(s)) /\ d \in Nat
             /\ \A i \in 1 .. Len(t) : t[i] = s[d + i] /\ d + i \in 1 .. Len(s)
<1> DEFINE m == 1 + (IF Len(s) > n THEN Len(s) - n ELSE 0)
           t == SubSeq(s, m, Len(s))
<1>1. Len(s) \in Nat /\ m \in 1 .. (Len(s) + 1)
  BY LenProperties
<1>2. m \in Int /\ (m <= Len(s) => m \in 1 .. Len(s)) /\ \A i \in m .. Len(s) : s[i] \in S
  BY <1>1, LenProperties
<1> HIDE DEF m
<1>3. /\ t \in Seq(S) /\ Len(t) = Len(s) + 1 - m
      /\ \A i \in 1 .. (Len(s) + 1 - m) : t[i] = s[m + i - 1]
  <2>1. /\ t \in Seq(S) /\ Len(t) = IF m <= Len(s) THEN Len(s) - m + 1 ELSE 0
        /\ \A i \in 1 .. (Len(s) - m + 1) : t[i] = s[m + i - 1]
    BY <1>1, <1>2, SubSeqProperties
  <2>2. (IF m <= Len(s) THEN Len(s) - m + 1 ELSE 0) = Len(s) + 1 - m /\ Len(s) - m + 1 = Len(s) + 1 - m
    BY <1>1
  <2> QED BY <2>1, <2>2
<1>4. t = Newest(s, n)
  BY DEF Newest, m
<1>5. Len(s) + 1 - m = IF Len(s) > n THEN n ELSE Len(s)
  BY <1>1 DEF m
<1>6. Len(s) - Len(t) = m - 1
  BY <1>1, <1>3
<1>7. ASSUME NEW i \in 1 .. Len(t)
      PROVE  t[i] = s[(Len(s) - Len(t)) + i] /\ (Len(s) - Len(t)) + i \in 1 .. Len(s)
  <2>1. (Len(s) - Len(t)) + i = m + i - 1 /\ m + i - 1 \in 1 .. Len(s) /\ i \in 1 .. (Len(s) + 1 - m)
    BY <1>1, <1>3, <1>6
  <2> QED BY <1>3, <2>1
<1>8. Len(s) - Len(t) \in Nat /\ Len(t) = IF Len(s) > n THEN n ELSE Len(s)
  BY <1>1, <1>3, <1>5, <1>6
<1> HIDE DEF t
<1> QED BY <1>3, <1>4, <1>7, <1>8

-----------------------------------------------------------------------------
(* What the log says of the switch. *)

\* The last set event among lines says HALTED, if there is one.
SaysHalt(lines) ==
  \A k \in Sets(lines) : (\A j \in Sets(lines) : j <= k) => lines[k].state = "HALTED"

LEMMA WrittenHalt ==
  ASSUME NEW f, f.lines \in Seq(Line)
  PROVE  Written(f, "HALTED") <=> SaysHalt(f.lines)
<1> DEFINE P == Sets(f.lines)
<1>1. Len(f.lines) \in Nat /\ P \subseteq Nat /\ \A k \in P : k <= Len(f.lines)
  BY LenProperties DEF Sets
<1>2. CASE P = {}
  BY <1>2 DEF Written, SaysHalt, Booted
<1>3. CASE P # {}
  <2>1. \E x \in P : \A y \in P : x >= y
    BY <1>1, <1>3, Greatest
  <2>2. Max(P) \in P /\ \A y \in P : Max(P) >= y
    BY <2>1 DEF Max
  <2> HIDE DEF P
  <2>3. Max(P) \in Nat /\ \A y \in P : y <= Max(P) /\ y \in Nat
    BY <1>1, <2>2
  <2>4. \A k \in P : (\A j \in P : j <= k) => k = Max(P)
    BY <2>2, <2>3
  <2>5. SaysHalt(f.lines) <=> f.lines[Max(P)].state = "HALTED"
    BY <2>2, <2>3, <2>4 DEF SaysHalt, P
  <2> QED BY <1>3, <2>5 DEF Written, P
<1> QED BY <1>2, <1>3

LEMMA HaltInNewest ==
  ASSUME NEW s \in Seq(Line), NEW n \in Nat, SaysHalt(s)
  PROVE  SaysHalt(Newest(s, n))
<1> DEFINE t == Newest(s, n)
           d == Len(s) - Len(t)
<1>1. /\ t \in Seq(Line) /\ d \in Nat /\ Len(s) \in Nat /\ Len(t) \in Nat
      /\ \A i \in 1 .. Len(t) : t[i] = s[d + i] /\ d + i \in 1 .. Len(s)
      /\ Len(s) = d + Len(t)
  BY NewestFacts, LenProperties
<1>2. DOMAIN t = 1 .. Len(t) /\ DOMAIN s = 1 .. Len(s)
  BY <1>1, LenProperties
<1> HIDE DEF t, d
<1> SUFFICES ASSUME NEW k \in Sets(t), \A j \in Sets(t) : j <= k PROVE t[k].state = "HALTED"
  BY DEF SaysHalt, t
<1>3. k \in 1 .. Len(t) /\ d + k \in Sets(s) /\ t[k] = s[d + k]
  BY <1>1, <1>2 DEF Sets
<1>4. ASSUME NEW j \in Sets(s) PROVE j <= d + k
  <2>1. j \in 1 .. Len(s) /\ s[j] # Unreadable /\ IsSet(s[j])
    BY <1>2 DEF Sets
  <2>2. CASE j <= d
    BY <1>1, <1>3, <2>1, <2>2
  <2>3. CASE ~ (j <= d)
    <3>1. j - d \in 1 .. Len(t) /\ d + (j - d) = j
      BY <1>1, <2>1, <2>3
    <3>2. t[j - d] = s[j]
      BY <1>1, <3>1
    <3>3. j - d \in Sets(t)
      BY <1>2, <2>1, <3>1, <3>2 DEF Sets
    <3>4. j - d <= k
      BY <3>3
    <3> QED BY <1>1, <1>3, <2>1, <3>4
  <2> QED BY <2>2, <2>3
<1> QED BY <1>3, <1>4 DEF SaysHalt

LEMMA HaltInReadable ==
  ASSUME NEW s \in Seq(Line), SaysHalt(s)
  PROVE  SaysHalt(Readable(s))
<1> DEFINE q == Readable(s)
           P == {k \in DOMAIN s : s[k] # Unreadable}
<1>1. /\ q \in Seq(Line) /\ Len(q) \in Nat
      /\ \A i \in 1 .. Len(q) : Nth(P, i) \in P /\ q[i] = s[Nth(P, i)]
      /\ \A i, j \in 1 .. Len(q) : i < j => Nth(P, i) < Nth(P, j)
      /\ \A k \in P : Rank(P, k) \in 1 .. Len(q) /\ Nth(P, Rank(P, k)) = k
  BY ReadableFacts, LenProperties
<1>2. DOMAIN q = 1 .. Len(q) /\ P \subseteq Nat
  BY <1>1, LenProperties
<1>3. Sets(s) \subseteq P
  BY DEF Sets
<1> SUFFICES ASSUME NEW k \in Sets(q), \A j \in Sets(q) : j <= k PROVE q[k].state = "HALTED"
  BY DEF SaysHalt
<1>4. k \in 1 .. Len(q) /\ q[k] # Unreadable /\ IsSet(q[k])
  BY <1>2 DEF Sets
<1>5. Nth(P, k) \in Sets(s) /\ q[k] = s[Nth(P, k)]
  BY <1>1, <1>4 DEF Sets
<1> HIDE DEF q, P
<1>6. ASSUME NEW j \in Sets(s) PROVE j <= Nth(P, k)
  <2>1. j \in P /\ Rank(P, j) \in 1 .. Len(q) /\ Nth(P, Rank(P, j)) = j
    BY <1>1, <1>3
  <2>2. q[Rank(P, j)] = s[j]
    BY <1>1, <2>1
  <2>3. Rank(P, j) \in Sets(q)
    BY <1>2, <2>1, <2>2 DEF Sets
  <2>4. Rank(P, j) <= k /\ Rank(P, j) \in Nat /\ k \in Nat
    BY <1>1, <1>4, <2>1, <2>3
  <2>5. CASE Rank(P, j) = k
    BY <1>2, <2>1, <2>5
  <2>6. CASE Rank(P, j) < k
    <3>1. j < Nth(P, k)
      BY <1>1, <1>4, <2>1, <2>6
    <3>2. j \in Nat /\ Nth(P, k) \in Nat
      BY <1>1, <1>2, <1>4, <2>1
    <3> QED BY <3>1, <3>2
  <2> QED BY <2>4, <2>5, <2>6
<1> QED BY <1>5, <1>6 DEF SaysHalt

LEMMA HaltInRotated ==
  ASSUME NEW s \in Seq(Line), SaysHalt(s)
  PROVE  SaysHalt(Rotated(s))
<1>1. Kept \in Nat
  BY EventLogAssumption
<1>2. Newest(s, Kept) \in Seq(Line) /\ SaysHalt(Newest(s, Kept))
  BY <1>1, NewestFacts, HaltInNewest
<1>3. SaysHalt(Readable(Newest(s, Kept)))
  BY <1>2, HaltInReadable
<1> QED BY <1>3 DEF Rotated, ReadAll

LEMMA HaltInAppended ==
  ASSUME NEW s \in Seq(Line), NEW l \in Line, l = Unreadable \/ ~ IsSet(l), SaysHalt(s)
  PROVE  SaysHalt(Append(s, l))
<1> DEFINE t == Append(s, l)
<1>1. /\ Len(s) \in Nat /\ DOMAIN s = 1 .. Len(s) /\ DOMAIN t = 1 .. (Len(s) + 1)
      /\ t[Len(s) + 1] = l /\ \A i \in 1 .. Len(s) : t[i] = s[i]
  BY AppendProperties, LenProperties
<1> HIDE DEF t
<1>2. Sets(t) = Sets(s)
  BY <1>1 DEF Sets
<1>3. \A k \in Sets(s) : t[k] = s[k]
  BY <1>1 DEF Sets
<1> QED BY <1>2, <1>3 DEF SaysHalt, t

\* A rotation keeps the last line, when it parses.
LEMMA RotatedFacts ==
  ASSUME NEW s \in Seq(Line)
  PROVE  /\ Rotated(s) \in Seq(Line)
         /\ Rotated(s) = s \/ Len(Rotated(s)) <= Kept
         /\ s # <<>> /\ s[Len(s)] # Unreadable =>
              /\ Rotated(s) # <<>> /\ Last(Rotated(s)) = s[Len(s)]
              /\ Len(Rotated(s)) <= Kept
<1> DEFINE t == Newest(s, Kept)
           q == Readable(t)
           P == {k \in DOMAIN t : t[k] # Unreadable}
<1>0. Kept \in Nat \ {0} /\ Len(s) \in Nat
  BY EventLogAssumption, LenProperties
<1>1. /\ t \in Seq(Line) /\ Len(t) = (IF Len(s) > Kept THEN Kept ELSE Len(s))
      /\ \A i \in 1 .. Len(t) : t[i] = s[(Len(s) - Len(t)) + i]
  BY <1>0, NewestFacts
<1>2. Len(t) \in Nat /\ Len(t) <= Kept /\ DOMAIN t = 1 .. Len(t)
  BY <1>0, <1>1, LenProperties
<1>3. /\ q \in Seq(Line) /\ Len(q) \in 0 .. Len(t)
      /\ \A i \in 1 .. Len(q) : Nth(P, i) \in P /\ q[i] = t[Nth(P, i)]
      /\ \A i, j \in 1 .. Len(q) : i < j => Nth(P, i) < Nth(P, j)
      /\ \A k \in P : Rank(P, k) \in 1 .. Len(q) /\ Nth(P, Rank(P, k)) = k
  <2> HIDE DEF t
  <2> QED BY <1>1, ReadableFacts, ZenonT(40)
<1>4. Rotated(s) = IF q = <<>> THEN s ELSE q
  BY DEF Rotated, ReadAll
<1>5. \A k \in P : k \in 1 .. Len(t)
  BY <1>2
<1>6. s # <<>> /\ s[Len(s)] # Unreadable => Len(t) \in P /\ t[Len(t)] = s[Len(s)]
  <2> SUFFICES ASSUME s # <<>>, s[Len(s)] # Unreadable PROVE Len(t) \in P /\ t[Len(t)] = s[Len(s)]
    OBVIOUS
  <2>1. Len(s) # 0
    BY EmptySeq
  <2>2. Len(t) \in 1 .. Len(t) /\ (Len(s) - Len(t)) + Len(t) = Len(s)
    BY <1>0, <1>1, <2>1
  <2>3. t[Len(t)] = s[Len(s)]
    BY <1>1, <2>2
  <2> QED BY <1>2, <2>2, <2>3
<1> HIDE DEF t, q, P
<1>7. ASSUME Len(t) \in P PROVE q # <<>> /\ q[Len(q)] = t[Len(t)]
  <2>1. Rank(P, Len(t)) \in 1 .. Len(q) /\ Nth(P, Rank(P, Len(t))) = Len(t)
    BY <1>3, <1>7
  <2>2. Len(q) \in Nat /\ Len(q) \in 1 .. Len(q)
    BY <1>2, <1>3, <2>1
  <2>3. Nth(P, Len(q)) \in 1 .. Len(t)
    BY <1>3, <1>5, <2>2
  <2>4. Rank(P, Len(t)) = Len(q)
    <3>1. ASSUME Rank(P, Len(t)) < Len(q) PROVE FALSE
      <4>1. Len(t) < Nth(P, Len(q))
        BY <1>3, <2>1, <2>2, <3>1
      <4> QED BY <1>2, <2>3, <4>1
    <3> QED BY <2>1, <2>2, <3>1
  <2>5. q[Len(q)] = t[Len(t)]
    BY <1>3, <2>1, <2>2, <2>4
  <2>6. q # <<>>
    BY <2>2, EmptySeq
  <2> QED BY <2>5, <2>6
<1>8. Len(q) <= Kept
  BY <1>0, <1>2, <1>3
<1> QED BY <1>3, <1>4, <1>6, <1>7, <1>8 DEF Last

\* The shape of a log file.
LogInv(f) ==
  /\ f.lines \in Seq(Line) /\ Len(f.lines) <= Capacity /\ f.open \in BOOLEAN
  /\ f = [lines |-> f.lines, open |-> f.open]

LEMMA LogFileIs ==
  ASSUME NEW f
  PROVE  f \in LogFile <=> LogInv(f)
<1>0. Capacity \in Nat
  BY EventLogAssumption
<1>1. ASSUME f \in LogFile PROVE LogInv(f)
  <2>1. PICK n \in 0 .. Capacity : f.lines \in [1 .. n -> Line]
    BY <1>1 DEF LogFile
  <2>2. f.lines \in Seq(Line) /\ Len(f.lines) = n
    BY <1>0, <2>1, SeqDef, LenProperties
  <2> QED BY <1>0, <1>1, <2>1, <2>2 DEF LogFile, LogInv
<1>2. ASSUME LogInv(f) PROVE f \in LogFile
  <2>1. Len(f.lines) \in 0 .. Capacity /\ f.lines \in [1 .. Len(f.lines) -> Line]
    BY <1>0, <1>2, LenProperties DEF LogInv
  <2> DEFINE all == UNION {[1 .. n -> Line] : n \in 0 .. Capacity}
  <2>2. f.lines \in all
    BY <2>1
  <2> HIDE DEF all
  <2>3. f \in [lines : all, open : BOOLEAN]
    BY <1>2, <2>2 DEF LogInv
  <2> QED BY <2>3 DEF LogFile, all
<1> QED BY <1>1, <1>2

LEMMA ContinuedFacts ==
  ASSUME NEW f, LogInv(f), NEW l \in Line
  PROVE  /\ Continued(f, l) \in Seq(Line) /\ Len(Continued(f, l)) \in Nat
         /\ ~ f.open => /\ Continued(f, l) # <<>>
                        /\ Continued(f, l)[Len(Continued(f, l))] = l
         /\ f.open => Len(Continued(f, l)) <= Capacity
         /\ SaysHalt(f.lines) /\ (l = Unreadable \/ ~ IsSet(l)) => SaysHalt(Continued(f, l))
<1>1. f.lines \in Seq(Line) /\ Len(f.lines) \in Nat /\ Len(f.lines) <= Capacity
  BY LenProperties DEF LogInv
<1>2. CASE f.open
  BY <1>1, <1>2 DEF Continued
<1>3. CASE ~ f.open
  <2> DEFINE t == Append(f.lines, l)
  <2>1. t \in Seq(Line) /\ Len(t) = Len(f.lines) + 1 /\ t[Len(f.lines) + 1] = l
    BY <1>1, AppendProperties
  <2>2. SaysHalt(f.lines) /\ (l = Unreadable \/ ~ IsSet(l)) => SaysHalt(t)
    BY <1>1, HaltInAppended
  <2>3. Continued(f, l) = t
    BY <1>3 DEF Continued
  <2> HIDE DEF t
  <2>4. t # <<>> /\ Len(t) \in Nat
    BY <1>1, <2>1, EmptySeq
  <2> QED BY <1>3, <2>1, <2>2, <2>3, <2>4
<1> QED BY <1>2, <1>3

\* What an append of an event leaves, whether it succeeds, fails or is torn.
LEMMA AppendsFacts ==
  ASSUME NEW f, LogInv(f), NEW e \in Events, NEW a \in Appends(f, e)
  PROVE  /\ LogInv(a.log) /\ a.ok \in BOOLEAN
         /\ SaysHalt(f.lines) /\ ~ IsSet(e) => SaysHalt(a.log.lines)
         /\ a.ok /\ ~ f.open => a.log.lines # <<>> /\ Last(a.log.lines) = e
<1> DEFINE c == Continued(f, e)
           u == Continued(f, Unreadable)
<1>0. /\ Capacity \in Nat /\ Kept \in Nat /\ Kept < Capacity /\ e # Unreadable
      /\ e \in Line /\ Unreadable \in Line
  BY EventLogAssumption DEF Line
<1>1. \/ Len(c) < Capacity /\ a = [log |-> [lines |-> c, open |-> FALSE], ok |-> TRUE]
      \/ a = [log |-> [lines |-> Rotated(c), open |-> FALSE], ok |-> TRUE]
      \/ a = [log |-> f, ok |-> FALSE]
      \/ Len(c) < Capacity /\ a = [log |-> [lines |-> u, open |-> TRUE], ok |-> FALSE]
  BY DEF Appends
<1>2. /\ c \in Seq(Line) /\ Len(c) \in Nat
      /\ ~ f.open => c # <<>> /\ c[Len(c)] = e
      /\ f.open => Len(c) <= Capacity
      /\ SaysHalt(f.lines) /\ ~ IsSet(e) => SaysHalt(c)
  BY <1>0, ContinuedFacts
<1>3. /\ u \in Seq(Line)
      /\ SaysHalt(f.lines) => SaysHalt(u)
      /\ Len(u) = Len(c)
  <2>1. Len(u) = Len(c)
    BY <1>0, AppendProperties DEF LogInv, Continued
  <2> QED BY <1>0, <2>1, ContinuedFacts
<1>4. /\ Rotated(c) \in Seq(Line)
      /\ Rotated(c) = c \/ Len(Rotated(c)) <= Kept
      /\ ~ f.open => Rotated(c) # <<>> /\ Last(Rotated(c)) = e /\ Len(Rotated(c)) <= Kept
      /\ SaysHalt(f.lines) /\ ~ IsSet(e) => SaysHalt(Rotated(c))
  BY <1>0, <1>2, RotatedFacts, HaltInRotated
<1>5. Len(Rotated(c)) <= Capacity
  <2>1. Len(Rotated(c)) \in Nat
    BY <1>4, LenProperties
  <2> QED BY <1>0, <1>2, <1>4, <2>1 DEF LogInv
<1> HIDE DEF c, u
<1>6. CASE Len(c) < Capacity /\ a = [log |-> [lines |-> c, open |-> FALSE], ok |-> TRUE]
  <2>1. /\ a.ok = TRUE /\ a.log.lines = c /\ a.log.open = FALSE
        /\ a.log = [lines |-> a.log.lines, open |-> a.log.open]
    BY <1>6
  <2>2. Len(c) <= Capacity
    BY <1>0, <1>2, <1>6
  <2> QED BY <1>2, <2>1, <2>2 DEF LogInv, Last
<1>7. CASE a = [log |-> [lines |-> Rotated(c), open |-> FALSE], ok |-> TRUE]
  <2>1. /\ a.ok = TRUE /\ a.log.lines = Rotated(c) /\ a.log.open = FALSE
        /\ a.log = [lines |-> a.log.lines, open |-> a.log.open]
    BY <1>7
  <2> QED BY <1>4, <1>5, <2>1 DEF LogInv
<1>8. CASE a = [log |-> f, ok |-> FALSE]
  BY <1>8
<1>9. CASE Len(c) < Capacity /\ a = [log |-> [lines |-> u, open |-> TRUE], ok |-> FALSE]
  <2>1. /\ a.ok = FALSE /\ a.log.lines = u /\ a.log.open = TRUE
        /\ a.log = [lines |-> a.log.lines, open |-> a.log.open]
    BY <1>9
  <2>2. Len(u) <= Capacity
    BY <1>0, <1>2, <1>3, <1>9
  <2> QED BY <1>3, <2>1, <2>2 DEF LogInv
<1> QED BY <1>1, <1>6, <1>7, <1>8, <1>9

-----------------------------------------------------------------------------
(* The switch. *)

Copy == [state : States, reason : Reasons]

LEMMA HydrateFacts ==
  ASSUME NEW f, LogInv(f)
  PROVE  Hydrate(f) \in Copy /\ (SaysHalt(f.lines) => Hydrate(f).state = "HALTED")
<1> DEFINE t == Newest(f.lines, Window)
           read == ReadAll(f, Window)
<1>1. Window \in Nat /\ f.lines \in Seq(Line)
  BY KillSwitchAssumption DEF LogInv
<1>2. t \in Seq(Line) /\ (SaysHalt(f.lines) => SaysHalt(t))
  BY <1>1, NewestFacts, HaltInNewest
<1>3. read = Readable(t)
  BY DEF ReadAll
<1>4. read \in Seq(Line) /\ (SaysHalt(f.lines) => SaysHalt(read))
  BY <1>2, <1>3, ReadableFacts, HaltInReadable
<1> HIDE DEF t
<1>5. CASE Sets(read) = {}
  BY <1>5, KillSwitchAssumption DEF Hydrate, Booted, Copy, States
<1>6. CASE Sets(read) # {}
  <2> DEFINE m == Max(Sets(read))
  <2>1. Len(read) \in Nat /\ DOMAIN read = 1 .. Len(read)
    BY <1>4, LenProperties
  <2>2. m \in Sets(read) /\ \A y \in Sets(read) : m >= y
    <3>1. Sets(read) \subseteq Nat /\ \A k \in Sets(read) : k <= Len(read)
      BY <2>1 DEF Sets
    <3>2. \E x \in Sets(read) : \A y \in Sets(read) : x >= y
      BY <1>6, <2>1, <3>1, Greatest
    <3> QED BY <3>2 DEF Max
  <2> HIDE DEF m
  <2>3. m \in 1 .. Len(read) /\ read[m] # Unreadable /\ IsSet(read[m])
    BY <2>1, <2>2 DEF Sets
  <2>4. read[m] \in Events
    BY <1>4, <2>1, <2>3 DEF Line
  <2>5. PICK s \in States, r \in Reasons : read[m] = SetEvent(s, r)
    BY <2>3, <2>4, KillSwitchAssumption DEF IsSet, OrderEvent, Telemetry
  <2>6. Hydrate(f) = [state |-> s, reason |-> r]
    BY <1>6, <2>5 DEF Hydrate, SwitchOf, SetEvent, m
  <2>7. SaysHalt(read) => s = "HALTED"
    <3>1. \A y \in Sets(read) : y <= m
      BY <2>1, <2>2, <2>3 DEF Sets
    <3> HIDE DEF read
    <3>2. SaysHalt(read) => read[m].state = "HALTED"
      BY <2>2, <3>1 DEF SaysHalt
    <3> QED BY <2>5, <3>2 DEF SetEvent
  <2> QED BY <1>4, <2>6, <2>7 DEF Copy
<1> QED BY <1>5, <1>6

\* While the last command is to halt and nothing kept it from a process, every copy
\* is halted and so is the word that the log would give a process that boots.
HaltInv ==
  /\ LogInv(log) /\ switch \in [Processes -> Copy]
  /\ ordered = "HALTED" /\ missed = {} => Halted /\ SaysHalt(log.lines)

LEMMA SetEventIs ==
  /\ \A s \in States, r \in Reasons : SetEvent(s, r) \in Events
  /\ OrderEvent \in Events /\ Telemetry \in Events
  /\ ~ IsSet(OrderEvent) /\ ~ IsSet(Telemetry)
BY KillSwitchAssumption DEF OrderEvent, Telemetry, IsSet

\* A changed copy, with or without its event in the log.
LEMMA ApplyFacts ==
  ASSUME LogInv(log), switch \in [Processes -> Copy], NEW p \in Processes, NEW s \in States,
         NEW r \in Reasons, NEW was, Apply(p, s, r, was)
  PROVE  LogInv(log') /\ switch' \in [Processes -> Copy] /\ switch'[p].state = s
         /\ \A q \in Processes \ {p} : switch'[q] = switch[q]
<1> DEFINE new == [state |-> s, reason |-> r]
<1>1. new \in Copy /\ new.state = s
  BY DEF Copy
<1>2. switch' = [switch EXCEPT ![p] = new]
  BY DEF Apply
<1> HIDE DEF new
<1>3. switch' \in [Processes -> Copy] /\ switch'[p].state = s /\ \A q \in Processes \ {p} : switch'[q] = switch[q]
  BY <1>1, <1>2
<1>4. log' = log \/ \E a \in Appends(log, SetEvent(s, r)) : log' = a.log
  BY DEF Apply
<1>5. LogInv(log')
  BY <1>4, AppendsFacts, SetEventIs
<1> QED BY <1>3, <1>5

LEMMA CommandKeeps ==
  ASSUME HaltInv, NEW p \in Processes, NEW s \in States, NEW r \in Reasons, Command(p, s, r)
  PROVE  HaltInv'
<1>1. /\ LogInv(log') /\ switch' \in [Processes -> Copy] /\ switch'[p].state = s
      /\ \A q \in Processes \ {p} : switch'[q] = switch[q]
  BY ApplyFacts DEF Command, HaltInv
<1>2. ASSUME ordered' = "HALTED", missed' = {} PROVE Halted' /\ SaysHalt(log.lines)'
  <2>1. s = "HALTED" /\ \A q \in Processes \ {p} : switch[q].state = "HALTED"
    BY <1>2 DEF Command
  <2>2. Written(log', "HALTED")
    BY <1>2, <2>1 DEF Command
  <2>3. SaysHalt(log'.lines)
    BY <1>1, <2>2, WrittenHalt DEF LogInv
  <2> QED BY <1>1, <2>1, <2>3 DEF Halted
<1> QED BY <1>1, <1>2 DEF HaltInv

LEMMA OtherEventKeeps ==
  ASSUME HaltInv, NEW e \in Events, ~ IsSet(e), NEW a \in Appends(log, e), log' = a.log,
         UNCHANGED <<switch, ordered, missed>>
  PROVE  HaltInv'
<1>1. LogInv(a.log) /\ (SaysHalt(log.lines) => SaysHalt(a.log.lines))
  BY AppendsFacts DEF HaltInv
<1> QED BY <1>1 DEF HaltInv, Halted

LEMMA RestartKeeps ==
  ASSUME HaltInv, NEW p \in Processes, Restart(p)
  PROVE  HaltInv'
<1> DEFINE read == Hydrate(log)
<1>1. read \in Copy /\ (SaysHalt(log.lines) => read.state = "HALTED")
  BY HydrateFacts DEF HaltInv
<1>2. CASE paper /\ p \in Arming /\ read.state = "HALTED"
  <2>1. PICK r \in Reasons : Apply(p, "NORMAL", r, read)
    BY <1>2 DEF Restart
  <2>2. missed' # {}
    BY <1>2 DEF Restart
  <2>3. LogInv(log') /\ switch' \in [Processes -> Copy]
    BY <2>1, ApplyFacts DEF HaltInv, States
  <2> QED BY <2>2, <2>3 DEF HaltInv
<1>3. CASE ~ (paper /\ p \in Arming /\ read.state = "HALTED")
  <2>1. switch' = [switch EXCEPT ![p] = read] /\ UNCHANGED <<log, missed, ordered>>
    BY <1>3 DEF Restart
  <2> HIDE DEF read
  <2>2. switch' \in [Processes -> Copy]
    BY <1>1, <2>1 DEF HaltInv
  <2>3. ordered = "HALTED" /\ missed = {} => Halted'
    BY <1>1, <2>1 DEF HaltInv, Halted
  <2> QED BY <2>1, <2>2, <2>3 DEF HaltInv
<1> QED BY <1>2, <1>3

LEMMA HaltInvStep ==
  ASSUME HaltInv, [Next]_vars
  PROVE  HaltInv'
<1>1. CASE \E p \in Processes, r \in Reasons : Halt(p, r) \/ Resume(p, r)
  BY <1>1, CommandKeeps DEF Halt, Resume, States
<1>2. CASE \E p \in Processes : Submit(p)
  <2>1. PICK a \in Appends(log, OrderEvent) : log' = a.log
    BY <1>2 DEF Submit
  <2> QED BY <1>2, <2>1, OtherEventKeeps, SetEventIs DEF Submit
<1>3. CASE \E p \in Processes : Restart(p)
  BY <1>3, RestartKeeps
<1>4. CASE Records
  <2>1. PICK a \in Appends(log, Telemetry) : log' = a.log
    BY <1>4 DEF Records
  <2> QED BY <1>4, <2>1, OtherEventKeeps, SetEventIs DEF Records
<1>5. CASE UNCHANGED vars
  BY <1>5 DEF HaltInv, vars, Halted
<1> QED BY <1>1, <1>2, <1>3, <1>4, <1>5 DEF Next

LEMMA HaltInvInit ==
  ASSUME Init
  PROVE  HaltInv
<1>1. log = EmptyLog /\ switch = [p \in Processes |-> Booted] /\ ordered = "none"
  BY DEF Init
<1>2. Booted \in Copy
  BY KillSwitchAssumption DEF Booted, Copy, States
<1>3. LogInv(EmptyLog)
  BY EventLogAssumption, EmptySeq DEF LogInv, EmptyLog
<1> QED BY <1>1, <1>2, <1>3 DEF HaltInv

\* The variables keep their types: no append or rotation makes a line that is no
\* event, and no restart reads a state or a reason that nobody wrote
\* (event-store.ts:98-128, kill-switch.ts:33-46).
THEOREM SwitchTypes == Spec => []TypeOK
<1> DEFINE I == HaltInv /\ TypeOK
<1>1. Init => I
  <2> SUFFICES ASSUME Init PROVE TypeOK
    BY HaltInvInit
  <2>1. log \in LogFile /\ switch \in [Processes -> Copy]
    BY HaltInvInit, LogFileIs DEF HaltInv
  <2> QED BY <2>1, KillSwitchAssumption DEF Init, TypeOK, Copy
<1>2. I /\ [Next]_vars => I'
  <2> SUFFICES ASSUME HaltInv, TypeOK, [Next]_vars PROVE HaltInv' /\ TypeOK'
    OBVIOUS
  <2>1. HaltInv'
    BY HaltInvStep
  <2>2. log' \in LogFile /\ switch' \in [Processes -> Copy]
    BY <2>1, LogFileIs DEF HaltInv
  <2>3. /\ paper' \in BOOLEAN /\ ordered' \in States \union {"none"} /\ missed' \subseteq Causes
        /\ placed' \in 0 .. MaxPlaced /\ crashes' \in 0 .. MaxCrashes
    <3>0. MaxPlaced \in Nat /\ MaxCrashes \in Nat
      BY KillSwitchAssumption
    <3>1. CASE \E p \in Processes, r \in Reasons : Halt(p, r) \/ Resume(p, r)
      BY <3>1 DEF Halt, Resume, Command, States, Causes, TypeOK
    <3>2. CASE \E p \in Processes : Submit(p)
      <4>1. PICK p \in Processes : Submit(p)
        BY <3>2
      <4>2. placed < MaxPlaced /\ placed' \in {placed, placed + 1} /\ UNCHANGED <<paper, ordered, missed, crashes>>
        BY <4>1 DEF Submit
      <4> QED BY <3>0, <4>2 DEF TypeOK
    <3>3. CASE \E p \in Processes : Restart(p)
      <4>1. PICK p \in Processes : Restart(p)
        BY <3>3
      <4>2. /\ crashes < MaxCrashes /\ crashes' = crashes + 1 /\ UNCHANGED <<paper, ordered, placed>>
            /\ missed' \in {missed, missed \union {"boot"}}
        BY <4>1 DEF Restart
      <4> QED BY <3>0, <4>2 DEF TypeOK, Causes
    <3>4. CASE Records
      BY <3>4 DEF Records, TypeOK
    <3>5. CASE UNCHANGED vars
      BY <3>5 DEF vars, TypeOK
    <3> QED BY <3>1, <3>2, <3>3, <3>4, <3>5 DEF Next
  <2> QED BY <2>1, <2>2, <2>3 DEF TypeOK, Copy
<1>3. I => TypeOK
  OBVIOUS
<1> QED BY <1>1, <1>2, <1>3, PTL DEF Spec

\* While the operators' last command is to halt, every kernel is halted, for any
\* processes on the log, any window, any size of the log, and whatever restarts,
\* rotations, torn lines and other events come in between, with the exceptions that
\* HaltObeyed names (kill-switch.ts:6-10).
THEOREM HaltIsObeyed == Spec => []HaltObeyed
<1>1. HaltInv => HaltObeyed
  BY DEF HaltInv, HaltObeyed
<1> QED BY <1>1, HaltInvInit, HaltInvStep, PTL DEF Spec

\* A live order is placed only with its transition as the log's last line, for any
\* log and any moment at which it is rotated (event-store.ts:195-200).
THEOREM PlacementsAreOnRecord == Spec => PlacedIsOnRecord
<1>1. HaltInv /\ [Next]_vars =>
        [placed' # placed /\ ~ paper /\ ~ log.open
           => log'.lines # <<>> /\ Last(log'.lines) = OrderEvent]_vars
  <2> SUFFICES ASSUME HaltInv, [Next]_vars, placed' # placed, ~ paper, ~ log.open
               PROVE  log'.lines # <<>> /\ Last(log'.lines) = OrderEvent
    OBVIOUS
  <2>1. PICK p \in Processes : Submit(p)
    BY DEF Next, vars, Halt, Resume, Command, Restart, Records
  <2>2. PICK a \in Appends(log, OrderEvent) : log' = a.log /\ placed' = IF a.ok \/ paper THEN placed + 1 ELSE placed
    BY <2>1 DEF Submit
  <2>3. a.ok
    BY <2>2
  <2> QED BY <2>2, <2>3, AppendsFacts, SetEventIs DEF HaltInv
<1> QED BY <1>1, HaltInvInit, HaltInvStep, PTL DEF Spec, PlacedIsOnRecord

=============================================================================
