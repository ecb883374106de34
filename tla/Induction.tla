------------------------------ MODULE Induction ------------------------------
(***************************************************************************)
(* Induction over the naturals for a set of them.  The library's induction *)
(* theorems take the property as an operator; here it is the set of the    *)
(* numbers that have it, so that a proof can cite it.  On it rest what the *)
(* folds over sequences compute, sums over finite sets, each the number of *)
(* its tokens, and the ranks of the members of a finite set of numbers.    *)
(***************************************************************************)
EXTENDS Integers, FiniteSets, FiniteSetsExt, WellFoundedInduction, FiniteSetTheorems, TLAPS

Below == {ss \in Nat \X Nat : ss[1] < ss[2]}

LEMMA LessWF == IsWellFoundedOn(Below, Nat)
<1>1. OpToRel(<, Nat) = Below
  BY DEF OpToRel, Below
<1> QED BY <1>1, NatLessThanWellFounded

LEMMA LeastNatural ==
  ASSUME NEW T, T \subseteq Nat, T # {}
  PROVE  \E x \in T : \A y \in T : x <= y
<1>1. \E x \in T : \A y \in T : ~ (<<y, x>> \in Below)
  BY WFMin, LessWF
<1>2. PICK x \in T : \A y \in T : <<y, x>> \notin Below
  BY <1>1
<1>3. ASSUME NEW y \in T PROVE x <= y
  <2>1. <<y, x>> \notin Below /\ y \in Nat /\ x \in Nat
    BY <1>2
  <2>2. ASSUME y < x PROVE <<y, x>> \in Below
    BY <2>1, <2>2 DEF Below
  <2> QED BY <2>1, <2>2
<1> QED BY <1>3

\* A set of naturals that holds 0 and every successor of its members is Nat.
LEMMA Induct ==
  ASSUME NEW T, T \subseteq Nat, 0 \in T, \A n \in Nat : n \in T => n + 1 \in T
  PROVE  T = Nat
<1> SUFFICES ASSUME T # Nat PROVE FALSE
  OBVIOUS
<1>1. PICK m \in Nat \ T : \A k \in Nat \ T : m <= k
  BY LeastNatural
<1>2. m # 0 /\ m - 1 \in Nat /\ m - 1 \in T
  BY <1>1
<1> QED BY <1>1, <1>2

\* A finite set of integers that is not empty has a least element.
LEMMA LeastOfFinite ==
  ASSUME NEW S, S \subseteq Int, IsFiniteSet(S), S # {}
  PROVE  \E x \in S : \A y \in S : x <= y
<1> DEFINE T == {n \in Nat : \A R \in SUBSET Int :
                   IsFiniteSet(R) /\ Cardinality(R) = n + 1 => \E x \in R : \A y \in R : x <= y}
<1>1. 0 \in T
  <2> SUFFICES ASSUME NEW R \in SUBSET Int, IsFiniteSet(R), Cardinality(R) = 1
               PROVE  \E x \in R : \A y \in R : x <= y
    OBVIOUS
  <2>1. PICK x : R = {x}
    BY FS_Singleton
  <2> QED BY <2>1
<1>2. ASSUME NEW n \in Nat, n \in T PROVE n + 1 \in T
  <2> SUFFICES ASSUME NEW R \in SUBSET Int, IsFiniteSet(R), Cardinality(R) = n + 1 + 1
               PROVE  \E x \in R : \A y \in R : x <= y
    OBVIOUS
  <2>0. R # {}
    BY FS_EmptySet
  <2>1. PICK r \in R : TRUE
    BY <2>0
  <2>2. IsFiniteSet(R \ {r}) /\ Cardinality(R \ {r}) = n + 1
    BY <2>1, FS_RemoveElement
  <2>3. \A Q \in SUBSET Int : IsFiniteSet(Q) /\ Cardinality(Q) = n + 1 => \E x \in Q : \A y \in Q : x <= y
    BY <1>2
  <2>4. PICK x \in R \ {r} : \A y \in R \ {r} : x <= y
    BY <2>2, <2>3
  <2>5. CASE x <= r
    BY <2>4, <2>5
  <2>6. CASE ~ (x <= r)
    <3>1. \A y \in R : r <= y
      BY <2>1, <2>4, <2>6
    <3> QED BY <2>1, <3>1
  <2> QED BY <2>5, <2>6
<1> HIDE DEF T
<1>3. T = Nat
  <2>1. T \subseteq Nat
    BY DEF T
  <2> QED BY <1>1, <1>2, <2>1, Induct
<1>4. Cardinality(S) \in Nat \ {0}
  BY FS_EmptySet, FS_CardinalityType
<1>5. Cardinality(S) - 1 \in T /\ (Cardinality(S) - 1) + 1 = Cardinality(S)
  BY <1>3, <1>4
<1> QED BY <1>5 DEF T

\* A bounded set of naturals that is not empty has a greatest element.
LEMMA Greatest ==
  ASSUME NEW S, S \subseteq Nat, S # {}, NEW b \in Nat, \A m \in S : m <= b
  PROVE  \E x \in S : \A y \in S : x >= y
<1> DEFINE T == {n \in Nat : \A m \in S : m <= n}
<1>1. PICK n \in T : \A k \in T : n <= k
  <2>1. b \in T /\ T \subseteq Nat
    OBVIOUS
  <2> QED BY <2>1, LeastNatural
<1>2. n \in S
  <2> SUFFICES ASSUME n \notin S PROVE FALSE
    OBVIOUS
  <2>1. PICK m \in S : TRUE
    OBVIOUS
  <2>2. \A k \in S : k \in Nat /\ k <= n /\ k # n
    BY <1>1
  <2>3. n - 1 \in Nat /\ \A k \in S : k <= n - 1
    BY <1>1, <2>1, <2>2
  <2> QED BY <1>1, <2>3
<1> QED BY <1>1, <1>2

-----------------------------------------------------------------------------
(* Folds over a sequence, which the library defines over the subsets of its *)
(* domain, largest index first.                                            *)

LEMMA MaxOfSome ==
  ASSUME NEW n \in Nat, NEW s \in SUBSET (1 .. n), s # {}
  PROVE  /\ Max(s) \in s /\ \A y \in s : Max(s) >= y
         /\ Max(s) \in 1 .. n
<1>1. s \subseteq Nat /\ \A m \in s : m <= n
  OBVIOUS
<1>2. \E x \in s : \A y \in s : x >= y
  BY <1>1, Greatest
<1> QED BY <1>2 DEF Max

LEMMA MaxOfFirst ==
  ASSUME NEW i \in Nat
  PROVE  Max(1 .. (i + 1)) = i + 1 /\ (1 .. (i + 1)) \ {i + 1} = 1 .. i
<1>1. Max(1 .. (i + 1)) \in 1 .. (i + 1) /\ \A y \in 1 .. (i + 1) : Max(1 .. (i + 1)) >= y
  <2>1. 1 .. (i + 1) # {} /\ i + 1 \in Nat
    OBVIOUS
  <2> QED BY <2>1, MaxOfSome
<1>2. i + 1 \in 1 .. (i + 1)
  OBVIOUS
<1>3. Max(1 .. (i + 1)) = i + 1
  BY <1>1, <1>2
<1> QED BY <1>3

(* Folds.  FoldLeft is a function on the sets of places, chosen by the      *)
(* equation it satisfies.  That some function satisfies it, and that the    *)
(* chosen one runs over the prefixes, is shown here for a step F on the     *)
(* members of A; a fold of the models then needs only to name its step.     *)

IsTable(h, A, base, n, F) ==
  /\ h \in [SUBSET (1 .. n) -> A]
  /\ \A s \in SUBSET (1 .. n) : h[s] = IF s = {} THEN base ELSE F[<<Max(s), h[s \ {Max(s)}]>>]

Obeys(it, A, base, n, F) ==
  /\ it[{}] = base
  /\ \A s \in SUBSET (1 .. n) : s # {} /\ it[s \ {Max(s)}] \in A
       => it[s] = F[<<Max(s), it[s \ {Max(s)}]>>]

IsRun(run, A, base, n, F) ==
  /\ run \in [0 .. n -> A] /\ run[0] = base
  /\ \A i \in 1 .. n : run[i] = F[<<i, run[i - 1]>>]

Folds(it, A, base, n, F) == \E run : IsRun(run, A, base, n, F) /\ it[1 .. n] = run[n]

\* A step on the members of A has a table of folds.
LEMMA FoldTable ==
  ASSUME NEW A, NEW base \in A, NEW n \in Nat, NEW F \in [(1 .. n) \X A -> A]
  PROVE  \E h : IsTable(h, A, base, n, F)
<1> DEFINE Table(h, m) == \A s \in SUBSET (1 .. m) :
                            h[s] = IF s = {} THEN base ELSE F[<<Max(s), h[s \ {Max(s)}]>>]
           Has(k) == \E h \in [SUBSET (1 .. k) -> A] : Table(h, k)
           T == {k \in Nat : k <= n => Has(k)}
<1>1. 0 \in T
  <2> DEFINE h == [s \in SUBSET (1 .. 0) |-> base]
  <2>1. h \in [SUBSET (1 .. 0) -> A] /\ Table(h, 0)
    OBVIOUS
  <2> QED BY <2>1
<1>2. ASSUME NEW m \in Nat, m \in T PROVE m + 1 \in T
  <2> SUFFICES ASSUME m + 1 <= n PROVE Has(m + 1)
    <3> HIDE DEF Has
    <3>1. m + 1 \in Nat
      OBVIOUS
    <3> QED BY <3>1
  <2>0. Has(m)
    <3> HIDE DEF Has
    <3>1. m <= n
      OBVIOUS
    <3> QED BY <1>2, <3>1
  <2>1. PICK g \in [SUBSET (1 .. m) -> A] : Table(g, m)
    BY <2>0
  <2> DEFINE h == [s \in SUBSET (1 .. (m + 1)) |->
                     IF m + 1 \in s THEN F[<<m + 1, g[s \ {m + 1}]>>] ELSE g[s]]
  <2>2. \A s \in SUBSET (1 .. (m + 1)) : s \ {m + 1} \in SUBSET (1 .. m)
    OBVIOUS
  <2>3. h \in [SUBSET (1 .. (m + 1)) -> A]
    <3> SUFFICES ASSUME NEW s \in SUBSET (1 .. (m + 1))
                 PROVE  (IF m + 1 \in s THEN F[<<m + 1, g[s \ {m + 1}]>>] ELSE g[s]) \in A
      OBVIOUS
    <3>1. CASE m + 1 \in s
      <4>1. g[s \ {m + 1}] \in A /\ m + 1 \in 1 .. n
        BY <2>2
      <4>2. <<m + 1, g[s \ {m + 1}]>> \in (1 .. n) \X A
        BY <4>1
      <4> QED BY <3>1, <4>2
    <3>2. CASE m + 1 \notin s
      <4>1. s \in SUBSET (1 .. m)
        BY <2>2, <3>2
      <4> QED BY <3>2, <4>1
    <3> QED BY <3>1, <3>2
  <2>4. ASSUME NEW s \in SUBSET (1 .. (m + 1))
        PROVE  h[s] = IF s = {} THEN base ELSE F[<<Max(s), h[s \ {Max(s)}]>>]
    <3>1. CASE m + 1 \in s
      <4>1. Max(s) = m + 1
        <5>1. Max(s) \in s /\ Max(s) >= m + 1 /\ Max(s) \in 1 .. (m + 1)
          BY <3>1, MaxOfSome
        <5> QED BY <5>1
      <4>2. h[s \ {m + 1}] = g[s \ {m + 1}] /\ h[s] = F[<<m + 1, g[s \ {m + 1}]>>]
        BY <2>2, <3>1
      <4> HIDE DEF h
      <4> QED BY <3>1, <4>1, <4>2
    <3>2. CASE m + 1 \notin s
      <4>1. s \in SUBSET (1 .. m) /\ \A q \in SUBSET s : q \in SUBSET (1 .. m) /\ m + 1 \notin q
        BY <2>2, <3>2
      <4>2. \A q \in SUBSET s : h[q] = g[q]
        BY <4>1
      <4>3. g[s] = IF s = {} THEN base ELSE F[<<Max(s), g[s \ {Max(s)}]>>]
        BY <2>1, <4>1
      <4>4. s \in SUBSET s /\ s \ {Max(s)} \in SUBSET s
        OBVIOUS
      <4> HIDE DEF h
      <4> QED BY <4>2, <4>3, <4>4
    <3> QED BY <3>1, <3>2
  <2> HIDE DEF h
  <2> QED BY <2>3, <2>4
<1>3. n \in T
  <2>1. T \subseteq Nat
    OBVIOUS
  <2> HIDE DEF T
  <2> QED BY <1>1, <1>2, <2>1, Induct
<1>4. n <= n
  OBVIOUS
<1> QED BY <1>3, <1>4 DEF IsTable

\* The values of such a table on the prefixes.
LEMMA FoldValues ==
  ASSUME NEW A, NEW base \in A, NEW n \in Nat, NEW F \in [(1 .. n) \X A -> A],
         NEW it, Obeys(it, A, base, n, F)
  PROVE  Folds(it, A, base, n, F)
<1> DEFINE run == [i \in 0 .. n |-> it[1 .. i]]
           T == {i \in Nat : i <= n => it[1 .. i] \in A}
<1>0. 1 .. 0 = {} /\ 0 \in 0 .. n /\ n \in 0 .. n
  OBVIOUS
<1>1. ASSUME NEW i \in Nat, i + 1 <= n, it[1 .. i] \in A
      PROVE  /\ it[1 .. (i + 1)] = F[<<i + 1, it[1 .. i]>>]
             /\ it[1 .. (i + 1)] \in A
  <2> DEFINE s == 1 .. (i + 1)
  <2>1. s \in SUBSET (1 .. n) /\ s # {} /\ i + 1 \in 1 .. n
    <3>1. i + 1 \in Nat /\ i + 1 <= n /\ 1 <= i + 1 /\ i + 1 \in s
      BY <1>1
    <3>2. \A j \in s : j \in 1 .. n
      BY <1>1
    <3> QED BY <3>1, <3>2
  <2>2. Max(s) = i + 1 /\ s \ {Max(s)} = 1 .. i
    BY MaxOfFirst
  <2> HIDE DEF s
  <2>3. it[s] = F[<<i + 1, it[1 .. i]>>]
    BY <1>1, <2>1, <2>2 DEF Obeys
  <2>4. <<i + 1, it[1 .. i]>> \in (1 .. n) \X A
    BY <1>1, <2>1
  <2> QED BY <2>3, <2>4 DEF s
<1>2. T = Nat
  <2>1. 0 \in T
    BY <1>0 DEF Obeys
  <2>2. ASSUME NEW i \in Nat, i \in T PROVE i + 1 \in T
    <3>1. i + 1 \in Nat /\ (i + 1 <= n => i <= n)
      OBVIOUS
    <3>2. i + 1 <= n => it[1 .. (i + 1)] \in A
      BY <1>1, <2>2, <3>1
    <3> QED BY <3>1, <3>2
  <2>3. T \subseteq Nat
    OBVIOUS
  <2> HIDE DEF T
  <2> QED BY <2>1, <2>2, <2>3, Induct
<1>3. \A i \in 0 .. n : i \in Nat /\ it[1 .. i] \in A
  BY <1>2
<1>4. run \in [0 .. n -> A] /\ run[0] = base /\ run[n] = it[1 .. n]
  BY <1>0, <1>3 DEF Obeys
<1>5. ASSUME NEW i \in 1 .. n PROVE run[i] = F[<<i, run[i - 1]>>]
  <2>1. i - 1 \in Nat /\ (i - 1) + 1 = i /\ i <= n /\ i - 1 \in 0 .. n /\ i \in 0 .. n
    OBVIOUS
  <2>2. it[1 .. (i - 1)] \in A
    BY <1>3, <2>1
  <2>3. it[1 .. i] = F[<<i, it[1 .. (i - 1)]>>]
    BY <1>1, <2>1, <2>2
  <2> QED BY <2>1, <2>3
<1> HIDE DEF run
<1> QED BY <1>4, <1>5 DEF IsRun, Folds

\* Together: what obeys the equation once it has a solution runs over the prefixes.
LEMMA FoldRun ==
  ASSUME NEW A, NEW base \in A, NEW n \in Nat, NEW F \in [(1 .. n) \X A -> A], NEW it,
         \A h : IsTable(h, A, base, n, F) => Obeys(it, A, base, n, F)
  PROVE  Folds(it, A, base, n, F)
<1>1. PICK h : IsTable(h, A, base, n, F)
  BY FoldTable
<1> QED BY <1>1, FoldValues

\* What holds of 0 and of each number up to n after the one before holds up to n.
LEMMA UpTo ==
  ASSUME NEW n \in Nat, NEW P, 0 \in P, \A i \in 1 .. n : i - 1 \in P => i \in P
  PROVE  \A i \in 0 .. n : i \in P
<1> DEFINE T == {i \in Nat : i <= n => i \in P}
<1>1. 0 \in T
  OBVIOUS
<1>2. ASSUME NEW i \in Nat, i \in T PROVE i + 1 \in T
  <2>1. i + 1 \in Nat /\ (i + 1) - 1 = i /\ (i + 1 <= n => i <= n /\ i + 1 \in 1 .. n)
    OBVIOUS
  <2>2. i + 1 <= n => i + 1 \in P
    BY <1>2, <2>1
  <2> QED BY <2>1, <2>2
<1>3. T = Nat
  <2>1. T \subseteq Nat
    OBVIOUS
  <2> HIDE DEF T
  <2> QED BY <1>1, <1>2, <2>1, Induct
<1> QED BY <1>3

\* Two runs that start alike and step alike end alike.
Alike(f, g, n) == f[0] = g[0] /\ \A i \in 1 .. n : f[i - 1] = g[i - 1] => f[i] = g[i]

LEMMA SameRun ==
  ASSUME NEW n \in Nat, NEW f, NEW g, Alike(f, g, n)
  PROVE  f[n] = g[n]
<1> DEFINE P == {i \in Nat : f[i] = g[i]}
<1>1. 0 \in P
  BY DEF Alike
<1>2. \A i \in 1 .. n : i - 1 \in P => i \in P
  BY DEF Alike
<1>3. \A i \in 0 .. n : i \in P
  <2> HIDE DEF P
  <2> QED BY <1>1, <1>2, UpTo
<1> QED BY <1>3

-----------------------------------------------------------------------------
(* Sums over a finite set.  MapThenSumSet is a function on the subsets,     *)
(* chosen by its equation; it counts the tokens, f[x] of them for each x.   *)

Tokens(f, u) == UNION {{x} \X (0 .. f[x] - 1) : x \in u}
IsSum(h, f, S) ==
  h = [u \in SUBSET S |-> IF u = {} THEN 0
                          ELSE f[CHOOSE x \in u : TRUE] + h[u \ {CHOOSE x \in u : TRUE}]]
SumOver(f, S) == Cardinality(Tokens(f, S))

LEMMA TokensOfOne ==
  ASSUME NEW x, NEW n \in Nat
  PROVE  IsFiniteSet({x} \X (0 .. n - 1)) /\ Cardinality({x} \X (0 .. n - 1)) = n
<1>1. IsFiniteSet(0 .. n - 1) /\ Cardinality(0 .. n - 1) = n
  <2>1. 0 \in Int /\ n - 1 \in Int
    OBVIOUS
  <2>2. IsFiniteSet(0 .. n - 1) /\ Cardinality(0 .. n - 1) = IF 0 > n - 1 THEN 0 ELSE (n - 1) - 0 + 1
    BY <2>1, FS_Interval
  <2> QED BY <2>2
<1>2. IsFiniteSet({x}) /\ Cardinality({x}) = 1
  BY FS_Singleton
<1>3. IsFiniteSet({x} \X (0 .. n - 1)) /\ Cardinality({x} \X (0 .. n - 1)) = Cardinality({x}) * Cardinality(0 .. n - 1)
  BY <1>1, <1>2, FS_Product
<1> QED BY <1>1, <1>2, <1>3

LEMMA TokensFinite ==
  ASSUME NEW u, IsFiniteSet(u), NEW f, \A x \in u : f[x] \in Nat
  PROVE  IsFiniteSet(Tokens(f, u)) /\ Cardinality(Tokens(f, u)) \in Nat
<1> DEFINE part == [x \in u |-> {x} \X (0 .. f[x] - 1)]
           parts == {{x} \X (0 .. f[x] - 1) : x \in u}
<1>1. part \in Surjection(u, parts)
  BY DEF Surjection
<1>2. IsFiniteSet(parts)
  <2> HIDE DEF part, parts
  <2> QED BY <1>1, FS_Surjection
<1>3. ASSUME NEW p \in parts PROVE IsFiniteSet(p)
  <2>1. PICK x \in u : p = {x} \X (0 .. f[x] - 1)
    OBVIOUS
  <2>2. f[x] \in Nat
    OBVIOUS
  <2>3. IsFiniteSet({x} \X (0 .. f[x] - 1))
    BY <2>2, TokensOfOne
  <2> QED BY <2>1, <2>3
<1>4. IsFiniteSet(UNION parts)
  <2> HIDE DEF parts
  <2> QED BY <1>2, <1>3, FS_UNION
<1> QED BY <1>4, FS_CardinalityType DEF Tokens

\* Two disjoint parts of a set count apart.
LEMMA TokensSplit ==
  ASSUME NEW u, IsFiniteSet(u), NEW f, \A x \in u : f[x] \in Nat, NEW w \in SUBSET u
  PROVE  Cardinality(Tokens(f, u)) = Cardinality(Tokens(f, w)) + Cardinality(Tokens(f, u \ w))
<1>1. IsFiniteSet(w) /\ IsFiniteSet(u \ w)
  <2>1. w \in SUBSET u /\ u \ w \in SUBSET u
    OBVIOUS
  <2> QED BY <2>1, FS_Subset
<1>2. /\ IsFiniteSet(Tokens(f, w)) /\ Cardinality(Tokens(f, w)) \in Nat
      /\ IsFiniteSet(Tokens(f, u \ w)) /\ Cardinality(Tokens(f, u \ w)) \in Nat
  <2>1. (\A x \in w : f[x] \in Nat) /\ \A x \in u \ w : f[x] \in Nat
    OBVIOUS
  <2> QED BY <1>1, <2>1, TokensFinite
<1>3. Tokens(f, u) = Tokens(f, w) \cup Tokens(f, u \ w)
  BY DEF Tokens
<1>4. Tokens(f, w) \cap Tokens(f, u \ w) = {}
  BY DEF Tokens
<1>5. Cardinality(Tokens(f, w) \cup Tokens(f, u \ w))
        = Cardinality(Tokens(f, w)) + Cardinality(Tokens(f, u \ w))
          - Cardinality(Tokens(f, w) \cap Tokens(f, u \ w))
  BY <1>2, FS_Union
<1>6. Cardinality(Tokens(f, w) \cap Tokens(f, u \ w)) = 0
  BY <1>4, FS_EmptySet
<1> QED BY <1>2, <1>3, <1>5, <1>6

LEMMA TokensAdd ==
  ASSUME NEW u, IsFiniteSet(u), NEW f, \A y \in u : f[y] \in Nat, NEW x \in u
  PROVE  Cardinality(Tokens(f, u)) = f[x] + Cardinality(Tokens(f, u \ {x}))
<1>1. Tokens(f, {x}) = {x} \X (0 .. f[x] - 1)
  BY DEF Tokens
<1>2. Cardinality(Tokens(f, {x})) = f[x]
  BY <1>1, TokensOfOne
<1>3. {x} \in SUBSET u
  OBVIOUS
<1> QED BY <1>2, <1>3, TokensSplit

LEMMA SumIsTokens ==
  ASSUME NEW S, IsFiniteSet(S), NEW f, \A x \in S : f[x] \in Nat,
         NEW it, \A h : IsSum(h, f, S) => IsSum(it, f, S)
  PROVE  it[S] = SumOver(f, S)
<1> DEFINE g == [u \in SUBSET S |-> Cardinality(Tokens(f, u))]
           C(u) == CHOOSE x \in u : TRUE
<1>1. ASSUME NEW u \in SUBSET S, u # {}
      PROVE  C(u) \in u /\ u \ {C(u)} \in SUBSET S /\ IsFiniteSet(u) /\ g[u] = f[C(u)] + g[u \ {C(u)}]
  <2>1. C(u) \in u
    BY <1>1
  <2>2. IsFiniteSet(u)
    BY FS_Subset
  <2>3. Cardinality(Tokens(f, u)) = f[C(u)] + Cardinality(Tokens(f, u \ {C(u)}))
    <3> HIDE DEF C
    <3>1. \A y \in u : f[y] \in Nat
      OBVIOUS
    <3> QED BY <2>1, <2>2, <3>1, TokensAdd
  <2>4. u \ {C(u)} \in SUBSET S
    OBVIOUS
  <2> HIDE DEF C
  <2> QED BY <2>1, <2>2, <2>3, <2>4
<1>2. g[{}] = 0
  <2>1. Tokens(f, {}) = {}
    BY DEF Tokens
  <2> QED BY <2>1, FS_EmptySet
<1>3. IsSum(g, f, S)
  <2>1. \A u \in SUBSET S : g[u] = IF u = {} THEN 0 ELSE f[C(u)] + g[u \ {C(u)}]
    <3> HIDE DEF g, C
    <3> QED BY <1>1, <1>2
  <2>2. g = [u \in SUBSET S |-> g[u]]
    OBVIOUS
  <2>3. g = [u \in SUBSET S |-> IF u = {} THEN 0 ELSE f[C(u)] + g[u \ {C(u)}]]
    <3> HIDE DEF g, C
    <3> QED BY <2>1, <2>2
  <2> HIDE DEF g
  <2> QED BY <2>3 DEF IsSum
<1>4. IsSum(it, f, S)
  <2> HIDE DEF g
  <2> QED BY <1>3
<1>5. it[{}] = 0 /\ \A u \in SUBSET S : u # {} => it[u] = f[C(u)] + it[u \ {C(u)}]
  <2>1. it = [u \in SUBSET S |-> IF u = {} THEN 0 ELSE f[C(u)] + it[u \ {C(u)}]]
    BY <1>4 DEF IsSum
  <2> HIDE DEF C
  <2> QED BY <2>1
<1> DEFINE T == {n \in Nat : \A u \in SUBSET S : Cardinality(u) = n => it[u] = g[u]}
<1> HIDE DEF g, C
<1>6. 0 \in T
  <2> SUFFICES ASSUME NEW u \in SUBSET S, Cardinality(u) = 0 PROVE it[u] = g[u]
    OBVIOUS
  <2>1. u = {}
    BY FS_Subset, FS_EmptySet
  <2> QED BY <2>1, <1>2, <1>5
<1>7. ASSUME NEW n \in Nat, n \in T PROVE n + 1 \in T
  <2> SUFFICES ASSUME NEW u \in SUBSET S, Cardinality(u) = n + 1 PROVE it[u] = g[u]
    OBVIOUS
  <2>1. IsFiniteSet(u) /\ u # {}
    BY FS_Subset, FS_EmptySet
  <2>2. C(u) \in u /\ u \ {C(u)} \in SUBSET S /\ g[u] = f[C(u)] + g[u \ {C(u)}]
    BY <1>1, <2>1
  <2>3. Cardinality(u \ {C(u)}) = n
    <3>1. Cardinality(u \ {C(u)}) = Cardinality(u) - 1
      BY <2>1, <2>2, FS_RemoveElement
    <3> QED BY <3>1
  <2>4. it[u \ {C(u)}] = g[u \ {C(u)}]
    BY <1>7, <2>2, <2>3
  <2> QED BY <1>5, <2>1, <2>2, <2>4
<1>8. Cardinality(S) \in T
  <2>1. T \subseteq Nat /\ Cardinality(S) \in Nat
    BY FS_CardinalityType
  <2> HIDE DEF T
  <2> QED BY <1>6, <1>7, <2>1, Induct
<1>9. it[S] = g[S] /\ g[S] = Cardinality(Tokens(f, S))
  BY <1>8 DEF g
<1> QED BY <1>9 DEF SumOver

\* A sum of whole numbers, some of them negative, over a finite set is a whole number.
LEMMA SumOfInts ==
  ASSUME NEW S, IsFiniteSet(S), NEW f, \A x \in S : f[x] \in Int,
         NEW it, \A h : IsSum(h, f, S) => IsSum(it, f, S)
  PROVE  it[S] \in Int
<1> DEFINE up == [x \in S |-> IF f[x] > 0 THEN f[x] ELSE 0]
           down == [x \in S |-> IF f[x] > 0 THEN 0 ELSE 0 - f[x]]
           g == [u \in SUBSET S |-> Cardinality(Tokens(up, u)) - Cardinality(Tokens(down, u))]
           C(u) == CHOOSE x \in u : TRUE
<1>0. \A x \in S : up[x] \in Nat /\ down[x] \in Nat /\ f[x] = up[x] - down[x]
  OBVIOUS
<1> HIDE DEF up, down
<1>1. ASSUME NEW u \in SUBSET S, u # {}
      PROVE  C(u) \in u /\ u \ {C(u)} \in SUBSET S /\ IsFiniteSet(u) /\ g[u] = f[C(u)] + g[u \ {C(u)}]
  <2>1. C(u) \in u
    BY <1>1
  <2>2. IsFiniteSet(u) /\ IsFiniteSet(u \ {C(u)}) /\ u \ {C(u)} \in SUBSET S
    BY FS_Subset
  <2> HIDE DEF C
  <2>3. /\ \A y \in u : up[y] \in Nat /\ down[y] \in Nat
        /\ \A y \in u \ {C(u)} : up[y] \in Nat /\ down[y] \in Nat
    BY <1>0
  <2>4. /\ Cardinality(Tokens(up, u)) = up[C(u)] + Cardinality(Tokens(up, u \ {C(u)}))
        /\ Cardinality(Tokens(down, u)) = down[C(u)] + Cardinality(Tokens(down, u \ {C(u)}))
    BY <2>1, <2>2, <2>3, TokensAdd
  <2>5. /\ Cardinality(Tokens(up, u \ {C(u)})) \in Nat
        /\ Cardinality(Tokens(down, u \ {C(u)})) \in Nat
    BY <2>2, <2>3, TokensFinite
  <2>6. g[u] = f[C(u)] + g[u \ {C(u)}]
    BY <1>0, <2>1, <2>2, <2>4, <2>5
  <2> QED BY <2>1, <2>2, <2>6
<1>2. g[{}] = 0
  <2>1. Tokens(up, {}) = {} /\ Tokens(down, {}) = {}
    BY DEF Tokens
  <2> QED BY <2>1, FS_EmptySet
<1>3. IsSum(g, f, S)
  <2>1. \A u \in SUBSET S : g[u] = IF u = {} THEN 0 ELSE f[C(u)] + g[u \ {C(u)}]
    <3> HIDE DEF g, C
    <3> QED BY <1>1, <1>2
  <2>2. g = [u \in SUBSET S |-> g[u]]
    OBVIOUS
  <2>3. g = [u \in SUBSET S |-> IF u = {} THEN 0 ELSE f[C(u)] + g[u \ {C(u)}]]
    <3> HIDE DEF g, C
    <3> QED BY <2>1, <2>2
  <2> HIDE DEF g
  <2> QED BY <2>3 DEF IsSum
<1>4. IsSum(it, f, S)
  <2> HIDE DEF g
  <2> QED BY <1>3
<1>5. it[{}] = 0 /\ \A u \in SUBSET S : u # {} => it[u] = f[C(u)] + it[u \ {C(u)}]
  <2>1. it = [u \in SUBSET S |-> IF u = {} THEN 0 ELSE f[C(u)] + it[u \ {C(u)}]]
    BY <1>4 DEF IsSum
  <2> HIDE DEF C
  <2> QED BY <2>1
<1> DEFINE T == {n \in Nat : \A u \in SUBSET S : Cardinality(u) = n => it[u] \in Int}
<1> HIDE DEF g, C
<1>6. 0 \in T
  <2> SUFFICES ASSUME NEW u \in SUBSET S, Cardinality(u) = 0 PROVE it[u] \in Int
    OBVIOUS
  <2>1. u = {}
    BY FS_Subset, FS_EmptySet
  <2> QED BY <2>1, <1>5
<1>7. ASSUME NEW n \in Nat, n \in T PROVE n + 1 \in T
  <2> SUFFICES ASSUME NEW u \in SUBSET S, Cardinality(u) = n + 1 PROVE it[u] \in Int
    OBVIOUS
  <2>1. IsFiniteSet(u) /\ u # {}
    BY FS_Subset, FS_EmptySet
  <2>2. C(u) \in u /\ u \ {C(u)} \in SUBSET S
    BY <1>1, <2>1
  <2>3. Cardinality(u \ {C(u)}) = n
    <3>1. Cardinality(u \ {C(u)}) = Cardinality(u) - 1
      BY <2>1, <2>2, FS_RemoveElement
    <3> QED BY <3>1
  <2>4. it[u \ {C(u)}] \in Int
    BY <1>7, <2>2, <2>3
  <2> QED BY <1>5, <2>1, <2>2, <2>4
<1>8. Cardinality(S) \in T
  <2>1. T \subseteq Nat /\ Cardinality(S) \in Nat
    BY FS_CardinalityType
  <2> HIDE DEF T
  <2> QED BY <1>6, <1>7, <2>1, Induct
<1> QED BY <1>8

\* One summand changes: the sum changes by as much.
LEMMA SumWithout ==
  ASSUME NEW S, IsFiniteSet(S), NEW f, \A x \in S : f[x] \in Nat,
         NEW g, NEW b \in S, \A x \in S \ {b} : g[x] = f[x], g[b] \in Nat
  PROVE  /\ SumOver(f, S) \in Nat /\ SumOver(g, S) \in Nat
         /\ SumOver(g, S) - g[b] = SumOver(f, S) - f[b]
<1>1. \A x \in S : g[x] \in Nat
  OBVIOUS
<1>2. Tokens(g, S \ {b}) = Tokens(f, S \ {b})
  BY DEF Tokens
<1>3. /\ Cardinality(Tokens(g, S)) = g[b] + Cardinality(Tokens(g, S \ {b}))
      /\ Cardinality(Tokens(f, S)) = f[b] + Cardinality(Tokens(f, S \ {b}))
  BY <1>1, TokensAdd
<1>4. /\ SumOver(f, S) = Cardinality(Tokens(f, S)) /\ SumOver(f, S) \in Nat
      /\ SumOver(g, S) = Cardinality(Tokens(g, S)) /\ SumOver(g, S) \in Nat
  BY <1>1, TokensFinite DEF SumOver
<1>5. IsFiniteSet(S \ {b})
  BY FS_RemoveElement
<1>6. Cardinality(Tokens(f, S \ {b})) \in Nat
  BY <1>5, TokensFinite
<1> QED BY <1>2, <1>3, <1>4, <1>6

\* The summands of a part become nothing: the rest is the sum without them.
LEMMA SumCleared ==
  ASSUME NEW S, IsFiniteSet(S), NEW f, \A x \in S : f[x] \in Nat, NEW B \in SUBSET S,
         NEW g, \A x \in S : g[x] = IF x \in B THEN 0 ELSE f[x]
  PROVE  /\ SumOver(f, S) \in Nat /\ SumOver(g, S) \in Nat /\ SumOver(f, B) \in Nat
         /\ SumOver(f, S) = SumOver(f, B) + SumOver(g, S)
<1>1. \A x \in S : g[x] \in Nat
  OBVIOUS
<1>2. IsFiniteSet(B) /\ \A x \in B : f[x] \in Nat
  BY FS_Subset
<1>3. Tokens(g, S) = Tokens(f, S \ B)
  <2>1. \A x \in B : {x} \X (0 .. g[x] - 1) = {}
    OBVIOUS
  <2>2. \A x \in S \ B : {x} \X (0 .. g[x] - 1) = {x} \X (0 .. f[x] - 1)
    OBVIOUS
  <2> QED BY <2>1, <2>2 DEF Tokens
<1>4. Cardinality(Tokens(f, S)) = Cardinality(Tokens(f, B)) + Cardinality(Tokens(f, S \ B))
  BY TokensSplit
<1>5. /\ SumOver(f, S) = Cardinality(Tokens(f, S)) /\ SumOver(f, S) \in Nat
      /\ SumOver(g, S) = Cardinality(Tokens(g, S)) /\ SumOver(g, S) \in Nat
  BY <1>1, TokensFinite DEF SumOver
<1>6. SumOver(f, B) = Cardinality(Tokens(f, B)) /\ SumOver(f, B) \in Nat
  BY <1>2, TokensFinite DEF SumOver
<1> QED BY <1>3, <1>4, <1>5, <1>6

-----------------------------------------------------------------------------
(* The members of a finite set of numbers, in their order. *)

\* How many members of P there are up to k.
Rank(P, k) == Cardinality({j \in P : j <= k})

\* The i-th member of a finite set of naturals.
Nth(P, i) == CHOOSE k \in P : Rank(P, k) = i

\* The ranks count the members of P from 1 on, in their order.
LEMMA RanksCount ==
  ASSUME NEW P, P \subseteq Int, IsFiniteSet(P)
  PROVE  /\ \A k \in P : Rank(P, k) \in 1 .. Cardinality(P) /\ Nth(P, Rank(P, k)) = k
         /\ \A i \in 1 .. Cardinality(P) : Nth(P, i) \in P /\ Rank(P, Nth(P, i)) = i
         /\ \A i, j \in 1 .. Cardinality(P) : i < j => Nth(P, i) < Nth(P, j)
<1> DEFINE Up(k) == {j \in P : j <= k}
           c == Cardinality(P)
           rank == [k \in P |-> Rank(P, k)]
<1>1. IsFiniteSet(P) /\ c \in Nat
  BY FS_CardinalityType
<1>2. \A k \in P : k \in Int
  OBVIOUS
<1>3. ASSUME NEW k \in P PROVE IsFiniteSet(Up(k)) /\ Rank(P, k) \in 1 .. c /\ k \in Up(k)
  <2>1. IsFiniteSet(Up(k)) /\ Cardinality(Up(k)) <= c /\ k \in Up(k)
    BY <1>1, <1>2, FS_Subset
  <2>2. Cardinality(Up(k)) \in Nat /\ Cardinality(Up(k)) # 0
    BY <2>1, FS_CardinalityType, FS_EmptySet
  <2>3. Rank(P, k) = Cardinality(Up(k))
    BY DEF Rank
  <2> QED BY <1>1, <2>1, <2>2, <2>3
<1>4. ASSUME NEW k \in P, NEW m \in P, k < m PROVE Rank(P, k) < Rank(P, m)
  <2>1. Up(k) \in SUBSET Up(m) /\ m \in Up(m) /\ m \notin Up(k)
    <3>1. k \in Int /\ m \in Int /\ \A j \in P : j \in Int
      BY <1>2
    <3>2. \A j \in P : j <= k => j <= m
      BY <1>4, <3>1
    <3>3. ~ (m <= k) /\ m <= m
      BY <1>4, <3>1
    <3> QED BY <3>2, <3>3
  <2>2. Cardinality(Up(k)) <= Cardinality(Up(m)) /\ Cardinality(Up(m)) # Cardinality(Up(k))
    BY <1>3, <2>1, FS_Subset
  <2>3. Cardinality(Up(k)) \in Nat /\ Cardinality(Up(m)) \in Nat
    BY <1>3, FS_CardinalityType
  <2>4. Rank(P, k) = Cardinality(Up(k)) /\ Rank(P, m) = Cardinality(Up(m))
    BY DEF Rank
  <2> HIDE DEF Up
  <2> QED BY <2>2, <2>3, <2>4
<1>5. ASSUME NEW k \in P, NEW m \in P, Rank(P, k) = Rank(P, m) PROVE k = m
  <2>1. k \in Int /\ m \in Int /\ Rank(P, k) \in Int /\ Rank(P, m) \in Int
    <3>1. Rank(P, k) \in 1 .. c /\ Rank(P, m) \in 1 .. c
      BY <1>3
    <3> HIDE DEF c
    <3> QED BY <1>1, <1>2, <3>1
  <2>2. ASSUME k < m PROVE FALSE
    <3>1. Rank(P, k) < Rank(P, m)
      BY <1>4, <2>2
    <3> QED BY <1>5, <2>1, <3>1
  <2>3. ASSUME m < k PROVE FALSE
    <3>1. Rank(P, m) < Rank(P, k)
      BY <1>4, <2>3
    <3> QED BY <1>5, <2>1, <3>1
  <2> QED BY <2>1, <2>2, <2>3
<1>6. rank \in Surjection(P, 1 .. c)
  <2>1. rank \in [P -> 1 .. c] /\ \A k, m \in P : rank[k] = rank[m] => k = m
    BY <1>3, <1>5
  <2>2. rank \in Injection(P, 1 .. c)
    BY <2>1 DEF Injection, IsInjective
  <2>3. IsFiniteSet(1 .. c) /\ Cardinality(1 .. c) = c
    BY <1>1, FS_Interval
  <2> HIDE DEF rank
  <2> QED BY <1>1, <2>2, <2>3, FS_Injection
<1>7. ASSUME NEW i \in 1 .. c PROVE Nth(P, i) \in P /\ Rank(P, Nth(P, i)) = i
  <2>1. \E k \in P : Rank(P, k) = i
    BY <1>6 DEF Surjection
  <2> QED BY <2>1 DEF Nth
<1>8. ASSUME NEW k \in P PROVE Nth(P, Rank(P, k)) = k
  <2>1. Rank(P, k) \in 1 .. c
    BY <1>3
  <2>2. Nth(P, Rank(P, k)) \in P /\ Rank(P, Nth(P, Rank(P, k))) = Rank(P, k)
    BY <1>7, <2>1
  <2> QED BY <1>5, <2>2
<1>9. ASSUME NEW i \in 1 .. c, NEW j \in 1 .. c, i < j PROVE Nth(P, i) < Nth(P, j)
  <2>1. /\ Nth(P, i) \in P /\ Nth(P, j) \in P
        /\ Rank(P, Nth(P, i)) = i /\ Rank(P, Nth(P, j)) = j
    BY <1>7
  <2>2. Nth(P, i) \in Int /\ Nth(P, j) \in Int
    BY <1>2, <2>1
  <2>3. i \in Nat /\ j \in Nat
    BY <1>1
  <2>4. ASSUME Nth(P, j) < Nth(P, i) PROVE FALSE
    <3>1. Rank(P, Nth(P, j)) < Rank(P, Nth(P, i))
      BY <1>4, <2>1, <2>4
    <3> QED BY <1>9, <2>1, <2>3, <3>1
  <2>5. Nth(P, i) # Nth(P, j)
    BY <1>9, <2>1, <2>3
  <2> QED BY <2>2, <2>4, <2>5
<1> HIDE DEF rank, Up
<1> QED BY <1>1, <1>3, <1>7, <1>8, <1>9

\* For a set of places.
LEMMA RankCounts ==
  ASSUME NEW n \in Nat, NEW P, P \subseteq 1 .. n
  PROVE  /\ IsFiniteSet(P) /\ Cardinality(P) \in 0 .. n
         /\ \A k \in P : Rank(P, k) \in 1 .. Cardinality(P) /\ Nth(P, Rank(P, k)) = k
         /\ \A i \in 1 .. Cardinality(P) : Nth(P, i) \in P /\ Rank(P, Nth(P, i)) = i
         /\ \A i, j \in 1 .. Cardinality(P) : i < j => Nth(P, i) < Nth(P, j)
<1>1. IsFiniteSet(1 .. n) /\ Cardinality(1 .. n) = n
  BY FS_Interval
<1>2. IsFiniteSet(P) /\ Cardinality(P) <= Cardinality(1 .. n)
  BY <1>1, FS_Subset
<1>3. Cardinality(P) \in Nat /\ P \subseteq Int
  BY <1>2, FS_CardinalityType
<1>4. Cardinality(P) \in 0 .. n
  BY <1>1, <1>2, <1>3
<1> QED BY <1>2, <1>3, <1>4, RanksCount

=============================================================================
