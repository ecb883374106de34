---------------------------- MODULE Feeds_proofs ----------------------------
(***************************************************************************)
(* What the feeds of the venue promise, for any number of                  *)
(* messages, calls and candles: one part per component, each with the      *)
(* inductive invariant it needs.                                           *)
(***************************************************************************)
EXTENDS Feeds, SequenceTheorems, Induction

(***************************************************************************)
(* The market stream keeps one socket until a close is taken for the       *)
(* wrong socket's: whatever opens, closes and fails in between.            *)
(***************************************************************************)

StreamSpec == StreamInit /\ [][StreamNext]_streamVars

Phases == {"connecting", "open", "closing", "closed"}
Socket(U) == [phase : Phases, url : U]

\* The sockets and the one that is tracked; what their URLs name does not matter here.
SocketsOK(s, k) == \E U : s \in Seq(Socket(U)) /\ k \in 0 .. Len(s)

\* Until a late close is mistaken, only the tracked socket is live, nothing but
\* the named timer is pending, and that one only while there is no socket; a
\* stopped stream tracks none.
OnlyTracked ==
  /\ \A i \in DOMAIN sockets : Live(i) => i = socket
  /\ orphans = 0
  /\ timer => socket = 0 /\ ~stopped
  /\ stopped => socket = 0

StreamInv ==
  /\ SocketsOK(sockets, socket) /\ timer \in BOOLEAN /\ stopped \in BOOLEAN
  /\ ~lateClose => OnlyTracked

LEMMA SocketsOKFacts ==
  ASSUME SocketsOK(sockets, socket)
  PROVE  /\ Len(sockets) \in Nat /\ DOMAIN sockets = 1 .. Len(sockets)
         /\ socket \in 0 .. Len(sockets)
BY DEF SocketsOK

\* One socket goes into another phase.
LEMMA PhaseChange ==
  ASSUME SocketsOK(sockets, socket), NEW i \in DOMAIN sockets, NEW p \in Phases,
         NEW r, r = [sockets EXCEPT ![i].phase = p]
  PROVE  /\ SocketsOK(r, socket) /\ Len(r) = Len(sockets) /\ DOMAIN r = DOMAIN sockets
         /\ r[i].phase = p /\ \A j \in DOMAIN sockets \ {i} : r[j] = sockets[j]
<1>1. PICK U : sockets \in Seq(Socket(U)) /\ socket \in 0 .. Len(sockets)
  BY DEF SocketsOK
<1>2. sockets[i] \in Socket(U)
  BY <1>1
<1>3. [sockets[i] EXCEPT !.phase = p] \in Socket(U)
  BY <1>2 DEF Socket
<1>4. r \in Seq(Socket(U)) /\ Len(r) = Len(sockets)
  BY <1>1, <1>3
<1>5. r[i].phase = p
  BY <1>1, <1>2 DEF Socket
<1> QED BY <1>1, <1>4, <1>5 DEF SocketsOK

LEMMA ClosingFacts ==
  ASSUME SocketsOK(sockets, socket), NEW r, r = Closing(socket)
  PROVE  /\ SocketsOK(r, socket) /\ Len(r) = Len(sockets) /\ DOMAIN r = DOMAIN sockets
         /\ \A j \in DOMAIN sockets \ {socket} : r[j] = sockets[j]
         /\ socket \in DOMAIN r => r[socket].phase \notin {"connecting", "open"}
<1>1. CASE socket # 0 /\ Live(socket)
  <2>1. socket \in DOMAIN sockets /\ "closing" \in Phases
    BY <1>1, SocketsOKFacts DEF Phases
  <2>2. r = [sockets EXCEPT ![socket].phase = "closing"]
    BY <1>1 DEF Closing
  <2>3. /\ SocketsOK(r, socket) /\ Len(r) = Len(sockets) /\ DOMAIN r = DOMAIN sockets
        /\ r[socket].phase = "closing" /\ \A j \in DOMAIN sockets \ {socket} : r[j] = sockets[j]
    BY <2>1, <2>2, PhaseChange
  <2> QED BY <2>3
<1>2. CASE ~ (socket # 0 /\ Live(socket))
  BY <1>2, SocketsOKFacts DEF Closing, Live
<1> QED BY <1>1, <1>2

\* connect() adds a socket and tracks it.
LEMMA ConnectedFacts ==
  ASSUME NEW r, NEW k, SocketsOK(r, k), Len(r) = Len(sockets), DOMAIN r = DOMAIN sockets, Connected(r),
         Len(sockets) \in Nat
  PROVE  /\ SocketsOK(sockets, socket)' /\ DOMAIN sockets' = DOMAIN sockets \union {socket'}
         /\ socket' # 0 /\ socket' \notin DOMAIN sockets
         /\ \A j \in DOMAIN sockets : sockets'[j] = r[j]
<1>1. PICK U : r \in Seq(Socket(U))
  BY DEF SocketsOK
<1> DEFINE V == U \union {watched'}
           s == [phase |-> "connecting", url |-> watched']
<1>2. r \in Seq(Socket(V)) /\ s \in Socket(V)
  <2>1. Socket(U) \subseteq Socket(V)
    BY DEF Socket
  <2>2. s \in Socket(V)
    BY DEF Socket, Phases
  <2> QED BY <1>1, <2>1, <2>2, SeqMonotonic
<1>3. sockets' = Append(r, s) /\ socket' = Len(sockets) + 1
  BY DEF Connected
<1> HIDE DEF s, V
<1>4. /\ Append(r, s) \in Seq(Socket(V)) /\ Len(Append(r, s)) = Len(r) + 1
      /\ \A j \in 1 .. Len(r) : Append(r, s)[j] = r[j]
  BY <1>2, AppendProperties
<1>5. DOMAIN Append(r, s) = 1 .. (Len(r) + 1) /\ DOMAIN r = 1 .. Len(r)
  BY <1>2, <1>4
<1>6. SocketsOK(Append(r, s), Len(r) + 1)
  BY <1>4 DEF SocketsOK
<1> QED BY <1>3, <1>4, <1>5, <1>6

LEMMA StreamInvStep ==
  ASSUME StreamInv, [StreamNext]_streamVars
  PROVE  StreamInv'
<1>0. /\ SocketsOK(sockets, socket)
      /\ Len(sockets) \in Nat /\ DOMAIN sockets = 1 .. Len(sockets) /\ socket \in 0 .. Len(sockets)
  BY SocketsOKFacts DEF StreamInv
<1>1. ASSUME UNCHANGED <<sockets, socket, timer, orphans, stopped, lateClose>> PROVE StreamInv'
  BY <1>1 DEF StreamInv, OnlyTracked, Live
<1>2. ASSUME NEW c \in Callers, Subscribe(c) \/ Seeded(c) PROVE StreamInv'
  BY <1>1, <1>2 DEF Subscribe, Seeded
<1>3. ASSUME NEW c \in Callers, Resubscribe(c) PROVE StreamInv'
  <2> DEFINE r == Closing(socket)
  <2>1. /\ SocketsOK(r, socket) /\ Len(r) = Len(sockets) /\ DOMAIN r = DOMAIN sockets
        /\ \A j \in DOMAIN sockets \ {socket} : r[j] = sockets[j]
        /\ socket \in DOMAIN r => r[socket].phase \notin {"connecting", "open"}
    BY <1>0, ClosingFacts
  <2>2. Connected(r) /\ stopped' = FALSE /\ timer' = FALSE /\ UNCHANGED <<orphans, lateClose>>
    BY <1>3 DEF Resubscribe
  <2> HIDE DEF r
  <2>3. /\ SocketsOK(sockets, socket)' /\ DOMAIN sockets' = DOMAIN sockets \union {socket'}
        /\ \A j \in DOMAIN sockets : sockets'[j] = r[j]
    BY <1>0, <2>1, <2>2, ConnectedFacts
  <2>4. ~ lateClose => \A j \in DOMAIN sockets : ~ (sockets'[j].phase \in {"connecting", "open"})
    BY <2>1, <2>3 DEF StreamInv, OnlyTracked, Live
  <2> QED BY <2>2, <2>3, <2>4 DEF StreamInv, OnlyTracked, Live
<1>4. CASE Reconnect
  <2>1. Connected(sockets) /\ UNCHANGED <<stopped, lateClose>>
    BY <1>4 DEF Reconnect
  <2>2. /\ SocketsOK(sockets, socket)' /\ DOMAIN sockets' = DOMAIN sockets \union {socket'}
        /\ \A j \in DOMAIN sockets : sockets'[j] = sockets[j]
    BY <1>0, <2>1, ConnectedFacts
  <2>3. timer' \in BOOLEAN
    BY <1>4 DEF Reconnect, StreamInv
  <2>4. ASSUME ~ lateClose PROVE OnlyTracked'
    <3>1. socket = 0 /\ ~ stopped /\ orphans = 0 /\ timer
      BY <1>4, <2>4 DEF Reconnect, StreamInv, OnlyTracked
    <3>2. timer' = FALSE /\ orphans' = 0
      BY <1>4, <3>1 DEF Reconnect
    <3>3. \A j \in DOMAIN sockets : ~ Live(j)
      BY <1>0, <2>4, <3>1 DEF StreamInv, OnlyTracked
    <3> QED BY <2>1, <2>2, <3>1, <3>2, <3>3 DEF OnlyTracked, Live
  <2> QED BY <2>1, <2>2, <2>3, <2>4 DEF StreamInv
<1>5. ASSUME NEW i \in DOMAIN sockets, OnOpen(i) PROVE StreamInv'
  <2>1. sockets' = [sockets EXCEPT ![i].phase = "open"] /\ "open" \in Phases
    BY <1>5 DEF OnOpen, Phases
  <2>2. /\ SocketsOK(sockets', socket) /\ DOMAIN sockets' = DOMAIN sockets
        /\ \A j \in DOMAIN sockets \ {i} : sockets'[j] = sockets[j]
    BY <1>0, <2>1, PhaseChange
  <2>3. UNCHANGED <<socket, timer, orphans, stopped, lateClose>> /\ Live(i)
    BY <1>5 DEF OnOpen, Live
  <2> QED BY <2>2, <2>3 DEF StreamInv, OnlyTracked, Live
<1>6. ASSUME NEW i \in DOMAIN sockets, OnClose(i) PROVE StreamInv'
  <2> DEFINE gone == [phase |-> "closed", url |-> {}]
  <2>1. /\ sockets' = [sockets EXCEPT ![i] = gone] /\ socket' = 0 /\ stopped' = stopped
    BY <1>6 DEF OnClose
  <2>2. DOMAIN sockets' = DOMAIN sockets /\ sockets'[i] = gone
        /\ \A j \in DOMAIN sockets \ {i} : sockets'[j] = sockets[j]
    BY <2>1
  <2>3. SocketsOK(sockets', 0)
    <3>1. PICK U : sockets \in Seq(Socket(U))
      BY <1>0 DEF SocketsOK
    <3> DEFINE V == U \union {{}}
    <3>2. Socket(U) \subseteq Socket(V) /\ gone \in Socket(V)
      BY DEF Socket, Phases
    <3>3. sockets \in Seq(Socket(V))
      BY <3>1, <3>2, SeqMonotonic
    <3> HIDE DEF V, gone
    <3>4. sockets' \in Seq(Socket(V)) /\ Len(sockets') = Len(sockets)
      BY <2>1, <3>2, <3>3
    <3> QED BY <1>0, <3>4 DEF SocketsOK
  <2>4. ~ Live(i)'
    BY <2>2 DEF Live
  <2>5. timer' \in BOOLEAN
    BY <1>6 DEF OnClose, StreamInv
  <2>6. ASSUME ~ lateClose' PROVE OnlyTracked'
    <3>1. ~ lateClose /\ (stopped \/ socket = i)
      BY <1>6, <2>6 DEF OnClose
    <3>2. OnlyTracked
      BY <3>1 DEF StreamInv
    <3>3. \A j \in DOMAIN sockets \ {i} : ~ Live(j)
      BY <1>0, <3>1, <3>2 DEF OnlyTracked
    <3>4. \A j \in DOMAIN sockets' : ~ Live(j)'
      BY <2>2, <2>4, <3>3 DEF Live
    <3>5. orphans' = 0 /\ (timer' => ~ stopped)
      BY <1>0, <1>6, <3>1, <3>2 DEF OnClose, OnlyTracked, StreamInv
    <3> QED BY <2>1, <3>4, <3>5 DEF OnlyTracked
  <2> QED BY <2>1, <2>3, <2>5, <2>6 DEF StreamInv
<1>7. CASE StopStream
  <2>1. /\ sockets' = Closing(socket) /\ socket' = 0 /\ stopped' = TRUE /\ timer' = FALSE
        /\ UNCHANGED <<orphans, lateClose>>
    BY <1>7 DEF StopStream
  <2>2. /\ SocketsOK(sockets', socket) /\ Len(sockets') = Len(sockets) /\ DOMAIN sockets' = DOMAIN sockets
        /\ \A j \in DOMAIN sockets \ {socket} : sockets'[j] = sockets[j]
        /\ socket \in DOMAIN sockets' => sockets'[socket].phase \notin {"connecting", "open"}
    BY <1>0, <2>1, ClosingFacts
  <2>3. SocketsOK(sockets, socket)'
    BY <1>0, <2>1, <2>2 DEF SocketsOK
  <2>4. ~ lateClose => \A j \in DOMAIN sockets' : ~ Live(j)'
    BY <2>2 DEF StreamInv, OnlyTracked, Live
  <2> QED BY <2>1, <2>3, <2>4 DEF StreamInv, OnlyTracked
<1>8. CASE UNCHANGED streamVars
  BY <1>1, <1>8 DEF streamVars
<1> QED BY <1>2, <1>3, <1>4, <1>5, <1>6, <1>7, <1>8 DEF StreamNext

\* As long as no late close of a replaced socket is taken for the current one's,
\* there is never a second live socket or a second timer, and stop() is final,
\* whatever the calls of subscribe, the drops and the retries do
\* (market-stream.ts:136-230).
THEOREM StreamKeepsOneFeed == StreamSpec => []OneFeed
<1>1. StreamInit => StreamInv
  <2> SUFFICES ASSUME StreamInit PROVE StreamInv
    OBVIOUS
  <2>1. sockets = <<>> /\ socket = 0 /\ <<>> \in Seq(Socket({})) /\ Len(sockets) = 0 /\ DOMAIN sockets = {}
    BY DEF StreamInit
  <2>2. SocketsOK(sockets, socket)
    BY <2>1 DEF SocketsOK
  <2> QED BY <2>1, <2>2 DEF StreamInit, StreamInv, OnlyTracked
<1>2. StreamInv /\ [StreamNext]_streamVars => StreamInv'
  BY StreamInvStep
<1>3. StreamInv => OneFeed
  <2> SUFFICES ASSUME StreamInv, ~ lateClose
               PROVE  /\ Cardinality({i \in DOMAIN sockets : Live(i)}) + (IF timer THEN 1 ELSE 0) + orphans <= 1
                      /\ stopped => ~timer /\ orphans = 0 /\ \A i \in DOMAIN sockets : ~Live(i)
    BY DEF OneFeed
  <2> DEFINE live == {i \in DOMAIN sockets : Live(i)}
  <2>1. OnlyTracked /\ DOMAIN sockets = 1 .. Len(sockets) /\ Len(sockets) \in Nat
    BY SocketsOKFacts DEF StreamInv
  <2>2. socket = 0 => live = {}
    BY <2>1 DEF OnlyTracked
  <2>3. live \subseteq {socket}
    BY <2>1 DEF OnlyTracked
  <2>4. Cardinality(live) \in Nat /\ Cardinality(live) <= 1
    <3>1. IsFiniteSet({socket}) /\ Cardinality({socket}) = 1
      BY FS_Singleton
    <3>2. IsFiniteSet(live) /\ Cardinality(live) <= Cardinality({socket})
      BY <2>3, <3>1, FS_Subset
    <3> QED BY <3>1, <3>2, FS_CardinalityType
  <2>5. socket = 0 => Cardinality(live) = 0
    BY <2>2, FS_EmptySet
  <2>6. stopped => \A i \in DOMAIN sockets : ~ Live(i)
    BY <2>1, <2>2 DEF OnlyTracked
  <2> HIDE DEF live
  <2>7. Cardinality(live) + (IF timer THEN 1 ELSE 0) + orphans <= 1
    BY <2>1, <2>4, <2>5 DEF OnlyTracked
  <2> QED BY <2>1, <2>6, <2>7 DEF OnlyTracked, live
<1> QED BY <1>1, <1>2, <1>3, PTL DEF StreamSpec

(***************************************************************************)
(* The ladder of a symbol holds the newest received candles: trimming is   *)
(* the greatest members of a set, so trimming twice is trimming once.      *)
(***************************************************************************)

StoreSpec == StoreInit /\ [][StoreNext]_storeVars

\* The members of R after k.
After(R, k) == {j \in R : j > k}
Some(R) == R \subseteq Int /\ IsFiniteSet(R)

LEMMA Afters ==
  ASSUME NEW R, Some(R), NEW k
  PROVE  /\ IsFiniteSet(After(R, k)) /\ Cardinality(After(R, k)) \in Nat
         /\ \A S \in SUBSET After(R, k) :
              IsFiniteSet(S) /\ Cardinality(S) \in Nat /\ Cardinality(S) <= Cardinality(After(R, k))
<1>1. After(R, k) \in SUBSET R
  BY DEF After
<1>2. IsFiniteSet(After(R, k))
  BY <1>1, FS_Subset DEF Some
<1>3. \A S \in SUBSET After(R, k) : IsFiniteSet(S) /\ Cardinality(S) <= Cardinality(After(R, k))
  BY <1>2, FS_Subset
<1> QED BY <1>2, <1>3, FS_CardinalityType

LEMMA Kept ==
  ASSUME NEW R, NEW k
  PROVE  k \in TrimOldest(R) <=> k \in R /\ Cardinality(After(R, k)) < CandleCap
BY DEF TrimOldest, After

\* trimOldest keeps CandleCap candles, or all of fewer.
LEMMA TrimFills ==
  ASSUME NEW R, Some(R), Cardinality(R) >= CandleCap
  PROVE  Cardinality(TrimOldest(R)) = CandleCap
<1>0. CandleCap \in Nat \ {0}
  BY StoreAssumption
<1> DEFINE T == {n \in Nat : \A Q \in SUBSET Int :
                   IsFiniteSet(Q) /\ Cardinality(Q) = CandleCap + n
                     => Cardinality(TrimOldest(Q)) = CandleCap}
<1>1. 0 \in T
  <2> SUFFICES ASSUME NEW Q \in SUBSET Int, IsFiniteSet(Q), Cardinality(Q) = CandleCap
               PROVE  Cardinality(TrimOldest(Q)) = CandleCap
    BY <1>0
  <2>1. ASSUME NEW k \in Q PROVE Cardinality(After(Q, k)) < CandleCap
    <3>1. IsFiniteSet(Q \ {k}) /\ Cardinality(Q \ {k}) = CandleCap - 1
      BY <2>1, FS_RemoveElement
    <3>2. After(Q, k) \in SUBSET (Q \ {k})
      BY <2>1 DEF After
    <3>3. Cardinality(After(Q, k)) <= CandleCap - 1 /\ Cardinality(After(Q, k)) \in Nat
      BY <3>1, <3>2, FS_Subset, FS_CardinalityType
    <3> QED BY <1>0, <3>3
  <2>2. TrimOldest(Q) = Q
    BY <2>1 DEF TrimOldest, After
  <2> QED BY <2>2
<1>2. ASSUME NEW n \in Nat, n \in T PROVE n + 1 \in T
  <2> SUFFICES ASSUME NEW Q \in SUBSET Int, IsFiniteSet(Q), Cardinality(Q) = CandleCap + (n + 1)
               PROVE  Cardinality(TrimOldest(Q)) = CandleCap
    OBVIOUS
  <2>1. Q # {}
    BY <1>0, FS_EmptySet
  <2>2. PICK m \in Q : \A y \in Q : m <= y
    BY <2>1, LeastOfFinite
  <2> DEFINE P == Q \ {m}
  <2>3. IsFiniteSet(P) /\ Cardinality(P) = CandleCap + n /\ P \in SUBSET Int
    BY <1>0, <2>2, FS_RemoveElement
  <2>4. Cardinality(TrimOldest(P)) = CandleCap
    BY <1>2, <2>3
  <2>5. After(Q, m) = P
    <3>1. \A y \in Q : y \in Int /\ m \in Int /\ m <= y
      BY <2>2
    <3>2. \A y \in Q : y > m <=> y # m
      BY <3>1
    <3> QED BY <3>2 DEF After
  <2>6. m \notin TrimOldest(Q)
    BY <1>0, <2>3, <2>5 DEF TrimOldest, After
  <2>7. \A k \in P : After(Q, k) = After(P, k)
    BY <2>2 DEF After
  <2>8. TrimOldest(Q) = TrimOldest(P)
    BY <2>6, <2>7 DEF TrimOldest, After
  <2> QED BY <2>4, <2>8
<1> HIDE DEF T
<1>3. T = Nat
  <2>1. T \subseteq Nat
    BY DEF T
  <2> QED BY <1>1, <1>2, <2>1, Induct
<1>4. Cardinality(R) - CandleCap \in T /\ Cardinality(R) = CandleCap + (Cardinality(R) - CandleCap)
  BY <1>0, <1>3, FS_CardinalityType DEF Some
<1> QED BY <1>4 DEF T, Some

\* Trimming loses nothing a later trim would keep.
LEMMA TrimTwice ==
  ASSUME NEW R, NEW K, Some(R), Some(K)
  PROVE  TrimOldest(TrimOldest(R) \union K) = TrimOldest(R \union K)
<1> DEFINE L == TrimOldest(R)
           M == L \union K
           N == R \union K
<1>0. CandleCap \in Nat \ {0}
  BY StoreAssumption
<1>1. L \subseteq R /\ Some(L) /\ Some(M) /\ Some(N)
  <2>1. L \in SUBSET R
    BY DEF TrimOldest
  <2> QED BY <2>1, FS_Subset, FS_Union DEF Some
\* What was dropped lies before CandleCap candles that were kept.
<1>2. ASSUME NEW j \in R \ L
      PROVE  L \subseteq After(M, j) /\ Cardinality(L) = CandleCap
  <2>1. Cardinality(After(R, j)) >= CandleCap
    <3>1. Cardinality(After(R, j)) \in Nat /\ ~ (Cardinality(After(R, j)) < CandleCap)
      BY <1>2, Afters, Kept
    <3> QED BY <1>0, <3>1
  <2>2. Cardinality(R) >= CandleCap
    <3>1. After(R, j) \in SUBSET R
      BY DEF After
    <3>2. Cardinality(After(R, j)) <= Cardinality(R)
      BY <3>1, FS_Subset DEF Some
    <3>3. Cardinality(R) \in Nat /\ Cardinality(After(R, j)) \in Nat
      BY FS_CardinalityType, Afters DEF Some
    <3> QED BY <1>0, <2>1, <3>2, <3>3
  <2>3. Cardinality(L) = CandleCap
    BY <2>2, TrimFills
  <2>4. ASSUME NEW l \in L PROVE l > j
    <3> SUFFICES ASSUME ~ (l > j) PROVE FALSE
      OBVIOUS
    <3>1. l \in Int /\ j \in Int /\ l <= j
      BY <1>1, <1>2, <2>4 DEF Some
    <3>2. \A y \in R : y \in Int /\ (y > j => y > l)
      BY <3>1 DEF Some
    <3>3. After(R, j) \in SUBSET After(R, l)
      BY <3>2 DEF After
    <3>4. /\ Cardinality(After(R, j)) \in Nat /\ Cardinality(After(R, l)) \in Nat
          /\ Cardinality(After(R, j)) <= Cardinality(After(R, l))
      BY <3>3, Afters
    <3>5. Cardinality(After(R, l)) < CandleCap
      BY <2>4, Kept
    <3> QED BY <1>0, <2>1, <3>4, <3>5
  <2> QED BY <2>3, <2>4 DEF After
<1> HIDE DEF L
<1>3. ASSUME NEW k \in TrimOldest(M) PROVE k \in TrimOldest(N)
  <2>1. k \in M /\ Cardinality(After(M, k)) < CandleCap
    BY <1>3 DEF TrimOldest, After
  <2>2. ASSUME NEW j \in N \ M, j > k PROVE FALSE
    <3>1. j \in R \ L
      BY <2>2
    <3>2. L \subseteq After(M, j) /\ Cardinality(L) = CandleCap
      BY <1>2, <3>1
    <3>3. L \in SUBSET After(M, k)
      BY <1>1, <2>1, <2>2, <3>1, <3>2 DEF After, Some
    <3>4. CandleCap <= Cardinality(After(M, k))
      BY <1>1, <3>2, <3>3, Afters
    <3> QED BY <1>0, <1>1, <2>1, <3>4, Afters
  <2>3. After(N, k) = After(M, k)
    BY <1>1, <2>2 DEF After
  <2> QED BY <1>1, <2>1, <2>3 DEF TrimOldest, After
<1>4. ASSUME NEW k \in TrimOldest(N) PROVE k \in TrimOldest(M)
  <2>1. k \in N /\ Cardinality(After(N, k)) < CandleCap
    BY <1>4 DEF TrimOldest, After
  <2>2. ASSUME NEW S \in SUBSET After(N, k) PROVE Cardinality(S) < CandleCap
    <3>1. Cardinality(S) \in Nat /\ Cardinality(S) <= Cardinality(After(N, k))
      BY <1>1, Afters
    <3> QED BY <1>0, <1>1, <2>1, <3>1, Afters
  <2>3. Cardinality(After(R, k)) < CandleCap /\ Cardinality(After(M, k)) < CandleCap
    BY <1>1, <2>2 DEF After
  <2>4. k \in R => k \in L
    BY <2>3 DEF TrimOldest, After, L
  <2> QED BY <2>1, <2>3, <2>4 DEF TrimOldest, After
<1> QED BY <1>3, <1>4 DEF L

\* What has been received, and the candles kept of it.
StoreInv == Some(received) /\ ladder = TrimOldest(received)

LEMMA StretchOfTime ==
  ASSUME NEW a \in Int, NEW t \in Int
  PROVE  Some(Max({0, a})..t)
<1>1. \E x \in {0, a} : \A y \in {0, a} : x >= y
  <2>1. CASE a >= 0
    BY <2>1
  <2>2. CASE ~ (a >= 0)
    BY <2>2
  <2> QED BY <2>1, <2>2
<1>2. Max({0, a}) \in {0, a}
  BY <1>1 DEF Max
<1> QED BY <1>2, FS_Interval DEF Some

LEMMA ReceivedKeeps ==
  ASSUME StoreInv, NEW keys, Some(keys), WithCandles(keys)
  PROVE  StoreInv'
<1>1. TrimOldest(TrimOldest(received) \union keys) = TrimOldest(received \union keys)
  BY TrimTwice DEF StoreInv
<1>2. Some(received \union keys)
  BY FS_Union DEF StoreInv, Some
<1> QED BY <1>1, <1>2 DEF StoreInv, WithCandles

LEMMA StoreInvStep ==
  ASSUME StoreInv, [StoreNext]_storeVars
  PROVE  StoreInv'
<1>1. ASSUME UNCHANGED <<ladder, received>> PROVE StoreInv'
  BY <1>1 DEF StoreInv
<1>2. ASSUME NEW t \in Int, Kline(t) PROVE StoreInv'
  <2>1. Some({t})
    BY FS_Singleton DEF Some
  <2> QED BY <1>2, <2>1, ReceivedKeeps DEF Kline
<1>3. ASSUME NEW r \in asked, Answered(r) PROVE StoreInv'
  <2>1. PICK t \in r.at..now : AnswerKlines(r, t) \/ UNCHANGED <<ladder, received>>
    BY <1>3 DEF Answered, AnswerMicro, AnswerTape, AnswerQuote
  <2>2. CASE AnswerKlines(r, t)
    <3>1. t \in Int /\ t - Seeded300 + 1 \in Int
      BY StoreAssumption
    <3>2. Some(Max({0, t - Seeded300 + 1})..t)
      BY <3>1, StretchOfTime
    <3> QED BY <2>2, <3>2, ReceivedKeeps DEF AnswerKlines
  <2> QED BY <1>1, <2>1, <2>2
<1>4. ASSUME \/ \E t : Trade(t)
             \/ Tick("last") \/ Tick("mark") \/ Quote \/ OneSidedDepth
             \/ \E what : Ask(what)
             \/ \E r : AskFails(r)
             \/ Pass \/ UNCHANGED storeVars
      PROVE  UNCHANGED <<ladder, received>>
  BY <1>4 DEF Trade, Tick, Quote, OneSidedDepth, Ask, AskFails, Pass, storeVars
<1>5. \/ \E t \in Int : Kline(t)
      \/ \E r \in asked : Answered(r)
      \/ \/ \E t : Trade(t)
         \/ Tick("last") \/ Tick("mark") \/ Quote \/ OneSidedDepth
         \/ \E what : Ask(what)
         \/ \E r : AskFails(r)
         \/ Pass \/ UNCHANGED storeVars
  BY DEF StoreNext
<1> QED BY <1>1, <1>2, <1>3, <1>4, <1>5

\* In whatever order the stream and the REST seeds bring candles, the ladder holds
\* the newest CandleCap ever received: a candle trimmed away is never one that a
\* later trim would have kept (market-state-store.ts:77-98).
THEOREM LadderStaysNewest == StoreSpec => []LadderIsNewest
<1>1. StoreInit => StoreInv
  <2>1. TrimOldest({}) = {} /\ IsFiniteSet({})
    BY FS_EmptySet DEF TrimOldest
  <2> QED BY <2>1 DEF StoreInit, StoreInv, Some
<1>2. StoreInv /\ [StoreNext]_storeVars => StoreInv'
  BY StoreInvStep
<1>3. StoreInv => LadderIsNewest
  BY DEF StoreInv, TrimOldest, LadderIsNewest
<1> QED BY <1>1, <1>2, <1>3, PTL DEF StoreSpec

(***************************************************************************)
(* The two writers of a position agree once nothing is under way: an       *)
(* answer asked before a message is not applied over it.                   *)
(***************************************************************************)

AccountSpec == AccountInit /\ [][AccountNext]_accountVars

Message == [kind : {"position", "other"}, size : Sizes, at : Nat]
SnapshotCall == [by : {"resync", "refresh"}, answer : Sizes \union {Nothing}, missed : BOOLEAN]

\* No position is under way; the last one under way is the venue's.
Quiet == \A k \in DOMAIN wire : wire[k].kind # "position"
LastUnderWay(k) ==
  wire[k].kind = "position" /\ \A j \in DOMAIN wire : j > k => wire[j].kind # "position"
WireCurrent == \A k \in DOMAIN wire : LastUnderWay(k) => wire[k].size = held

\* An answer that missed nothing is the venue's position once nothing is under way.
AnswersCurrent ==
  \A k \in DOMAIN calls :
    calls[k].answer # Nothing /\ ~ calls[k].missed /\ Quiet => calls[k].answer = held

AccountInv ==
  /\ moment \in Nat /\ held \in Sizes
  /\ wire \in Seq(Message) /\ calls \in Seq(SnapshotCall)
  /\ link # "up" => wire = <<>>
  /\ link # "none" => attached
  /\ WireCurrent /\ AnswersCurrent
  /\ inStep => link = "up" /\ (Quiet => known = held)

\* Marking calls as missed leaves who asked and what was answered.
LEMMA MarkedCall ==
  ASSUME NEW r \in SnapshotCall, NEW e, NEW q, q = [r EXCEPT !.missed = @ \/ e]
  PROVE  q \in SnapshotCall /\ q.answer = r.answer /\ (~ q.missed => ~ r.missed) /\ (e => q.missed)
<1>1. (r.missed \/ e) \in BOOLEAN
  OBVIOUS
<1>2. \A b \in BOOLEAN : /\ [r EXCEPT !.missed = b] \in SnapshotCall
                        /\ [r EXCEPT !.missed = b].answer = r.answer
                        /\ [r EXCEPT !.missed = b].missed = b
  BY DEF SnapshotCall
<1>3. q = [r EXCEPT !.missed = r.missed \/ e]
  OBVIOUS
<1>4. q \in SnapshotCall /\ q.answer = r.answer /\ q.missed = (r.missed \/ e)
  BY <1>1, <1>2, <1>3, Zenon
<1> QED BY <1>4

LEMMA AllAsked ==
  ASSUME NEW c \in Seq(SnapshotCall), NEW d, DOMAIN d = DOMAIN c, d = [k \in DOMAIN c |-> d[k]],
         \A k \in DOMAIN c : d[k] \in SnapshotCall
  PROVE  d \in Seq(SnapshotCall)
<1>1. DOMAIN c = 1 .. Len(c) /\ Len(c) \in Nat
  BY LenProperties
<1>2. d \in [1 .. Len(c) -> SnapshotCall]
  BY <1>1
<1> QED BY <1>1, <1>2, SeqDef

LEMMA RemovedIsThere ==
  ASSUME NEW S, NEW s \in Seq(S), NEW k \in 1 .. Len(s)
  PROVE  /\ RemoveAt(s, k) \in Seq(S)
         /\ \A j \in DOMAIN RemoveAt(s, k) : \E i \in DOMAIN s : RemoveAt(s, k)[j] = s[i]
<1> DEFINE a == SubSeq(s, 1, k - 1)
           b == SubSeq(s, k + 1, Len(s))
<1>1. /\ a \in Seq(S) /\ Len(a) = k - 1 /\ \A j \in 1 .. Len(a) : a[j] = s[j]
  BY LenProperties, SubSeqProperties
<1>2. /\ b \in Seq(S) /\ Len(b) = Len(s) - k /\ \A j \in 1 .. Len(b) : b[j] = s[k + j]
  BY LenProperties, SubSeqProperties
<1>3. RemoveAt(s, k) = a \o b
  BY DEF RemoveAt
<1> HIDE DEF a, b
<1>4. /\ a \o b \in Seq(S) /\ Len(a \o b) = Len(s) - 1
      /\ \A j \in 1 .. Len(a \o b) : (a \o b)[j] = IF j <= Len(a) THEN a[j] ELSE b[j - Len(a)]
  <2>1. /\ a \o b \in Seq(S) /\ Len(a \o b) = Len(a) + Len(b)
        /\ \A j \in 1 .. (Len(a) + Len(b)) : (a \o b)[j] = IF j <= Len(a) THEN a[j] ELSE b[j - Len(a)]
    BY <1>1, <1>2, ConcatProperties
  <2>2. Len(a) + Len(b) = Len(s) - 1
    BY <1>1, <1>2, LenProperties
  <2> QED BY <2>1, <2>2
<1>5. ASSUME NEW j \in DOMAIN (a \o b) PROVE \E i \in DOMAIN s : (a \o b)[j] = s[i]
  <2>0. j \in 1 .. (Len(s) - 1) /\ Len(s) \in Nat /\ DOMAIN s = 1 .. Len(s)
    BY <1>4, <1>5
  <2>1. CASE j <= Len(a)
    <3>1. j \in 1 .. Len(a) /\ j \in 1 .. Len(s) /\ j \in 1 .. Len(a \o b)
      BY <1>1, <1>4, <2>0, <2>1
    <3>2. (a \o b)[j] = s[j]
      BY <1>1, <1>4, <2>1, <3>1
    <3> QED BY <2>0, <3>1, <3>2
  <2>2. CASE ~ (j <= Len(a))
    <3>1. j - Len(a) \in 1 .. Len(b) /\ k + (j - Len(a)) \in 1 .. Len(s)
      BY <1>1, <1>2, <2>0, <2>2
    <3>2. (a \o b)[j] = s[k + (j - Len(a))]
      BY <1>2, <1>4, <2>0, <2>2, <3>1
    <3> QED BY <2>0, <3>1, <3>2
  <2> QED BY <2>1, <2>2
<1> QED BY <1>3, <1>4, <1>5

\* A step that leaves venue, wire and calls alone.
LEMMA AccountKept ==
  ASSUME AccountInv, UNCHANGED <<held, wire, calls, inStep, known>>, moment' \in Nat,
         link' # "up" => wire = <<>>, inStep => link' = "up",
         link' # "none" => attached'
  PROVE  AccountInv'
BY DEF AccountInv, WireCurrent, AnswersCurrent, Quiet, LastUnderWay

LEMMA AskedKept ==
  ASSUME AccountInv, UNCHANGED <<held, wire, inStep, known, moment>>, NEW by \in {"resync", "refresh"},
         Asking(by), link' # "up" => wire = <<>>, inStep => link' = "up",
         link' # "none" => attached'
  PROVE  AccountInv'
<1> DEFINE new == [by |-> by, answer |-> Nothing, missed |-> FALSE]
<1>1. new \in SnapshotCall /\ new.answer = Nothing
  BY DEF SnapshotCall
<1>2. calls \in Seq(SnapshotCall) /\ calls' = Append(calls, new)
  BY DEF Asking, AccountInv
<1> HIDE DEF new
<1>3. /\ calls' \in Seq(SnapshotCall)
      /\ \A k \in DOMAIN calls' : calls'[k] = new \/ (k \in DOMAIN calls /\ calls'[k] = calls[k])
  BY <1>1, <1>2, AppendProperties
<1>4. AnswersCurrent'
  BY <1>1, <1>3 DEF AccountInv, AnswersCurrent, Quiet
<1> QED BY <1>3, <1>4 DEF AccountInv, WireCurrent, Quiet, LastUnderWay

\* Losing the socket loses what was under way, and marks what had been answered.
LEMMA CutKeeps ==
  ASSUME AccountInv, Cut, link' # "none" => attached'
  PROVE  AccountInv'
<1>1. calls \in Seq(SnapshotCall)
  BY DEF AccountInv
<1>2. /\ calls' \in Seq(SnapshotCall)
      /\ \A k \in DOMAIN calls' : calls'[k].answer # Nothing => calls'[k].missed
  <2>1. calls' = [k \in DOMAIN calls |-> [calls[k] EXCEPT !.missed = @ \/ CallAnswered(k)]]
    BY DEF Cut
  <2>2. ASSUME NEW k \in DOMAIN calls
        PROVE  /\ calls'[k] \in SnapshotCall
               /\ calls'[k].answer # Nothing => calls'[k].missed
    <3>1. calls'[k] = [calls[k] EXCEPT !.missed = @ \/ CallAnswered(k)] /\ calls[k] \in SnapshotCall
      BY <1>1, <2>1
    <3>2. calls'[k] \in SnapshotCall /\ calls'[k].answer = calls[k].answer
          /\ (CallAnswered(k) => calls'[k].missed)
      BY <3>1, MarkedCall
    <3> QED BY <3>2 DEF CallAnswered
  <2>3. calls' \in Seq(SnapshotCall)
    BY <1>1, <2>1, <2>2, AllAsked
  <2> QED BY <2>1, <2>2, <2>3
<1>3. wire' = <<>> /\ <<>> \in Seq(Message) /\ DOMAIN wire' = {}
  BY DEF Cut
<1> QED BY <1>2, <1>3 DEF Cut, AccountInv, WireCurrent, AnswersCurrent

\* A message joins the ones under way.
LEMMA SentFacts ==
  ASSUME AccountInv, NEW m \in Message, Sent(m), link = "up"
  PROVE  /\ wire' \in Seq(Message) /\ DOMAIN wire' = DOMAIN wire \union {Len(wire) + 1}
         /\ wire'[Len(wire) + 1] = m /\ \A k \in DOMAIN wire : wire'[k] = wire[k] /\ k < Len(wire) + 1
         /\ \A k \in DOMAIN wire : k \in Int
<1>1. wire \in Seq(Message) /\ wire' = Append(wire, m)
  BY DEF AccountInv, Sent
<1> QED BY <1>1, AppendProperties

LEMMA VenueMovesKeeps ==
  ASSUME AccountInv, VenueMoves
  PROVE  AccountInv'
<1>1. PICK s \in Sizes \ {held} : held' = s /\ Sent([kind |-> "position", size |-> s, at |-> moment])
  BY DEF VenueMoves
<1> DEFINE m == [kind |-> "position", size |-> s, at |-> moment]
<1>2. m \in Message /\ m.kind = "position" /\ m.size = s
  BY DEF Message, AccountInv
<1> HIDE DEF m
<1>3. /\ inStep' = (inStep /\ link = "up") /\ UNCHANGED <<moment, link, attached, known>>
      /\ calls' = [k \in DOMAIN calls |->
           [calls[k] EXCEPT !.missed = @ \/ (CallAnswered(k) /\ link # "up")]]
  BY DEF VenueMoves
<1>4. calls \in Seq(SnapshotCall)
  BY DEF AccountInv
<1>5. /\ calls' \in Seq(SnapshotCall)
      /\ link # "up" => \A k \in DOMAIN calls' : calls'[k].answer # Nothing => calls'[k].missed
  <2>1. ASSUME NEW k \in DOMAIN calls
        PROVE  /\ calls'[k] \in SnapshotCall
               /\ link # "up" => (calls'[k].answer # Nothing => calls'[k].missed)
    <3> DEFINE e == CallAnswered(k) /\ link # "up"
    <3>1. calls'[k] = [calls[k] EXCEPT !.missed = @ \/ e] /\ calls[k] \in SnapshotCall
      BY <1>3, <1>4
    <3>2. e = (calls[k].answer # Nothing /\ link # "up")
      BY DEF CallAnswered
    <3> HIDE DEF e
    <3>3. calls'[k] \in SnapshotCall /\ calls'[k].answer = calls[k].answer /\ (e => calls'[k].missed)
      BY <3>1, MarkedCall
    <3> QED BY <3>2, <3>3
  <2>2. calls' \in Seq(SnapshotCall)
    BY <1>3, <1>4, <2>1, AllAsked
  <2> QED BY <1>3, <2>1, <2>2
<1>6. CASE link = "up"
  <2>1. /\ wire' \in Seq(Message) /\ DOMAIN wire' = DOMAIN wire \union {Len(wire) + 1}
        /\ wire'[Len(wire) + 1] = m /\ \A k \in DOMAIN wire : wire'[k] = wire[k] /\ k < Len(wire) + 1
        /\ \A k \in DOMAIN wire : k \in Int
    BY <1>1, <1>2, <1>6, SentFacts DEF m
  <2>2. ~ Quiet'
    BY <1>2, <2>1 DEF Quiet
  <2>3. WireCurrent'
    BY <1>1, <1>2, <2>1 DEF WireCurrent, LastUnderWay
  <2>4. AnswersCurrent'
    BY <2>2 DEF AnswersCurrent
  <2> QED BY <1>1, <1>3, <1>5, <1>6, <2>1, <2>2, <2>3, <2>4 DEF AccountInv
<1>7. CASE link # "up"
  <2>1. wire' = wire /\ wire = <<>> /\ DOMAIN wire' = {}
    BY <1>1, <1>7 DEF Sent, AccountInv
  <2>2. WireCurrent' /\ AnswersCurrent'
    BY <1>5, <1>7, <2>1 DEF WireCurrent, AnswersCurrent
  <2> QED BY <1>1, <1>3, <1>5, <1>7, <2>1, <2>2 DEF AccountInv
<1> QED BY <1>6, <1>7

LEMMA VenueMentionsKeeps ==
  ASSUME AccountInv, VenueMentions
  PROVE  AccountInv'
<1> DEFINE m == [kind |-> "other", size |-> 0, at |-> moment]
<1>1. m \in Message /\ m.kind = "other" /\ Sent(m) /\ link = "up"
  BY AccountAssumption DEF Message, AccountInv, VenueMentions
<1> HIDE DEF m
<1>2. UNCHANGED <<moment, held, link, attached, known, calls, inStep>>
  BY DEF VenueMentions
<1>3. /\ wire' \in Seq(Message) /\ DOMAIN wire' = DOMAIN wire \union {Len(wire) + 1}
      /\ wire'[Len(wire) + 1] = m /\ \A k \in DOMAIN wire : wire'[k] = wire[k] /\ k < Len(wire) + 1
  BY <1>1, SentFacts
<1>4. Quiet' = Quiet
  BY <1>1, <1>3 DEF Quiet
<1>5. WireCurrent'
  BY <1>1, <1>2, <1>3 DEF WireCurrent, LastUnderWay, AccountInv
<1> QED BY <1>1, <1>2, <1>3, <1>4, <1>5 DEF AccountInv, AnswersCurrent

LEMMA HandleKeeps ==
  ASSUME AccountInv, Handle
  PROVE  AccountInv'
<1> DEFINE m == Head(wire)
<1>1. /\ wire # <<>> /\ wire' = Tail(wire)
      /\ known' = IF m.kind = "position" THEN m.size ELSE known
      /\ calls' = [k \in DOMAIN calls |-> [calls[k] EXCEPT
           !.missed = @ \/ (CallAnswered(k) /\ m.kind = "position")]]
      /\ UNCHANGED <<moment, held, link, attached, inStep>>
  BY DEF Handle
<1>2. wire \in Seq(Message) /\ calls \in Seq(SnapshotCall) /\ Len(wire) \in Nat \ {0}
  BY <1>1, EmptySeq, LenProperties DEF AccountInv
<1>3. /\ wire' \in Seq(Message) /\ Len(wire') = Len(wire) - 1
      /\ \A k \in 1 .. Len(wire') : wire'[k] = wire[k + 1]
      /\ m = wire[1] /\ m \in Message
      /\ DOMAIN wire' = 1 .. (Len(wire) - 1) /\ DOMAIN wire = 1 .. Len(wire)
  BY <1>1, <1>2, HeadTailProperties
<1> HIDE DEF m
<1>4. /\ calls' \in Seq(SnapshotCall)
      /\ \A k \in DOMAIN calls' :
           /\ k \in DOMAIN calls /\ calls'[k].answer = calls[k].answer
           /\ ~ calls'[k].missed => ~ calls[k].missed
           /\ m.kind = "position" /\ calls'[k].answer # Nothing => calls'[k].missed
  <2>1. ASSUME NEW k \in DOMAIN calls
        PROVE  /\ calls'[k] \in SnapshotCall /\ calls'[k].answer = calls[k].answer
               /\ ~ calls'[k].missed => ~ calls[k].missed
               /\ m.kind = "position" /\ calls'[k].answer # Nothing => calls'[k].missed
    <3> DEFINE e == CallAnswered(k) /\ m.kind = "position"
    <3>1. calls'[k] = [calls[k] EXCEPT !.missed = @ \/ e] /\ calls[k] \in SnapshotCall
      BY <1>1, <1>2
    <3>2. e = (calls[k].answer # Nothing /\ m.kind = "position")
      BY DEF CallAnswered
    <3> HIDE DEF e
    <3>3. /\ calls'[k] \in SnapshotCall /\ calls'[k].answer = calls[k].answer
          /\ (~ calls'[k].missed => ~ calls[k].missed) /\ (e => calls'[k].missed)
      BY <3>1, MarkedCall
    <3> QED BY <3>2, <3>3
  <2>2. calls' \in Seq(SnapshotCall)
    BY <1>1, <1>2, <2>1, AllAsked
  <2> QED BY <1>1, <2>1, <2>2
<1>5. ASSUME Quiet', m.kind # "position" PROVE Quiet
  <2>1. ASSUME NEW k \in DOMAIN wire PROVE wire[k].kind # "position"
    <3>1. CASE k = 1
      BY <1>3, <1>5, <3>1
    <3>2. CASE k # 1
      <4>1. k - 1 \in 1 .. Len(wire') /\ (k - 1) + 1 = k
        BY <1>2, <1>3, <3>2
      <4>2. wire'[k - 1] = wire[k] /\ k - 1 \in DOMAIN wire'
        BY <1>2, <1>3, <4>1
      <4> QED BY <1>5, <4>2 DEF Quiet
    <3> QED BY <3>1, <3>2
  <2> QED BY <2>1 DEF Quiet
<1>6. ASSUME NEW k \in DOMAIN wire' PROVE k + 1 \in DOMAIN wire /\ wire'[k] = wire[k + 1] /\ k \in Int
  BY <1>2, <1>3, <1>6
<1>7. \A j \in DOMAIN wire : j > 1 => j - 1 \in DOMAIN wire' /\ wire'[j - 1] = wire[j] /\ j \in Int
  <2>1. ASSUME NEW j \in DOMAIN wire, j > 1 PROVE j - 1 \in DOMAIN wire' /\ j \in Int /\ (j - 1) + 1 = j
    BY <1>2, <1>3, <2>1
  <2> QED BY <1>6, <2>1
<1>8. WireCurrent'
  <2> SUFFICES ASSUME NEW k \in DOMAIN wire', LastUnderWay(k)' PROVE wire'[k].size = held'
    BY DEF WireCurrent
  <2>1. ASSUME NEW j \in DOMAIN wire, j > k + 1 PROVE wire[j].kind # "position"
    <3>1. j \in Int /\ j > 1 /\ k \in Int
      BY <1>2, <1>3, <2>1
    <3>2. j - 1 \in DOMAIN wire' /\ wire'[j - 1] = wire[j] /\ j - 1 > k
      BY <1>7, <2>1, <3>1
    <3> QED BY <3>2 DEF LastUnderWay
  <2>2. k + 1 \in DOMAIN wire /\ LastUnderWay(k + 1)
    BY <1>6, <2>1 DEF LastUnderWay
  <2> QED BY <1>1, <1>6, <2>2 DEF AccountInv, WireCurrent
<1>9. AnswersCurrent'
  <2> SUFFICES ASSUME NEW k \in DOMAIN calls', calls'[k].answer # Nothing, ~ calls'[k].missed, Quiet'
               PROVE  calls'[k].answer = held
    BY <1>1 DEF AnswersCurrent
  <2>1. k \in DOMAIN calls /\ calls[k].answer = calls'[k].answer /\ ~ calls[k].missed
        /\ m.kind # "position"
    BY <1>4
  <2>2. Quiet
    BY <1>5, <2>1
  <2> QED BY <2>1, <2>2 DEF AccountInv, AnswersCurrent
<1>10. inStep' => link' = "up" /\ (Quiet' => known' = held')
  <2> SUFFICES ASSUME inStep, Quiet' PROVE known' = held
    BY <1>1 DEF AccountInv
  <2>1. CASE m.kind # "position"
    BY <1>1, <1>5, <2>1 DEF AccountInv
  <2>2. CASE m.kind = "position"
    <3>1. ASSUME NEW j \in DOMAIN wire, j > 1 PROVE wire[j].kind # "position"
      BY <1>7, <3>1 DEF Quiet
    <3>2. 1 \in DOMAIN wire /\ LastUnderWay(1)
      BY <1>2, <1>3, <2>2, <3>1 DEF LastUnderWay
    <3> QED BY <1>1, <1>3, <2>2, <3>2 DEF AccountInv, WireCurrent
  <2> QED BY <2>1, <2>2
<1>11. link' # "up" => wire' = <<>>
  BY <1>1 DEF AccountInv
<1> QED BY <1>1, <1>3, <1>4, <1>8, <1>9, <1>10, <1>11 DEF AccountInv

LEMMA VenueAnswersKeeps ==
  ASSUME AccountInv, NEW k \in DOMAIN calls, VenueAnswers(k)
  PROVE  AccountInv'
<1>1. /\ calls' = [calls EXCEPT ![k].answer = held]
      /\ UNCHANGED <<moment, held, link, attached, wire, known, inStep>>
  BY DEF VenueAnswers
<1>2. calls \in Seq(SnapshotCall) /\ calls[k] \in SnapshotCall
  BY DEF AccountInv
<1>3. [calls[k] EXCEPT !.answer = held] \in SnapshotCall
  BY <1>2 DEF SnapshotCall, AccountInv
<1>4. calls' \in Seq(SnapshotCall) /\ DOMAIN calls' = DOMAIN calls
  BY <1>1, <1>2, <1>3
<1>5. calls'[k].answer = held /\ \A j \in DOMAIN calls \ {k} : calls'[j] = calls[j]
  BY <1>1, <1>2 DEF SnapshotCall
<1> QED BY <1>1, <1>4, <1>5 DEF AccountInv, WireCurrent, LastUnderWay, AnswersCurrent, Quiet

LEMMA SeedKeeps ==
  ASSUME AccountInv, NEW k \in DOMAIN calls, Seed(k) \/ CallFails(k)
  PROVE  AccountInv'
<1>1. calls' = RemoveAt(calls, k) /\ UNCHANGED <<moment, held, link, wire>>
  BY DEF Seed, CallFails
<1>2. calls \in Seq(SnapshotCall) /\ k \in 1 .. Len(calls)
  BY DEF AccountInv
<1>3. calls' \in Seq(SnapshotCall) /\ \A j \in DOMAIN calls' : \E i \in DOMAIN calls : calls'[j] = calls[i]
  BY <1>1, <1>2, RemovedIsThere
<1>4. Quiet' = Quiet /\ WireCurrent' = WireCurrent
  BY <1>1 DEF Quiet, WireCurrent, LastUnderWay
<1>5. AnswersCurrent'
  BY <1>1, <1>3, <1>4 DEF AccountInv, AnswersCurrent
<1>6. (link # "none" => attached') /\ (inStep' => link = "up" /\ (Quiet => known' = held))
  <2>1. CASE Seed(k)
    <3>1. /\ calls[k].answer # Nothing /\ known' = calls[k].answer /\ attached' = attached
          /\ inStep' = (link = "up" /\ ~ calls[k].missed)
      BY <2>1 DEF Seed, CallAnswered
    <3> QED BY <3>1 DEF AccountInv, AnswersCurrent
  <2>2. CASE CallFails(k)
    BY <2>2 DEF CallFails, AccountInv
  <2> QED BY <2>1, <2>2
<1> QED BY <1>1, <1>3, <1>4, <1>5, <1>6 DEF AccountInv

LEMMA AccountInvStep ==
  ASSUME AccountInv, [AccountNext]_accountVars
  PROVE  AccountInv'
<1>1. ASSUME Attach \/ ServeCached \/ TimePasses \/ UNCHANGED accountVars PROVE AccountInv'
  <2>1. UNCHANGED <<held, wire, calls, inStep, known>> /\ moment' \in Nat
    BY <1>1 DEF Attach, ServeCached, TimePasses, accountVars, AccountInv
  <2>2. (link' # "up" => wire = <<>>) /\ (inStep => link' = "up") /\ (link' # "none" => attached')
    BY <1>1 DEF Attach, ServeCached, TimePasses, accountVars, AccountInv
  <2> QED BY <2>1, <2>2, AccountKept
<1>2. CASE OpenLink
  BY <1>2, AskedKept DEF OpenLink, AccountInv
<1>3. CASE AskVenue
  BY <1>3, AskedKept DEF AskVenue, AccountInv
<1>4. CASE Detach \/ LoseLink
  BY <1>4, CutKeeps DEF Detach, LoseLink, AccountInv
<1> QED BY <1>1, <1>2, <1>3, <1>4, VenueMovesKeeps, VenueMentionsKeeps, HandleKeeps,
       VenueAnswersKeeps, SeedKeeps DEF AccountNext

\* A cache seeded since the socket opened, by a snapshot no stream update
\* overtook, becomes the venue's position once the messages under way are handled,
\* for any sizes, any number of messages and snapshots under way and any order of
\* their arrival (portfolio-state-store.ts:64-86).
THEOREM WritersAgree == AccountSpec => []WritersConverge
<1>1. AccountInit => AccountInv
  <2> SUFFICES ASSUME AccountInit PROVE AccountInv
    OBVIOUS
  <2>1. wire = <<>> /\ calls = <<>> /\ DOMAIN wire = {} /\ DOMAIN calls = {}
        /\ <<>> \in Seq(Message) /\ <<>> \in Seq(SnapshotCall)
    BY DEF AccountInit
  <2> QED BY <2>1 DEF AccountInit, AccountInv, WireCurrent, AnswersCurrent
<1>2. AccountInv /\ [AccountNext]_accountVars => AccountInv'
  BY AccountInvStep
<1>3. AccountInv => WritersConverge
  <2> SUFFICES ASSUME AccountInv, inStep PROVE Settled = held
    BY DEF WritersConverge
  <2> DEFINE moves == {k \in DOMAIN wire : wire[k].kind = "position"}
  <2>1. CASE moves = {}
    BY <2>1 DEF Settled, AccountInv, Quiet
  <2>2. CASE moves # {}
    <3>1. moves \subseteq Nat /\ Len(wire) \in Nat /\ \A m \in moves : m <= Len(wire)
      BY DEF AccountInv
    <3>2. \E x \in moves : \A y \in moves : x >= y
      BY <2>2, <3>1, Greatest
    <3>3. Max(moves) \in moves /\ \A y \in moves : Max(moves) >= y
      BY <3>2 DEF Max
    <3>4. LastUnderWay(Max(moves)) /\ Max(moves) \in DOMAIN wire
      <4> DEFINE x == Max(moves)
      <4>1. x \in DOMAIN wire /\ wire[x].kind = "position" /\ x \in Nat
        BY <3>1, <3>3
      <4>2. ASSUME NEW j \in DOMAIN wire, j > x PROVE wire[j].kind # "position"
        <5>1. j \in Nat /\ ~ (x >= j)
          BY <4>1, <4>2 DEF AccountInv
        <5> QED BY <3>3, <5>1
      <4> QED BY <4>1, <4>2 DEF LastUnderWay
    <3> QED BY <2>2, <3>4 DEF Settled, AccountInv, WireCurrent
  <2> QED BY <2>1, <2>2
<1> QED BY <1>1, <1>2, <1>3, PTL DEF AccountSpec

(***************************************************************************)
(* What a cache answers is never older than its rule allows, for any set   *)
(* of caches, any number of calls under way and any time they take.        *)
(***************************************************************************)

CachesSpec == CachesInit /\ [][CachesNext]_cacheVars

Instant == Nat \union {Never}
Call == [fact : Facts, found : Instant, usable : BOOLEAN, asked : Nat, value : Instant]

\* What was stored had been true at the venue at most a call earlier.
EntryRecent(f) ==
  entry[f].value # Never =>
    /\ entry[f].at \in Nat /\ entry[f].at <= time
    /\ entry[f].at - entry[f].value <= Patience

\* A call has not lasted longer than Patience, what it fetched was true while it
\* lasted, and an entry it may fall back on was usable when it asked.
CallRecent(c) ==
  /\ c.asked <= time /\ time - c.asked <= Patience
  /\ c.value # Never => c.asked <= c.value /\ c.value <= time
  /\ c.usable => c.found # Never /\ c.asked - c.found < UsableFor[c.fact] + Patience

CachesInv ==
  /\ time \in Nat
  /\ entry \in [Facts -> [value : Instant, at : Instant]]
  /\ pending \subseteq Call
  /\ answer.value \in Instant /\ (answer.value # Never => answer.fact \in Facts)
  /\ \A f \in Facts : EntryRecent(f)
  /\ \A c \in pending : CallRecent(c)
  /\ BoundedStaleness

LEMMA NeverIsNoInstant == Never \notin Nat /\ Never \in Instant /\ Nat \subseteq Instant
BY DEF Never, Instant

LEMMA CachesInvInit == CachesInit => CachesInv
BY CacheAssumption, NeverIsNoInstant
   DEF CachesInit, CachesInv, Absent, EntryRecent, CallRecent, BoundedStaleness

LEMMA HitKeeps ==
  ASSUME CachesInv, NEW f \in Facts, Hit(f)
  PROVE  CachesInv'
<1>1. entry[f].value \in Instant /\ entry[f].value # Never
  BY DEF CachesInv, Hit, Held
<1>2. /\ FreshFor[f] \in Nat /\ UsableFor[f] \in Nat /\ FreshFor[f] <= UsableFor[f]
      /\ Patience \in Nat \ {0}
  BY CacheAssumption
<1>3. entry[f].at \in Nat /\ entry[f].value \in Nat /\ time \in Nat
  BY <1>1 DEF CachesInv, EntryRecent, Instant
<1>4. time - entry[f].value < UsableFor[f] + 2 * Patience
  <2>1. time - entry[f].at < FreshFor[f] /\ entry[f].at - entry[f].value <= Patience
    BY <1>1 DEF CachesInv, Hit, AgeOf, EntryRecent
  <2> QED BY <1>2, <1>3, <2>1
<1>5. answer' = [fact |-> f, kind |-> "cached", value |-> entry[f].value]
  BY DEF Hit, Given
<1>6. BoundedStaleness'
  BY <1>4, <1>5 DEF BoundedStaleness, Hit
<1> QED BY <1>1, <1>5, <1>6 DEF CachesInv, Hit, EntryRecent, CallRecent

\* A new call: what it may fall back on is younger than UsableFor and a call.
LEMMA CallForKeeps ==
  ASSUME CachesInv, NEW f \in Facts, NEW usable \in BOOLEAN, CallFor(f, usable),
         usable => Held(f) /\ AgeOf(f) < UsableFor[f]
  PROVE  CachesInv'
<1> DEFINE new == [fact |-> f, found |-> entry[f].value, asked |-> time, value |-> Never,
                   usable |-> usable]
<1>1. pending' = pending \union {new} /\ UNCHANGED <<time, entry, answer>>
  BY DEF CallFor
<1>2. new \in Call
  BY NeverIsNoInstant DEF CachesInv, Call
<1>3. Patience \in Nat \ {0} /\ UsableFor[f] \in Nat /\ time \in Nat
  BY CacheAssumption DEF CachesInv
<1>4. CallRecent(new)
  <2>1. usable => time - entry[f].value < UsableFor[f] + Patience
    <3> SUFFICES ASSUME usable PROVE time - entry[f].value < UsableFor[f] + Patience
      OBVIOUS
    <3>1. entry[f].value # Never /\ time - entry[f].at < UsableFor[f]
      BY DEF Held, AgeOf
    <3>2. /\ entry[f].at \in Nat /\ entry[f].at - entry[f].value <= Patience
          /\ entry[f].value \in Nat
      BY <3>1 DEF CachesInv, EntryRecent, Instant
    <3> QED BY <1>3, <3>1, <3>2
  <2> QED BY <1>3, <2>1, NeverIsNoInstant DEF CallRecent, Held
<1> HIDE DEF new
<1>5. \A c \in pending' : CallRecent(c)'
  BY <1>1, <1>4 DEF CachesInv, CallRecent
<1> QED BY <1>1, <1>2, <1>5 DEF CachesInv, EntryRecent, BoundedStaleness

LEMMA TruthKeeps ==
  ASSUME CachesInv, NEW c \in pending, Truth(c)
  PROVE  CachesInv'
<1> DEFINE new == [c EXCEPT !.value = time]
<1>1. pending' = (pending \ {c}) \union {new} /\ UNCHANGED <<time, entry, answer>>
  BY DEF Truth
<1>2. c \in Call /\ CallRecent(c) /\ time \in Nat
  BY DEF CachesInv
<1>3. new \in Call /\ CallRecent(new)
  BY <1>2, NeverIsNoInstant DEF Call, CallRecent
<1> HIDE DEF new
<1>4. \A d \in pending' : d \in Call /\ CallRecent(d)'
  BY <1>1, <1>3 DEF CachesInv, CallRecent
<1> QED BY <1>1, <1>4 DEF CachesInv, EntryRecent, BoundedStaleness

\* An answer that arrives is younger than the call that fetched it.
LEMMA FetchedIsRecent ==
  ASSUME CachesInv, NEW c \in pending, c.value # Never
  PROVE  /\ c.value \in Nat /\ c.fact \in Facts /\ c.value <= time
         /\ time - c.value <= Patience
         /\ time - c.value < UsableFor[c.fact] + 2 * Patience
<1>1. c \in Call /\ CallRecent(c) /\ time \in Nat
  BY DEF CachesInv
<1>2. c.fact \in Facts /\ c.asked \in Nat /\ c.value \in Nat
  BY <1>1 DEF Call, Instant
<1>3. Patience \in Nat \ {0} /\ UsableFor[c.fact] \in Nat
  BY <1>2, CacheAssumption
<1> QED BY <1>1, <1>2, <1>3 DEF CallRecent

LEMMA StoredKeeps ==
  ASSUME CachesInv, NEW c \in pending, Stored(c)
  PROVE  CachesInv'
<1> USE FetchedIsRecent DEF Stored
<1>1. entry' = [entry EXCEPT ![c.fact] = [value |-> c.value, at |-> time]]
  OBVIOUS
<1>2. entry' \in [Facts -> [value : Instant, at : Instant]]
  BY NeverIsNoInstant DEF CachesInv
<1>3. \A f \in Facts : EntryRecent(f)'
  <2> TAKE f \in Facts
  <2>1. CASE f = c.fact
    <3>1. entry'[f] = [value |-> c.value, at |-> time]
      BY <2>1 DEF CachesInv
    <3> QED BY <3>1 DEF EntryRecent, CachesInv
  <2>2. CASE f # c.fact
    BY <2>2 DEF CachesInv, EntryRecent
  <2> QED BY <2>1, <2>2
<1>4. answer' = [fact |-> c.fact, kind |-> "asked", value |-> c.value]
  BY DEF Given
<1>5. BoundedStaleness'
  BY <1>4 DEF BoundedStaleness
<1> QED BY <1>2, <1>3, <1>4, <1>5, NeverIsNoInstant DEF CachesInv, CallRecent

LEMMA DeniedKeeps ==
  ASSUME CachesInv, NEW c \in pending, Denied(c)
  PROVE  CachesInv'
<1>1. answer' = [fact |-> c.fact, kind |-> "denied", value |-> c.value] /\ c.value # Never
  BY DEF Denied, Given
<1>2. BoundedStaleness'
  BY <1>1, FetchedIsRecent DEF BoundedStaleness, Denied
<1> QED BY <1>1, <1>2, FetchedIsRecent, NeverIsNoInstant
        DEF CachesInv, Denied, EntryRecent, CallRecent

LEMMA FailedKeeps ==
  ASSUME CachesInv, NEW c \in pending, Failed(c)
  PROVE  CachesInv'
<1>1. c \in Call /\ CallRecent(c) /\ time \in Nat
  BY DEF CachesInv
<1>2. c.fact \in Facts /\ c.asked \in Nat /\ c.found \in Instant
  BY <1>1 DEF Call
<1>3. Patience \in Nat \ {0} /\ UsableFor[c.fact] \in Nat
  BY <1>2, CacheAssumption
<1>4. CASE c.usable
  <2>1. answer' = [fact |-> c.fact, kind |-> "stale", value |-> c.found]
    BY <1>4 DEF Failed, Given
  <2>2. c.found \in Nat /\ time - c.found < UsableFor[c.fact] + 2 * Patience
    BY <1>1, <1>2, <1>3, <1>4 DEF CallRecent, Instant
  <2>3. BoundedStaleness'
    BY <2>1, <2>2 DEF BoundedStaleness, Failed
  <2> QED BY <1>2, <2>1, <2>3 DEF CachesInv, Failed, EntryRecent, CallRecent
<1>5. CASE ~ c.usable
  <2>1. answer' = [fact |-> c.fact, kind |-> "failed", value |-> Never]
    BY <1>5 DEF Failed, Given
  <2> QED BY <2>1, NeverIsNoInstant
          DEF CachesInv, Failed, EntryRecent, CallRecent, BoundedStaleness
<1> QED BY <1>4, <1>5

LEMMA LaterKeeps ==
  ASSUME CachesInv, Later
  PROVE  CachesInv'
<1>1. /\ time \in Nat /\ time' = time + 1 /\ UNCHANGED <<entry, pending>>
      /\ \A c \in pending : time' - c.asked <= Patience
      /\ answer' = [fact |-> "none", kind |-> "none", value |-> Never]
  BY DEF CachesInv, Later
<1>2. \A f \in Facts : EntryRecent(f)'
  <2> TAKE f \in Facts
  <2> QED BY <1>1 DEF CachesInv, EntryRecent
<1>3. \A c \in pending' : CallRecent(c)'
  <2> SUFFICES ASSUME NEW c \in pending PROVE CallRecent(c)'
    BY <1>1
  <2>1. c \in Call /\ CallRecent(c)
    BY DEF CachesInv
  <2>2. c.asked \in Nat /\ c.value \in Instant
    BY <2>1 DEF Call
  <2> QED BY <1>1, <2>1, <2>2 DEF CallRecent, Instant
<1> QED BY <1>1, <1>2, <1>3, NeverIsNoInstant DEF CachesInv, BoundedStaleness

LEMMA CachesInvStep == CachesInv /\ [CachesNext]_cacheVars => CachesInv'
<1> SUFFICES ASSUME CachesInv, [CachesNext]_cacheVars PROVE CachesInv'
  OBVIOUS
<1>1. ASSUME NEW f \in Facts, Miss(f) PROVE CachesInv'
  BY <1>1, CallForKeeps DEF Miss, Held, CachesInv
<1>2. ASSUME NEW f \in Facts, Refresh(f) PROVE CachesInv'
  BY <1>2, CallForKeeps DEF Refresh
<1>3. CASE UNCHANGED cacheVars
  BY <1>3 DEF CachesInv, cacheVars, EntryRecent, CallRecent, BoundedStaleness
<1> QED BY <1>1, <1>2, <1>3, HitKeeps, TruthKeeps, StoredKeeps, DeniedKeeps, FailedKeeps, LaterKeeps
        DEF CachesNext

\* A caller never gets a value that was last true at the venue UsableFor and two
\* calls ago, whatever overlaps, fails or comes late (valuation.ts:75-98,
\* contract-registry.ts:72-96).
THEOREM CachesStayFresh == CachesSpec => []BoundedStaleness
<1>1. CachesInv => BoundedStaleness
  BY DEF CachesInv
<1> QED BY CachesInvInit, CachesInvStep, <1>1, PTL DEF CachesSpec

(***************************************************************************)
(* A pivot, once found, is found again whatever candles follow.            *)
(***************************************************************************)

ChartSpec == ChartReadInit /\ [][ChartReadNext]_chartReadVars

BarsInv == closedBars \in Seq(Bars) /\ formingBar \in Seq(Bars)

\* Candles that are added on the right leave every pivot where it is: its PivotWidth
\* neighbours on both sides were there already.
LEMMA PivotsStay ==
  ASSUME NEW s \in Seq(Bars), NEW t \in Seq(Bars)
  PROVE  FindSwings(s) \subseteq FindSwings(s \o t)
<1> DEFINE u == s \o t
<1>1. /\ Len(u) \in Nat /\ Len(s) \in Nat /\ Len(s) <= Len(u)
      /\ \A i \in 1 .. Len(s) : u[i] = s[i]
  BY ConcatProperties
<1> HIDE DEF u
<1>2. ASSUME NEW i \in PivotPlaces(s)
      PROVE  /\ i \in PivotPlaces(u) /\ u[i] = s[i]
             /\ \A j \in Around(s, i) : u[j] = s[j]
             /\ Around(u, i) = Around(s, i)
  <2>1. i \in 1 .. Len(s) /\ i \in PivotPlaces(u)
    BY <1>1, <1>2, ChartAssumption DEF PivotPlaces
  <2>2. Around(s, i) \subseteq 1 .. Len(s)
    BY <1>1, <1>2, ChartAssumption DEF PivotPlaces, Around
  <2> QED BY <1>1, <2>1, <2>2 DEF Around
<1>3. ASSUME NEW i \in PivotPlaces(s), \A j \in Around(s, i) : s[j].high < s[i].high
      PROVE  /\ i \in PivotPlaces(u) /\ u[i] = s[i]
             /\ \A j \in Around(u, i) : u[j].high < u[i].high
  BY <1>2, <1>3
<1>4. ASSUME NEW i \in PivotPlaces(s), \A j \in Around(s, i) : s[j].low > s[i].low
      PROVE  /\ i \in PivotPlaces(u) /\ u[i] = s[i]
             /\ \A j \in Around(u, i) : u[j].low > u[i].low
  BY <1>2, <1>4
<1>5. ASSUME NEW x \in FindSwings(s) PROVE x \in FindSwings(u)
  <2>1. CASE \E i \in PivotPlaces(s) : /\ \A j \in Around(s, i) : s[j].high < s[i].high
                                       /\ x = [at |-> i, kind |-> "HIGH", price |-> s[i].high]
    BY <1>3, <2>1 DEF FindSwings
  <2>2. CASE \E i \in PivotPlaces(s) : /\ \A j \in Around(s, i) : s[j].low > s[i].low
                                       /\ x = [at |-> i, kind |-> "LOW", price |-> s[i].low]
    BY <1>4, <2>2 DEF FindSwings
  <2> QED BY <1>5, <2>1, <2>2 DEF FindSwings
<1> QED BY <1>5 DEF u

LEMMA BarsInvStep ==
  ASSUME BarsInv, [ChartReadNext]_chartReadVars
  PROVE  BarsInv'
<1>1. CASE Forms
  <2>1. PICK b \in Bars : formingBar' = <<b>>
    BY <1>1 DEF Forms
  <2>2. <<b>> \in Seq(Bars)
    OBVIOUS
  <2> QED BY <1>1, <2>1, <2>2 DEF Forms, BarsInv
<1>2. CASE Closes
  BY <1>2, ConcatProperties, EmptySeq DEF Closes, BarsInv, Ladder
<1> QED BY <1>1, <1>2 DEF ChartReadNext, PricesHeard, Reads, chartReadVars, BarsInv

\* A pivot whose right side has closed is there, with its price, after every later
\* candle, for any width and any candles (structure-engine.ts:10-27).
THEOREM PivotsAreFinal == ChartSpec => NoRepaint
<1>1. ChartReadInit => BarsInv
  BY EmptySeq DEF ChartReadInit, BarsInv
<1>2. BarsInv /\ [ChartReadNext]_chartReadVars => BarsInv'
  BY BarsInvStep
<1>3. BarsInv /\ [ChartReadNext]_chartReadVars =>
        [\A s \in FindSwings(closedBars) : s \in FindSwings(closedBars' \o formingBar')]_chartReadVars
  <2> SUFFICES ASSUME BarsInv, ChartReadNext
               PROVE  FindSwings(closedBars) \subseteq FindSwings(closedBars' \o formingBar')
    OBVIOUS
  <2>1. BarsInv'
    BY BarsInvStep
  <2>2. CASE Closes
    <3>1. closedBars' = closedBars \o formingBar /\ closedBars' \o formingBar' = closedBars'
      BY <2>1, <2>2, ConcatEmptySeq DEF Closes, Ladder, BarsInv
    <3> QED BY <3>1, PivotsStay DEF BarsInv
  <2>3. CASE ~ Closes
    <3>1. closedBars' = closedBars
      BY <2>3 DEF ChartReadNext, Forms, PricesHeard, Reads
    <3> QED BY <2>1, <3>1, PivotsStay DEF BarsInv
  <2> QED BY <2>2, <2>3
<1> QED BY <1>1, <1>2, <1>3, PTL DEF ChartSpec, NoRepaint

(***************************************************************************)
(* A symbol is tradable only on quotes of both venues that are recent in   *)
(* fact, for any prices, limits and length of the calls.                   *)
(***************************************************************************)

CrossSpec == CrossInit /\ [][CrossNext]_crossVars

QuoteRecord == [price : Nat, wide : BOOLEAN, at : Nat, taken : Nat]

\* The stream and the order book date their quotes by when they were made.
HonestlyDated(q) == q \in QuoteRecord /\ q.at = q.taken /\ q.taken <= quoteClock

\* What has arrived belongs to an evaluation that has not lasted too long, and the
\* last price is not older than it.
EvaluationRecent ==
  /\ evaluation \in [asked : Nat, routed : BOOLEAN, book : QuoteRecord, last : QuoteRecord]
  /\ HonestlyDated(evaluation.book) /\ HonestlyDated(evaluation.last)
  /\ evaluation.routed \/ Has(evaluation.last) => Under
  /\ Under => evaluation.asked <= quoteClock /\ quoteClock - evaluation.asked <= CallLimit
  /\ Has(evaluation.last) => evaluation.asked <= evaluation.last.taken

CrossInv ==
  /\ quoteClock \in Nat \ {0}
  /\ HonestlyDated(bookTicker)
  /\ EvaluationRecent
  /\ TradableWasRecent

LEMMA NoQuoteIsQuote == NoQuote \in QuoteRecord /\ NoQuote.at = 0 /\ NoQuote.taken = 0
BY DEF NoQuote, QuoteRecord

LEMMA CrossInvInit == CrossInit => CrossInv
BY NoQuoteIsQuote
   DEF CrossInit, CrossInv, HonestlyDated, EvaluationRecent, Idle, Has, Under, NoVerdict,
       TradableWasRecent

LEMMA IdleRecent ==
  ASSUME CrossInv, evaluation' = Idle, quoteClock' = quoteClock
  PROVE  EvaluationRecent'
BY NoQuoteIsQuote DEF CrossInv, EvaluationRecent, Idle, Has, Under, HonestlyDated

LEMMA NoVerdictRecent ==
  ASSUME crossVerdict' = NoVerdict
  PROVE  TradableWasRecent'
BY DEF TradableWasRecent, NoVerdict

LEMMA StreamQuotesKeeps == CrossInv /\ StreamQuotes => CrossInv'
<1> SUFFICES ASSUME CrossInv, StreamQuotes PROVE CrossInv'
  OBVIOUS
<1>1. UNCHANGED <<quoteClock, evaluation, crossVerdict>> /\ quoteClock \in Nat \ {0}
  BY DEF CrossInv, StreamQuotes
<1>2. HonestlyDated(bookTicker)'
  BY <1>1, CrossVenueAssumption DEF StreamQuotes, HonestlyDated, QuoteRecord
<1> QED BY <1>1, <1>2
        DEF CrossInv, EvaluationRecent, HonestlyDated, Under, Has, TradableWasRecent

LEMMA BeginsKeeps == CrossInv /\ EvaluationBegins => CrossInv'
<1> SUFFICES ASSUME CrossInv, EvaluationBegins PROVE CrossInv'
  OBVIOUS
<1>1. /\ UNCHANGED <<quoteClock, bookTicker>> /\ crossVerdict' = NoVerdict
      /\ evaluation' = [Idle EXCEPT !.asked = quoteClock] /\ quoteClock \in Nat \ {0}
  BY DEF CrossInv, EvaluationBegins
<1>2. EvaluationRecent'
  <2>1. evaluation' = [asked |-> quoteClock, routed |-> FALSE, book |-> NoQuote, last |-> NoQuote]
    BY <1>1 DEF Idle
  <2>2. HonestlyDated(NoQuote)' /\ CallLimit \in Nat /\ quoteClock \in Nat
    BY <1>1, NoQuoteIsQuote, CrossVenueAssumption DEF HonestlyDated
  <2>3. /\ evaluation' \in [asked : Nat, routed : BOOLEAN, book : QuoteRecord, last : QuoteRecord]
        /\ evaluation'.book = NoQuote /\ evaluation'.last = NoQuote
        /\ evaluation'.asked = quoteClock /\ evaluation'.routed = FALSE
    BY <2>1, <2>2, NoQuoteIsQuote
  <2> QED BY <1>1, <2>2, <2>3, NoQuoteIsQuote DEF EvaluationRecent, HonestlyDated, Under, Has
<1> QED BY <1>1, <1>2, NoVerdictRecent DEF CrossInv, HonestlyDated

LEMMA RoutedKeeps == CrossInv /\ Routed => CrossInv'
<1> SUFFICES ASSUME CrossInv, Routed PROVE CrossInv'
  OBVIOUS
<1>1. /\ UNCHANGED <<quoteClock, bookTicker, crossVerdict>> /\ Under
      /\ evaluation' = [evaluation EXCEPT !.routed = TRUE]
  BY DEF Routed
<1>2. EvaluationRecent'
  BY <1>1 DEF CrossInv, EvaluationRecent, HonestlyDated, Under, Has
<1> QED BY <1>1, <1>2 DEF CrossInv, HonestlyDated, TradableWasRecent

LEMMA BookKeeps == CrossInv /\ BookArrives => CrossInv'
<1> SUFFICES ASSUME CrossInv, BookArrives PROVE CrossInv'
  OBVIOUS
<1>1. PICK p \in Prices \union {0}, wide \in BOOLEAN, made \in 1 .. quoteClock :
        evaluation' = [evaluation EXCEPT !.book = [price |-> p, wide |-> wide, at |-> made, taken |-> made]]
  BY DEF BookArrives
<1>2. UNCHANGED <<quoteClock, bookTicker, crossVerdict>>
  BY DEF BookArrives
<1>3. quoteClock \in Nat /\ p \in Nat /\ made \in Nat /\ made <= quoteClock
  BY CrossVenueAssumption DEF CrossInv
<1>4. EvaluationRecent'
  BY <1>1, <1>2, <1>3 DEF CrossInv, EvaluationRecent, HonestlyDated, QuoteRecord, Under, Has
<1> QED BY <1>2, <1>4 DEF CrossInv, HonestlyDated, TradableWasRecent

LEMMA TickerKeeps == CrossInv /\ TickerArrives => CrossInv'
<1> SUFFICES ASSUME CrossInv, TickerArrives PROVE CrossInv'
  OBVIOUS
<1>1. PICK p \in Prices :
        evaluation' = [evaluation EXCEPT !.last = [price |-> p, wide |-> FALSE, at |-> quoteClock,
                                                   taken |-> quoteClock]]
  BY DEF TickerArrives
<1>2. UNCHANGED <<quoteClock, bookTicker, crossVerdict>>
  BY DEF TickerArrives
<1>3. quoteClock \in Nat /\ p \in Nat /\ Under
  BY CrossVenueAssumption DEF CrossInv, EvaluationRecent, TickerArrives
<1> DEFINE new == [price |-> p, wide |-> FALSE, at |-> quoteClock, taken |-> quoteClock]
<1>4. new \in QuoteRecord /\ new.at = quoteClock /\ new.taken = quoteClock
  BY <1>3 DEF QuoteRecord
<1> HIDE DEF new
<1>5. /\ evaluation' \in [asked : Nat, routed : BOOLEAN, book : QuoteRecord, last : QuoteRecord]
      /\ evaluation'.asked = evaluation.asked /\ evaluation'.book = evaluation.book
      /\ evaluation'.routed = evaluation.routed /\ evaluation'.last = new
  BY <1>1, <1>4 DEF CrossInv, EvaluationRecent, new
<1>6. EvaluationRecent'
  BY <1>2, <1>3, <1>4, <1>5 DEF CrossInv, EvaluationRecent, HonestlyDated, Under, Has
<1> QED BY <1>2, <1>6 DEF CrossInv, HonestlyDated, TradableWasRecent

\* Health in terms of the quote: neither missing nor old.
LEMMA HealthyPair ==
  ASSUME NEW a \in QuoteRecord, NEW b \in QuoteRecord, WorstHealth(QuoteHealth(a), QuoteHealth(b)) = "OK"
  PROVE  /\ a.price # 0 /\ b.price # 0
         /\ quoteClock - a.at <= StaleQuote /\ quoteClock - b.at <= StaleQuote
<1>1. "UNAVAILABLE" \notin {QuoteHealth(a), QuoteHealth(b)}
  BY DEF WorstHealth
<1>2. "STALE" \notin {QuoteHealth(a), QuoteHealth(b)}
  BY <1>1 DEF WorstHealth
<1> QED BY <1>1, <1>2 DEF QuoteHealth

LEMMA JudgedKeeps == CrossInv /\ Judged => CrossInv'
<1> SUFFICES ASSUME CrossInv, Judged PROVE CrossInv'
  OBVIOUS
<1> DEFINE binance == BinanceQuoteOf(evaluation.last)
           book == evaluation.book
<1>1. /\ crossVerdict' = [tradable |-> Tradable(binance, book), binance |-> binance, coindcx |-> book]
      /\ evaluation' = Idle /\ UNCHANGED <<quoteClock, bookTicker>>
      /\ Has(evaluation.last)
  BY DEF Judged
<1>2. /\ quoteClock \in Nat \ {0} /\ HonestlyDated(book) /\ HonestlyDated(evaluation.last)
      /\ HonestlyDated(bookTicker)
  BY DEF CrossInv, EvaluationRecent
<1>3. /\ binance \in QuoteRecord
      /\ \/ binance = bookTicker
         \/ binance.taken = evaluation.last.taken
  BY <1>2 DEF BinanceQuoteOf, HonestlyDated, QuoteRecord
<1>4. quoteClock - evaluation.last.taken <= CallLimit
  BY <1>1, <1>2, CrossVenueAssumption DEF CrossInv, EvaluationRecent, HonestlyDated, QuoteRecord
<1> HIDE DEF binance, book
<1>5. ASSUME Tradable(binance, book)
      PROVE  /\ quoteClock - book.taken <= StaleQuote
             /\ \/ quoteClock - binance.taken <= StaleQuote
                \/ quoteClock - binance.taken <= CallLimit
             /\ 0 \notin {binance.price, book.price}
             /\ Gap(binance.price, book.price) <= MaxBasis
  <2>1. /\ WorstHealth(QuoteHealth(binance), QuoteHealth(book)) = "OK"
        /\ Gap(binance.price, book.price) <= MaxBasis
    BY <1>5 DEF Tradable
  <2>2. /\ binance.price # 0 /\ book.price # 0
        /\ quoteClock - binance.at <= StaleQuote /\ quoteClock - book.at <= StaleQuote
    BY <1>2, <1>3, <2>1, HealthyPair DEF HonestlyDated
  <2> QED BY <1>2, <1>3, <1>4, <2>1, <2>2 DEF HonestlyDated
<1>6. TradableWasRecent'
  BY <1>1, <1>5 DEF TradableWasRecent, Gap
<1>7. EvaluationRecent'
  BY <1>1, IdleRecent
<1> QED BY <1>1, <1>6, <1>7 DEF CrossInv, HonestlyDated

LEMMA FailsKeeps == CrossInv /\ EvaluationFails => CrossInv'
BY IdleRecent, NoVerdictRecent DEF CrossInv, EvaluationFails, HonestlyDated

LEMMA AgeKeeps == CrossInv /\ QuotesAge => CrossInv'
<1> SUFFICES ASSUME CrossInv, QuotesAge PROVE CrossInv'
  OBVIOUS
<1>1. /\ quoteClock' = quoteClock + 1 /\ UNCHANGED <<bookTicker, evaluation>>
      /\ quoteClock \in Nat \ {0} /\ crossVerdict' = NoVerdict
      /\ Under => quoteClock < evaluation.asked + CallLimit
  BY DEF QuotesAge, CrossInv
<1>2. HonestlyDated(bookTicker)'
  BY <1>1 DEF CrossInv, HonestlyDated, QuoteRecord
<1>3. /\ HonestlyDated(evaluation.book)' /\ HonestlyDated(evaluation.last)'
  BY <1>1 DEF CrossInv, EvaluationRecent, HonestlyDated, QuoteRecord
<1>4. EvaluationRecent'
  BY <1>1, <1>3, CrossVenueAssumption DEF CrossInv, EvaluationRecent, Under, Has
<1> QED BY <1>1, <1>2, <1>4, NoVerdictRecent DEF CrossInv

LEMMA CrossInvStep == CrossInv /\ [CrossNext]_crossVars => CrossInv'
<1>1. CrossInv /\ UNCHANGED crossVars => CrossInv'
  BY DEF CrossInv, crossVars, HonestlyDated, EvaluationRecent, Under, Has, TradableWasRecent
<1> QED BY <1>1, StreamQuotesKeeps, BeginsKeeps, RoutedKeeps, BookKeeps, TickerKeeps, JudgedKeeps,
           FailsKeeps, AgeKeeps DEF CrossNext

\* The gate lets a symbol through only on quotes of both venues made within the stale
\* limit or the call, whose prices are within the basis: dating the fallback now
\* (cross-venue-gate.ts:94-104) hides no more than the call's own length.
THEOREM GateSeesRecentQuotes == CrossSpec => []TradableWasRecent
<1>1. CrossInv => TradableWasRecent
  BY DEF CrossInv
<1> QED BY CrossInvInit, CrossInvStep, <1>1, PTL DEF CrossSpec

-----------------------------------------------------------------------------
(***************************************************************************)
(* A wait makes room for the request it lets through: while nobody asks    *)
(* behind a sleeper there is one at most, the requests counted stand still *)
(* until it wakes, and the first of them has left the window by then.      *)
(***************************************************************************)

LimiterSpec == LimiterInit /\ [][LimiterNext]_limiterVars

LimiterInv ==
  /\ LimiterTypeOK
  /\ ~crowded /\ ~free =>
       /\ \A i \in DOMAIN history : history[i].weight > 0
       /\ Len(history) < Threshold \/ Len(history) <= 1
       /\ \A c, d \in DOMAIN asleep : c = d
       /\ \A c \in DOMAIN asleep :
            asleep[c].weight > 0 /\ history # <<>> /\ asleep[c].wake >= history[1].at + Window

LEMMA RequestsWeigh ==
  /\ Threshold \in Nat /\ Threshold > 0 /\ Window \in Nat /\ Slack \in Nat
  /\ \A w \in Weights : w \in Nat
  /\ \A r \in Request : r.weight \in Nat /\ r.at \in Nat
<1>1. \A w \in Weights : w \in Nat
  BY LimiterAssumption
<1>2. \A r \in Request : r.weight \in Weights /\ r.at \in Nat
  BY DEF Request
<1>3. \A r \in Request : r.weight \in Nat /\ r.at \in Nat
  BY <1>1, <1>2
<1>4. Threshold \in Nat /\ Threshold > 0 /\ Window \in Nat /\ Slack \in Nat
  BY LimiterAssumption
<1> QED BY <1>1, <1>3, <1>4

LEMMA CleanRun ==
  ASSUME NEW R, history \in Seq(R)
  PROVE  \E run \in [0 .. Len(history) -> Seq(R)] :
           /\ run[0] = <<>>
           /\ \A i \in 1 .. Len(history) : run[i] = KeptFrom(run[i - 1], history[i])
           /\ Clean = run[Len(history)]
<1> DEFINE n == Len(history)
           A == Seq(R)
           base == <<>>
           F == [p \in (1 .. n) \X A |-> KeptFrom(p[2], history[p[1]])]
           Eq(h) == h = [u \in SUBSET (1 .. n) |->
                           IF u = {} THEN base ELSE KeptFrom(h[u \ {Max(u)}], history[Max(u)])]
           it == CHOOSE h : Eq(h)
<1>1. n \in Nat /\ DOMAIN history = 1 .. n /\ \A i \in 1 .. n : history[i] \in R
  BY LenProperties
<1>2. F \in [(1 .. n) \X A -> A] /\ base \in A
  <2>1. base \in A
    OBVIOUS
  <2>2. \A p \in (1 .. n) \X A : KeptFrom(p[2], history[p[1]]) \in A
    BY <1>1, AppendProperties DEF KeptFrom
  <2> QED BY <2>1, <2>2
<1>3. ASSUME NEW i \in 1 .. n, NEW a \in A PROVE F[<<i, a>>] = KeptFrom(a, history[i])
  BY <1>3
<1>4. Clean = it[1 .. n]
  BY <1>1 DEF Clean, FoldLeft, MapThenFoldSet
<1> HIDE DEF F, n, A, base
<1>5. ASSUME NEW u \in SUBSET (1 .. n), u # {} PROVE Max(u) \in 1 .. n /\ u \ {Max(u)} \in SUBSET (1 .. n)
  BY <1>1, <1>5, MaxOfSome
<1>6. ASSUME NEW h, IsTable(h, A, base, n, F) PROVE Obeys(it, A, base, n, F)
  <2>1. Eq(h)
    BY <1>3, <1>5, <1>6 DEF IsTable
  <2> HIDE DEF Eq
  <2>2. Eq(it)
    BY <2>1
  <2> HIDE DEF it
  <2> USE DEF Eq
  <2> QED BY <1>3, <1>5, <2>2 DEF Obeys
<1> HIDE DEF it
<1>7. PICK run : IsRun(run, A, base, n, F) /\ it[1 .. n] = run[n]
  <2>1. Folds(it, A, base, n, F)
    BY <1>1, <1>2, <1>6, FoldRun
  <2> QED BY <2>1 DEF Folds
<1>8. ASSUME NEW i \in 1 .. n PROVE run[i] = KeptFrom(run[i - 1], history[i])
  <2>1. i - 1 \in 0 .. n
    BY <1>1
  <2>2. run[i - 1] \in A /\ run[i] = F[<<i, run[i - 1]>>]
    BY <1>7, <2>1 DEF IsRun
  <2> QED BY <1>3, <2>2
<1>9. run \in [0 .. n -> A] /\ run[0] = base
  BY <1>7 DEF IsRun
<1> QED BY <1>4, <1>7, <1>8, <1>9 DEF n, A, base

\* Cleaning keeps some of the requests, and not the first once that has left the window.
LEMMA CleanFacts ==
  ASSUME NEW R \in SUBSET Request, history \in Seq(R), tick \in Nat
  PROVE  /\ Clean \in Seq(R) /\ Len(Clean) <= Len(history)
         /\ history # <<>> /\ history[1].at + Window <= tick => Len(Clean) <= Len(history) - 1
<1> DEFINE n == Len(history)
           gone == history # <<>> /\ history[1].at + Window <= tick
<1>1. PICK run \in [0 .. n -> Seq(R)] :
         /\ run[0] = <<>>
         /\ \A i \in 1 .. n : run[i] = KeptFrom(run[i - 1], history[i])
         /\ Clean = run[n]
  BY CleanRun
<1>2. n \in Nat /\ \A i \in 1 .. n : history[i] \in R /\ history[i].at \in Nat
  BY LenProperties DEF Request
<1>3. 0 \in 0 .. n /\ n \in 0 .. n /\ (history # <<>> => n >= 1)
  BY <1>2, EmptySeq
<1> DEFINE P == {i \in 0 .. n : Len(run[i]) <= i /\ (gone /\ i > 0 => Len(run[i]) <= i - 1)}
<1>4. 0 \in P
  BY <1>1, <1>3, EmptySeq
<1>5. ASSUME NEW i \in 1 .. n, i - 1 \in P PROVE i \in P
  <2>1. i \in Nat /\ i - 1 \in 0 .. n /\ i \in 0 .. n /\ run[i - 1] \in Seq(R) /\ Len(run[i - 1]) \in Nat
    BY <1>1, <1>2, LenProperties
  <2>2. run[i] = KeptFrom(run[i - 1], history[i])
    BY <1>1
  <2>3. Len(run[i - 1]) <= i - 1 /\ (gone /\ i - 1 > 0 => Len(run[i - 1]) <= i - 2)
    BY <1>5, <2>1
  <2>4. Len(Append(run[i - 1], history[i])) = Len(run[i - 1]) + 1
    BY <1>2, <2>1, AppendProperties
  <2>5. CASE i > 1
    BY <2>1, <2>2, <2>3, <2>4, <2>5 DEF KeptFrom
  <2>6. CASE i = 1
    <3>1. run[0] = <<>> /\ Len(run[0]) = 0 /\ i - 1 = 0
      BY <1>1, <2>6, EmptySeq
    <3>2. gone => run[1] = run[0]
      <4>1. gone => ~ (history[1].at + Window > tick)
        BY <1>2, <2>6, LimiterAssumption
      <4> QED BY <2>2, <2>6, <3>1, <4>1 DEF KeptFrom
    <3>3. Len(run[1]) <= 1 /\ (gone => Len(run[1]) <= 0)
      BY <2>2, <2>4, <2>6, <3>1, <3>2 DEF KeptFrom
    <3> QED BY <2>1, <2>6, <3>3
  <2> QED BY <2>1, <2>5, <2>6
<1>6. \A i \in 0 .. n : i \in P
  <2> HIDE DEF P
  <2> QED BY <1>2, <1>4, <1>5, UpTo
<1>7. n \in P /\ run[n] \in Seq(R)
  BY <1>1, <1>3, <1>6
<1> QED BY <1>1, <1>2, <1>3, <1>7

LEMMA WeightRun ==
  ASSUME NEW w \in Seq(Request), w = Clean
  PROVE  \E run \in [0 .. Len(w) -> Nat] :
           /\ run[0] = 0
           /\ \A i \in 1 .. Len(w) : run[i] = run[i - 1] + w[i].weight
           /\ CurrentWeight = run[Len(w)]
<1> DEFINE n == Len(w)
           A == Nat
           base == 0
           F == [p \in (1 .. n) \X A |-> Weighed(p[2], w[p[1]])]
           Eq(h) == h = [u \in SUBSET (1 .. n) |->
                           IF u = {} THEN base ELSE Weighed(h[u \ {Max(u)}], w[Max(u)])]
           it == CHOOSE h : Eq(h)
<1>0. n \in Nat /\ DOMAIN w = 1 .. n /\ \A i \in 1 .. n : w[i] \in Request
  BY LenProperties
<1>1. n \in Nat /\ DOMAIN w = 1 .. n /\ \A i \in 1 .. n : w[i].weight \in Nat
  BY <1>0, RequestsWeigh
<1>2. F \in [(1 .. n) \X A -> A] /\ base \in A
  <2>1. \A p \in (1 .. n) \X A : Weighed(p[2], w[p[1]]) \in A
    BY <1>1 DEF Weighed
  <2> QED BY <2>1
<1>3. ASSUME NEW i \in 1 .. n, NEW a \in A PROVE F[<<i, a>>] = Weighed(a, w[i])
  BY <1>3
<1>4. CurrentWeight = it[1 .. n]
  BY <1>1 DEF CurrentWeight, FoldLeft, MapThenFoldSet
<1> HIDE DEF F, n, A, base
<1>5. ASSUME NEW u \in SUBSET (1 .. n), u # {} PROVE Max(u) \in 1 .. n /\ u \ {Max(u)} \in SUBSET (1 .. n)
  BY <1>1, <1>5, MaxOfSome
<1>6. ASSUME NEW h, IsTable(h, A, base, n, F) PROVE Obeys(it, A, base, n, F)
  <2>1. Eq(h)
    BY <1>3, <1>5, <1>6 DEF IsTable
  <2> HIDE DEF Eq
  <2>2. Eq(it)
    BY <2>1
  <2> HIDE DEF it
  <2> USE DEF Eq
  <2> QED BY <1>3, <1>5, <2>2 DEF Obeys
<1> HIDE DEF it
<1>7. PICK run : IsRun(run, A, base, n, F) /\ it[1 .. n] = run[n]
  <2>1. Folds(it, A, base, n, F)
    BY <1>1, <1>2, <1>6, FoldRun
  <2> QED BY <2>1 DEF Folds
<1>8. ASSUME NEW i \in 1 .. n PROVE run[i] = run[i - 1] + w[i].weight
  <2>1. i - 1 \in 0 .. n
    BY <1>1
  <2>2. run[i - 1] \in A /\ run[i] = F[<<i, run[i - 1]>>]
    BY <1>7, <2>1 DEF IsRun
  <2> QED BY <1>3, <2>2 DEF Weighed
<1>9. run \in [0 .. n -> A] /\ run[0] = base
  BY <1>7 DEF IsRun
<1> QED BY <1>4, <1>7, <1>8, <1>9 DEF n, A, base

Weighing == {r \in Request : r.weight > 0}

\* Where every request weighs something there are no more of them than their weight.
LEMMA FewerThanWeight ==
  ASSUME Clean \in Seq(Request)
  PROVE  /\ CurrentWeight \in Nat
         /\ Clean \in Seq(Weighing) => Len(Clean) <= CurrentWeight
<1> DEFINE n == Len(Clean)
<1>1. PICK run \in [0 .. n -> Nat] :
         /\ run[0] = 0
         /\ \A i \in 1 .. n : run[i] = run[i - 1] + Clean[i].weight
         /\ CurrentWeight = run[n]
  BY WeightRun
<1>2. n \in Nat /\ 0 \in 0 .. n /\ n \in 0 .. n
  BY LenProperties
<1>3. ASSUME Clean \in Seq(Weighing) PROVE n <= run[n]
  <2> DEFINE P == {i \in 0 .. n : i <= run[i]}
  <2>1. 0 \in P
    BY <1>1, <1>2
  <2>2. ASSUME NEW i \in 1 .. n, i - 1 \in P PROVE i \in P
    <3>1. i \in Nat /\ i \in 0 .. n /\ i - 1 \in 0 .. n /\ run[i - 1] \in Nat /\ i - 1 <= run[i - 1]
      <4>1. i \in Nat /\ i \in 0 .. n /\ i - 1 \in 0 .. n
        BY <1>2
      <4>2. i - 1 <= run[i - 1]
        BY <2>2
      <4> QED BY <1>1, <4>1, <4>2
    <3>2. Clean[i].weight \in Nat /\ Clean[i].weight > 0
      <4>1. Clean[i] \in Weighing
        BY <1>3, LenProperties
      <4> QED BY <4>1, RequestsWeigh DEF Weighing
    <3>3. run[i] = run[i - 1] + Clean[i].weight
      BY <1>1
    <3> QED BY <3>1, <3>2, <3>3
  <2>3. \A i \in 0 .. n : i \in P
    <3> HIDE DEF P
    <3> QED BY <1>2, <2>1, <2>2, UpTo
  <2> QED BY <1>2, <2>3
<1> QED BY <1>1, <1>2, <1>3

LEMMA PushKeeps ==
  ASSUME LimiterInv, NEW w \in Weights, Push(Clean, w),
         ~crowded /\ ~free /\ w > 0 => Len(Clean) + 1 < Threshold \/ Len(Clean) = 0
  PROVE  /\ history' \in Seq(Request) /\ history' # <<>>
         /\ ~crowded /\ ~free /\ w > 0 =>
              /\ \A i \in DOMAIN history' : history'[i].weight > 0
              /\ Len(history') < Threshold \/ Len(history') <= 1
<1>1. tick \in Nat /\ history \in Seq(Request)
  BY DEF LimiterInv, LimiterTypeOK
<1>2. Clean \in Seq(Request) /\ Len(Clean) \in Nat
  BY <1>1, CleanFacts, LenProperties
<1>3. [weight |-> w, at |-> tick] \in Request
  BY <1>1 DEF Request
<1>4. history' = Append(Clean, [weight |-> w, at |-> tick])
  BY DEF Push
<1>5. history' \in Seq(Request) /\ history' # <<>> /\ Len(history') = Len(Clean) + 1
  BY <1>2, <1>3, <1>4, AppendProperties
<1>6. ASSUME ~crowded, ~free, w > 0 PROVE \A i \in DOMAIN history' : history'[i].weight > 0
  <2>1. history \in Seq(Weighing)
    BY <1>1, <1>6, LenProperties, SeqDef DEF LimiterInv, Weighing
  <2>2. Clean \in Seq(Weighing)
    BY <1>1, <2>1, CleanFacts DEF Weighing
  <2>3. [weight |-> w, at |-> tick] \in Weighing
    BY <1>3, <1>6 DEF Weighing
  <2>4. history' \in Seq(Weighing)
    BY <1>4, <2>2, <2>3, AppendProperties
  <2> QED BY <2>4, LenProperties DEF Weighing
<1> QED BY <1>2, <1>5, <1>6

LEMMA RequestKeeps ==
  ASSUME LimiterInv, NEW c \in Clients, NEW w \in Weights, RequestPermission(c, w)
  PROVE  LimiterInv'
<1>1. tick \in Nat /\ history \in Seq(Request) /\ DOMAIN asleep \subseteq Clients /\ w \in Nat /\ Threshold \in Nat
  BY LimiterAssumption DEF LimiterInv, LimiterTypeOK
<1>2. Clean \in Seq(Request) /\ Len(Clean) \in Nat /\ Len(history) \in Nat /\ Len(Clean) <= Len(history)
  BY <1>1, CleanFacts, LenProperties
<1>3. CurrentWeight \in Nat
  BY <1>2, FewerThanWeight
<1>4. /\ tick' = tick /\ c \notin DOMAIN asleep
      /\ crowded' = (crowded \/ DOMAIN asleep # {}) /\ free' = (free \/ w = 0)
      /\ crowded' \in BOOLEAN /\ free' \in BOOLEAN
  BY DEF RequestPermission, LimiterInv, LimiterTypeOK
<1>5. ASSUME ~crowded', ~free'
      PROVE  /\ ~crowded /\ ~free /\ w > 0 /\ DOMAIN asleep = {}
             /\ Clean \in Seq(Weighing) /\ Len(Clean) <= CurrentWeight
             /\ Len(history) < Threshold \/ Len(history) <= 1
  <2>1. ~crowded /\ ~free /\ w > 0 /\ DOMAIN asleep = {}
    <3>1. ~crowded /\ DOMAIN asleep = {} /\ ~free /\ w # 0
      BY <1>4, <1>5, Zenon
    <3> QED BY <1>1, <3>1
  <2>2. history \in Seq(Weighing)
    BY <1>1, <2>1, LenProperties, SeqDef DEF LimiterInv, Weighing
  <2>3. Clean \in Seq(Weighing)
    BY <1>1, <2>2, CleanFacts DEF Weighing
  <2> QED BY <1>2, <2>1, <2>3, FewerThanWeight DEF LimiterInv
<1>6. CASE CurrentWeight + w >= Threshold /\ Clean # <<>>
  <2>1. /\ history' = Clean
        /\ asleep' = [k \in DOMAIN asleep \cup {c} |->
                        IF k = c THEN [weight |-> w, wake |-> Head(Clean).at + Window + Slack] ELSE asleep[k]]
    BY <1>6 DEF RequestPermission
  <2>2. Clean[1] \in Request /\ Head(Clean) = Clean[1] /\ Clean[1].at \in Nat
    <3>1. Head(Clean) \in Request /\ Head(Clean) = Clean[1]
      BY <1>2, <1>6, HeadTailProperties
    <3> QED BY <3>1, RequestsWeigh
  <2>3. Clean[1].at + Window + Slack \in Nat /\ Clean[1].at + Window + Slack >= Clean[1].at + Window
    BY <2>2, LimiterAssumption
  <2>4. LimiterTypeOK'
    <3>1. \A k \in DOMAIN asleep' : asleep'[k] \in [weight : Weights, wake : Nat]
      BY <2>1, <2>2, <2>3 DEF LimiterInv, LimiterTypeOK
    <3> QED BY <1>1, <1>2, <1>4, <2>1, <3>1 DEF LimiterTypeOK
  <2>5. ASSUME ~crowded', ~free'
        PROVE  /\ \A i \in DOMAIN history' : history'[i].weight > 0
               /\ Len(history') < Threshold \/ Len(history') <= 1
               /\ \A k, d \in DOMAIN asleep' : k = d
               /\ \A k \in DOMAIN asleep' : 
                    asleep'[k].weight > 0 /\ history' # <<>> /\ asleep'[k].wake >= history'[1].at + Window
    <3>1. \A i \in DOMAIN Clean : Clean[i].weight > 0
      BY <1>5, <2>5, LenProperties DEF Weighing
    <3>2. Len(Clean) < Threshold \/ Len(Clean) <= 1
      BY <1>1, <1>2, <1>5, <2>5
    <3>3. DOMAIN asleep' = {c} /\ asleep'[c] = [weight |-> w, wake |-> Clean[1].at + Window + Slack]
      BY <1>5, <2>1, <2>2, <2>5
    <3> QED BY <1>5, <1>6, <2>1, <2>3, <2>5, <3>1, <3>2, <3>3
  <2> QED BY <2>4, <2>5 DEF LimiterInv
<1>7. CASE ~ (CurrentWeight + w >= Threshold /\ Clean # <<>>)
  <2>1. Push(Clean, w) /\ asleep' = asleep
    BY <1>7 DEF RequestPermission
  <2>2. ASSUME ~crowded', ~free' PROVE Len(Clean) + 1 < Threshold \/ Len(Clean) = 0
    BY <1>1, <1>2, <1>3, <1>5, <1>7, <2>2, EmptySeq
  <2>4. CASE ~crowded' /\ ~free'
    <3>1. /\ history' \in Seq(Request) /\ history' # <<>>
          /\ \A i \in DOMAIN history' : history'[i].weight > 0
          /\ Len(history') < Threshold \/ Len(history') <= 1
      BY <1>5, <2>1, <2>2, <2>4, PushKeeps
    <3>2. DOMAIN asleep' = {}
      BY <1>5, <2>1, <2>4
    <3> QED BY <1>1, <1>4, <2>1, <2>4, <3>1, <3>2 DEF LimiterInv, LimiterTypeOK
  <2>5. CASE crowded' \/ free'
    <3>1. history' \in Seq(Request)
      <4>1. [weight |-> w, at |-> tick] \in Request
        BY <1>1 DEF Request
      <4> QED BY <1>2, <2>1, <4>1, AppendProperties DEF Push
    <3>2. \A k \in DOMAIN asleep' : asleep'[k] \in [weight : Weights, wake : Nat]
      BY <2>1 DEF LimiterInv, LimiterTypeOK
    <3> QED BY <1>1, <1>4, <2>1, <2>5, <3>1, <3>2 DEF LimiterInv, LimiterTypeOK
  <2> QED BY <2>4, <2>5
<1> QED BY <1>6, <1>7

LEMMA WakeKeeps ==
  ASSUME LimiterInv, NEW c \in Clients, Wake(c)
  PROVE  LimiterInv'
<1> DEFINE w == asleep[c].weight
<1>1. /\ tick \in Nat /\ history \in Seq(Request) /\ DOMAIN asleep \subseteq Clients /\ Threshold \in Nat
      /\ c \in DOMAIN asleep /\ w \in Weights /\ asleep[c].wake \in Nat /\ asleep[c].wake <= tick
  BY LimiterAssumption DEF LimiterInv, LimiterTypeOK, Wake
<1>2. Clean \in Seq(Request) /\ Len(Clean) \in Nat /\ Len(history) \in Nat /\ Len(Clean) <= Len(history)
  BY <1>1, CleanFacts, LenProperties
<1>3. /\ Push(Clean, w) /\ asleep' = [k \in DOMAIN asleep \ {c} |-> asleep[k]]
      /\ tick' = tick /\ crowded' = crowded /\ free' = free /\ crowded \in BOOLEAN /\ free \in BOOLEAN
  BY DEF Wake, LimiterInv, LimiterTypeOK
<1>4. history' \in Seq(Request)
  <2>1. [weight |-> w, at |-> tick] \in Request
    BY <1>1 DEF Request
  <2> QED BY <1>2, <1>3, <2>1, AppendProperties DEF Push
<1>5. LimiterTypeOK'
  <2>1. \A k \in DOMAIN asleep' : asleep'[k] \in [weight : Weights, wake : Nat]
    BY <1>3 DEF LimiterInv, LimiterTypeOK
  <2> QED BY <1>1, <1>3, <1>4, <2>1 DEF LimiterTypeOK
<1>6. ASSUME ~crowded, ~free
      PROVE  /\ \A i \in DOMAIN history' : history'[i].weight > 0
             /\ Len(history') < Threshold \/ Len(history') <= 1
             /\ DOMAIN asleep' = {}
  <2>1. /\ Len(history) < Threshold \/ Len(history) <= 1
        /\ w > 0 /\ history # <<>> /\ asleep[c].wake >= history[1].at + Window
        /\ \A k \in DOMAIN asleep : k = c
        /\ \A i \in DOMAIN history : history[i].weight > 0
    BY <1>1, <1>6 DEF LimiterInv
  <2>2. history[1].at \in Nat
    <3>1. Head(history) \in Request /\ Head(history) = history[1]
      BY <1>1, <2>1, HeadTailProperties
    <3> QED BY <3>1, RequestsWeigh
  <2>3. history[1].at + Window <= tick
    BY <1>1, <2>1, <2>2, LimiterAssumption
  <2>4. Len(Clean) <= Len(history) - 1
    BY <1>1, <2>1, <2>3, CleanFacts
  <2>5. history \in Seq(Weighing)
    BY <1>1, <2>1, LenProperties, SeqDef DEF Weighing
  <2>6. Clean \in Seq(Weighing)
    BY <1>1, <2>5, CleanFacts DEF Weighing
  <2>7. [weight |-> w, at |-> tick] \in Weighing
    BY <1>1, <2>1 DEF Weighing, Request
  <2>8. history' \in Seq(Weighing) /\ Len(history') = Len(Clean) + 1
    BY <1>2, <1>3, <2>6, <2>7, AppendProperties DEF Push
  <2>9. \A i \in DOMAIN history' : history'[i].weight > 0
    BY <2>8, LenProperties DEF Weighing
  <2>10. Len(history') < Threshold \/ Len(history') <= 1
    BY <1>1, <1>2, <2>1, <2>4, <2>8
  <2>11. DOMAIN asleep' = {}
    BY <1>3, <2>1
  <2> QED BY <2>9, <2>10, <2>11
<1> QED BY <1>3, <1>5, <1>6 DEF LimiterInv

\* Init and every step keep the invariant.
LEMMA LimiterInvInit == LimiterInit => LimiterInv
<1> SUFFICES ASSUME LimiterInit PROVE LimiterInv
  OBVIOUS
<1>1. tick = 0 /\ history = <<>> /\ asleep = <<>> /\ crowded = FALSE /\ free = FALSE
  BY DEF LimiterInit
<1>2. history \in Seq(Request) /\ Len(history) = 0 /\ DOMAIN history = {} /\ DOMAIN asleep = {}
  BY <1>1, EmptySeq, LenProperties
<1>3. LimiterTypeOK
  BY <1>1, <1>2 DEF LimiterTypeOK
<1>4. Len(history) <= 1
  BY <1>2
<1> QED BY <1>2, <1>3, <1>4 DEF LimiterInv

LEMMA LimiterInvStep == LimiterInv /\ [LimiterNext]_limiterVars => LimiterInv'
<1> SUFFICES ASSUME LimiterInv, [LimiterNext]_limiterVars PROVE LimiterInv'
  OBVIOUS
<1>1. ASSUME NEW c \in Clients, NEW w \in Weights, RequestPermission(c, w) PROVE LimiterInv'
  BY <1>1, RequestKeeps
<1>2. ASSUME NEW c \in Clients, Wake(c) PROVE LimiterInv'
  BY <1>2, WakeKeeps
<1>3. CASE Tock
  BY <1>3 DEF Tock, LimiterInv, LimiterTypeOK
<1>4. CASE UNCHANGED limiterVars
  BY <1>4 DEF limiterVars, LimiterInv, LimiterTypeOK
<1> QED BY <1>1, <1>2, <1>3, <1>4 DEF LimiterNext

\* For any weights, window and threshold, fewer requests than the threshold are in
\* the window while nobody asks behind a sleeper and no call is free.
THEOREM RequestsTakeTurns == LimiterSpec => []GrantedInTurn
<1>1. LimiterInv => GrantedInTurn
  <2> SUFFICES ASSUME LimiterInv, ~crowded, ~free PROVE Len(Clean) < Threshold \/ Len(Clean) = 1
    BY DEF GrantedInTurn
  <2>1. tick \in Nat /\ history \in Seq(Request) /\ Threshold \in Nat \ {0}
        /\ (Len(history) < Threshold \/ Len(history) <= 1)
    BY LimiterAssumption DEF LimiterInv, LimiterTypeOK
  <2>2. Len(Clean) \in Nat /\ Len(history) \in Nat /\ Len(Clean) <= Len(history)
    BY <2>1, CleanFacts, LenProperties
  <2> HIDE DEF Clean
  <2>3. ASSUME Len(history) <= 1 PROVE Len(Clean) < Threshold \/ Len(Clean) = 1
    <3>1. Len(Clean) = 0 \/ Len(Clean) = 1
      BY <2>2, <2>3
    <3> QED BY <2>1, <3>1
  <2>4. ASSUME Len(history) < Threshold PROVE Len(Clean) < Threshold
    BY <2>1, <2>2, <2>4
  <2> QED BY <2>1, <2>3, <2>4
<1> QED BY <1>1, LimiterInvInit, LimiterInvStep, PTL DEF LimiterSpec

(***************************************************************************)
(* The memory is the newest of what was announced, and long enough: an     *)
(* event that may still come is of the last bars, as many as a late scan   *)
(* spans, and all that was announced since it was is of few bars more.     *)
(***************************************************************************)

IntelSpec == IntelInit /\ [][IntelNext]_intelVars

BarOf(e) == CHOOSE b \in DOMAIN BarEvents : e \in Members(BarEvents[b])

\* s is the newest of the first n of a, all of them or as many as are kept.
Trails(s, a, n) ==
  /\ Len(s) <= n /\ (Len(s) = n \/ Len(s) >= MiKeep)
  /\ \A k \in 1 .. Len(s) : s[k] = a[n - Len(s) + k]

CallsInTime ==
  /\ scansOpen \subseteq [scan : Nat, asked : Nat]
  /\ \A s \in scansOpen : s.asked <= bar /\ bar <= s.asked + Straddle

IntelInv ==
  /\ IntelTypeOK /\ CallsInTime
  /\ AnnouncedOnce
  /\ \A i \in DOMAIN announced : BarOf(announced[i]) <= bar + 1
  /\ \A i, j \in DOMAIN announced : i <= j => BarOf(announced[i]) <= BarOf(announced[j]) + 1 + Straddle
  /\ Trails(seenMi, announced, Len(announced))

LEMMA MarketBars ==
  /\ Len(BarEvents) \in Nat /\ DOMAIN BarEvents = 1 .. Len(BarEvents)
  /\ \A b \in DOMAIN BarEvents : BarEvents[b] \in Seq(Market)
  /\ \A e \in Market : BarOf(e) \in DOMAIN BarEvents /\ e \in Members(BarEvents[BarOf(e)])
  /\ \A b \in DOMAIN BarEvents : \A e \in Members(BarEvents[b]) : BarOf(e) = b /\ e \in Market
<1>1. /\ Len(BarEvents) \in Nat /\ DOMAIN BarEvents = 1 .. Len(BarEvents)
      /\ \A b \in DOMAIN BarEvents : BarEvents[b] \in Seq(Market)
  BY IntelAssumption, LenProperties
<1>2. ASSUME NEW e \in Market PROVE BarOf(e) \in DOMAIN BarEvents /\ e \in Members(BarEvents[BarOf(e)])
  <2>1. \E b \in DOMAIN BarEvents : e \in Members(BarEvents[b])
    BY DEF Market
  <2> QED BY <2>1 DEF BarOf
<1>3. ASSUME NEW b \in DOMAIN BarEvents, NEW e \in Members(BarEvents[b]) PROVE BarOf(e) = b /\ e \in Market
  <2>1. e \in Market
    BY DEF Market
  <2>2. BarOf(e) \in DOMAIN BarEvents /\ e \in Members(BarEvents[BarOf(e)])
    BY <1>2, <2>1
  <2>3. PICK i \in DOMAIN BarEvents[b] : e = BarEvents[b][i]
    BY DEF Members
  <2>4. PICK j \in DOMAIN BarEvents[BarOf(e)] : e = BarEvents[BarOf(e)][j]
    BY <2>2 DEF Members
  <2> QED BY <2>1, <2>2, <2>3, <2>4, IntelAssumption
<1> QED BY <1>1, <1>2, <1>3

LEMMA NearbyFinite ==
  ASSUME NEW b \in 0 .. Len(BarEvents)
  PROVE  IsFiniteSet(Nearby(b)) /\ Cardinality(Nearby(b)) \in Nat /\ Cardinality(Nearby(b)) <= MiKeep
<1>1. \A k \in DOMAIN BarEvents : IsFiniteSet(Members(BarEvents[k]))
  <2> SUFFICES ASSUME NEW k \in DOMAIN BarEvents PROVE IsFiniteSet(Members(BarEvents[k]))
    OBVIOUS
  <2> DEFINE n == Len(BarEvents[k])
             D == 1 .. n
             f == [i \in D |-> BarEvents[k][i]]
  <2>1. n \in Nat /\ DOMAIN BarEvents[k] = D
    BY MarketBars, LenProperties
  <2>2. IsFiniteSet(D)
    BY <2>1, FS_Interval
  <2>3. f \in Surjection(D, Members(BarEvents[k]))
    BY <2>1 DEF Surjection, Members
  <2> QED BY <2>2, <2>3, FS_Surjection
<1> DEFINE K == ((b - 1 - 2 * Straddle) .. (b + 1)) \cap DOMAIN BarEvents
<1>2. IsFiniteSet(K)
  <2>1. IsFiniteSet(DOMAIN BarEvents)
    BY MarketBars, FS_Interval
  <2> QED BY <2>1, FS_Subset
<1> DEFINE S == {Members(BarEvents[k]) : k \in K}
           g == [k \in K |-> Members(BarEvents[k])]
<1>3. IsFiniteSet(S)
  <2>1. g \in Surjection(K, S)
    BY DEF Surjection
  <2> QED BY <1>2, <2>1, FS_Surjection
<1>4. \A x \in S : IsFiniteSet(x)
  BY <1>1
<1>5. Nearby(b) = UNION S
  BY DEF Nearby
<1>6. IsFiniteSet(Nearby(b))
  <2> HIDE DEF S
  <2> QED BY <1>3, <1>4, <1>5, FS_UNION
<1> QED BY <1>6, FS_CardinalityType, IntelAssumption

\* What came up on a bar, of the events in s that are not remembered.
LEMMA FreshRun ==
  ASSUME NEW s \in Seq(Market)
  PROVE  \E run \in [0 .. Len(s) -> Seq(Market)] :
           /\ run[0] = <<>>
           /\ \A i \in 1 .. Len(s) : run[i] = FreshWith(run[i - 1], s[i])
           /\ FoldLeft(FreshWith, <<>>, s) = run[Len(s)]
<1> DEFINE n == Len(s)
           A == Seq(Market)
           base == <<>>
           F == [p \in (1 .. n) \X A |-> FreshWith(p[2], s[p[1]])]
           Eq(h) == h = [u \in SUBSET (1 .. n) |->
                           IF u = {} THEN base ELSE FreshWith(h[u \ {Max(u)}], s[Max(u)])]
           it == CHOOSE h : Eq(h)
<1>1. n \in Nat /\ DOMAIN s = 1 .. n /\ \A i \in 1 .. n : s[i] \in Market
  BY LenProperties
<1>2. F \in [(1 .. n) \X A -> A] /\ base \in A
  <2>1. base \in A
    OBVIOUS
  <2>2. \A p \in (1 .. n) \X A : FreshWith(p[2], s[p[1]]) \in A
    BY <1>1, AppendProperties DEF FreshWith
  <2> QED BY <2>1, <2>2
<1>3. ASSUME NEW i \in 1 .. n, NEW a \in A PROVE F[<<i, a>>] = FreshWith(a, s[i])
  BY <1>3
<1>4. FoldLeft(FreshWith, <<>>, s) = it[1 .. n]
  BY <1>1 DEF FoldLeft, MapThenFoldSet
<1> HIDE DEF F, n, A, base
<1>5. ASSUME NEW u \in SUBSET (1 .. n), u # {} PROVE Max(u) \in 1 .. n /\ u \ {Max(u)} \in SUBSET (1 .. n)
  BY <1>1, <1>5, MaxOfSome
<1>6. ASSUME NEW h, IsTable(h, A, base, n, F) PROVE Obeys(it, A, base, n, F)
  <2>1. Eq(h)
    BY <1>3, <1>5, <1>6 DEF IsTable
  <2> HIDE DEF Eq
  <2>2. Eq(it)
    BY <2>1
  <2> HIDE DEF it
  <2> USE DEF Eq
  <2> QED BY <1>3, <1>5, <2>2 DEF Obeys
<1> HIDE DEF it
<1>7. PICK run : IsRun(run, A, base, n, F) /\ it[1 .. n] = run[n]
  <2>1. Folds(it, A, base, n, F)
    BY <1>1, <1>2, <1>6, FoldRun
  <2> QED BY <2>1 DEF Folds
<1>8. ASSUME NEW i \in 1 .. n PROVE run[i] = FreshWith(run[i - 1], s[i])
  <2>1. i - 1 \in 0 .. n
    BY <1>1
  <2>2. run[i - 1] \in A /\ run[i] = F[<<i, run[i - 1]>>]
    BY <1>7, <2>1 DEF IsRun
  <2> QED BY <1>3, <2>2
<1>9. run \in [0 .. n -> A] /\ run[0] = base
  BY <1>7 DEF IsRun
<1> QED BY <1>4, <1>7, <1>8, <1>9 DEF n, A, base

\* f holds members of the first i of s, none of them remembered, each once.
Picked(f, s, i) ==
  /\ \A k \in DOMAIN f : (\E j \in 1 .. i : f[k] = s[j]) /\ f[k] \notin Members(seenMi)
  /\ \A k, l \in DOMAIN f : f[k] = f[l] => k = l

LEMMA FreshFacts ==
  ASSUME NEW b \in Int, seenMi \in Seq(Market)
  PROVE  /\ FreshOnBar(b) \in Seq(Market)
         /\ \A k \in DOMAIN FreshOnBar(b) :
              /\ b \in DOMAIN BarEvents /\ BarOf(FreshOnBar(b)[k]) = b
              /\ FreshOnBar(b)[k] \in Market /\ FreshOnBar(b)[k] \notin Members(seenMi)
         /\ \A k, l \in DOMAIN FreshOnBar(b) : FreshOnBar(b)[k] = FreshOnBar(b)[l] => k = l
<1>1. CASE b \notin DOMAIN BarEvents
  <2>1. FreshOnBar(b) = <<>>
    BY <1>1 DEF FreshOnBar
  <2> QED BY <2>1
<1>2. CASE b \in DOMAIN BarEvents
  <2> DEFINE s == BarEvents[b]
  <2>1. s \in Seq(Market) /\ FreshOnBar(b) = FoldLeft(FreshWith, <<>>, s)
    BY <1>2, MarketBars DEF FreshOnBar
  <2>2. Len(s) \in Nat /\ DOMAIN s = 1 .. Len(s) /\ \A j \in 1 .. Len(s) : s[j] \in Members(s)
    BY <2>1, LenProperties DEF Members
  <2>3. \A i, j \in 1 .. Len(s) : s[i] = s[j] => i = j
    BY <1>2, <2>2, IntelAssumption
  <2>4. \A e \in Members(s) : BarOf(e) = b /\ e \in Market
    BY <1>2, MarketBars
  <2> HIDE DEF s
  <2>5. PICK run \in [0 .. Len(s) -> Seq(Market)] :
           /\ run[0] = <<>>
           /\ \A i \in 1 .. Len(s) : run[i] = FreshWith(run[i - 1], s[i])
           /\ FoldLeft(FreshWith, <<>>, s) = run[Len(s)]
    BY <2>1, FreshRun
  <2> DEFINE P == {i \in 0 .. Len(s) : Picked(run[i], s, i)}
  <2>6. 0 \in P
    BY <2>2, <2>5 DEF Picked
  <2>7. ASSUME NEW i \in 1 .. Len(s), i - 1 \in P PROVE i \in P
    <3> DEFINE f == run[i - 1]
    <3>1. i \in 0 .. Len(s) /\ i - 1 \in 0 .. Len(s) /\ f \in Seq(Market) /\ Picked(f, s, i - 1)
      BY <2>2, <2>5, <2>7
    <3>2. run[i] = FreshWith(f, s[i])
      BY <2>5
    <3>3. Len(f) \in Nat /\ DOMAIN f = 1 .. Len(f) /\ s[i] \in Market
      BY <2>2, <2>4, <3>1, LenProperties
    <3>4. 1 .. (i - 1) \subseteq 1 .. i /\ i \in 1 .. i /\ i \notin 1 .. (i - 1) /\ 1 .. (i - 1) \subseteq 1 .. Len(s)
      BY <2>2
    <3> HIDE DEF f
    <3>5. CASE s[i] \in Members(seenMi)
      <4>1. run[i] = f
        BY <3>2, <3>5 DEF FreshWith
      <4> QED BY <3>1, <3>4, <4>1 DEF Picked
    <3>6. CASE s[i] \notin Members(seenMi)
      <4>1. run[i] = Append(f, s[i])
        BY <3>2, <3>6 DEF FreshWith
      <4>2. /\ DOMAIN run[i] = 1 .. (Len(f) + 1)
            /\ \A k \in 1 .. Len(f) : run[i][k] = f[k]
            /\ run[i][Len(f) + 1] = s[i]
        BY <3>1, <3>3, <4>1, AppendProperties, LenProperties
      <4>3. ASSUME NEW k \in 1 .. (Len(f) + 1)
            PROVE  (\E j \in 1 .. i : run[i][k] = s[j]) /\ run[i][k] \notin Members(seenMi)
        <5>1. CASE k \in 1 .. Len(f)
          BY <3>1, <3>3, <3>4, <4>2, <5>1 DEF Picked
        <5>2. CASE k = Len(f) + 1
          BY <3>4, <3>6, <4>2, <5>2
        <5> QED BY <3>3, <5>1, <5>2
      <4>4. \A k \in 1 .. Len(f) : f[k] # s[i]
        <5> SUFFICES ASSUME NEW k \in 1 .. Len(f), f[k] = s[i] PROVE FALSE
          OBVIOUS
        <5>1. PICK j \in 1 .. (i - 1) : f[k] = s[j]
          BY <3>1, <3>3 DEF Picked
        <5>2. i = j
          BY <2>3, <3>4, <5>1
        <5> QED BY <3>4, <5>1, <5>2
      <4>5. ASSUME NEW k \in 1 .. (Len(f) + 1), NEW l \in 1 .. (Len(f) + 1), run[i][k] = run[i][l] PROVE k = l
        <5>1. (k \in 1 .. Len(f) \/ k = Len(f) + 1) /\ (l \in 1 .. Len(f) \/ l = Len(f) + 1)
          BY <3>3
        <5>2. CASE k \in 1 .. Len(f) /\ l \in 1 .. Len(f)
          BY <3>1, <3>3, <4>2, <4>5, <5>2 DEF Picked
        <5>3. CASE k \in 1 .. Len(f) /\ l = Len(f) + 1
          BY <4>2, <4>4, <4>5, <5>3
        <5>4. CASE k = Len(f) + 1 /\ l \in 1 .. Len(f)
          BY <4>2, <4>4, <4>5, <5>4
        <5> QED BY <5>1, <5>2, <5>3, <5>4
      <4> QED BY <3>1, <4>2, <4>3, <4>5 DEF Picked
    <3> QED BY <3>5, <3>6
  <2>8. \A i \in 0 .. Len(s) : i \in P
    <3> HIDE DEF P
    <3> QED BY <2>2, <2>6, <2>7, UpTo
  <2>9. Len(s) \in 0 .. Len(s) /\ Picked(run[Len(s)], s, Len(s)) /\ run[Len(s)] \in Seq(Market)
    BY <2>2, <2>5, <2>8
  <2>10. \A k \in DOMAIN run[Len(s)] : run[Len(s)][k] \in Members(s)
    BY <2>2, <2>9 DEF Picked
  <2> QED BY <1>2, <2>1, <2>4, <2>5, <2>9, <2>10 DEF Picked
<1> QED BY <1>1, <1>2

LEMMA MemoryRun ==
  ASSUME NEW m \in Seq(Market), NEW s \in Seq(Market)
  PROVE  \E run \in [0 .. Len(s) -> Seq(Market)] :
           /\ run[0] = m
           /\ \A i \in 1 .. Len(s) : run[i] = Remembered(run[i - 1], s[i])
           /\ FoldLeft(Remembered, m, s) = run[Len(s)]
<1> DEFINE n == Len(s)
           A == Seq(Market)
           base == m
           F == [p \in (1 .. n) \X A |-> Remembered(p[2], s[p[1]])]
           Eq(h) == h = [u \in SUBSET (1 .. n) |->
                           IF u = {} THEN base ELSE Remembered(h[u \ {Max(u)}], s[Max(u)])]
           it == CHOOSE h : Eq(h)
<1>1. n \in Nat /\ DOMAIN s = 1 .. n /\ \A i \in 1 .. n : s[i] \in Market
  BY LenProperties
<1>2. F \in [(1 .. n) \X A -> A] /\ base \in A
  <2>1. ASSUME NEW a \in A, NEW e \in Market PROVE Remembered(a, e) \in A
    <3>1. Append(a, e) \in Seq(Market) /\ Len(Append(a, e)) \in Nat
      BY AppendProperties, LenProperties
    <3>2. Len(Append(a, e)) > MiCap => Len(Append(a, e)) - MiKeep + 1 \in 1 .. (Len(Append(a, e)) + 1)
      BY <3>1, IntelAssumption
    <3>3. Len(Append(a, e)) > MiCap =>
            SubSeq(Append(a, e), Len(Append(a, e)) - MiKeep + 1, Len(Append(a, e))) \in Seq(Market)
      <4> DEFINE x == Append(a, e)
                 k == Len(x) - MiKeep + 1
      <4> SUFFICES ASSUME Len(x) > MiCap PROVE SubSeq(x, k, Len(x)) \in Seq(Market)
        OBVIOUS
      <4>1. k \in 1 .. (Len(x) + 1) /\ x \in Seq(Market) /\ Len(x) \in Nat
        BY <3>1, <3>2
      <4> HIDE DEF x, k
      <4>2. \A j \in k .. Len(x) : x[j] \in Market
        BY <4>1, LenProperties
      <4> QED BY <4>1, <4>2, SubSeqProperties
    <3>4. ~ (Len(Append(a, e)) <= MiCap) => Len(Append(a, e)) > MiCap
      BY <3>1, IntelAssumption
    <3> QED BY <3>1, <3>3, <3>4 DEF Remembered
  <2>2. \A p \in (1 .. n) \X A : Remembered(p[2], s[p[1]]) \in A
    BY <1>1, <2>1
  <2> QED BY <2>2
<1>3. ASSUME NEW i \in 1 .. n, NEW a \in A PROVE F[<<i, a>>] = Remembered(a, s[i])
  BY <1>3
<1>4. FoldLeft(Remembered, m, s) = it[1 .. n]
  BY <1>1 DEF FoldLeft, MapThenFoldSet
<1> HIDE DEF F, n, A, base
<1>5. ASSUME NEW u \in SUBSET (1 .. n), u # {} PROVE Max(u) \in 1 .. n /\ u \ {Max(u)} \in SUBSET (1 .. n)
  BY <1>1, <1>5, MaxOfSome
<1>6. ASSUME NEW h, IsTable(h, A, base, n, F) PROVE Obeys(it, A, base, n, F)
  <2>1. Eq(h)
    BY <1>3, <1>5, <1>6 DEF IsTable
  <2> HIDE DEF Eq
  <2>2. Eq(it)
    BY <2>1
  <2> HIDE DEF it
  <2> USE DEF Eq
  <2> QED BY <1>3, <1>5, <2>2 DEF Obeys
<1> HIDE DEF it
<1>7. PICK run : IsRun(run, A, base, n, F) /\ it[1 .. n] = run[n]
  <2>1. Folds(it, A, base, n, F)
    BY <1>1, <1>2, <1>6, FoldRun
  <2> QED BY <2>1 DEF Folds
<1>8. ASSUME NEW i \in 1 .. n PROVE run[i] = Remembered(run[i - 1], s[i])
  <2>1. i - 1 \in 0 .. n
    BY <1>1
  <2>2. run[i - 1] \in A /\ run[i] = F[<<i, run[i - 1]>>]
    BY <1>7, <2>1 DEF IsRun
  <2> QED BY <1>3, <2>2
<1>9. run \in [0 .. n -> A] /\ run[0] = base
  BY <1>7 DEF IsRun
<1> QED BY <1>4, <1>7, <1>8, <1>9 DEF n, A, base

\* One more event keeps the memory the newest of what was announced.
LEMMA RememberedTrails ==
  ASSUME NEW m \in Seq(Market), Len(m) <= MiCap, NEW a \in Seq(Market), NEW n \in Nat, n < Len(a), Trails(m, a, n)
  PROVE  Trails(Remembered(m, a[n + 1]), a, n + 1) /\ Len(Remembered(m, a[n + 1])) <= MiCap
<1> DEFINE x == Append(m, a[n + 1])
           r == Remembered(m, a[n + 1])
<1>0. Len(a) \in Nat /\ n + 1 \in 1 .. Len(a) /\ a[n + 1] \in Market /\ Len(m) \in Nat
      /\ MiKeep \in Nat /\ MiCap \in Nat /\ MiKeep <= MiCap
  BY LenProperties, IntelAssumption
<1>1. x \in Seq(Market) /\ Len(x) = Len(m) + 1 /\ x[Len(m) + 1] = a[n + 1] /\ \A k \in 1 .. Len(m) : x[k] = m[k]
  BY <1>0, AppendProperties
<1>2. Len(m) <= n /\ (Len(m) = n \/ Len(m) >= MiKeep) /\ \A k \in 1 .. Len(m) : m[k] = a[n - Len(m) + k]
  BY DEF Trails
<1>3. \A k \in 1 .. Len(x) : x[k] = a[(n + 1) - Len(x) + k]
  <2> SUFFICES ASSUME NEW k \in 1 .. Len(x) PROVE x[k] = a[(n + 1) - Len(x) + k]
    OBVIOUS
  <2>1. (n + 1) - Len(x) + k = n - Len(m) + k /\ (k \in 1 .. Len(m) \/ k = Len(m) + 1)
    BY <1>0, <1>1
  <2>2. CASE k \in 1 .. Len(m)
    BY <1>1, <1>2, <2>1, <2>2
  <2>3. CASE k = Len(m) + 1
    <3>1. n - Len(m) + k = n + 1
      BY <1>0, <2>3
    <3> QED BY <1>1, <2>1, <2>3, <3>1
  <2> QED BY <2>1, <2>2, <2>3
<1> HIDE DEF x, r
<1>4. CASE Len(x) <= MiCap
  <2>1. r = x
    BY <1>4 DEF Remembered, x, r
  <2>2. Len(x) <= n + 1 /\ (Len(x) = n + 1 \/ Len(x) >= MiKeep)
    BY <1>0, <1>1, <1>2
  <2> QED BY <1>3, <1>4, <2>1, <2>2 DEF Trails, r
<1>5. CASE Len(x) > MiCap
  <2> DEFINE c == Len(x) - MiKeep + 1
  <2>0. c \in 1 .. (Len(x) + 1) /\ Len(x) \in Nat /\ c \in Int /\ (c <= Len(x) => Len(x) - c + 1 = MiKeep)
        /\ (~ (c <= Len(x)) => MiKeep = 0) /\ Len(x) - c + 1 = MiKeep
    BY <1>0, <1>1, <1>5
  <2>1. r = SubSeq(x, c, Len(x))
    <3>1. ~ (Len(x) <= MiCap)
      BY <1>0, <1>1, <1>5
    <3> QED BY <3>1 DEF Remembered, x, r
  <2>2. \A j \in c .. Len(x) : x[j] \in Market
    BY <1>1, <2>0, LenProperties
  <2> HIDE DEF c
  <2>3. /\ Len(SubSeq(x, c, Len(x))) = IF c <= Len(x) THEN Len(x) - c + 1 ELSE 0
        /\ \A k \in 1 .. (Len(x) - c + 1) : SubSeq(x, c, Len(x))[k] = x[c + k - 1]
    BY <2>0, <2>2, SubSeqProperties
  <2>4. Len(r) = MiKeep /\ \A k \in 1 .. MiKeep : r[k] = x[c + k - 1]
    BY <2>0, <2>1, <2>3
  <2>5. MiKeep <= n + 1 /\ MiKeep <= Len(x)
    BY <1>0, <1>1, <1>2, <1>5
  <2>6. ASSUME NEW k \in 1 .. MiKeep PROVE r[k] = a[(n + 1) - MiKeep + k]
    <3>1. c + k - 1 \in 1 .. Len(x) /\ (n + 1) - Len(x) + (c + k - 1) = (n + 1) - MiKeep + k
      <4>1. c = Len(x) - MiKeep + 1
        BY DEF c
      <4>2. Len(x) \in Int /\ MiKeep \in Int /\ k \in Int /\ k >= 1 /\ k <= MiKeep /\ MiKeep <= Len(x) /\ n \in Int
        BY <1>0, <2>0, <2>5
      <4> QED BY <4>1, <4>2
    <3>2. r[k] = x[c + k - 1]
      BY <2>4
    <3>3. x[c + k - 1] = a[(n + 1) - Len(x) + (c + k - 1)]
      BY <1>3, <3>1
    <3> QED BY <3>1, <3>2, <3>3
  <2>7. Len(r) <= n + 1 /\ Len(r) >= MiKeep /\ Len(r) <= MiCap
    BY <1>0, <2>4, <2>5
  <2>8. \A k \in 1 .. Len(r) : r[k] = a[(n + 1) - Len(r) + k]
    BY <2>4, <2>6
  <2> QED BY <2>7, <2>8 DEF Trails, r
<1>6. Len(x) <= MiCap \/ Len(x) > MiCap
  BY <1>0, <1>1
<1> QED BY <1>4, <1>5, <1>6

LEMMA MemoryTrails ==
  ASSUME NEW m \in Seq(Market), Len(m) <= MiCap, NEW a \in Seq(Market), NEW s \in Seq(Market),
         Trails(m, a, Len(a))
  PROVE  /\ FoldLeft(Remembered, m, s) \in Seq(Market) /\ Len(FoldLeft(Remembered, m, s)) <= MiCap
         /\ Trails(FoldLeft(Remembered, m, s), a \o s, Len(a \o s))
<1> DEFINE n == Len(s)
           q == a \o s
<1>1. n \in Nat /\ Len(a) \in Nat /\ Len(m) \in Nat /\ \A i \in 1 .. n : s[i] \in Market
  BY LenProperties
<1>2. /\ q \in Seq(Market) /\ Len(q) = Len(a) + n
      /\ \A i \in 1 .. Len(a) : q[i] = a[i]
      /\ \A i \in 1 .. n : q[Len(a) + i] = s[i]
  <2>1. q \in Seq(Market) /\ Len(q) = Len(a) + Len(s) 
        /\ \A i \in 1 .. (Len(a) + Len(s)) : q[i] = IF i <= Len(a) THEN a[i] ELSE s[i - Len(a)]
    BY ConcatProperties
  <2>2. \A i \in 1 .. Len(a) : i \in 1 .. (Len(a) + Len(s)) /\ i <= Len(a)
    BY <1>1
  <2>3. \A i \in 1 .. n : Len(a) + i \in 1 .. (Len(a) + Len(s)) /\ ~ (Len(a) + i <= Len(a)) /\ (Len(a) + i) - Len(a) = i
    BY <1>1
  <2> HIDE DEF q
  <2> QED BY <2>1, <2>2, <2>3
<1> HIDE DEF q
<1>3. PICK run \in [0 .. n -> Seq(Market)] :
           /\ run[0] = m
           /\ \A i \in 1 .. n : run[i] = Remembered(run[i - 1], s[i])
           /\ FoldLeft(Remembered, m, s) = run[n]
  BY MemoryRun
<1> DEFINE P == {i \in 0 .. n : Trails(run[i], q, Len(a) + i) /\ Len(run[i]) <= MiCap}
<1>4. 0 \in P
  <2>1. \A k \in 1 .. Len(m) : m[k] = q[Len(a) - Len(m) + k]
    <3> SUFFICES ASSUME NEW k \in 1 .. Len(m) PROVE m[k] = q[Len(a) - Len(m) + k]
      OBVIOUS
    <3>1. Len(m) <= Len(a) /\ m[k] = a[Len(a) - Len(m) + k]
      BY DEF Trails
    <3>2. Len(a) - Len(m) + k \in 1 .. Len(a)
      BY <1>1, <3>1
    <3> QED BY <1>2, <3>1, <3>2
  <2>2. Trails(m, q, Len(a))
    BY <2>1 DEF Trails
  <2>3. Len(a) + 0 = Len(a) /\ 0 \in 0 .. n
    BY <1>1
  <2> QED BY <1>3, <2>2, <2>3
<1>5. ASSUME NEW i \in 1 .. n, i - 1 \in P PROVE i \in P
  <2>1. i \in 0 .. n /\ i - 1 \in 0 .. n /\ Len(a) + (i - 1) \in Nat /\ Len(a) + (i - 1) < Len(q)
        /\ Len(a) + (i - 1) + 1 = Len(a) + i
    BY <1>1, <1>2
  <2>2. run[i - 1] \in Seq(Market) /\ Len(run[i - 1]) <= MiCap /\ Trails(run[i - 1], q, Len(a) + (i - 1))
    BY <1>3, <1>5, <2>1
  <2>3. run[i] = Remembered(run[i - 1], q[Len(a) + i])
    BY <1>2, <1>3
  <2>4. Trails(Remembered(run[i - 1], q[Len(a) + (i - 1) + 1]), q, Len(a) + (i - 1) + 1)
        /\ Len(Remembered(run[i - 1], q[Len(a) + (i - 1) + 1])) <= MiCap
    BY <1>2, <2>1, <2>2, RememberedTrails
  <2> QED BY <2>1, <2>3, <2>4
<1>6. \A i \in 0 .. n : i \in P
  <2> HIDE DEF P
  <2> QED BY <1>1, <1>4, <1>5, UpTo
<1>7. n \in P /\ run[n] \in Seq(Market)
  BY <1>1, <1>3, <1>6
<1> QED BY <1>2, <1>3, <1>7 DEF q

\* What may still come is remembered when it was announced.
LEMMA StillRemembered ==
  ASSUME IntelInv, NEW b \in (bar - Straddle) .. (bar + 1), NEW i \in DOMAIN announced, BarOf(announced[i]) = b
  PROVE  announced[i] \in Members(seenMi)
<1> DEFINE n == Len(announced)
           e == announced
           I == i .. n
           S == {e[j] : j \in I}
           f == [j \in I |-> e[j]]
<1>1. /\ bar \in Nat /\ bar \in 0 .. Len(BarEvents) /\ announced \in Seq(Market) /\ seenMi \in Seq(Market)
      /\ n \in Nat /\ Len(seenMi) \in Nat /\ DOMAIN announced = 1 .. n /\ i \in 1 .. n
      /\ DOMAIN seenMi = 1 .. Len(seenMi) /\ MiKeep \in Nat /\ Straddle \in Nat
  <2>1. bar \in 0 .. Len(BarEvents) /\ announced \in Seq(Market) /\ seenMi \in Seq(Market)
    BY DEF IntelInv, IntelTypeOK
  <2>2. bar \in Nat /\ MiKeep \in Nat /\ Straddle \in Nat
    BY <2>1, MarketBars, IntelAssumption
  <2>3. /\ n \in Nat /\ DOMAIN announced = 1 .. n
        /\ Len(seenMi) \in Nat /\ DOMAIN seenMi = 1 .. Len(seenMi)
    BY <2>1, LenProperties
  <2> QED BY <2>1, <2>2, <2>3
<1>2. \A j \in I : j \in 1 .. n /\ i <= j
  BY <1>1
<1>3. S \subseteq Nearby(bar)
  <2> SUFFICES ASSUME NEW j \in I PROVE e[j] \in Nearby(bar)
    OBVIOUS
  <2>1. e[j] \in Market /\ BarOf(e[j]) <= bar + 1 /\ BarOf(e[i]) <= BarOf(e[j]) + 1 + Straddle
    BY <1>1, <1>2, LenProperties DEF IntelInv
  <2>2. BarOf(e[j]) \in DOMAIN BarEvents /\ e[j] \in Members(BarEvents[BarOf(e[j])]) /\ BarOf(e[j]) \in Nat
    BY <2>1, MarketBars
  <2>3. bar - Straddle <= b /\ b \in Int
    BY <1>1
  <2> DEFINE h == BarOf(e[j])
  <2>4. h \in (bar - 1 - 2 * Straddle) .. (bar + 1)
    <3>1. h \in Nat /\ h <= bar + 1 /\ b <= h + 1 + Straddle
      BY <2>1, <2>2
    <3> QED BY <1>1, <2>3, <3>1
  <2> HIDE DEF h
  <2>5. h \in ((bar - 1 - 2 * Straddle) .. (bar + 1)) \cap DOMAIN BarEvents /\ e[j] \in Members(BarEvents[h])
    BY <2>2, <2>4 DEF h
  <2> QED BY <2>5 DEF Nearby
<1>4. IsFiniteSet(I) /\ Cardinality(I) = n - i + 1
  <2>1. i \in Int /\ n \in Int /\ i <= n
    BY <1>1
  <2> QED BY <2>1, FS_Interval
<1>5. f \in Bijection(I, S)
  <2>1. \A j, h \in I : f[j] = f[h] => j = h
    BY <1>1, <1>2 DEF IntelInv, AnnouncedOnce
  <2>2. f \in [I -> S] /\ \A t \in S : \E j \in I : f[j] = t
    OBVIOUS
  <2>3. f \in Injection(I, S)
    <3> HIDE DEF f, S, I
    <3> QED BY <2>1, <2>2 DEF Injection, IsInjective
  <2>4. f \in Surjection(I, S)
    BY <2>2 DEF Surjection
  <2> HIDE DEF f
  <2> QED BY <2>3, <2>4 DEF Bijection
<1>6. Cardinality(S) = n - i + 1
  <2>1. ExistsBijection(I, S)
    BY <1>5 DEF ExistsBijection
  <2> HIDE DEF I, S, f
  <2>2. Cardinality(S) = Cardinality(I)
    BY <1>4, <2>1, FS_Bijection
  <2> QED BY <1>4, <2>2
<1>7. n - i + 1 <= MiKeep
  <2>1. Cardinality(S) <= Cardinality(Nearby(bar)) /\ Cardinality(Nearby(bar)) <= MiKeep /\ Cardinality(Nearby(bar)) \in Nat
    BY <1>1, <1>3, NearbyFinite, FS_Subset
  <2> QED BY <1>1, <1>6, <2>1
<1>8. Len(seenMi) <= n /\ (Len(seenMi) = n \/ Len(seenMi) >= MiKeep)
      /\ \A k \in 1 .. Len(seenMi) : seenMi[k] = announced[n - Len(seenMi) + k]
  BY DEF IntelInv, Trails
<1> DEFINE k == i - (n - Len(seenMi))
<1>9. k \in 1 .. Len(seenMi) /\ n - Len(seenMi) + k = i
  <2>1. i \in Int /\ n \in Int /\ Len(seenMi) \in Int /\ MiKeep \in Int /\ 1 <= i /\ i <= n
    BY <1>1
  <2>2. Len(seenMi) <= n /\ (Len(seenMi) = n \/ Len(seenMi) >= n - i + 1)
    BY <1>7, <1>8, <2>1
  <2> HIDE DEF n
  <2>3. k \in Int /\ 1 <= k /\ k <= Len(seenMi) /\ n - Len(seenMi) + k = i
    BY <2>1, <2>2
  <2> QED BY <2>1, <2>3
<1>10. seenMi[k] = announced[i]
  <2> HIDE DEF k
  <2> QED BY <1>8, <1>9
<1> QED BY <1>1, <1>9, <1>10 DEF Members

LEMMA ScanKeeps ==
  ASSUME IntelInv, NEW b \in (bar - Straddle) .. (bar + 1), ScanFinds(b), CallsInTime', UNCHANGED bar,
         intelScans' \in 0 .. MaxIntelScans
  PROVE  IntelInv'
<1> DEFINE fresh == FreshOnBar(b)
           n == Len(announced)
           m == Len(fresh)
           q == announced \o fresh
<1>1. /\ bar \in Nat /\ bar \in 0 .. Len(BarEvents) /\ announced \in Seq(Market) /\ seenMi \in Seq(Market)
      /\ Len(seenMi) <= MiCap /\ n \in Nat /\ DOMAIN announced = 1 .. n /\ b \in Int /\ b <= bar + 1 /\ bar - Straddle <= b
      /\ Straddle \in Nat
  BY MarketBars, LenProperties, IntelAssumption DEF IntelInv, IntelTypeOK
<1>2. /\ fresh \in Seq(Market)
      /\ \A k \in DOMAIN fresh :
           /\ b \in DOMAIN BarEvents /\ BarOf(fresh[k]) = b
           /\ fresh[k] \in Market /\ fresh[k] \notin Members(seenMi)
      /\ \A k, l \in DOMAIN fresh : fresh[k] = fresh[l] => k = l
  BY <1>1, FreshFacts
<1>3. m \in Nat /\ DOMAIN fresh = 1 .. m
  BY <1>2, LenProperties
<1>4. seenMi' = FoldLeft(Remembered, seenMi, fresh) /\ announced' = q
  BY DEF ScanFinds
<1> HIDE DEF fresh
<1>5. /\ seenMi' \in Seq(Market) /\ Len(seenMi') <= MiCap /\ Trails(seenMi', q, Len(q))
  <2>1. Trails(seenMi, announced, Len(announced))
    BY DEF IntelInv
  <2> QED BY <1>1, <1>2, <1>4, <2>1, MemoryTrails
<1>6. /\ q \in Seq(Market) /\ Len(q) = n + m /\ DOMAIN q = 1 .. (n + m)
      /\ \A i \in 1 .. (n + m) : q[i] = IF i <= n THEN announced[i] ELSE fresh[i - n]
  BY <1>1, <1>2, ConcatProperties, LenProperties
<1> HIDE DEF q, n, m
<1>7. ASSUME NEW i \in 1 .. (n + m)
      PROVE  \/ i \in 1 .. n /\ q[i] = announced[i]
             \/ i - n \in 1 .. m /\ i > n /\ q[i] = fresh[i - n]
  <2>1. CASE i <= n
    BY <1>1, <1>3, <1>6, <2>1
  <2>2. CASE ~ (i <= n)
    BY <1>1, <1>3, <1>6, <2>2
  <2> QED BY <2>1, <2>2
<1>8. ASSUME NEW i \in 1 .. n, NEW k \in 1 .. m PROVE announced[i] # fresh[k]
  <2> SUFFICES ASSUME announced[i] = fresh[k] PROVE FALSE
    OBVIOUS
  <2>1. BarOf(announced[i]) = b /\ fresh[k] \notin Members(seenMi)
    BY <1>2, <1>3
  <2>2. announced[i] \in Members(seenMi)
    BY <1>1, <2>1, StillRemembered
  <2> QED BY <2>1, <2>2
<1>9. ASSUME NEW i \in 1 .. (n + m), NEW j \in 1 .. (n + m), q[i] = q[j] PROVE i = j
  <2>1. CASE i \in 1 .. n /\ q[i] = announced[i] /\ j \in 1 .. n /\ q[j] = announced[j]
    BY <1>1, <1>9, <2>1 DEF IntelInv, AnnouncedOnce
  <2>2. CASE i - n \in 1 .. m /\ q[i] = fresh[i - n] /\ j - n \in 1 .. m /\ q[j] = fresh[j - n]
    <3>1. i - n = j - n
      BY <1>2, <1>3, <1>9, <2>2
    <3> QED BY <1>1, <1>3, <3>1
  <2>3. CASE i \in 1 .. n /\ q[i] = announced[i] /\ j - n \in 1 .. m /\ q[j] = fresh[j - n]
    BY <1>8, <1>9, <2>3
  <2>4. CASE i - n \in 1 .. m /\ q[i] = fresh[i - n] /\ j \in 1 .. n /\ q[j] = announced[j]
    BY <1>8, <1>9, <2>4
  <2> QED BY <1>7, <2>1, <2>2, <2>3, <2>4
<1>10. ASSUME NEW i \in 1 .. n PROVE BarOf(announced[i]) <= bar + 1 /\ BarOf(announced[i]) \in Int
  <2>1. i \in DOMAIN announced /\ announced[i] \in Market
    BY <1>1
  <2>2. BarOf(announced[i]) <= bar + 1
    BY <2>1 DEF IntelInv
  <2>3. BarOf(announced[i]) \in Nat
    BY <2>1, MarketBars
  <2> QED BY <2>2, <2>3
<1>11. \A k \in 1 .. m : BarOf(fresh[k]) = b
  BY <1>2, <1>3
<1>12. ASSUME NEW i \in 1 .. (n + m) PROVE BarOf(q[i]) <= bar + 1
  BY <1>1, <1>7, <1>10, <1>11
<1>13. ASSUME NEW i \in 1 .. (n + m), NEW j \in 1 .. (n + m), i <= j PROVE BarOf(q[i]) <= BarOf(q[j]) + 1 + Straddle
  <2>1. CASE j \in 1 .. n /\ q[j] = announced[j]
    <3>1. i \in 1 .. n /\ q[i] = announced[i]
      BY <1>1, <1>3, <1>7, <1>13, <2>1
    <3> QED BY <1>1, <1>13, <2>1, <3>1 DEF IntelInv
  <2>2. CASE j - n \in 1 .. m /\ q[j] = fresh[j - n]
    <3>1. BarOf(q[j]) = b
      BY <1>11, <2>2
    <3>2. BarOf(q[i]) \in Int /\ BarOf(q[i]) <= bar + 1
      BY <1>1, <1>7, <1>10, <1>11, <1>12
    <3> QED BY <1>1, <3>1, <3>2
  <2> QED BY <1>7, <2>1, <2>2
<1>14. IntelTypeOK'
  <2>1. ingested' \subseteq Members(announced')
    <3>1. ingested \subseteq Members(announced) /\ (ingested' = ingested \/ ingested' = ingested \cup Members(fresh))
      BY DEF IntelInv, IntelTypeOK, ScanFinds, fresh
    <3>2. \A i \in 1 .. n : i \in 1 .. (n + m) /\ q[i] = announced[i]
      <4> SUFFICES ASSUME NEW i \in 1 .. n PROVE i \in 1 .. (n + m) /\ q[i] = announced[i]
        OBVIOUS
      <4>1. n \in Nat /\ m \in Nat
        BY <1>1, <1>3
      <4>2. i \in 1 .. (n + m) /\ i <= n
        BY <4>1
      <4> QED BY <1>6, <4>2
    <3>3. \A k \in 1 .. m : n + k \in 1 .. (n + m) /\ q[n + k] = fresh[k]
      <4> SUFFICES ASSUME NEW k \in 1 .. m PROVE n + k \in 1 .. (n + m) /\ q[n + k] = fresh[k]
        OBVIOUS
      <4>1. n + k \in 1 .. (n + m) /\ ~ (n + k <= n) /\ (n + k) - n = k
        BY <1>1, <1>3
      <4> QED BY <1>6, <4>1
    <3>4. Members(announced) \subseteq Members(q) /\ Members(fresh) \subseteq Members(q)
      <4>1. \A i \in 1 .. n : announced[i] \in Members(q)
        BY <1>6, <3>2 DEF Members
      <4>2. \A k \in 1 .. m : fresh[k] \in Members(q)
        BY <1>6, <3>3 DEF Members
      <4> QED BY <1>1, <1>3, <4>1, <4>2 DEF Members
    <3> QED BY <1>4, <3>1, <3>4
  <2> QED BY <1>1, <1>4, <1>5, <1>6, <2>1 DEF IntelTypeOK, CallsInTime
<1>15. AnnouncedOnce'
  BY <1>4, <1>6, <1>9 DEF AnnouncedOnce
<1>16. /\ \A i \in DOMAIN announced' : BarOf(announced'[i]) <= bar' + 1
       /\ \A i, j \in DOMAIN announced' : i <= j => BarOf(announced'[i]) <= BarOf(announced'[j]) + 1 + Straddle
       /\ Trails(seenMi', announced', Len(announced'))
  BY <1>4, <1>5, <1>6, <1>12, <1>13
<1> HIDE DEF AnnouncedOnce, IntelTypeOK, CallsInTime
<1> QED BY <1>14, <1>15, <1>16 DEF IntelInv

LEMMA IntelInvInit == IntelInit => IntelInv
<1> SUFFICES ASSUME IntelInit PROVE IntelInv
  OBVIOUS
<1>1. bar = 0 /\ scansOpen = {} /\ seenMi = <<>> /\ announced = <<>> /\ ingested = {} /\ intelScans = 0
  BY DEF IntelInit
<1>2. /\ seenMi \in Seq(Market) /\ Len(seenMi) = 0 /\ announced \in Seq(Market)
      /\ DOMAIN announced = {} /\ Len(announced) = 0
  BY <1>1, EmptySeq, LenProperties
<1>3. IntelTypeOK
  BY <1>1, <1>2, MarketBars, IntelAssumption DEF IntelTypeOK
<1>4. Trails(seenMi, announced, Len(announced))
  BY <1>2 DEF Trails
<1>5. scansOpen = {} /\ CallsInTime
  BY DEF IntelInit, CallsInTime
<1> QED BY <1>2, <1>3, <1>4, <1>5 DEF IntelInv, AnnouncedOnce

LEMMA IntelInvStep == IntelInv /\ [IntelNext]_intelVars => IntelInv'
<1> SUFFICES ASSUME IntelInv, [IntelNext]_intelVars PROVE IntelInv'
  OBVIOUS
<1>1. /\ bar \in 0 .. Len(BarEvents) /\ bar \in Nat /\ intelScans \in 0 .. MaxIntelScans /\ MaxIntelScans \in Nat
      /\ announced \in Seq(Market) /\ Straddle \in Nat
  BY MarketBars, IntelAssumption DEF IntelInv, IntelTypeOK
<1>2. ASSUME UNCHANGED <<seenMi, announced, ingested>>, CallsInTime', bar' \in {bar, bar + 1} \cap (0 .. Len(BarEvents)),
             intelScans' \in 0 .. MaxIntelScans
      PROVE  IntelInv'
  <2>1. \A i \in DOMAIN announced : BarOf(announced[i]) <= bar + 1 /\ BarOf(announced[i]) \in Int
    BY <1>1, MarketBars, LenProperties DEF IntelInv
  <2>2. \A i \in DOMAIN announced' : BarOf(announced'[i]) <= bar' + 1
    BY <1>1, <1>2, <2>1
  <2>3. IntelTypeOK'
    BY <1>2 DEF IntelInv, IntelTypeOK, CallsInTime
  <2> QED BY <1>2, <2>2, <2>3 DEF IntelInv, AnnouncedOnce
<1>3. CASE CandleCloses
  <2>1. bar' = bar + 1 /\ bar + 1 \in 0 .. Len(BarEvents)
    BY <1>1, <1>3, MarketBars DEF CandleCloses
  <2>2. CallsInTime'
    BY <1>1, <1>3, <2>1 DEF CandleCloses, CallsInTime, IntelInv
  <2> QED BY <1>1, <1>2, <1>3, <2>1, <2>2 DEF CandleCloses
<1>4. CASE ScanBegins
  <2>1. bar' = bar /\ intelScans' \in 0 .. MaxIntelScans /\ intelScans \in Nat
    BY <1>1, <1>4 DEF ScanBegins
  <2>2. CallsInTime'
    <3>1. scansOpen' = scansOpen \/ scansOpen' = scansOpen \cup {[scan |-> intelScans, asked |-> bar]}
      BY <1>4 DEF ScanBegins
    <3> DEFINE call == [scan |-> intelScans, asked |-> bar]
    <3>2. call \in [scan : Nat, asked : Nat] /\ call.asked <= bar /\ bar <= call.asked + Straddle
      BY <1>1, <2>1
    <3> HIDE DEF call
    <3> QED BY <2>1, <3>1, <3>2 DEF CallsInTime, IntelInv, call
  <2>3. CASE ScanFinds(bar)
    <3>1. bar \in (bar - Straddle) .. (bar + 1)
      BY <1>1
    <3> QED BY <2>1, <2>2, <2>3, <3>1, ScanKeeps
  <2>4. CASE UNCHANGED <<seenMi, announced, ingested>>
    BY <1>1, <1>2, <2>1, <2>2, <2>4
  <2> QED BY <1>4, <2>3, <2>4 DEF ScanBegins
<1>5. ASSUME NEW s \in scansOpen, ScanAnswered(s) PROVE IntelInv'
  <2>1. bar' = bar /\ intelScans' \in 0 .. MaxIntelScans /\ scansOpen' \subseteq scansOpen
    BY <1>1, <1>5 DEF ScanAnswered
  <2>2. CallsInTime' /\ s.asked \in Nat /\ bar <= s.asked + Straddle
    BY <2>1 DEF CallsInTime, IntelInv
  <2>3. ASSUME NEW b \in s.asked .. (bar + 1), ScanFinds(b) PROVE IntelInv'
    <3>1. b \in (bar - Straddle) .. (bar + 1)
      BY <1>1, <2>2
    <3> QED BY <2>1, <2>2, <2>3, <3>1, ScanKeeps
  <2>4. CASE UNCHANGED <<seenMi, announced, ingested>>
    BY <1>1, <1>2, <2>1, <2>2, <2>4
  <2> QED BY <1>5, <2>3, <2>4 DEF ScanAnswered
<1>6. CASE UNCHANGED intelVars
  <2>1. CallsInTime'
    BY <1>6 DEF intelVars, CallsInTime, IntelInv
  <2> QED BY <1>1, <1>2, <1>6, <2>1 DEF intelVars
<1> QED BY <1>3, <1>4, <1>5, <1>6 DEF IntelNext

\* For any market, and scans late by any number of closes, each event is announced once
\* if the memory keeps what the bars bring that such scans span.
THEOREM EventsToldOnce == IntelSpec => []AnnouncedOnce
<1>1. IntelInv => AnnouncedOnce
  BY DEF IntelInv
<1> QED BY <1>1, IntelInvInit, IntelInvStep, PTL DEF IntelSpec

(***************************************************************************)
(* The composition that is checked: each of its behaviours is a behaviour  *)
(* of every part, so that what is proved of a part holds of it; and the    *)
(* types of every part, from which those of the composition follow.        *)
(***************************************************************************)

\* the lanes' safety: what fairness adds is left aside
DeskSpec == DeskInit /\ [][DeskNext]_deskVars

\* A step of the composition is a step of each part, or leaves it as it was.
LEMMA FeedsStep ==
  ASSUME [FeedsNext]_FeedsVars
  PROVE  /\ [StreamNext]_streamVars /\ [StoreNext]_storeVars /\ [AccountNext]_accountVars
         /\ [CachesNext]_cacheVars /\ [LimiterNext]_limiterVars /\ [ChartReadNext]_chartReadVars
         /\ [DeskNext]_deskVars /\ [IntelNext]_intelVars /\ [CrossNext]_crossVars
         /\ UNCHANGED subject
<1>1. CASE UNCHANGED FeedsVars
  BY <1>1 DEF FeedsVars
<1>2. CASE Moves("stream") /\ StreamNext
  BY <1>2 DEF Moves
<1>3. CASE Moves("store") /\ StoreNext
  BY <1>3 DEF Moves
<1>4. CASE Moves("account") /\ AccountNext
  BY <1>4 DEF Moves
<1>5. CASE Moves("caches") /\ CachesNext
  BY <1>5 DEF Moves
<1>6. CASE Moves("limiter") /\ LimiterNext
  BY <1>6 DEF Moves
<1>7. CASE Moves("reading") /\ ChartReadNext
  BY <1>7 DEF Moves
<1>8. CASE Moves("desk") /\ DeskNext
  BY <1>8 DEF Moves
<1>9. CASE Moves("intel") /\ IntelNext
  BY <1>9 DEF Moves
<1>10. CASE Moves("venues") /\ CrossNext
  BY <1>10 DEF Moves
<1> QED BY <1>1, <1>2, <1>3, <1>4, <1>5, <1>6, <1>7, <1>8, <1>9, <1>10 DEF FeedsNext

\* What is proved of a part by itself holds of the composition that is checked: a
\* behaviour of the composition is a behaviour of each of its parts.
THEOREM FeedsAreParts ==
  Spec => /\ StreamSpec /\ StoreSpec /\ AccountSpec /\ CachesSpec /\ LimiterSpec /\ ChartSpec
          /\ DeskSpec /\ IntelSpec /\ CrossSpec /\ [](subject \in Subjects)
<1>1. FeedsInit => /\ StreamInit /\ StoreInit /\ AccountInit /\ CachesInit /\ LimiterInit
                   /\ ChartReadInit /\ DeskInit /\ IntelInit /\ CrossInit /\ subject \in Subjects
  BY DEF FeedsInit
<1>2. subject \in Subjects /\ UNCHANGED subject => (subject \in Subjects)'
  OBVIOUS
<1> QED
  BY <1>1, <1>2, FeedsStep, PTL
  DEF Spec, StreamSpec, StoreSpec, AccountSpec, CachesSpec, LimiterSpec, ChartSpec, DeskSpec,
      IntelSpec, CrossSpec

(***************************************************************************)
(* The types of the stream.                                                *)
(***************************************************************************)

\* What a call of subscribe adds is some of what it names, in that order.
LEMMA AddedTypes ==
  ASSUME NEW s \in Seq(Named)
  PROVE  FoldLeft(WithNew, <<>>, s) \in Seq(Named)
<1> DEFINE n == Len(s)
           A == Seq(Named)
           base == <<>>
           F == [p \in (1 .. n) \X A |-> WithNew(p[2], s[p[1]])]
           Eq(h) == h = [u \in SUBSET (1 .. n) |->
                           IF u = {} THEN base ELSE WithNew(h[u \ {Max(u)}], s[Max(u)])]
           it == CHOOSE h : Eq(h)
<1>1. n \in Nat /\ DOMAIN s = 1 .. n /\ \A i \in 1 .. n : s[i] \in Named
  BY LenProperties
<1>2. F \in [(1 .. n) \X A -> A] /\ base \in A
  <2>1. base \in A
    OBVIOUS
  <2>2. \A p \in (1 .. n) \X A : WithNew(p[2], s[p[1]]) \in A
    BY <1>1, AppendProperties DEF WithNew
  <2> QED BY <2>1, <2>2
<1>3. ASSUME NEW i \in 1 .. n, NEW a \in A PROVE F[<<i, a>>] = WithNew(a, s[i])
  BY <1>3
<1>4. FoldLeft(WithNew, <<>>, s) = it[1 .. n]
  BY <1>1 DEF FoldLeft, MapThenFoldSet
<1> HIDE DEF F, n, A, base
<1>5. ASSUME NEW u \in SUBSET (1 .. n), u # {} PROVE Max(u) \in 1 .. n /\ u \ {Max(u)} \in SUBSET (1 .. n)
  BY <1>1, <1>5, MaxOfSome
<1>6. ASSUME NEW h, IsTable(h, A, base, n, F) PROVE Obeys(it, A, base, n, F)
  <2>1. Eq(h)
    BY <1>3, <1>5, <1>6 DEF IsTable
  <2> HIDE DEF Eq
  <2>2. Eq(it)
    BY <2>1
  <2> HIDE DEF it
  <2> USE DEF Eq
  <2> QED BY <1>3, <1>5, <2>2 DEF Obeys
<1> HIDE DEF it
<1>7. PICK run : IsRun(run, A, base, n, F) /\ it[1 .. n] = run[n]
  <2>1. Folds(it, A, base, n, F)
    BY <1>1, <1>2, <1>6, FoldRun
  <2> QED BY <2>1 DEF Folds
<1>8. run[n] \in A
  BY <1>1, <1>7 DEF IsRun
<1> QED BY <1>4, <1>7, <1>8 DEF A

StreamSocket == [phase : Phases, url : SUBSET Named]

\* One socket goes into another phase.
LEMMA SocketPhase ==
  ASSUME sockets \in Seq(StreamSocket), NEW i \in DOMAIN sockets, NEW p \in Phases
  PROVE  /\ [sockets EXCEPT ![i].phase = p] \in Seq(StreamSocket)
         /\ Len([sockets EXCEPT ![i].phase = p]) = Len(sockets)
<1> DEFINE r == [sockets[i] EXCEPT !.phase = p]
<1>1. sockets[i] \in StreamSocket
  BY ElementOfSeq, LenProperties
<1>2. r \in StreamSocket
  BY <1>1 DEF StreamSocket
<1>3. [sockets EXCEPT ![i].phase = p] = [sockets EXCEPT ![i] = r]
  OBVIOUS
<1> HIDE DEF r
<1> QED BY <1>2, <1>3, ExceptSeq, LenProperties

LEMMA ClosingTypes ==
  ASSUME sockets \in Seq(StreamSocket), NEW k \in 0 .. Len(sockets)
  PROVE  Closing(k) \in Seq(StreamSocket) /\ Len(Closing(k)) = Len(sockets)
<1>1. CASE k # 0 /\ Live(k)
  <2>1. k \in DOMAIN sockets /\ "closing" \in Phases
    BY <1>1, LenProperties DEF Phases
  <2> QED BY <1>1, <2>1, SocketPhase DEF Closing
<1>2. CASE ~ (k # 0 /\ Live(k))
  BY <1>2 DEF Closing
<1> QED BY <1>1, <1>2

\* connect() appends the socket it tracks.
LEMMA ConnectedTypes ==
  ASSUME NEW r \in Seq(StreamSocket), Len(r) = Len(sockets), Connected(r), watched' \subseteq Named
  PROVE  /\ sockets' \in Seq(StreamSocket) /\ socket' \in 0 .. Len(sockets')
         /\ streamState' \in {"CONNECTING", "RECONNECTING"} /\ gaveUp' = FALSE
<1> DEFINE s == [phase |-> "connecting", url |-> watched']
<1>1. s \in StreamSocket
  BY DEF StreamSocket, Phases
<1>2. sockets' = Append(r, s) /\ socket' = Len(sockets) + 1
  BY DEF Connected
<1> HIDE DEF s
<1>3. Append(r, s) \in Seq(StreamSocket) /\ Len(Append(r, s)) = Len(r) + 1 /\ Len(r) \in Nat
  BY <1>1, AppendProperties, LenProperties
<1> QED BY <1>2, <1>3 DEF Connected

LEMMA StreamTypesStep ==
  ASSUME StreamTypeOK, [StreamNext]_streamVars
  PROVE  StreamTypeOK'
<1> USE DEF StreamTypeOK
<1>0. /\ sockets \in Seq(StreamSocket) /\ Len(sockets) \in Nat /\ DOMAIN sockets = 1 .. Len(sockets)
      /\ MaxRetries \in Nat
  BY StreamAssumption, LenProperties DEF StreamSocket, Phases
<1>a. ASSUME NEW v \in Seq(StreamSocket) PROVE v \in Seq([phase : {"connecting", "open", "closing", "closed"}, url : SUBSET Named])
  BY <1>a DEF StreamSocket, Phases
<1>1. ASSUME NEW c \in Callers, Subscribe(c) PROVE StreamTypeOK'
  <2> DEFINE added == FoldLeft(WithNew, <<>>, Watch[c])
  <2>1. added \in Seq(Named)
    BY StreamAssumption, AddedTypes
  <2>2. /\ added # <<>> /\ watched' = watched \cup {Head(added)}
        /\ calling' = [calling EXCEPT ![c] = "seeding"]
        /\ toSeed' = [toSeed EXCEPT ![c] = Tail(added)]
        /\ UNCHANGED <<sockets, socket, timer, orphans, attempts, stopped, streamState, gaveUp, lateClose>>
    BY <1>1 DEF Subscribe
  <2> HIDE DEF added
  <2>3. Head(added) \in Named /\ Tail(added) \in Seq(Named)
    BY <2>1, <2>2, HeadTailProperties
  <2>4. watched' \subseteq Named /\ calling' \in [Callers -> {"no", "seeding", "done"}]
        /\ toSeed' \in [Callers -> Seq(Named)]
    BY <2>2, <2>3
  <2> QED BY <2>2, <2>4
<1>2. ASSUME NEW c \in Callers, Seeded(c) PROVE StreamTypeOK'
  <2>1. /\ toSeed[c] # <<>> /\ watched' = watched \cup {Head(toSeed[c])}
        /\ toSeed' = [toSeed EXCEPT ![c] = Tail(@)]
        /\ UNCHANGED <<calling, sockets, socket, timer, orphans, attempts, stopped, streamState, gaveUp, lateClose>>
    BY <1>2 DEF Seeded
  <2>2. toSeed[c] \in Seq(Named)
    OBVIOUS
  <2>3. Head(toSeed[c]) \in Named /\ Tail(toSeed[c]) \in Seq(Named)
    BY <2>1, <2>2, HeadTailProperties
  <2>4. watched' \subseteq Named /\ toSeed' \in [Callers -> Seq(Named)]
    BY <2>1, <2>3
  <2> QED BY <2>1, <2>4
<1>3. ASSUME NEW c \in Callers, Resubscribe(c) PROVE StreamTypeOK'
  <2>1. /\ calling' = [calling EXCEPT ![c] = "done"] /\ stopped' = FALSE /\ timer' = FALSE
        /\ Connected(Closing(socket)) /\ UNCHANGED <<watched, toSeed, orphans, attempts, lateClose>>
    BY <1>3 DEF Resubscribe
  <2>2. Closing(socket) \in Seq(StreamSocket) /\ Len(Closing(socket)) = Len(sockets)
    BY <1>0, ClosingTypes
  <2>3. /\ sockets' \in Seq(StreamSocket) /\ socket' \in 0 .. Len(sockets')
        /\ streamState' \in {"CONNECTING", "RECONNECTING"} /\ gaveUp' = FALSE
    BY <2>1, <2>2, ConnectedTypes
  <2>4. calling' \in [Callers -> {"no", "seeding", "done"}]
    BY <2>1
  <2> QED BY <1>a, <2>1, <2>3, <2>4
<1>4. CASE Reconnect
  <2>1. /\ Connected(sockets) /\ UNCHANGED <<watched, calling, toSeed, attempts, stopped, lateClose>>
    BY <1>4 DEF Reconnect
  <2>3. timer' \in BOOLEAN /\ orphans' \in Nat
    <3>1. CASE timer /\ timer' = FALSE /\ UNCHANGED orphans
      BY <3>1
    <3>2. CASE orphans > 0 /\ orphans' = orphans - 1 /\ UNCHANGED timer
      BY <3>2
    <3> QED BY <1>4, <3>1, <3>2 DEF Reconnect
  <2>2. /\ sockets' \in Seq(StreamSocket) /\ socket' \in 0 .. Len(sockets')
        /\ streamState' \in {"CONNECTING", "RECONNECTING"} /\ gaveUp' = FALSE
    BY <1>0, <2>1, ConnectedTypes
  <2> QED BY <1>a, <2>1, <2>2, <2>3
<1>5. ASSUME NEW i \in DOMAIN sockets, OnOpen(i) PROVE StreamTypeOK'
  <2>1. /\ sockets' = [sockets EXCEPT ![i].phase = "open"] /\ attempts' = 0 /\ streamState' = "LIVE"
        /\ UNCHANGED <<socket, watched, calling, toSeed, timer, orphans, stopped, gaveUp, lateClose>>
    BY <1>5 DEF OnOpen
  <2>2. sockets' \in Seq(StreamSocket) /\ Len(sockets') = Len(sockets)
    BY <1>0, <2>1, SocketPhase DEF Phases
  <2>3. socket' \in 0 .. Len(sockets') /\ attempts' \in 0 .. MaxRetries
    BY <1>0, <2>1, <2>2
  <2>4. sockets' \in Seq([phase : {"connecting", "open", "closing", "closed"}, url : SUBSET Named])
    BY <1>a, <2>2
  <2> QED BY <2>1, <2>3, <2>4
<1>6. ASSUME NEW i \in DOMAIN sockets, OnClose(i) PROVE StreamTypeOK'
  <2> DEFINE gone == [phase |-> "closed", url |-> {}]
  <2>1. gone \in StreamSocket
    BY DEF StreamSocket, Phases
  <2>2. sockets' = [sockets EXCEPT ![i] = gone] /\ socket' = 0
        /\ UNCHANGED <<watched, calling, toSeed, stopped>>
    BY <1>6 DEF OnClose
  <2> HIDE DEF gone
  <2>3. sockets' \in Seq(StreamSocket) /\ Len(sockets') \in Nat
    BY <1>0, <2>1, <2>2, ExceptSeq
  <2>4. orphans' \in Nat /\ attempts' \in 0 .. MaxRetries
    BY <1>0, <1>6 DEF OnClose
  <2>5. /\ timer' \in BOOLEAN /\ gaveUp' \in BOOLEAN /\ lateClose' \in BOOLEAN
        /\ streamState' \in {"IDLE", "CONNECTING", "LIVE", "RECONNECTING", "DOWN"}
    <3>1. CASE stopped
      BY <1>6, <3>1 DEF OnClose
    <3>2. CASE ~ stopped
      <4>1. streamState' = "DOWN" /\ lateClose' = (lateClose \/ socket # i)
            /\ gaveUp' = (attempts >= MaxRetries) /\ (timer' = TRUE \/ timer' = timer)
        BY <1>6, <3>2 DEF OnClose
      <4>2. timer' \in BOOLEAN
        BY <4>1
      <4>3. (lateClose \/ socket # i) \in BOOLEAN /\ (attempts >= MaxRetries) \in BOOLEAN
        OBVIOUS
      <4>4. gaveUp' \in BOOLEAN /\ lateClose' \in BOOLEAN
        BY Zenon, <4>1, <4>3
      <4> QED BY <4>1, <4>2, <4>4
    <3> QED BY <3>1, <3>2
  <2>6. socket' \in 0 .. Len(sockets')
    BY <2>2, <2>3
  <2>7. sockets' \in Seq([phase : {"connecting", "open", "closing", "closed"}, url : SUBSET Named])
    BY <1>a, <2>3
  <2> QED BY <2>2, <2>4, <2>5, <2>6, <2>7
<1>7. CASE StopStream
  <2>1. /\ stopped' = TRUE /\ timer' = FALSE /\ sockets' = Closing(socket) /\ socket' = 0
        /\ streamState' = "IDLE"
        /\ UNCHANGED <<watched, calling, toSeed, orphans, attempts, gaveUp, lateClose>>
    BY <1>7 DEF StopStream
  <2>2. sockets' \in Seq(StreamSocket) /\ Len(sockets') = Len(sockets)
    BY <1>0, <2>1, ClosingTypes
  <2>3. socket' \in 0 .. Len(sockets')
    BY <1>0, <2>1, <2>2
  <2>4. sockets' \in Seq([phase : {"connecting", "open", "closing", "closed"}, url : SUBSET Named])
    BY <1>a, <2>2
  <2> QED BY <2>1, <2>3, <2>4
<1>8. CASE UNCHANGED streamVars
  BY <1>8 DEF streamVars
<1> QED BY <1>1, <1>2, <1>3, <1>4, <1>5, <1>6, <1>7, <1>8 DEF StreamNext

LEMMA StreamTypes == StreamSpec => []StreamTypeOK
<1>1. StreamInit => StreamTypeOK
  <2> SUFFICES ASSUME StreamInit PROVE StreamTypeOK
    OBVIOUS
  <2>1. /\ sockets = <<>> /\ socket = 0 /\ watched = {} /\ Len(sockets) = 0
        /\ calling = [c \in Callers |-> "no"] /\ toSeed = [c \in Callers |-> <<>>]
    BY DEF StreamInit
  <2>2. calling \in [Callers -> {"no", "seeding", "done"}] /\ toSeed \in [Callers -> Seq(Named)]
    BY <2>1
  <2>3. socket \in 0 .. Len(sockets) /\ orphans \in Nat /\ attempts \in 0 .. MaxRetries
    BY <2>1, StreamAssumption DEF StreamInit
  <2>4. sockets \in Seq([phase : {"connecting", "open", "closing", "closed"}, url : SUBSET Named])
    BY <2>1
  <2> QED BY <2>1, <2>2, <2>3, <2>4 DEF StreamInit, StreamTypeOK
<1>2. StreamTypeOK /\ [StreamNext]_streamVars => StreamTypeOK'
  BY StreamTypesStep
<1> QED BY <1>1, <1>2, PTL DEF StreamSpec

(***************************************************************************)
(* The types of the market store.                                          *)
(***************************************************************************)

LEMMA LaterOf ==
  ASSUME NEW a \in Int, NEW b \in Int
  PROVE  Max({a, b}) \in {a, b} /\ Max({a, b}) >= a /\ Max({a, b}) >= b
<1>1. \E x \in {a, b} : \A y \in {a, b} : x >= y
  <2>1. CASE a >= b
    BY <2>1
  <2>2. CASE ~ (a >= b)
    BY <2>2
  <2> QED BY <2>1, <2>2
<1> QED BY <1>1 DEF Max

\* The newest n of a sequence.
LEMMA NewestTypes ==
  ASSUME NEW T, NEW s \in Seq(T), NEW n \in Nat
  PROVE  Newest(s, n) \in Seq(T) /\ Len(Newest(s, n)) <= n
<1> DEFINE m == Max({1, Len(s) - n + 1})
<1>1. Len(s) \in Nat /\ DOMAIN s = 1 .. Len(s) /\ \A i \in 1 .. Len(s) : s[i] \in T
  BY LenProperties
<1>2. m \in Int /\ m >= 1 /\ m >= Len(s) - n + 1
  <2>1. Len(s) - n + 1 \in Int /\ 1 \in Int
    BY <1>1
  <2>2. m \in {1, Len(s) - n + 1} /\ m >= 1 /\ m >= Len(s) - n + 1
    BY <2>1, LaterOf, Zenon
  <2> HIDE DEF m
  <2> QED BY <2>1, <2>2
<1> HIDE DEF m
<1>3. \A i \in m .. Len(s) : s[i] \in T
  BY <1>1, <1>2
<1>4. /\ SubSeq(s, m, Len(s)) \in Seq(T)
      /\ Len(SubSeq(s, m, Len(s))) = IF m <= Len(s) THEN Len(s) - m + 1 ELSE 0
  BY <1>1, <1>2, <1>3, SubSeqProperties
<1>5. Newest(s, n) = SubSeq(s, m, Len(s))
  BY DEF Newest, m
<1> QED BY <1>1, <1>2, <1>4, <1>5

\* The members of a set in their order.
LEMMA InOrderTypes ==
  ASSUME NEW S, S \subseteq Int, IsFiniteSet(S)
  PROVE  InOrder(S) \in Seq(S)
<1>1. Cardinality(S) \in Nat /\ \A i \in 1 .. Cardinality(S) : Nth(S, i) \in S
  BY RanksCount, FS_CardinalityType
<1>2. InOrder(S) = [i \in 1 .. Cardinality(S) |-> Nth(S, i)]
  BY DEF InOrder, Nth, Rank
<1>3. [i \in 1 .. Cardinality(S) |-> Nth(S, i)] \in [1 .. Cardinality(S) -> S]
  BY <1>1
<1> QED BY <1>1, <1>2, <1>3 DEF Seq

LEMMA MergedTypes ==
  ASSUME StoreTypeOK, NEW S, S \subseteq Times, IsFiniteSet(S)
  PROVE  MergedPrints(S) \in Seq(Times) /\ Len(MergedPrints(S)) <= TapeCap
<1> DEFINE U == ToSet(tape) \cup S
<1>1. tape \in Seq(Times) /\ TapeCap \in Nat /\ EndOfTime \in Nat /\ Times \subseteq Int
  BY StoreAssumption DEF StoreTypeOK, Times
<1>2. ToSet(tape) \subseteq Times /\ IsFiniteSet(ToSet(tape))
  <2>1. Len(tape) \in Nat /\ DOMAIN tape = 1 .. Len(tape) /\ \A i \in 1 .. Len(tape) : tape[i] \in Times
    BY <1>1, LenProperties
  <2>2. ToSet(tape) \subseteq Times
    BY <2>1 DEF ToSet
  <2>3. IsFiniteSet(0 .. EndOfTime)
    BY <1>1, FS_Interval
  <2> QED BY <2>2, <2>3, FS_Subset DEF Times
<1>3. U \subseteq Times /\ IsFiniteSet(U) /\ U \subseteq Int
  BY <1>1, <1>2, FS_Union
<1> HIDE DEF U
<1>4. InOrder(U) \in Seq(Times)
  <2>1. InOrder(U) \in Seq(U)
    BY <1>3, InOrderTypes
  <2> QED BY <1>3, <2>1, SeqMonotonic
<1>5. Newest(InOrder(U), TapeCap) \in Seq(Times) /\ Len(Newest(InOrder(U), TapeCap)) <= TapeCap
  BY <1>1, <1>4, NewestTypes
<1> QED BY <1>5 DEF MergedPrints, U

LEMMA TouchTypes ==
  ASSUME StoreTypeOK, NEW at \in Times, Touch(at)
  PROVE  touched' \in Times \cup {None}
<1>1. touched \in Int /\ at \in Int /\ touched \in Times \cup {None}
  BY StoreAssumption DEF StoreTypeOK, Times, None
<1>2. Max({touched, at}) \in {touched, at}
  BY <1>1, LaterOf
<1> QED BY <1>1, <1>2 DEF Touch

\* What is trimmed was received.
LEMMA CandleTypes ==
  ASSUME StoreTypeOK, StoreInv', NEW keys, keys \subseteq Times, WithCandles(keys)
  PROVE  ladder' \subseteq received' /\ received' \subseteq Times
<1>1. ladder' \subseteq received'
  BY DEF StoreInv, TrimOldest
<1>2. received' \subseteq Times
  BY DEF WithCandles, StoreTypeOK
<1> QED BY <1>1, <1>2

\* What a message or an answer dates is within the clock.
LEMMA DatedTypes ==
  ASSUME StoreTypeOK, NEW a \in Int
  PROVE  /\ \A t \in Max({0, a})..now : t \in Times /\ t \in Nat
         /\ \A t \in Times : t \in Nat /\ Max({0, t - 1}) \in Times /\ Max({0, t - Seeded300 + 1}) \in Nat
<1>1. /\ now \in Nat /\ now <= EndOfTime /\ EndOfTime \in Nat /\ Seeded300 \in Nat
      /\ 0 \in Int
  BY StoreAssumption DEF StoreTypeOK, Times
<1>2. Max({0, a}) \in Nat
  <2>1. Max({0, a}) \in {0, a} /\ Max({0, a}) >= 0
    BY <1>1, LaterOf, Zenon
  <2> QED BY <2>1
<1>3. \A t \in Max({0, a})..now : t \in Times /\ t \in Nat
  BY <1>1, <1>2 DEF Times
<1>4. ASSUME NEW t \in Times PROVE t \in Nat /\ Max({0, t - 1}) \in Times /\ Max({0, t - Seeded300 + 1}) \in Nat
  <2>1. t \in Nat /\ t <= EndOfTime /\ t - 1 \in Int /\ t - Seeded300 + 1 \in Int
    BY <1>1 DEF Times
  <2>2. Max({0, t - 1}) \in {0, t - 1} /\ Max({0, t - 1}) >= 0
    BY <1>1, <2>1, LaterOf, Zenon
  <2>3. Max({0, t - Seeded300 + 1}) \in {0, t - Seeded300 + 1} /\ Max({0, t - Seeded300 + 1}) >= 0
    BY <1>1, <2>1, LaterOf, Zenon
  <2> QED BY <1>1, <2>1, <2>2, <2>3 DEF Times
<1> QED BY <1>3, <1>4

LEMMA StoreTypesStep ==
  ASSUME StoreTypeOK, StoreInv, StoreInv', [StoreNext]_storeVars
  PROVE  StoreTypeOK'
<1> DEFINE rest == /\ now' \in Times /\ tape' \in Seq(Times) /\ Len(tape') <= TapeCap
                   /\ priced' \subseteq {"last", "mark"} /\ touched' \in Times \cup {None}
                   /\ asked' \subseteq Requests
           candles == ladder' \subseteq received' /\ received' \subseteq Times
<1>0. /\ now \in Times /\ ladder \subseteq received /\ received \subseteq Times
      /\ tape \in Seq(Times) /\ Len(tape) <= TapeCap /\ priced \subseteq {"last", "mark"}
      /\ touched \in Times \cup {None} /\ asked \subseteq Requests
  BY DEF StoreTypeOK
<1>a. now - MaxLag \in Int /\ TapeCap \in Nat
  BY <1>0, StoreAssumption DEF Times
<1>b. \A t \in Max({0, now - MaxLag})..now : t \in Times /\ t \in Nat
  BY <1>a, DatedTypes
<1>c. rest /\ candles => StoreTypeOK'
  BY DEF StoreTypeOK
<1> HIDE DEF rest, candles
<1>1. ASSUME NEW t \in Max({0, now - MaxLag})..now, Kline(t) PROVE StoreTypeOK'
  <2>1. {t} \subseteq Times
    BY <1>b
  <2>2. candles
    BY <1>1, <2>1, CandleTypes DEF Kline, candles
  <2>3. rest
    BY <1>0, <1>1, TouchTypes DEF Kline, rest
  <2> QED BY <1>c, <2>2, <2>3
<1>2. ASSUME NEW t \in Max({0, now - MaxLag})..now, Trade(t) PROVE StoreTypeOK'
  <2>1. t \in Times /\ Append(tape, t) \in Seq(Times)
    BY <1>0, <1>b, AppendProperties
  <2>2. tape' \in Seq(Times) /\ Len(tape') <= TapeCap
    BY <1>2, <1>a, <2>1, NewestTypes DEF Trade
  <2>3. rest /\ candles
    BY <1>0, <1>2, <2>1, <2>2, TouchTypes DEF Trade, rest, candles
  <2> QED BY <1>c, <2>3
<1>3. ASSUME Tick("last") \/ Tick("mark") \/ Quote \/ OneSidedDepth PROVE StoreTypeOK'
  <2>1. touched' \in Times \cup {None}
    BY <1>0, <1>3, TouchTypes DEF Tick, Quote, OneSidedDepth
  <2>2. priced' \subseteq {"last", "mark"}
    BY <1>0, <1>3 DEF Tick, Quote, OneSidedDepth, Quoted
  <2>3. UNCHANGED <<now, ladder, tape, received, asked>>
    BY <1>3 DEF Tick, Quote, OneSidedDepth
  <2>4. rest /\ candles
    BY <1>0, <2>1, <2>2, <2>3 DEF rest, candles
  <2> QED BY <1>c, <2>4
<1>4. ASSUME NEW what \in {"klines", "micro", "tape", "quote"}, Ask(what) PROVE StoreTypeOK'
  <2>1. [what |-> what, at |-> now] \in Requests
    BY <1>0 DEF Requests
  <2>2. asked' = asked \cup {[what |-> what, at |-> now]}
        /\ UNCHANGED <<now, ladder, tape, priced, touched, received>>
    BY <1>4 DEF Ask
  <2>3. rest /\ candles
    BY <1>0, <2>1, <2>2 DEF rest, candles
  <2> QED BY <1>c, <2>3
<1>5. ASSUME NEW r \in asked, Answered(r) PROVE StoreTypeOK'
  <2>1. r.at \in Times /\ now \in Nat /\ r.at \in Nat /\ now <= EndOfTime /\ EndOfTime \in Nat
    <3>1. r \in Requests
      BY <1>0
    <3>2. r.at \in Times
      BY <3>1 DEF Requests
    <3> QED BY <1>0, <3>2, StoreAssumption DEF Times
  <2>2. PICK t \in r.at..now : \/ AnswerKlines(r, t) \/ AnswerMicro(r, t)
                               \/ AnswerTape(r, t) \/ AnswerQuote(r)
    BY <1>5 DEF Answered
  <2>3. t \in Times
    BY <2>1 DEF Times
  <2>4. t \in Nat /\ Max({0, t - 1}) \in Times /\ Max({0, t - Seeded300 + 1}) \in Nat
    <3>1. 0 \in Int
      OBVIOUS
    <3> QED BY <2>3, <3>1, DatedTypes
  <2>5. asked' \subseteq Requests /\ now' \in Times
    BY <1>0, <1>5 DEF Answered
  <2>6. CASE AnswerKlines(r, t)
    <3>1. Max({0, t - Seeded300 + 1})..t \subseteq Times
      BY <2>1, <2>4 DEF Times
    <3>2. candles
      BY <2>6, <3>1, CandleTypes DEF AnswerKlines, candles
    <3>3. touched' \in Times \cup {None} /\ UNCHANGED <<tape, priced>>
      BY <2>1, <2>6, TouchTypes DEF AnswerKlines
    <3>4. rest
      BY <1>0, <2>5, <3>3 DEF rest
    <3> QED BY <1>c, <3>2, <3>4
  <2>7. CASE AnswerMicro(r, t)
    <3>1. {t} \subseteq Times /\ IsFiniteSet({t})
      BY <2>3, FS_Singleton
    <3>2. tape' \in Seq(Times) /\ Len(tape') <= TapeCap
      BY <1>0, <2>7, <3>1, MergedTypes DEF AnswerMicro
    <3>3. touched' \in Times \cup {None}
      BY <1>0, <2>1, <2>7, TouchTypes DEF AnswerMicro
    <3>4. priced' \subseteq {"last", "mark"} /\ UNCHANGED <<ladder, received>>
      BY <2>7 DEF AnswerMicro, Quoted
    <3>5. rest /\ candles
      BY <1>0, <2>5, <3>2, <3>3, <3>4 DEF rest, candles
    <3> QED BY <1>c, <3>5
  <2>8. CASE AnswerTape(r, t)
    <3> DEFINE S == {Max({0, t - 1}), t}
    <3>1. S \subseteq Times /\ IsFiniteSet(S)
      <4>1. IsFiniteSet({Max({0, t - 1})}) /\ IsFiniteSet({t})
        BY FS_Singleton
      <4>2. IsFiniteSet({Max({0, t - 1})} \cup {t})
        BY <4>1, FS_Union
      <4>3. S = {Max({0, t - 1})} \cup {t}
        OBVIOUS
      <4> QED BY <2>3, <2>4, <4>2, <4>3
    <3>2. tape' = MergedPrints(S)
      BY <2>8 DEF AnswerTape
    <3> HIDE DEF S
    <3>3. tape' \in Seq(Times) /\ Len(tape') <= TapeCap
      BY <3>1, <3>2, MergedTypes
    <3>4. touched' \in Times \cup {None}
      BY <1>0, <2>8, TouchTypes DEF AnswerTape
    <3>5. priced' \subseteq {"last", "mark"} /\ UNCHANGED <<ladder, received>>
      BY <1>0, <2>8 DEF AnswerTape
    <3>6. rest /\ candles
      BY <1>0, <2>5, <3>3, <3>4, <3>5 DEF rest, candles
    <3> QED BY <1>c, <3>6
  <2>9. CASE AnswerQuote(r)
    <3>1. touched' \in Times \cup {None} /\ priced' \subseteq {"last", "mark"}
          /\ UNCHANGED <<ladder, tape, received>>
      BY <1>0, <2>9, TouchTypes DEF AnswerQuote, Quoted
    <3>2. rest /\ candles
      BY <1>0, <2>5, <3>1 DEF rest, candles
    <3> QED BY <1>c, <3>2
  <2> QED BY <2>2, <2>6, <2>7, <2>8, <2>9
<1>6. ASSUME NEW r \in asked, AskFails(r) PROVE StoreTypeOK'
  <2>1. rest /\ candles
    BY <1>0, <1>6 DEF AskFails, rest, candles
  <2> QED BY <1>c, <2>1
<1>7. CASE Pass
  <2>1. now' \in Times
    BY <1>0, <1>7, StoreAssumption DEF Pass, Times
  <2>2. rest /\ candles
    BY <1>0, <1>7, <2>1 DEF Pass, rest, candles
  <2> QED BY <1>c, <2>2
<1>8. CASE UNCHANGED storeVars
  BY <1>0, <1>8 DEF storeVars, StoreTypeOK
<1> QED BY <1>1, <1>2, <1>3, <1>4, <1>5, <1>6, <1>7, <1>8 DEF StoreNext

LEMMA StoreTypes == StoreSpec => []StoreTypeOK
<1>1. StoreInit => StoreTypeOK /\ StoreInv
  <2> SUFFICES ASSUME StoreInit PROVE StoreTypeOK /\ StoreInv
    OBVIOUS
  <2>1. TrimOldest({}) = {} /\ IsFiniteSet({})
    BY FS_EmptySet DEF TrimOldest
  <2>2. StoreInv
    BY <2>1 DEF StoreInit, StoreInv, Some
  <2>3. tape \in Seq(Times) /\ Len(tape) <= TapeCap /\ now \in Times
    BY StoreAssumption DEF StoreInit, Times
  <2>4. StoreTypeOK
    BY <2>3 DEF StoreInit, StoreTypeOK
  <2> QED BY <2>2, <2>4
<1>2. StoreTypeOK /\ StoreInv /\ [StoreNext]_storeVars => StoreTypeOK' /\ StoreInv'
  BY StoreTypesStep, StoreInvStep
<1> QED BY <1>1, <1>2, PTL DEF StoreSpec

(***************************************************************************)
(* The types of the account view.                                          *)
(***************************************************************************)

\* The messages sent up to time t.
Dated(t) == [kind : {"position", "other"}, size : Sizes, at : 0..t]

\* No message under way, and nothing of the cache, is dated ahead of the clock.
AccountTyped ==
  /\ moment \in 0..LastMoment /\ known \in Sizes
  /\ link \in {"none", "up", "down"} /\ attached = (link # "none")
  /\ wire \in Seq(Dated(moment))
  /\ eventAt \in {Nothing} \cup 0..moment
  /\ served \in Sizes \cup {Nothing} /\ inStep \in BOOLEAN

LEMMA DatedGrows ==
  ASSUME NEW a \in Nat, NEW b \in Nat, a <= b, NEW w \in Seq(Dated(a))
  PROVE  w \in Seq(Dated(b))
<1>1. 0..a \subseteq 0..b
  OBVIOUS
<1>2. Dated(a) \subseteq Dated(b)
  BY <1>1 DEF Dated
<1> QED BY <1>2, SeqMonotonic

\* The cache is touched at the time of what it was told, never later than now.
LEMMA TouchedTypes ==
  ASSUME AccountTyped, NEW at \in 0..moment, Touched(at)
  PROVE  eventAt' \in {Nothing} \cup 0..moment
<1>1. eventAt \in Int /\ at \in Int /\ moment \in Nat
  BY AccountAssumption DEF AccountTyped, Nothing
<1>2. \E x \in {eventAt, at} : \A y \in {eventAt, at} : x >= y
  <2>1. CASE eventAt >= at
    BY <1>1, <2>1
  <2>2. CASE ~ (eventAt >= at)
    BY <1>1, <2>2
  <2> QED BY <2>1, <2>2
<1>3. Max({eventAt, at}) \in {eventAt, at}
  BY <1>2 DEF Max
<1> QED BY <1>3 DEF Touched, AccountTyped

\* A message sent now joins the ones under way.
LEMMA SentTypes ==
  ASSUME AccountTyped, NEW m \in Dated(moment), Sent(m)
  PROVE  wire' \in Seq(Dated(moment))
<1>1. wire \in Seq(Dated(moment))
  BY DEF AccountTyped
<1>2. Append(wire, m) \in Seq(Dated(moment))
  BY <1>1, AppendProperties
<1> QED BY <1>1, <1>2 DEF Sent

LEMMA AccountTypesStep ==
  ASSUME AccountTyped, AccountInv, [AccountNext]_accountVars
  PROVE  AccountTyped'
<1>0. /\ moment \in 0..LastMoment /\ known \in Sizes /\ held \in Sizes
      /\ link \in {"none", "up", "down"} /\ attached = (link # "none")
      /\ wire \in Seq(Dated(moment)) /\ eventAt \in {Nothing} \cup 0..moment
      /\ served \in Sizes \cup {Nothing} /\ inStep \in BOOLEAN
      /\ calls \in Seq(SnapshotCall) /\ LastMoment \in Nat /\ moment \in Nat
  BY AccountAssumption DEF AccountTyped, AccountInv
<1>1. CASE Attach
  BY <1>0, <1>1 DEF Attach, AccountTyped
<1>2. CASE Detach \/ LoseLink
  <2>1. /\ wire' = <<>> /\ inStep' = FALSE /\ UNCHANGED <<moment, known, eventAt, served>>
    BY <1>2 DEF Detach, LoseLink, Cut
  <2>2. wire' \in Seq(Dated(moment))
    BY <2>1
  <2>3. link' \in {"none", "up", "down"} /\ attached' = (link' # "none")
    <3>1. CASE Detach
      BY <3>1 DEF Detach
    <3>2. CASE LoseLink
      BY <1>0, <3>2 DEF LoseLink
    <3> QED BY <1>2, <3>1, <3>2
  <2> QED BY <1>0, <2>1, <2>2, <2>3 DEF AccountTyped
<1>3. CASE OpenLink
  BY <1>0, <1>3 DEF OpenLink, AccountTyped
<1>4. CASE VenueMoves
  <2>1. PICK s \in Sizes \ {held} : held' = s /\ Sent([kind |-> "position", size |-> s, at |-> moment])
    BY <1>4 DEF VenueMoves
  <2>2. [kind |-> "position", size |-> s, at |-> moment] \in Dated(moment)
    BY <1>0 DEF Dated
  <2>3. wire' \in Seq(Dated(moment))
    BY <2>1, <2>2, SentTypes
  <2>4. inStep' = (inStep /\ link = "up") /\ UNCHANGED <<moment, link, attached, known, eventAt, served>>
    BY <1>4 DEF VenueMoves
  <2>5. (inStep /\ link = "up") \in BOOLEAN
    OBVIOUS
  <2>6. inStep' \in BOOLEAN
    BY <2>4, <2>5, Zenon
  <2> QED BY <1>0, <2>3, <2>4, <2>6 DEF AccountTyped
<1>5. CASE VenueMentions
  <2>1. [kind |-> "other", size |-> 0, at |-> moment] \in Dated(moment)
    BY <1>0, AccountAssumption DEF Dated
  <2>2. wire' \in Seq(Dated(moment))
    BY <1>5, <2>1, SentTypes DEF VenueMentions
  <2> QED BY <1>0, <1>5, <2>2 DEF VenueMentions, AccountTyped
<1>6. CASE Handle
  <2>1. wire # <<>> /\ Head(wire) \in Dated(moment) /\ Tail(wire) \in Seq(Dated(moment))
    BY <1>0, <1>6, HeadTailProperties DEF Handle
  <2>2. Head(wire).size \in Sizes /\ Head(wire).at \in 0..moment
    BY <2>1 DEF Dated
  <2>3. eventAt' \in {Nothing} \cup 0..moment
    BY <1>6, <2>2, TouchedTypes DEF Handle
  <2>4. /\ wire' = Tail(wire) /\ known' \in Sizes
        /\ UNCHANGED <<moment, link, attached, served, inStep>>
    BY <1>0, <1>6, <2>2 DEF Handle
  <2> QED BY <1>0, <2>1, <2>3, <2>4 DEF AccountTyped
<1>7. CASE ServeCached
  BY <1>0, <1>7 DEF ServeCached, AccountTyped
<1>8. CASE AskVenue
  BY <1>0, <1>8 DEF AskVenue, AccountTyped
<1>9. ASSUME NEW k \in DOMAIN calls, VenueAnswers(k) PROVE AccountTyped'
  BY <1>0, <1>9 DEF VenueAnswers, AccountTyped
<1>10. ASSUME NEW k \in DOMAIN calls, Seed(k) PROVE AccountTyped'
  <2>1. calls[k] \in SnapshotCall
    BY <1>0, LenProperties, ElementOfSeq
  <2>2. calls[k].answer \in Sizes
    BY <1>10, <2>1 DEF Seed, CallAnswered, SnapshotCall
  <2>3. eventAt' \in {Nothing} \cup 0..moment
    BY <1>0, <1>10, TouchedTypes DEF Seed
  <2>4. /\ known' \in Sizes /\ served' \in Sizes \cup {Nothing}
        /\ inStep' = (link = "up" /\ ~calls[k].missed)
        /\ UNCHANGED <<moment, link, attached, wire>>
    BY <1>0, <1>10, <2>2 DEF Seed
  <2>5. (link = "up" /\ ~calls[k].missed) \in BOOLEAN
    OBVIOUS
  <2>6. inStep' \in BOOLEAN
    BY <2>4, <2>5, Zenon
  <2> QED BY <1>0, <2>3, <2>4, <2>6 DEF AccountTyped
<1>11. ASSUME NEW k \in DOMAIN calls, CallFails(k) PROVE AccountTyped'
  BY <1>0, <1>11 DEF CallFails, AccountTyped
<1>12. CASE TimePasses
  <2>1. moment' = moment + 1 /\ moment' \in 0..LastMoment
        /\ UNCHANGED <<link, attached, wire, known, eventAt, served, inStep>>
    BY <1>0, <1>12 DEF TimePasses
  <2>2. wire \in Seq(Dated(moment + 1))
    BY <1>0, DatedGrows
  <2>3. wire' \in Seq(Dated(moment'))
    BY <2>1, <2>2
  <2>4. eventAt' \in {Nothing} \cup 0..moment'
    BY <1>0, <2>1
  <2> QED BY <1>0, <2>1, <2>3, <2>4 DEF AccountTyped
<1>13. CASE UNCHANGED accountVars
  BY <1>0, <1>13 DEF accountVars, AccountTyped
<1> QED BY <1>1, <1>2, <1>3, <1>4, <1>5, <1>6, <1>7, <1>8, <1>9, <1>10, <1>11, <1>12, <1>13 DEF AccountNext

LEMMA AccountTypes == AccountSpec => []AccountTypeOK
<1>1. AccountInit => AccountTyped /\ AccountInv
  <2> SUFFICES ASSUME AccountInit PROVE AccountTyped /\ AccountInv
    OBVIOUS
  <2>1. wire = <<>> /\ calls = <<>> /\ DOMAIN wire = {} /\ DOMAIN calls = {}
        /\ <<>> \in Seq(Message) /\ <<>> \in Seq(SnapshotCall) /\ <<>> \in Seq(Dated(moment))
    BY DEF AccountInit
  <2>2. AccountInv
    BY <2>1 DEF AccountInit, AccountInv, WireCurrent, AnswersCurrent
  <2>3. AccountTyped
    <3>1. moment = 0 /\ LastMoment \in Nat /\ known = 0 /\ 0 \in Sizes /\ eventAt = Nothing
          /\ served = Nothing /\ inStep = FALSE
      BY AccountAssumption DEF AccountInit
    <3>2. attached = FALSE /\ link = "none"
      BY DEF AccountInit
    <3>3. attached = (link # "none")
      BY <3>2
    <3>4. /\ moment \in 0..LastMoment /\ known \in Sizes /\ eventAt \in {Nothing} \cup 0..moment
          /\ served \in Sizes \cup {Nothing} /\ inStep \in BOOLEAN /\ link \in {"none", "up", "down"}
      <4>1. moment \in 0..LastMoment
        BY <3>1
      <4>2. known \in Sizes
        BY <3>1
      <4>3. eventAt \in {Nothing} \cup 0..moment /\ served \in Sizes \cup {Nothing}
        BY <3>1
      <4>4. inStep \in BOOLEAN
        BY <3>1, Zenon
      <4>5. link \in {"none", "up", "down"}
        BY <3>2, Zenon
      <4> QED BY <4>1, <4>2, <4>3, <4>4, <4>5
    <3> QED BY <2>1, <3>3, <3>4, Zenon DEF AccountTyped
  <2> QED BY <2>2, <2>3
<1>2. AccountTyped /\ AccountInv /\ [AccountNext]_accountVars => AccountTyped' /\ AccountInv'
  BY AccountTypesStep, AccountInvStep
<1>3. AccountTyped /\ AccountInv => AccountTypeOK
  <2> SUFFICES ASSUME AccountTyped, AccountInv PROVE AccountTypeOK
    OBVIOUS
  <2>1. wire \in Seq(Dated(LastMoment))
    <3>1. moment \in Nat /\ LastMoment \in Nat /\ moment <= LastMoment /\ wire \in Seq(Dated(moment))
      BY AccountAssumption DEF AccountTyped
    <3> QED BY <3>1, DatedGrows
  <2>2. /\ held \in Sizes
        /\ calls \in Seq([by : {"resync", "refresh"}, answer : Sizes \cup {Nothing}, missed : BOOLEAN])
    BY DEF AccountInv, SnapshotCall
  <2>3. wire \in Seq([kind : {"position", "other"}, size : Sizes, at : 0..LastMoment])
    BY <2>1 DEF Dated
  <2> QED BY <2>2, <2>3 DEF AccountTyped, AccountTypeOK
<1> QED BY <1>1, <1>2, <1>3, PTL DEF AccountSpec

(***************************************************************************)
(* The types of the caches.                                                *)
(***************************************************************************)

Stamp == Never..Horizon
CacheEntry == [value : Stamp, at : Stamp]
CacheCall == [fact : Facts, found : Stamp, usable : BOOLEAN, asked : 0..Horizon, value : Stamp]

LEMMA AskedTypes ==
  ASSUME CachesTypeOK, NEW f \in Facts, NEW usable \in BOOLEAN, CallFor(f, usable)
  PROVE  CachesTypeOK'
<1> DEFINE new == [fact |-> f, found |-> entry[f].value, asked |-> time, value |-> Never,
                   usable |-> usable]
<1>1. /\ time \in 0..Horizon /\ time \in Nat /\ Horizon \in Nat
      /\ entry \in [Facts -> CacheEntry] /\ pending \subseteq CacheCall
  BY CacheAssumption DEF CachesTypeOK, CacheEntry, CacheCall, Stamp
<1>2. Never \in Stamp
  BY <1>1 DEF Stamp, Never
<1>3. entry[f].value \in Stamp
  <2>1. entry[f] \in CacheEntry
    BY <1>1
  <2> QED BY <2>1 DEF CacheEntry
<1>4. new \in CacheCall
  BY <1>1, <1>2, <1>3 DEF CacheCall
<1>5. pending' = pending \cup {new} /\ UNCHANGED <<time, entry, answer>>
  BY DEF CallFor
<1> HIDE DEF new
<1>6. pending' \subseteq CacheCall
  BY <1>1, <1>4, <1>5
<1> QED BY <1>5, <1>6 DEF CachesTypeOK, CacheCall, Stamp

LEMMA CachesTypesStep ==
  ASSUME CachesTypeOK, [CachesNext]_cacheVars
  PROVE  CachesTypeOK'
<1> DEFINE kinds == {"none", "cached", "asked", "stale", "denied", "failed"}
<1>1. /\ time \in 0..Horizon /\ time \in Nat /\ Horizon \in Nat
      /\ entry \in [Facts -> CacheEntry] /\ pending \subseteq CacheCall /\ answer.kind \in kinds
  BY CacheAssumption DEF CachesTypeOK, CacheEntry, CacheCall, Stamp
<1>2. ASSUME time' \in 0..Horizon, entry' \in [Facts -> CacheEntry], pending' \subseteq CacheCall,
             answer'.kind \in kinds
      PROVE  CachesTypeOK'
  BY <1>2 DEF CachesTypeOK, CacheEntry, CacheCall, Stamp
<1>3. ASSUME NEW f, NEW kind \in kinds, NEW v, Given(f, kind, v) PROVE answer'.kind \in kinds
  BY <1>3 DEF Given
<1> HIDE DEF kinds
<1>4. ASSUME NEW f \in Facts, Hit(f) PROVE CachesTypeOK'
  BY <1>1, <1>2, <1>3, <1>4 DEF Hit, kinds
<1>5. ASSUME NEW f \in Facts, Miss(f) PROVE CachesTypeOK'
  <2>1. CallFor(f, Held(f) /\ AgeOf(f) < UsableFor[f]) /\ (Held(f) /\ AgeOf(f) < UsableFor[f]) \in BOOLEAN
    BY <1>5 DEF Miss
  <2> QED BY <2>1, AskedTypes
<1>6. ASSUME NEW f \in Facts, Refresh(f) PROVE CachesTypeOK'
  BY <1>6, AskedTypes DEF Refresh
<1>7. ASSUME NEW c \in pending, Truth(c) PROVE CachesTypeOK'
  <2>1. c \in CacheCall /\ time \in Stamp
    BY <1>1 DEF Stamp, Never
  <2>2. [c EXCEPT !.value = time] \in CacheCall
    BY <2>1 DEF CacheCall
  <2>3. pending' = (pending \ {c}) \cup {[c EXCEPT !.value = time]} /\ UNCHANGED <<time, entry, answer>>
    BY <1>7 DEF Truth
  <2> QED BY <1>1, <1>2, <2>2, <2>3
<1>8. ASSUME NEW c \in pending, Stored(c) PROVE CachesTypeOK'
  <2>1. c \in CacheCall /\ time \in Stamp
    BY <1>1 DEF Stamp, Never
  <2>2. [value |-> c.value, at |-> time] \in CacheEntry
    BY <2>1 DEF CacheCall, CacheEntry
  <2>3. /\ entry' = [entry EXCEPT ![c.fact] = [value |-> c.value, at |-> time]]
        /\ Given(c.fact, "asked", c.value) /\ pending' = pending \ {c} /\ UNCHANGED time
    BY <1>8 DEF Stored
  <2>4. entry' \in [Facts -> CacheEntry]
    BY <1>1, <2>2, <2>3
  <2> QED BY <1>1, <1>2, <1>3, <2>3, <2>4 DEF kinds
<1>9. ASSUME NEW c \in pending, Denied(c) \/ Failed(c) PROVE CachesTypeOK'
  <2>1. pending' = pending \ {c} /\ UNCHANGED <<time, entry>>
    BY <1>9 DEF Denied, Failed
  <2>2. answer'.kind \in kinds
    BY <1>3, <1>9 DEF Denied, Failed, kinds
  <2> QED BY <1>1, <1>2, <2>1, <2>2
<1>10. CASE Later
  BY <1>1, <1>2, <1>10 DEF Later, kinds
<1>11. CASE UNCHANGED cacheVars
  BY <1>1, <1>2, <1>11 DEF cacheVars
<1> QED BY <1>4, <1>5, <1>6, <1>7, <1>8, <1>9, <1>10, <1>11 DEF CachesNext

LEMMA CachesTypes == CachesSpec => []CachesTypeOK
<1>1. CachesInit => CachesTypeOK
  <2> SUFFICES ASSUME CachesInit PROVE CachesTypeOK
    OBVIOUS
  <2>1. Never \in Never..Horizon /\ 0 \in 0..Horizon
    BY CacheAssumption DEF Never
  <2>2. entry \in [Facts -> [value : Never..Horizon, at : Never..Horizon]]
    BY <2>1 DEF CachesInit, Absent
  <2> QED BY <2>1, <2>2 DEF CachesInit, CachesTypeOK
<1>2. CachesTypeOK /\ [CachesNext]_cacheVars => CachesTypeOK'
  BY CachesTypesStep
<1> QED BY <1>1, <1>2, PTL DEF CachesSpec

(***************************************************************************)
(* The types of the limiter and of the intelligence scan are part of what  *)
(* their invariants need.                                                  *)
(***************************************************************************)

LEMMA LimiterTypes == LimiterSpec => []LimiterTypeOK
<1>1. LimiterInv => LimiterTypeOK
  BY DEF LimiterInv
<1> QED BY LimiterInvInit, LimiterInvStep, <1>1, PTL DEF LimiterSpec

LEMMA IntelTypes == IntelSpec => []IntelTypeOK
<1>1. IntelInv => IntelTypeOK
  BY DEF IntelInv
<1> QED BY IntelInvInit, IntelInvStep, <1>1, PTL DEF IntelSpec

(***************************************************************************)
(* The types of the cross-venue gate.                                      *)
(***************************************************************************)

\* The clock within its bound, the quote's price one the venues quote, and an
\* evaluation asked within the clock.
CrossTyped ==
  /\ quoteClock \in 1..EndOfQuotes /\ bookTicker.price \in Prices \cup {0}
  /\ evaluation.asked \in 0..EndOfQuotes

LEMMA CrossTypesStep ==
  ASSUME CrossTyped, [CrossNext]_crossVars
  PROVE  CrossTyped'
<1>0. EndOfQuotes \in Nat \ {0} /\ Idle.asked = 0 /\ 0 \in 0..EndOfQuotes
  BY CrossVenueAssumption DEF Idle
<1>1. CASE StreamQuotes
  BY <1>1 DEF StreamQuotes, CrossTyped
<1>2. CASE EvaluationBegins
  <2>1. evaluation' = [Idle EXCEPT !.asked = quoteClock] /\ UNCHANGED <<quoteClock, bookTicker>>
    BY <1>2 DEF EvaluationBegins
  <2>2. evaluation'.asked = quoteClock
    BY <2>1 DEF Idle
  <2> QED BY <1>0, <2>1, <2>2 DEF CrossTyped
<1>3. CASE Routed
  <2>1. evaluation' = [evaluation EXCEPT !.routed = TRUE] /\ UNCHANGED <<quoteClock, bookTicker>>
    BY <1>3 DEF Routed
  <2>2. evaluation'.asked = evaluation.asked
    BY <2>1
  <2> QED BY <2>1, <2>2 DEF CrossTyped
<1>4. CASE BookArrives
  <2>1. PICK q : evaluation' = [evaluation EXCEPT !.book = q]
    BY <1>4 DEF BookArrives
  <2>2. evaluation'.asked = evaluation.asked
    BY <2>1
  <2> QED BY <1>4, <2>2 DEF BookArrives, CrossTyped
<1>5. CASE TickerArrives
  <2>1. PICK q : evaluation' = [evaluation EXCEPT !.last = q]
    BY <1>5 DEF TickerArrives
  <2>2. evaluation'.asked = evaluation.asked
    BY <2>1
  <2> QED BY <1>5, <2>2 DEF TickerArrives, CrossTyped
<1>6. CASE Judged \/ EvaluationFails
  BY <1>0, <1>6 DEF Judged, EvaluationFails, CrossTyped
<1>7. CASE QuotesAge
  BY <1>0, <1>7 DEF QuotesAge, CrossTyped
<1>8. CASE UNCHANGED crossVars
  BY <1>8 DEF crossVars, CrossTyped
<1> QED BY <1>1, <1>2, <1>3, <1>4, <1>5, <1>6, <1>7, <1>8 DEF CrossNext

LEMMA CrossTypes == CrossSpec => []CrossTypeOK
<1>1. CrossInit => CrossTyped
  BY CrossVenueAssumption DEF CrossInit, CrossTyped, NoQuote, Idle
<1>2. CrossTyped /\ [CrossNext]_crossVars => CrossTyped'
  BY CrossTypesStep
<1>3. CrossTyped /\ CrossInv => CrossTypeOK
  BY DEF CrossTyped, CrossInv, CrossTypeOK, EvaluationRecent, HonestlyDated
<1> QED BY <1>1, <1>2, <1>3, CrossInvInit, CrossInvStep, PTL DEF CrossSpec

(***************************************************************************)
(* The types of the chart reading.                                         *)
(***************************************************************************)

\* One candle forms at a time, and only while there is room for it to close.
BarsTyped ==
  /\ BarsInv /\ heardPrices \in BOOLEAN /\ shown.source \in {"none", "store", "venue"}
  /\ Len(closedBars) <= MaxBars /\ Len(formingBar) <= 1
  /\ formingBar # <<>> => Len(closedBars) < MaxBars

LEMMA BarsTypesStep ==
  ASSUME BarsTyped, [ChartReadNext]_chartReadVars
  PROVE  BarsTyped'
<1>0. /\ closedBars \in Seq(Bars) /\ formingBar \in Seq(Bars) /\ Len(closedBars) \in Nat
      /\ Len(formingBar) \in Nat /\ Len(formingBar) <= 1 /\ Len(closedBars) <= MaxBars /\ MaxBars \in Nat
      /\ formingBar # <<>> => Len(closedBars) < MaxBars
      /\ heardPrices \in BOOLEAN /\ shown.source \in {"none", "store", "venue"}
  BY ChartAssumption, LenProperties DEF BarsTyped, BarsInv
<1>1. BarsInv'
  BY BarsInvStep DEF BarsTyped
<1>2. CASE Forms
  <2>1. PICK b \in Bars : formingBar' = <<b>>
    BY <1>2 DEF Forms
  <2>2. Len(formingBar') = 1
    BY <2>1
  <2>3. Len(closedBars) < MaxBars /\ UNCHANGED <<closedBars, heardPrices, shown>>
    BY <1>2 DEF Forms
  <2> QED BY <1>0, <1>1, <2>2, <2>3 DEF BarsTyped
<1>3. CASE Closes
  <2>1. /\ formingBar # <<>> /\ closedBars' = closedBars \o formingBar /\ formingBar' = <<>>
        /\ UNCHANGED <<heardPrices, shown>>
    BY <1>3 DEF Closes, Ladder
  <2>2. Len(closedBars') = Len(closedBars) + Len(formingBar) /\ Len(formingBar') = 0
    BY <1>0, <2>1, ConcatProperties
  <2>3. Len(closedBars') <= MaxBars
    BY <1>0, <2>1, <2>2
  <2> QED BY <1>0, <1>1, <2>1, <2>2, <2>3 DEF BarsTyped
<1>4. CASE PricesHeard
  BY <1>0, <1>1, <1>4 DEF PricesHeard, BarsTyped
<1>5. CASE Reads
  <2>1. shown' \in {Unread, ReadLadder("venue"), ReadLadder("store")}
        /\ UNCHANGED <<closedBars, formingBar, heardPrices>>
    BY <1>5 DEF Reads
  <2>2. Unread.source = "none"
    BY DEF Unread
  <2>3. ReadLadder("store").source = "store" /\ ReadLadder("venue").source = "venue"
    BY DEF ReadLadder
  <2>4. shown'.source \in {"none", "store", "venue"}
    BY <2>1, <2>2, <2>3, Zenon
  <2> QED BY <1>0, <1>1, <2>1, <2>4 DEF BarsTyped
<1>6. CASE UNCHANGED chartReadVars
  BY <1>0, <1>1, <1>6 DEF chartReadVars, BarsTyped
<1> QED BY <1>2, <1>3, <1>4, <1>5, <1>6 DEF ChartReadNext

LEMMA ChartReadTypes == ChartSpec => []ChartReadTypeOK
<1>1. ChartReadInit => BarsTyped
  <2> SUFFICES ASSUME ChartReadInit PROVE BarsTyped
    OBVIOUS
  <2>1. /\ closedBars = <<>> /\ formingBar = <<>> /\ heardPrices = FALSE
        /\ <<>> \in Seq(Bars) /\ Len(<<>>) = 0 /\ MaxBars \in Nat
    BY ChartAssumption, EmptySeq DEF ChartReadInit
  <2>2. shown.source = "none"
    BY DEF ChartReadInit, Unread
  <2>3. Len(closedBars) <= MaxBars /\ Len(formingBar) <= 1
    BY <2>1
  <2>4. BarsInv
    BY <2>1 DEF BarsInv
  <2> QED BY <2>1, <2>2, <2>3, <2>4 DEF BarsTyped
<1>2. BarsTyped /\ [ChartReadNext]_chartReadVars => BarsTyped'
  BY BarsTypesStep
<1>3. BarsTyped => ChartReadTypeOK
  <2> SUFFICES ASSUME BarsTyped PROVE ChartReadTypeOK
    OBVIOUS
  <2>1. Ladder \in Seq(Bars)
    BY ConcatProperties DEF BarsTyped, BarsInv, Ladder
  <2>2. \A i \in DOMAIN Ladder : Ladder[i] \in Bars
    BY <2>1, LenProperties
  <2> QED BY <2>2 DEF BarsTyped, ChartReadTypeOK
<1> QED BY <1>1, <1>2, <1>3, PTL DEF ChartSpec

(***************************************************************************)
(* The types of the lanes.                                                 *)
(***************************************************************************)

Tasks == Watches \cup {"api"}

\* The head of the orchestrator's lane waits exactly when it has a task in the
\* kernel's lane, and no other trigger has one.
OneWaits ==
  IF orchBusy
  THEN /\ orchLane # <<>>
       /\ \E i \in DOMAIN kernelLane :
            /\ kernelLane[i] = orchLane[1]
            /\ \A j \in DOMAIN kernelLane : j # i => kernelLane[j] \notin Watches
  ELSE \A j \in DOMAIN kernelLane : kernelLane[j] \notin Watches

LanesTyped ==
  /\ orchLane \in Seq(Watches) /\ kernelLane \in Seq(Tasks)
  /\ orchBusy \in BOOLEAN /\ laneBusy \in BOOLEAN
  /\ laneBusy => kernelLane # <<>>

DeskTyped ==
  /\ deskTime \in WatchCooldown..EndOfDesk /\ watching \subseteq Watches
  /\ LanesTyped /\ OneWaits

LEMMA OrderTypes ==
  ASSUME NEW S, S \subseteq Watches, NEW order \in InSomeOrder(S)
  PROVE  order \in Seq(Watches)
<1>1. IsFiniteSet(S)
  BY CouncilAssumption, FS_Subset
<1>2. Cardinality(S) \in Nat /\ order \in [1..Cardinality(S) -> S]
  BY <1>1, FS_CardinalityType DEF InSomeOrder
<1>3. order \in [1..Cardinality(S) -> Watches]
  BY <1>2
<1> QED BY <1>2, <1>3 DEF Seq

\* A task of an interface joins the lane behind the waiting trigger's, if any.
LEMMA ApiJoins ==
  ASSUME LanesTyped, OneWaits, kernelLane' = Enqueued("api"), UNCHANGED <<orchLane, orchBusy, laneBusy>>
  PROVE  LanesTyped' /\ OneWaits'
<1>1. kernelLane \in Seq(Tasks) /\ "api" \in Tasks /\ "api" \notin Watches
  BY CouncilAssumption DEF LanesTyped, Tasks
<1>2. /\ kernelLane' \in Seq(Tasks) /\ kernelLane' # <<>>
      /\ Len(kernelLane') = Len(kernelLane) + 1 /\ Len(kernelLane) \in Nat
      /\ DOMAIN kernelLane = 1..Len(kernelLane) /\ DOMAIN kernelLane' = 1..Len(kernelLane')
      /\ \A i \in 1..Len(kernelLane) : kernelLane'[i] = kernelLane[i]
      /\ kernelLane'[Len(kernelLane) + 1] = "api"
  BY <1>1, AppendProperties, LenProperties DEF Enqueued
<1>3. LanesTyped'
  BY <1>2 DEF LanesTyped
<1>4. ASSUME NEW j \in DOMAIN kernelLane', j \notin DOMAIN kernelLane PROVE kernelLane'[j] \notin Watches
  BY <1>1, <1>2, <1>4
<1>5. CASE orchBusy
  <2>1. PICK i \in DOMAIN kernelLane :
          /\ kernelLane[i] = orchLane[1]
          /\ \A j \in DOMAIN kernelLane : j # i => kernelLane[j] \notin Watches
    BY <1>5 DEF OneWaits
  <2>2. i \in DOMAIN kernelLane' /\ kernelLane'[i] = orchLane[1]
    BY <1>2, <2>1
  <2>3. \A j \in DOMAIN kernelLane' : j # i => kernelLane'[j] \notin Watches
    BY <1>2, <1>4, <2>1
  <2> QED BY <1>3, <1>5, <2>2, <2>3 DEF OneWaits
<1>6. CASE ~orchBusy
  <2>1. \A j \in DOMAIN kernelLane' : kernelLane'[j] \notin Watches
    BY <1>2, <1>4, <1>6 DEF OneWaits
  <2> QED BY <1>3, <1>6, <2>1 DEF OneWaits
<1> QED BY <1>5, <1>6

\* The trigger at the head asks for its council and waits.
LEMMA TriggerWaits ==
  ASSUME LanesTyped, OneWaits, orchLane # <<>>, ~orchBusy, orchBusy' = TRUE,
         kernelLane' = Enqueued(Head(orchLane)), UNCHANGED <<orchLane, laneBusy>>
  PROVE  LanesTyped' /\ OneWaits'
<1>1. /\ kernelLane \in Seq(Tasks) /\ orchLane \in Seq(Watches) /\ orchLane[1] = Head(orchLane)
      /\ Head(orchLane) \in Watches /\ Head(orchLane) \in Tasks
  BY HeadTailProperties DEF LanesTyped, Tasks
<1>2. /\ kernelLane' \in Seq(Tasks) /\ kernelLane' # <<>>
      /\ Len(kernelLane') = Len(kernelLane) + 1 /\ Len(kernelLane) \in Nat
      /\ DOMAIN kernelLane = 1..Len(kernelLane) /\ DOMAIN kernelLane' = 1..Len(kernelLane')
      /\ \A i \in 1..Len(kernelLane) : kernelLane'[i] = kernelLane[i]
      /\ kernelLane'[Len(kernelLane) + 1] = Head(orchLane)
  BY <1>1, AppendProperties, LenProperties DEF Enqueued
<1>3. LanesTyped'
  BY <1>2 DEF LanesTyped
<1> DEFINE i == Len(kernelLane) + 1
<1>4. i \in DOMAIN kernelLane' /\ kernelLane'[i] = orchLane'[1]
  BY <1>1, <1>2
<1>5. \A j \in DOMAIN kernelLane' : j # i => kernelLane'[j] \notin Watches
  BY <1>2 DEF OneWaits
<1> QED BY <1>3, <1>4, <1>5 DEF OneWaits

\* The lane's head ends: the trigger that waited for it is done, and only that one.
LEMMA HeadEnds ==
  ASSUME LanesTyped, OneWaits, LaneEnds
  PROVE  LanesTyped' /\ OneWaits'
<1>1. /\ laneBusy /\ laneBusy' = FALSE /\ kernelLane' = Tail(kernelLane)
      /\ IF Head(kernelLane) \in Watches THEN orchBusy' = FALSE /\ orchLane' = Tail(orchLane)
         ELSE UNCHANGED <<orchBusy, orchLane>>
  BY DEF LaneEnds, Waiter
<1>2. kernelLane \in Seq(Tasks) /\ kernelLane # <<>> /\ orchLane \in Seq(Watches) /\ orchBusy \in BOOLEAN
  BY <1>1 DEF LanesTyped
<1>3. /\ kernelLane' \in Seq(Tasks) /\ Len(kernelLane') = Len(kernelLane) - 1
      /\ Len(kernelLane) \in Nat \ {0} /\ Head(kernelLane) = kernelLane[1]
      /\ DOMAIN kernelLane = 1..Len(kernelLane) /\ DOMAIN kernelLane' = 1..Len(kernelLane')
      /\ \A i \in 1..Len(kernelLane') : kernelLane'[i] = kernelLane[i + 1]
  BY <1>1, <1>2, HeadTailProperties, LenProperties, EmptySeq
<1>4. \A j \in DOMAIN kernelLane' : j + 1 \in DOMAIN kernelLane /\ j + 1 # 1 /\ kernelLane'[j] = kernelLane[j + 1]
  BY <1>3
<1>5. CASE Head(kernelLane) \in Watches
  <2>1. orchBusy /\ orchLane # <<>>
    BY <1>2, <1>3, <1>5 DEF OneWaits
  <2>2. PICK i \in DOMAIN kernelLane :
          \A j \in DOMAIN kernelLane : j # i => kernelLane[j] \notin Watches
    BY <2>1 DEF OneWaits
  <2>3. i = 1
    BY <1>3, <1>5, <2>2
  <2>4. \A j \in DOMAIN kernelLane' : kernelLane'[j] \notin Watches
    BY <1>4, <2>2, <2>3
  <2>5. orchLane' \in Seq(Watches)
    BY <1>1, <1>2, <1>5, <2>1, HeadTailProperties
  <2> QED BY <1>1, <1>3, <1>5, <2>4, <2>5 DEF LanesTyped, OneWaits
<1>6. CASE Head(kernelLane) \notin Watches
  <2>1. UNCHANGED <<orchBusy, orchLane>>
    BY <1>1, <1>6
  <2>2. LanesTyped'
    BY <1>1, <1>2, <1>3, <2>1 DEF LanesTyped
  <2>3. CASE orchBusy
    <3>1. PICK i \in DOMAIN kernelLane :
            /\ kernelLane[i] = orchLane[1]
            /\ \A j \in DOMAIN kernelLane : j # i => kernelLane[j] \notin Watches
      BY <2>3 DEF OneWaits
    <3>2. orchLane[1] \in Watches /\ orchLane # <<>>
      <4>1. orchLane # <<>>
        BY <2>3 DEF OneWaits
      <4>2. Len(orchLane) \in Nat \ {0} /\ 1 \in 1..Len(orchLane)
        BY <1>2, <4>1, EmptySeq
      <4> QED BY <1>2, <4>1, <4>2, ElementOfSeq
    <3>3. i # 1
      BY <1>3, <1>6, <3>1, <3>2
    <3>4. i - 1 \in DOMAIN kernelLane' /\ kernelLane'[i - 1] = orchLane[1]
      <4>1. i \in 1..Len(kernelLane) /\ i - 1 \in 1..Len(kernelLane') /\ (i - 1) + 1 = i
        BY <1>3, <3>3
      <4> QED BY <1>3, <3>1, <4>1
    <3>5. \A j \in DOMAIN kernelLane' : j # i - 1 => kernelLane'[j] \notin Watches
      <4> SUFFICES ASSUME NEW j \in DOMAIN kernelLane', j # i - 1 PROVE kernelLane'[j] \notin Watches
        OBVIOUS
      <4>1. j + 1 # i /\ j + 1 \in DOMAIN kernelLane /\ kernelLane'[j] = kernelLane[j + 1]
        BY <1>3, <1>4
      <4> QED BY <3>1, <4>1
    <3> QED BY <2>1, <2>2, <2>3, <3>2, <3>4, <3>5 DEF OneWaits
  <2>4. CASE ~orchBusy
    <3>1. \A j \in DOMAIN kernelLane' : kernelLane'[j] \notin Watches
      BY <1>4, <2>4 DEF OneWaits
    <3> QED BY <2>1, <2>2, <2>4, <3>1 DEF OneWaits
  <2> QED BY <2>3, <2>4
<1> QED BY <1>5, <1>6

LEMMA DeskTypesStep ==
  ASSUME DeskTyped, [DeskNext]_deskVars
  PROVE  DeskTyped'
<1>0. /\ deskTime \in WatchCooldown..EndOfDesk /\ watching \subseteq Watches /\ LanesTyped /\ OneWaits
      /\ WatchCooldown \in Nat /\ EndOfDesk \in Nat
  BY CouncilAssumption DEF DeskTyped
<1>1. ASSUME UNCHANGED <<orchLane, orchBusy, kernelLane, laneBusy>> PROVE LanesTyped' /\ OneWaits'
  BY <1>0, <1>1 DEF LanesTyped, OneWaits
<1>2. CASE Rewatch
  <2>1. watching' \subseteq Watches
    BY <1>0, <1>2 DEF Rewatch
  <2> QED BY <1>0, <1>1, <1>2, <2>1 DEF Rewatch, laneState, DeskTyped
<1>3. CASE Ticked
  <2>1. PICK met \in SUBSET watching : \E order \in InSomeOrder(Due(met)) : orchLane' = orchLane \o order
    BY <1>3 DEF Ticked
  <2>2. PICK order \in InSomeOrder(Due(met)) : orchLane' = orchLane \o order
    BY <2>1
  <2>3. Due(met) \subseteq Watches
    BY <1>0 DEF Due
  <2>4. order \in Seq(Watches) /\ orchLane \in Seq(Watches)
    BY <1>0, <2>2, <2>3, OrderTypes DEF LanesTyped
  <2>5. UNCHANGED <<deskTime, watching, orchBusy, kernelLane, laneBusy>>
    BY <1>3 DEF Ticked
  <2>6. orchLane' \in Seq(Watches)
    BY <2>2, <2>4, ConcatProperties
  <2>7. orchLane # <<>> => orchLane' # <<>> /\ orchLane'[1] = orchLane[1]
    <3> SUFFICES ASSUME orchLane # <<>> PROVE orchLane' # <<>> /\ orchLane'[1] = orchLane[1]
      OBVIOUS
    <3>1. Len(orchLane) \in Nat \ {0} /\ Len(order) \in Nat
      BY <2>4, EmptySeq, LenProperties
    <3>2. Len(orchLane') = Len(orchLane) + Len(order) /\ orchLane'[1] = orchLane[1]
      BY <2>2, <2>4, <3>1, ConcatProperties
    <3> QED BY <3>1, <3>2, EmptySeq
  <2>8. LanesTyped'
    BY <1>0, <2>5, <2>6 DEF LanesTyped
  <2>9. OneWaits'
    BY <1>0, <2>5, <2>7 DEF OneWaits
  <2> QED BY <1>0, <2>5, <2>8, <2>9 DEF DeskTyped
<1>4. CASE TriggerHandled
  <2>1. orchLane # <<>> /\ ~orchBusy /\ UNCHANGED <<deskTime, watching, laneBusy>>
    BY <1>4 DEF TriggerHandled, watchState
  <2>2. CASE Reacts
    <3>1. orchLane' = Tail(orchLane) /\ UNCHANGED <<orchBusy, kernelLane>>
      BY <1>4, <2>2 DEF TriggerHandled
    <3>2. orchLane' \in Seq(Watches)
      BY <1>0, <2>1, <3>1, HeadTailProperties DEF LanesTyped
    <3>3. LanesTyped' /\ OneWaits'
      BY <1>0, <2>1, <3>1, <3>2 DEF LanesTyped, OneWaits
    <3> QED BY <1>0, <2>1, <3>3 DEF DeskTyped
  <2>3. CASE ~Reacts
    <3>1. orchBusy' = TRUE /\ kernelLane' = Enqueued(Head(orchLane)) /\ UNCHANGED orchLane
      BY <1>4, <2>3 DEF TriggerHandled
    <3>2. LanesTyped' /\ OneWaits'
      BY <1>0, <2>1, <3>1, TriggerWaits
    <3> QED BY <1>0, <2>1, <3>2 DEF DeskTyped
  <2> QED BY <2>2, <2>3
<1>5. CASE Asked
  <2>1. kernelLane' = Enqueued("api") /\ UNCHANGED <<deskTime, watching, orchLane, orchBusy, laneBusy>>
    BY <1>5 DEF Asked, watchState
  <2> QED BY <1>0, <2>1, ApiJoins DEF DeskTyped
<1>6. CASE LaneStarts
  <2>1. kernelLane # <<>> /\ laneBusy' = TRUE
        /\ UNCHANGED <<deskTime, watching, orchLane, orchBusy, kernelLane>>
    BY <1>6 DEF LaneStarts, watchState
  <2>2. LanesTyped' /\ OneWaits'
    BY <1>0, <2>1 DEF LanesTyped, OneWaits
  <2> QED BY <1>0, <2>1, <2>2 DEF DeskTyped
<1>7. CASE LaneEnds
  <2>1. UNCHANGED <<deskTime, watching>>
    BY <1>7 DEF LaneEnds, watchState
  <2> QED BY <1>0, <1>7, <2>1, HeadEnds DEF DeskTyped
<1>8. CASE LooseRun
  BY <1>0, <1>1, <1>8 DEF LooseRun, watchState, DeskTyped
<1>9. CASE ScannerMoves
  BY <1>0, <1>1, <1>9 DEF ScannerMoves, watchState, laneState, DeskTyped
<1>10. CASE DeskClock
  <2>1. deskTime' \in WatchCooldown..EndOfDesk /\ UNCHANGED watching
    BY <1>0, <1>10 DEF DeskClock, watchState
  <2> QED BY <1>1, <1>0, <1>10, <2>1 DEF DeskClock, laneState, DeskTyped
<1>11. CASE UNCHANGED deskVars
  BY <1>0, <1>1, <1>11 DEF deskVars, watchState, laneState, DeskTyped
<1> QED BY <1>2, <1>3, <1>4, <1>5, <1>6, <1>7, <1>8, <1>9, <1>10, <1>11 DEF DeskNext

LEMMA DeskTypes == DeskSpec => []DeskTypeOK
<1>1. DeskInit => DeskTyped
  <2> SUFFICES ASSUME DeskInit PROVE DeskTyped
    OBVIOUS
  <2>1. orchLane = <<>> /\ kernelLane = <<>> /\ orchBusy = FALSE /\ laneBusy = FALSE /\ watching = {}
        /\ deskTime \in WatchCooldown..EndOfDesk
    BY CouncilAssumption DEF DeskInit
  <2>2. <<>> \in Seq(Watches) /\ <<>> \in Seq(Tasks) /\ DOMAIN kernelLane = {}
    BY <2>1
  <2> QED BY <2>1, <2>2 DEF DeskTyped, LanesTyped, OneWaits
<1>2. DeskTyped /\ [DeskNext]_deskVars => DeskTyped'
  BY DeskTypesStep
<1>3. DeskTyped => DeskTypeOK
  <2> SUFFICES ASSUME DeskTyped PROVE DeskTypeOK
    OBVIOUS
  <2>1. orchBusy => \E i \in DOMAIN kernelLane : kernelLane[i] = Head(orchLane)
    <3> SUFFICES ASSUME orchBusy PROVE \E i \in DOMAIN kernelLane : kernelLane[i] = Head(orchLane)
      OBVIOUS
    <3>1. orchLane # <<>> /\ orchLane \in Seq(Watches)
      BY DEF DeskTyped, OneWaits, LanesTyped
    <3>2. Head(orchLane) = orchLane[1]
      BY <3>1
    <3> QED BY <3>2 DEF DeskTyped, OneWaits
  <2> QED BY <2>1 DEF DeskTyped, LanesTyped, DeskTypeOK
<1> QED BY <1>1, <1>2, <1>3, PTL DEF DeskSpec

\* Whichever part moves, its variables keep their types: sockets and their symbols,
\* the book of a symbol, the account's cache, the remembered facts, the limiter's
\* queue, the ladder and its reading, the two lanes, the event memory and the gate's
\* quotes (the types FeedsTypeOK names, of nine parts of src/src).
THEOREM FeedsTypes == Spec => []FeedsTypeOK
<1>1. /\ subject \in Subjects /\ StreamTypeOK /\ StoreTypeOK /\ AccountTypeOK /\ CachesTypeOK
      /\ LimiterTypeOK /\ ChartReadTypeOK /\ DeskTypeOK /\ IntelTypeOK /\ CrossTypeOK
      => FeedsTypeOK
  <2> SUFFICES ASSUME subject \in Subjects, StreamTypeOK, StoreTypeOK, AccountTypeOK, CachesTypeOK,
                      LimiterTypeOK, ChartReadTypeOK, DeskTypeOK, IntelTypeOK, CrossTypeOK
               PROVE  FeedsTypeOK
    OBVIOUS
  <2>1. subject \in {"stream", "store", "account", "caches", "limiter", "reading", "desk", "intel", "venues"}
    BY FeedsAssumption
  <2> QED BY <2>1 DEF FeedsTypeOK
<1> QED
  BY <1>1, FeedsAreParts, StreamTypes, StoreTypes, AccountTypes, CachesTypes, LimiterTypes,
     ChartReadTypes, DeskTypes, IntelTypes, CrossTypes, PTL

=============================================================================
