---------------------------- MODULE Lanes_proofs ----------------------------
(***************************************************************************)
(* Proofs about TradingLanes, for any decisions, caps and bounds: the      *)
(* hold of an order that can still fill is never freed, and the gateway    *)
(* never sends a decision whose hold is gone.                              *)
(***************************************************************************)
EXTENDS TradingLanes, FiniteSetTheorems, TLAPS

IInv == TypeOK /\ HoldFollowsStage

LEMMA InitEstablishes == Init => IInv
  BY LanesAssumption DEF Init, IInv, TypeOK, HoldFollowsStage, Stages, HoldStates

\* What a sweep leaves of a hold.
LEMMA SweptHolds ==
  ASSUME TypeOK
  PROVE  /\ Swept \in [Runs -> HoldStates]
         /\ \A q \in Runs : \/ Swept[q] = hold[q]
                            \/ hold[q] = "ACTIVE" /\ age[q] = 2 /\ Swept[q] = "EXPIRED"
  BY DEF TypeOK, Swept, HoldStates

LEMMA ReservePreserves ==
  ASSUME IInv, NEW r \in Runs, pc[r] \in {"idle", "fetched"},
         NEW view \in SUBSET Runs, Reserve(r, view)
  PROVE  IInv'
<1> USE DEF IInv
<1>1. /\ Swept \in [Runs -> HoldStates]
      /\ \A q \in Runs : \/ Swept[q] = hold[q]
                         \/ hold[q] = "ACTIVE" /\ age[q] = 2 /\ Swept[q] = "EXPIRED"
  BY SweptHolds
<1>2. \/ /\ hold' = [Swept EXCEPT ![r] = "ACTIVE"]
         /\ Move(r, "approved")
         /\ blind' \subseteq blind \union {Swept[q] : q \in Runs}
      \/ hold' = Swept /\ Move(r, "done") /\ UNCHANGED blind
  <2>1. Exposed \subseteq Runs
    BY DEF Exposed, TypeOK
  <2> QED
    BY <2>1 DEF Reserve
<1>3. UNCHANGED <<seen, known, age, order, book, crashes>>
  BY DEF Reserve
<1>4. TypeOK'
  <2>1. hold' \in [Runs -> HoldStates]
    BY <1>1, <1>2 DEF HoldStates
  <2>2. pc' \in [Runs -> Stages]
    BY <1>2 DEF TypeOK, Move, Stages
  <2>3. blind' \subseteq HoldStates
    <3>1. {Swept[q] : q \in Runs} \subseteq HoldStates
      BY <1>1
    <3> QED
      BY <1>2, <3>1 DEF TypeOK
  <2> QED
    BY <2>1, <2>2, <2>3, <1>3 DEF TypeOK
<1>5. HoldFollowsStage'
  <2> SUFFICES ASSUME NEW q \in Runs
               PROVE  /\ pc'[q] \in {"idle", "fetched"} => hold'[q] = "none" /\ order'[q] = "none"
                      /\ pc'[q] \in {"approved", "sending"} => hold'[q] \in {"ACTIVE", "EXPIRED"}
                      /\ pc'[q] = "approved" => order'[q] = "none"
                      /\ pc'[q] = "approved" /\ hold'[q] = "EXPIRED" => age'[q] = 2
                      /\ order'[q] = "live" => hold'[q] \notin {"RELEASED", "COMMITTED"}
    BY DEF HoldFollowsStage
  <2>1. CASE q = r
    BY <2>1, <1>1, <1>2, <1>3 DEF TypeOK, HoldFollowsStage, Move
  <2>2. CASE q # r
    BY <2>2, <1>1, <1>2, <1>3 DEF TypeOK, HoldFollowsStage, Move
  <2> QED
    BY <2>1, <2>2
<1> QED
  BY <1>4, <1>5

LEMMA StepPreserves == IInv /\ [Next]_vars => IInv'
<1> SUFFICES ASSUME IInv, [Next]_vars PROVE IInv'
  OBVIOUS
<1>1. ASSUME NEW r \in Runs, Fetch(r) PROVE IInv'
  BY <1>1 DEF IInv, TypeOK, HoldFollowsStage, Fetch, Move, Stages
<1>2. ASSUME NEW r \in Runs, ReservePipeline(r) PROVE IInv'
  <2>1. seen[r] \in SUBSET Runs
    BY <1>2 DEF IInv, TypeOK
  <2> QED
    BY <1>2, <2>1, ReservePreserves DEF ReservePipeline
<1>3. ASSUME NEW r \in Runs, Propose(r) PROVE IInv'
  <2>1. known \in SUBSET Runs
    BY <1>3 DEF IInv, TypeOK
  <2> QED
    BY <1>3, <2>1, ReservePreserves DEF Propose
<1>4. ASSUME NEW r \in Runs, Send(r) PROVE IInv'
  BY <1>4 DEF IInv, TypeOK, HoldFollowsStage, Send, Move, Stages
<1>5. ASSUME NEW r \in Runs, ChallengeThrows(r) PROVE IInv'
  BY <1>5 DEF IInv, TypeOK, HoldFollowsStage, ChallengeThrows, Move, Stages
<1>6. ASSUME NEW r \in Runs, RefuseIntent(r) PROVE IInv'
  BY <1>6 DEF IInv, TypeOK, HoldFollowsStage, RefuseIntent, Move, Become, Stages, HoldStates
<1>7. ASSUME NEW r \in Runs, VenueTakes(r) PROVE IInv'
  BY <1>7 DEF IInv, TypeOK, HoldFollowsStage, VenueTakes
<1>8. ASSUME NEW r \in Runs, Answered(r) PROVE IInv'
  <2> USE DEF IInv, TypeOK, HoldFollowsStage, Answered, Move, Stages
  <2>1. CASE order[r] = "filled" /\ Become(r, "COMMITTED")
    BY <1>8, <2>1 DEF Become, HoldStates
  <2>2. CASE order[r] = "ended" /\ Become(r, "RELEASED")
    BY <1>8, <2>2 DEF Become, HoldStates
  <2>3. CASE order[r] \notin {"filled", "ended"} /\ UNCHANGED hold
    BY <1>8, <2>3
  <2> QED
    BY <1>8, <2>1, <2>2, <2>3 DEF Settle
<1>9. ASSUME NEW r \in Runs, Unanswered(r) PROVE IInv'
  BY <1>9 DEF IInv, TypeOK, HoldFollowsStage, Unanswered, Move, Stages
<1>10. ASSUME NEW r \in Runs, SubmitThrows(r) PROVE IInv'
  BY <1>10 DEF IInv, TypeOK, HoldFollowsStage, SubmitThrows, Move, Become, Stages, HoldStates
<1>11. ASSUME NEW r \in Runs, VenueFills(r) PROVE IInv'
  BY <1>11 DEF IInv, TypeOK, HoldFollowsStage, VenueFills
<1>12. ASSUME NEW r \in Runs, VenueEnds(r) PROVE IInv'
  BY <1>12 DEF IInv, TypeOK, HoldFollowsStage, VenueEnds
<1>13. ASSUME NEW r \in Runs, Reconcile(r) PROVE IInv'
  BY <1>13 DEF IInv, TypeOK, HoldFollowsStage, Reconcile, Become, HoldStates
<1>14. ASSUME NEW r \in Runs, Age(r) PROVE IInv'
  <2>1. MaxAge \in 0 .. 2
    BY LanesAssumption
  <2> QED
    BY <1>14, <2>1 DEF IInv, TypeOK, HoldFollowsStage, Age
<1>15. ASSUME NEW s \in Symbols, PositionCloses(s) PROVE IInv'
  BY <1>15 DEF IInv, TypeOK, HoldFollowsStage, PositionCloses
<1>16. CASE Crash
  <2>1. MaxCrashes \in Nat
    BY LanesAssumption
  <2> QED
    BY <1>16, <2>1 DEF IInv, TypeOK, HoldFollowsStage, Crash, InLane, Stages, HoldStates
<1>17. CASE UNCHANGED vars
  BY <1>17 DEF IInv, TypeOK, HoldFollowsStage, vars
<1>18. ASSUME NEW r \in Runs, RunRefused(r) PROVE IInv'
  BY <1>18 DEF IInv, TypeOK, HoldFollowsStage, RunRefused, Move, Stages
<1>19. ASSUME NEW r \in Runs, ProposalRefused(r) PROVE IInv'
  BY <1>19 DEF IInv, TypeOK, HoldFollowsStage, ProposalRefused, Move, Stages
<1> QED
  BY <1>1, <1>2, <1>3, <1>4, <1>5, <1>6, <1>7, <1>8, <1>9, <1>10, <1>11, <1>12,
     <1>13, <1>14, <1>15, <1>16, <1>17, <1>18, <1>19 DEF Next

LEMMA Inductive == Spec => []IInv
  BY InitEstablishes, StepPreserves, PTL DEF Spec

\* Every variable of the trading lanes keeps its type.
THEOREM LanesTypeCorrect == Spec => []TypeOK
<1>1. IInv => TypeOK
  BY DEF IInv
<1> QED
  BY <1>1, Inductive, PTL

\* However a decision's call ends, whatever fills, is reconciled, ages or restarts
\* in between, the hold of an order that can still fill was not freed.
THEOREM LiveOrdersKeepHolds == Spec => []LiveNeverFreed
<1>1. IInv => LiveNeverFreed
  BY DEF IInv, HoldFollowsStage, LiveNeverFreed
<1> QED
  BY <1>1, Inductive, PTL

\* The gateway's intents die before their holds: what it sends is always held.
THEOREM GatewayIntentsHeld == Spec => GatewaySendsHeld
<1>1. IInv /\ [Next]_vars =>
        [\A r \in Gateway :
           pc[r] = "approved" /\ pc'[r] = "sending" => hold[r] = "ACTIVE"]_vars
  <2> SUFFICES ASSUME IInv, Next, NEW r \in Gateway,
                      pc[r] = "approved", pc'[r] = "sending"
               PROVE  hold[r] = "ACTIVE"
    OBVIOUS
  <2>1. r \in Runs
    BY LanesAssumption
  <2>2. age[r] = 0
    <3>1. ASSUME NEW q \in Runs, NEW stage \in Stages, Move(q, stage), stage # "sending"
          PROVE  FALSE
      BY <3>1, <2>1 DEF Move, IInv, TypeOK
    <3>2. ASSUME pc' = pc PROVE FALSE
      BY <3>2
    <3>3. ASSUME NEW q \in Runs, Send(q) PROVE age[r] = 0
      BY <3>3, <2>1 DEF Send, Move, Usable, IInv, TypeOK
    <3>4. ASSUME NEW q \in Runs, ReservePipeline(q) \/ Propose(q) PROVE FALSE
      BY <3>4, <3>1 DEF ReservePipeline, Propose, Reserve, Stages
    <3>5. ASSUME Crash PROVE FALSE
      BY <3>5, <2>1 DEF Crash, InLane
    <3> QED
      BY <3>1, <3>2, <3>3, <3>4, <3>5 DEF Next, Fetch, RunRefused, ProposalRefused, ChallengeThrows, RefuseIntent,
         VenueTakes, Answered, Unanswered, SubmitThrows, VenueFills, VenueEnds,
         Reconcile, Age, PositionCloses, Stages
  <2> QED
    BY <2>1, <2>2 DEF IInv, HoldFollowsStage
<1> QED
  BY <1>1, Inductive, PTL DEF Spec, GatewaySendsHeld

-----------------------------------------------------------------------------
(* Exposure: what a set of decisions adds up to. *)

LEMMA RunsAre ==
  /\ IsFiniteSet(Runs) /\ IsFiniteSet(Symbols)
  /\ \A r \in Runs : SymbolOf[r] \in Symbols /\ Notional[r] \in Nat
  /\ MaxPositions \in Nat /\ MaxGross \in Nat /\ MaxCluster \in Nat
BY ReservationsAssumption

LEMMA LotsFinite ==
  ASSUME NEW rs \in SUBSET Runs
  PROVE  IsFiniteSet(LotsOf(rs)) /\ Lots(rs) \in Nat
<1> DEFINE L(r) == {r} \X (1 .. Notional[r])
           Ls == {L(r) : r \in rs}
           f == [r \in rs |-> L(r)]
<1>1. IsFiniteSet(rs)
  BY RunsAre, FS_Subset
<1>2. f \in Surjection(rs, Ls)
  BY DEF Surjection
<1>3. IsFiniteSet(Ls)
  BY <1>1, <1>2, FS_Surjection
<1>4. ASSUME NEW r \in rs PROVE IsFiniteSet(L(r))
  <2>1. IsFiniteSet({r})
    BY FS_Singleton
  <2>2. Notional[r] \in Int /\ 1 \in Int
    BY RunsAre
  <2>3. IsFiniteSet(1 .. Notional[r])
    BY <2>2, FS_Interval
  <2> QED BY <2>1, <2>3, FS_Product
<1>5. \A T \in Ls : IsFiniteSet(T)
  BY <1>4
<1>6. IsFiniteSet(UNION Ls)
  BY <1>3, <1>5, FS_UNION
<1> QED BY <1>6, FS_CardinalityType DEF LotsOf, Lots

\* A smaller set has no more lots.
LEMMA LotsGrow ==
  ASSUME NEW rs \in SUBSET Runs, NEW qs \in SUBSET rs
  PROVE  Lots(qs) <= Lots(rs)
<1>1. LotsOf(qs) \in SUBSET LotsOf(rs)
  BY DEF LotsOf
<1> QED BY <1>1, LotsFinite, FS_Subset DEF Lots

\* What is in either set has no more lots than both together.
LEMMA LotsOfBoth ==
  ASSUME NEW rs \in SUBSET Runs, NEW qs \in SUBSET Runs
  PROVE  Lots(rs \union qs) <= Lots(rs) + Lots(qs)
<1>1. LotsOf(rs \union qs) = LotsOf(rs) \union LotsOf(qs)
  BY DEF LotsOf
<1>2. IsFiniteSet(LotsOf(rs)) /\ IsFiniteSet(LotsOf(qs)) /\ Lots(rs) \in Nat /\ Lots(qs) \in Nat
  BY LotsFinite
<1>3. IsFiniteSet(LotsOf(rs) \intersect LotsOf(qs))
  BY <1>2, FS_Intersection
<1>4. Cardinality(LotsOf(rs) \intersect LotsOf(qs)) \in Nat
  BY <1>3, FS_CardinalityType
<1>5. Cardinality(LotsOf(rs) \union LotsOf(qs))
        = Cardinality(LotsOf(rs)) + Cardinality(LotsOf(qs)) - Cardinality(LotsOf(rs) \intersect LotsOf(qs))
  BY <1>2, FS_Union
<1>6. Lots(rs \union qs) = Lots(rs) + Lots(qs) - Cardinality(LotsOf(rs) \intersect LotsOf(qs))
  BY <1>1, <1>5 DEF Lots
<1> QED BY <1>2, <1>4, <1>6

LEMMA SymbolsFinite ==
  ASSUME NEW rs \in SUBSET Runs
  PROVE  /\ IsFiniteSet(SymbolsOf(rs)) /\ Cardinality(SymbolsOf(rs)) \in Nat
         /\ IsFiniteSet(rs) /\ Cardinality(rs) \in Nat /\ Cardinality(SymbolsOf(rs)) <= Cardinality(rs)
<1>1. SymbolsOf(rs) \in SUBSET Symbols
  BY RunsAre DEF SymbolsOf
<1>2. IsFiniteSet(SymbolsOf(rs)) /\ IsFiniteSet(rs)
  BY <1>1, RunsAre, FS_Subset
<1>3. [r \in rs |-> SymbolOf[r]] \in Surjection(rs, SymbolsOf(rs))
  BY DEF SymbolsOf, Surjection
<1>4. Cardinality(SymbolsOf(rs)) <= Cardinality(rs)
  BY <1>2, <1>3, FS_Surjection
<1> QED BY <1>2, <1>4, FS_CardinalityType

LEMMA SymbolsGrow ==
  ASSUME NEW rs \in SUBSET Runs, NEW qs \in SUBSET rs
  PROVE  Cardinality(SymbolsOf(qs)) <= Cardinality(SymbolsOf(rs))
<1>1. SymbolsOf(qs) \in SUBSET SymbolsOf(rs)
  BY DEF SymbolsOf
<1> QED BY <1>1, SymbolsFinite, FS_Subset

LEMMA SymbolsOfBoth ==
  ASSUME NEW rs \in SUBSET Runs, NEW qs \in SUBSET Runs
  PROVE  Cardinality(SymbolsOf(rs \union qs)) <= Cardinality(SymbolsOf(rs)) + Cardinality(qs)
<1> DEFINE A == SymbolsOf(rs)
           B == SymbolsOf(qs)
<1>1. SymbolsOf(rs \union qs) = A \union B
  BY DEF SymbolsOf
<1>2. /\ IsFiniteSet(A) /\ IsFiniteSet(B) /\ Cardinality(A) \in Nat /\ Cardinality(B) \in Nat
      /\ Cardinality(B) <= Cardinality(qs) /\ Cardinality(qs) \in Nat
  BY SymbolsFinite
<1> HIDE DEF A, B
<1>3. IsFiniteSet(A \intersect B)
  BY <1>2, FS_Intersection
<1>4. Cardinality(A \intersect B) \in Nat
  BY <1>3, FS_CardinalityType
<1>5. Cardinality(A \union B) = Cardinality(A) + Cardinality(B) - Cardinality(A \intersect B)
  BY <1>2, FS_Union
<1>6. Cardinality(A \union B) <= Cardinality(A) + Cardinality(qs)
  BY <1>2, <1>4, <1>5
<1> QED BY <1>1, <1>6 DEF A

\* Fewer decisions stay within the caps.
LEMMA CapsShrink ==
  ASSUME NEW rs \in SUBSET Runs, NEW qs \in SUBSET rs, WithinCaps(rs)
  PROVE  WithinCaps(qs)
<1>1. Cardinality(SymbolsOf(qs)) <= MaxPositions
  <2>1. Cardinality(SymbolsOf(qs)) \in Nat /\ Cardinality(SymbolsOf(rs)) \in Nat
    BY SymbolsFinite
  <2> QED BY <2>1, SymbolsGrow, RunsAre DEF WithinCaps
<1>2. Lots(qs) <= MaxGross
  <2>1. Lots(qs) \in Nat /\ Lots(rs) \in Nat
    BY LotsFinite
  <2> QED BY <2>1, LotsGrow, RunsAre DEF WithinCaps
<1>3. ASSUME NEW c \in Clusters PROVE Lots(InCluster(qs, c)) <= MaxCluster
  <2>1. InCluster(rs, c) \in SUBSET Runs /\ InCluster(qs, c) \in SUBSET InCluster(rs, c)
        /\ InCluster(qs, c) \in SUBSET Runs
    BY DEF InCluster
  <2>2. Lots(InCluster(qs, c)) \in Nat /\ Lots(InCluster(rs, c)) \in Nat
    BY <2>1, LotsFinite
  <2>3. Lots(InCluster(qs, c)) <= Lots(InCluster(rs, c))
    BY <2>1, LotsGrow
  <2> QED BY <2>2, <2>3, RunsAre DEF WithinCaps
<1> QED BY <1>1, <1>2, <1>3 DEF WithinCaps

\* A candidate that fits beside a view and the active holds leaves what these cover,
\* itself included, within the caps.
LEMMA FitsKeepsCaps ==
  ASSUME NEW view \in SUBSET Runs, NEW active \in SUBSET Runs, NEW r \in Runs,
         Fits(view, active, r),
         NEW exposed \in SUBSET (view \union active), WithinCaps(exposed)
  PROVE  WithinCaps(exposed \union {r})
<1> DEFINE held == active \union {r}
           all == view \union held
           k == ClusterOf[SymbolOf[r]]
<1>0. held \in SUBSET Runs /\ all \in SUBSET Runs /\ exposed \union {r} \in SUBSET all
  OBVIOUS
<1>1. /\ Cardinality(SymbolsOf(view)) + Cardinality(held) <= MaxPositions
      /\ Lots(InCluster(view, k)) + Lots(InCluster(held, k)) <= MaxCluster
      /\ Lots(view) + Lots(held) <= MaxGross
  BY DEF Fits
<1>2. Cardinality(SymbolsOf(exposed \union {r})) <= MaxPositions
  <2>1. /\ Cardinality(SymbolsOf(exposed \union {r})) \in Nat /\ Cardinality(SymbolsOf(all)) \in Nat
        /\ Cardinality(SymbolsOf(view)) \in Nat /\ Cardinality(held) \in Nat
    BY <1>0, SymbolsFinite
  <2>2. Cardinality(SymbolsOf(exposed \union {r})) <= Cardinality(SymbolsOf(all))
    BY <1>0, SymbolsGrow
  <2>3. Cardinality(SymbolsOf(all)) <= Cardinality(SymbolsOf(view)) + Cardinality(held)
    BY <1>0, SymbolsOfBoth
  <2> HIDE DEF held, all
  <2> QED BY <1>1, <2>1, <2>2, <2>3, RunsAre
<1>3. Lots(exposed \union {r}) <= MaxGross
  <2>1. /\ Lots(exposed \union {r}) \in Nat /\ Lots(all) \in Nat /\ Lots(view) \in Nat /\ Lots(held) \in Nat
    BY <1>0, LotsFinite
  <2>2. Lots(exposed \union {r}) <= Lots(all)
    BY <1>0, LotsGrow
  <2>3. Lots(all) <= Lots(view) + Lots(held)
    BY <1>0, LotsOfBoth
  <2> HIDE DEF held, all
  <2> QED BY <1>1, <2>1, <2>2, <2>3, RunsAre
<1>4. ASSUME NEW c \in Clusters PROVE Lots(InCluster(exposed \union {r}, c)) <= MaxCluster
  <2>1. CASE c = k
    <3> DEFINE U == InCluster(exposed \union {r}, k)
               V == InCluster(view, k)
               H == InCluster(held, k)
    <3>1. U \in SUBSET (V \union H) /\ V \in SUBSET Runs /\ H \in SUBSET Runs /\ U \in SUBSET Runs
          /\ V \union H \in SUBSET Runs
      BY <1>0 DEF InCluster
    <3> HIDE DEF U, V, H
    <3>2. Lots(U) \in Nat /\ Lots(V) \in Nat /\ Lots(H) \in Nat /\ Lots(V \union H) \in Nat
      BY <3>1, LotsFinite
    <3>3. Lots(U) <= Lots(V \union H)
      BY <3>1, LotsGrow
    <3>4. Lots(V \union H) <= Lots(V) + Lots(H)
      BY <3>1, LotsOfBoth
    <3>5. Lots(V) + Lots(H) <= MaxCluster
      BY <1>1 DEF V, H
    <3>6. Lots(U) <= MaxCluster
      BY <3>2, <3>3, <3>4, <3>5, RunsAre
    <3> QED BY <2>1, <3>6 DEF U
  <2>2. CASE c # k
    <3>1. InCluster(exposed \union {r}, c) = InCluster(exposed, c)
      BY <2>2 DEF InCluster
    <3> QED BY <3>1 DEF WithinCaps
  <2> QED BY <2>1, <2>2
<1> QED BY <1>2, <1>3, <1>4 DEF WithinCaps

\* What is open, and what may still open, is within the caps.
CapsInv == blind = {} => WithinCaps(Exposed)

LEMMA ExposedRuns == ASSUME TypeOK PROVE Exposed \subseteq Runs /\ book \subseteq Exposed
  BY DEF TypeOK, Exposed

LEMMA LessExposed ==
  ASSUME IInv, IInv', CapsInv, Exposed' \subseteq Exposed, blind' = blind
  PROVE  CapsInv'
<1>1. Exposed \in SUBSET Runs /\ Exposed' \in SUBSET Exposed
  BY ExposedRuns DEF IInv
<1>2. ASSUME blind = {} PROVE WithinCaps(Exposed')
  BY <1>1, <1>2, CapsShrink DEF CapsInv
<1>3. WithinCaps(Exposed') = WithinCaps(Exposed)'
  BY DEF WithinCaps, SymbolsOf, InCluster, Lots, LotsOf
<1> QED BY <1>2, <1>3 DEF CapsInv

LEMMA ReserveKeepsCaps ==
  ASSUME IInv, IInv', CapsInv, NEW r \in Runs, NEW view \in SUBSET Runs, Reserve(r, view),
         pc[r] \in {"idle", "fetched"}
  PROVE  CapsInv'
<1> DEFINE active == {q \in Runs : Swept[q] = "ACTIVE"}
<1>0. UNCHANGED <<order, book>> /\ pc \in [Runs -> Stages]
  BY DEF Reserve, IInv, TypeOK
<1>1. CASE Fits(view, active, r)
  <2>1. pc' = [pc EXCEPT ![r] = "approved"]
        /\ blind' = blind \union {Swept[q] : q \in Exposed \ (view \union active)}
    BY <1>1 DEF Reserve, Move
  <2>2. Exposed' = Exposed \union {r}
    BY <1>0, <2>1 DEF Exposed
  <2>3. ASSUME blind' = {} PROVE WithinCaps(Exposed')
    <3>1. blind = {} /\ Exposed \in SUBSET (view \union active)
      BY <2>1, <2>3
    <3>2. active \in SUBSET Runs /\ WithinCaps(Exposed)
      BY <3>1 DEF CapsInv
    <3> HIDE DEF active
    <3>3. WithinCaps(Exposed \union {r})
      BY <1>1, <3>1, <3>2, FitsKeepsCaps
    <3> QED BY <2>2, <3>3
  <2>4. WithinCaps(Exposed') = WithinCaps(Exposed)'
    BY DEF WithinCaps, SymbolsOf, InCluster, Lots, LotsOf
  <2> QED BY <2>3, <2>4 DEF CapsInv
<1>2. CASE ~ Fits(view, active, r)
  <2>1. pc' = [pc EXCEPT ![r] = "done"] /\ blind' = blind
    BY <1>2 DEF Reserve, Move
  <2>2. Exposed' \subseteq Exposed
    BY <1>0, <2>1 DEF Exposed
  <2> QED BY <2>1, <2>2, LessExposed
<1> QED BY <1>1, <1>2

LEMMA CapsStep ==
  ASSUME IInv, IInv', CapsInv, [Next]_vars
  PROVE  CapsInv'
<1> USE DEF IInv, TypeOK, Exposed
<1>1. ASSUME NEW r \in Runs, ReservePipeline(r) \/ Propose(r) PROVE CapsInv'
  <2>1. seen[r] \in SUBSET Runs /\ known \in SUBSET Runs
    OBVIOUS
  <2> QED BY <1>1, <2>1, ReserveKeepsCaps DEF ReservePipeline, Propose
<1>2. ASSUME NEW r \in Runs, Fetch(r) \/ RunRefused(r) \/ ProposalRefused(r) PROVE CapsInv'
  <2>1. Exposed' \subseteq Exposed /\ blind' = blind
    BY <1>2 DEF Fetch, RunRefused, ProposalRefused, Move
  <2> QED BY <2>1, LessExposed
<1>3. ASSUME NEW r \in Runs, Send(r) \/ RefuseIntent(r) \/ ChallengeThrows(r) \/ SubmitThrows(r)
      PROVE  CapsInv'
  <2>1. Exposed' \subseteq Exposed /\ blind' = blind
    BY <1>3 DEF Send, RefuseIntent, ChallengeThrows, SubmitThrows, Move
  <2> QED BY <2>1, LessExposed
<1>4. ASSUME NEW r \in Runs, VenueTakes(r) \/ VenueFills(r) \/ VenueEnds(r) PROVE CapsInv'
  <2>1. Exposed' \subseteq Exposed /\ blind' = blind
    BY <1>4 DEF VenueTakes, VenueFills, VenueEnds
  <2> QED BY <2>1, LessExposed
<1>5. ASSUME NEW r \in Runs, Answered(r) \/ Unanswered(r) PROVE CapsInv'
  <2>1. Exposed' \subseteq Exposed /\ blind' = blind
    BY <1>5 DEF Answered, Unanswered, Move
  <2> QED BY <2>1, LessExposed
<1>6. ASSUME NEW r \in Runs, Reconcile(r) \/ Age(r) PROVE CapsInv'
  <2>1. Exposed' \subseteq Exposed /\ blind' = blind
    BY <1>6 DEF Reconcile, Age
  <2> QED BY <2>1, LessExposed
<1>7. ASSUME NEW s \in Symbols, PositionCloses(s) PROVE CapsInv'
  <2>1. Exposed' \subseteq Exposed /\ blind' = blind
    BY <1>7 DEF PositionCloses
  <2> QED BY <2>1, LessExposed
<1>8. CASE Crash
  <2>1. Exposed' \subseteq Exposed /\ blind' = blind
    BY <1>8 DEF Crash, InLane
  <2> QED BY <2>1, LessExposed
<1>9. CASE UNCHANGED vars
  <2>1. Exposed' \subseteq Exposed /\ blind' = blind
    BY <1>9 DEF vars
  <2> QED BY <2>1, LessExposed
<1> QED BY <1>1, <1>2, <1>3, <1>4, <1>5, <1>6, <1>7, <1>8, <1>9 DEF Next

LEMMA CapsInit ==
  ASSUME Init
  PROVE  CapsInv
<1>1. Exposed = {}
  BY DEF Init, Exposed
<1>2. SymbolsOf({}) = {} /\ LotsOf({}) = {} /\ \A c \in Clusters : InCluster({}, c) = {}
  BY DEF SymbolsOf, LotsOf, InCluster
<1>3. Cardinality({}) = 0
  BY FS_EmptySet
<1>4. WithinCaps({})
  BY <1>2, <1>3, RunsAre DEF WithinCaps, Lots
<1> QED BY <1>1, <1>4 DEF CapsInv

\* For any decisions, instruments, clusters, sizes and caps, and whatever fills,
\* throws, times out, ages or is reconciled in between: what is open stays within the
\* caps as long as no approval missed exposure that was open or could still come
\* (risk-reservations.ts:91-105).  The induction is over that exposure, not over
\* what is open: an approval must leave room for every order that may still fill.
THEOREM CapsHoldUnlessBlind == Spec => []BreachOnlyBlind
<1>1. Init => IInv /\ CapsInv
  BY InitEstablishes, CapsInit
<1>2. (IInv /\ CapsInv) /\ [Next]_vars => (IInv /\ CapsInv)'
  BY StepPreserves, CapsStep
<1>3. IInv /\ CapsInv => BreachOnlyBlind
  <2> SUFFICES ASSUME IInv, CapsInv, blind = {} PROVE WithinCaps(book)
    BY DEF BreachOnlyBlind
  <2>1. Exposed \in SUBSET Runs /\ book \in SUBSET Exposed
    BY ExposedRuns DEF IInv
  <2> QED BY <2>1, CapsShrink DEF CapsInv
<1> QED BY <1>1, <1>2, <1>3, PTL DEF Spec

=============================================================================
