----------------------------- MODULE OrderAudit -----------------------------
(***************************************************************************)
(* What the durable order log promises about a decision, whatever the      *)
(* engine, the reconciler, the disk and the restarts do: the venue is      *)
(* asked to place an order at most once, and only in the step in which the *)
(* log commits the decision to submission.                                 *)
(***************************************************************************)
EXTENDS Naturals

CONSTANT Decisions

VARIABLES
  phase,  \* what the log says: "open", "committed" to submission, or "settled"
  sent    \* how many placements were requested

vars == <<phase, sent>>

Init ==
  /\ phase = [d \in Decisions |-> "open"]
  /\ sent = [d \in Decisions |-> 0]

\* Submission begins; the process may die before the request leaves it.
Commit(d) ==
  /\ phase[d] = "open"
  /\ phase' = [phase EXCEPT ![d] = "committed"]
  /\ \/ UNCHANGED sent
     \/ sent' = [sent EXCEPT ![d] = @ + 1]

\* A final status is logged; a decision never submitted may end too.
Settle(d) ==
  /\ phase[d] # "settled"
  /\ phase' = [phase EXCEPT ![d] = "settled"]
  /\ UNCHANGED sent

Next == \E d \in Decisions : Commit(d) \/ Settle(d)

Spec == Init /\ [][Next]_vars

=============================================================================
