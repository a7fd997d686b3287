----------------------------- MODULE Settlement -----------------------------
(***************************************************************************)
(* What the payment machinery promises about Purchases.payment_status: it  *)
(* starts PENDING, it only ever moves to a verdict there are grounds for   *)
(* (money that came, a prompt declined, a decision of staff), grounds are  *)
(* never withdrawn, and a purchase that left PENDING does not return.      *)
(***************************************************************************)
CONSTANT Purchases

VARIABLES payStatus, grounds

Verdicts == {"PAID", "FAILED"}

Init ==
  /\ payStatus = [p \in Purchases |-> "PENDING"]
  /\ grounds = [p \in Purchases |-> {}]

\* Grounds appear, for one purchase or several.
Learn ==
  /\ grounds' \in [Purchases -> SUBSET Verdicts]
  /\ \A p \in Purchases : grounds[p] \subseteq grounds'[p]

\* The status of one purchase takes a verdict that has grounds by then.
Decide(p) == \E v \in grounds'[p] : payStatus' = [payStatus EXCEPT ![p] = v]

Next == Learn /\ (UNCHANGED payStatus \/ \E p \in Purchases : Decide(p))

Spec == Init /\ [][Next]_<<payStatus, grounds>>
=============================================================================
