------------------------------ MODULE Payouts ------------------------------
(***************************************************************************)
(* What paying out commissions promises, as if every request and every     *)
(* decision were one step: a commission is free, or claimed by the one     *)
(* withdrawal it is counted in; a claim takes all that the agent has free, *)
(* which must be worth claiming; what is refused is free again, and what   *)
(* is paid stays paid.                                                     *)
(***************************************************************************)
CONSTANTS
  Agents, Purchases, Withdrawals, None,
  Claimable     \* the sets of commissions that are worth a withdrawal

VARIABLES
  free,         \* per agent, commissions accrued and not claimed
  claims        \* per withdrawal, what it claims and what became of it

vars == <<free, claims>>

NoClaim == [agent |-> None, rows |-> {}, state |-> "none"]

Init ==
  /\ free = [a \in Agents |-> {}]
  /\ claims = [w \in Withdrawals |-> NoClaim]

\* Commissions are accrued once.
Earn(p, a) ==
  /\ \A b \in Agents : p \notin free[b]
  /\ \A w \in Withdrawals : claims[w].state \in {"open", "paid"} => p \notin claims[w].rows
  /\ free' = [free EXCEPT ![a] = @ \cup {p}]
  /\ UNCHANGED claims

Claim(w, a) ==
  /\ claims[w] = NoClaim
  /\ free[a] \in Claimable
  /\ claims' = [claims EXCEPT ![w] = [agent |-> a, rows |-> free[a], state |-> "open"]]
  /\ free' = [free EXCEPT ![a] = {}]

Pay(w) ==
  /\ claims[w].state = "open"
  /\ claims' = [claims EXCEPT ![w].state = "paid"]
  /\ UNCHANGED free

Refuse(w) ==
  /\ claims[w].state = "open"
  /\ claims' = [claims EXCEPT ![w].state = "refused"]
  /\ free' = [free EXCEPT ![claims[w].agent] = @ \cup claims[w].rows]

Next ==
  \/ \E p \in Purchases, a \in Agents : Earn(p, a)
  \/ \E w \in Withdrawals, a \in Agents : Claim(w, a)
  \/ \E w \in Withdrawals : Pay(w) \/ Refuse(w)

Spec == Init /\ [][Next]_vars
=============================================================================
