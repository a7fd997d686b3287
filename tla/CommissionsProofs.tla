-------------------------- MODULE CommissionsProofs --------------------------
(***************************************************************************)
(* Proofs about Commissions for every set of agents, purchases, requests   *)
(* and administrators.                                                     *)
(*                                                                         *)
(* That a withdrawal is worth exactly the rows reserved for it rests on    *)
(* the row locks: from the SUM to the COMMIT nobody else can add to, or    *)
(* take from, what the agent has available (SeenIsAvailable).  That paid   *)
(* rows stay paid rests on the administrators' FOR UPDATE (OneDecision).   *)
(*                                                                         *)
(* That an agent is never paid more than was accrued is about sums: the    *)
(* rows of live withdrawals are disjoint parts of the agent's rows         *)
(* (PartsFit), and Total respects that.  The refinement of Payouts adds    *)
(* that what is reserved is what the floor was tested on.                  *)
(***************************************************************************)
EXTENDS Commissions, FiniteSetTheorems, WellFoundedInduction, TLAPS

\* Between SUM and COMMIT a session owns the agent's rows, and what it saw is
\* what is there.
SeenIsAvailable ==
  \A s \in Sessions : session[s].pc = "summed" =>
    /\ rowLock[session[s].agent] = s
    /\ session[s].seen = Available(session[s].agent)

\* A request in progress is some agent's.
RequestsHaveAgents ==
  \A s \in Sessions : session[s].pc # "idle" => session[s].agent \in Agents

\* The withdrawal an administrator has locked is undecided, and locked by no
\* other administrator.
OneDecision ==
  \A d \in Admins :
    IF admin[d].pc = "locked"
    THEN /\ admin[d].withdrawal \in Withdrawals
         /\ withdrawal[admin[d].withdrawal].status \in {"REQUESTED", "APPROVED"}
         /\ \A e \in Admins : admin[e].withdrawal = admin[d].withdrawal => e = d
    ELSE admin[d].withdrawal = None

\* A withdrawal that was requested is an agent's; an identifier not yet used is
\* blank.
WithdrawalsHaveAgents ==
  \A w \in Withdrawals :
    IF withdrawal[w].status = "none" THEN withdrawal[w] = NoWithdrawal
                                     ELSE withdrawal[w].agent \in Agents

IInv ==
  /\ TypeOK
  /\ LocksHaveOwners
  /\ RequestsHaveAgents
  /\ SeenIsAvailable
  /\ OneDecision
  /\ WithdrawalsHaveAgents
  /\ RowsFollowWithdrawal
  /\ AmountIsReserved

----------------------------------------------------------------------------
(* The invariant holds initially and every action preserves it *)

\* The initial state satisfies the invariant.
LEMMA InitIInv == Init => IInv
<1> SUFFICES ASSUME Init PROVE IInv
  OBVIOUS
<1>1. TypeOK
  BY NoneAssumption DEF Init, TypeOK, Commission, Withdrawal, Session, Admin,
     NoCommission, NoWithdrawal, Idle, IdleAdmin
<1>2. LocksHaveOwners /\ RequestsHaveAgents /\ SeenIsAvailable
  BY NoneAssumption DEF Init, LocksHaveOwners, RequestsHaveAgents, SeenIsAvailable, Idle
<1>3. OneDecision /\ WithdrawalsHaveAgents
  BY DEF Init, OneDecision, WithdrawalsHaveAgents, IdleAdmin, NoWithdrawal
<1>4. RowsFollowWithdrawal
  BY DEF Init, RowsFollowWithdrawal, NoCommission
<1>5. AmountIsReserved
  BY DEF Init, AmountIsReserved, NoWithdrawal, Live
<1> QED
  BY <1>1, <1>2, <1>3, <1>4, <1>5 DEF IInv

\* A commission that accrues.  Its agent has no SUM under way: the rows would be
\* locked.
LEMMA AccrueKeeps ==
  ASSUME IInv, NEW p \in Purchases, NEW a \in Agents, Accrue(p, a)
  PROVE  IInv'
<1> USE DEF IInv
<1>0. /\ UNCHANGED <<withdrawal, lock, rowLock, session, admin>>
      /\ rowLock[a] = None
  BY DEF Accrue
<1>a. commission \in [Purchases -> Commission]
  BY DEF TypeOK
<1>b. commission'[p] = [agent |-> a, status |-> "ACCRUED", withdrawal |-> None]
  BY <1>a DEF Accrue, NoCommission
<1>c. \A q \in Purchases : q # p => commission'[q] = commission[q]
  BY <1>a DEF Accrue
<1>d. commission[p] = NoCommission
  BY DEF Accrue
<1>1. TypeOK'
  <2>1. commission'[p] \in Commission
    BY <1>b DEF Commission
  <2>2. \A q \in Purchases : commission'[q] \in Commission
    BY <1>a, <1>c, <2>1
  <2>3. commission' \in [Purchases -> Commission]
    BY <1>a, <2>2 DEF Accrue
  <2> QED
    BY <1>0, <2>3 DEF TypeOK
<1>2. LocksHaveOwners'
  BY <1>0 DEF LocksHaveOwners
<1>3. RequestsHaveAgents'
  BY <1>0 DEF RequestsHaveAgents
<1>4. SeenIsAvailable'
  <2> SUFFICES ASSUME NEW s \in Sessions, session'[s].pc = "summed"
               PROVE  (/\ rowLock[session[s].agent] = s
                       /\ session[s].seen = Available(session[s].agent))'
    BY DEF SeenIsAvailable
  <2>1. PICK b \in Agents : session[s].agent = b
    BY <1>0 DEF RequestsHaveAgents
  <2>2. rowLock[b] = s /\ session[s].seen = Available(b)
    BY <1>0, <2>1 DEF SeenIsAvailable
  <2>3. a # b
    BY <1>0, <2>2, NoneAssumption
  <2>4. \A q \in Purchases :
          commission'[q] = [agent |-> b, status |-> "ACCRUED", withdrawal |-> None]
            <=> commission[q] = [agent |-> b, status |-> "ACCRUED", withdrawal |-> None]
    BY <1>b, <1>c, <1>d, <2>3, NoneAssumption DEF NoCommission
  <2>5. Available(b)' = Available(b)
    BY <2>4 DEF Available
  <2> QED
    BY <1>0, <2>1, <2>2, <2>5 DEF Available
<1>5. OneDecision'
  BY <1>0 DEF OneDecision
<1>6. WithdrawalsHaveAgents'
  BY <1>0 DEF WithdrawalsHaveAgents, NoWithdrawal
<1>7. RowsFollowWithdrawal'
  BY <1>0, <1>b, <1>c DEF RowsFollowWithdrawal
<1>8. AmountIsReserved'
  <2>1. \A q \in Purchases : commission'[q].withdrawal = commission[q].withdrawal
    BY <1>b, <1>c, <1>d DEF NoCommission
  <2> QED
    BY <1>0, <2>1 DEF AmountIsReserved, ReservedBy
<1> QED
  BY <1>1, <1>2, <1>3, <1>4, <1>5, <1>6, <1>7, <1>8

\* A request that starts.
LEMMA RequestKeeps ==
  ASSUME IInv, NEW s \in Sessions, NEW a \in Agents, Request(s, a)
  PROVE  IInv'
<1> USE DEF IInv
<1>1. TypeOK'
  BY NoneAssumption DEF Request, TypeOK, Commission, Withdrawal, Session,
     Admin
<1>2. LocksHaveOwners'
  BY DEF Request, LocksHaveOwners
<1>3. RequestsHaveAgents'
  BY DEF Request, RequestsHaveAgents
<1>4. SeenIsAvailable'
  BY DEF Request, SeenIsAvailable, Available
<1>5. OneDecision'
  BY DEF Request, OneDecision
<1>6. WithdrawalsHaveAgents'
  BY DEF Request, WithdrawalsHaveAgents, NoWithdrawal
<1>7. RowsFollowWithdrawal'
  BY DEF Request, RowsFollowWithdrawal, Live
<1>8. AmountIsReserved'
  BY DEF Request, AmountIsReserved, ReservedBy, Live
<1> QED
  BY <1>1, <1>2, <1>3, <1>4, <1>5, <1>6, <1>7, <1>8

\* The named lock taken.
LEMMA GetLockKeeps ==
  ASSUME IInv, NEW s \in Sessions, GetLock(s)
  PROVE  IInv'
<1> USE DEF IInv
<1>1. TypeOK'
  BY NoneAssumption DEF GetLock, TypeOK, Commission, Withdrawal, Session,
     Admin, LocksHaveOwners, RequestsHaveAgents
<1>2. LocksHaveOwners'
  BY DEF GetLock, LocksHaveOwners, TypeOK
<1>3. RequestsHaveAgents'
  BY DEF GetLock, RequestsHaveAgents
<1>4. SeenIsAvailable'
  BY DEF GetLock, SeenIsAvailable, Available
<1>5. OneDecision'
  BY DEF GetLock, OneDecision
<1>6. WithdrawalsHaveAgents'
  BY DEF GetLock, WithdrawalsHaveAgents, NoWithdrawal
<1>7. RowsFollowWithdrawal'
  BY DEF GetLock, RowsFollowWithdrawal, Live
<1>8. AmountIsReserved'
  BY DEF GetLock, AmountIsReserved, ReservedBy, Live
<1> QED
  BY <1>1, <1>2, <1>3, <1>4, <1>5, <1>6, <1>7, <1>8

\* No named lock, and on without it.
LEMMA GetLockErrorKeeps ==
  ASSUME IInv, NEW s \in Sessions, GetLockError(s)
  PROVE  IInv'
<1> USE DEF IInv
<1>1. TypeOK'
  BY NoneAssumption DEF GetLockError, TypeOK, Commission, Withdrawal, Session,
     Admin, LocksHaveOwners, RequestsHaveAgents
<1>2. LocksHaveOwners'
  BY DEF GetLockError, LocksHaveOwners, TypeOK
<1>3. RequestsHaveAgents'
  BY DEF GetLockError, RequestsHaveAgents
<1>4. SeenIsAvailable'
  BY DEF GetLockError, SeenIsAvailable, Available
<1>5. OneDecision'
  BY DEF GetLockError, OneDecision
<1>6. WithdrawalsHaveAgents'
  BY DEF GetLockError, WithdrawalsHaveAgents, NoWithdrawal
<1>7. RowsFollowWithdrawal'
  BY DEF GetLockError, RowsFollowWithdrawal, Live
<1>8. AmountIsReserved'
  BY DEF GetLockError, AmountIsReserved, ReservedBy, Live
<1> QED
  BY <1>1, <1>2, <1>3, <1>4, <1>5, <1>6, <1>7, <1>8

\* The named lock given up.
LEMMA LockTimeoutKeeps ==
  ASSUME IInv, NEW s \in Sessions, LockTimeout(s)
  PROVE  IInv'
<1> USE DEF IInv
<1>1. TypeOK'
  BY NoneAssumption DEF LockTimeout, Idle, TypeOK, Commission, Withdrawal,
     Session, Admin
<1>2. LocksHaveOwners'
  BY DEF LockTimeout, LocksHaveOwners
<1>3. RequestsHaveAgents'
  BY DEF LockTimeout, Idle, RequestsHaveAgents, TypeOK
<1>4. SeenIsAvailable'
  BY DEF LockTimeout, Idle, SeenIsAvailable, Available, TypeOK
<1>5. OneDecision'
  BY DEF LockTimeout, OneDecision
<1>6. WithdrawalsHaveAgents'
  BY DEF LockTimeout, WithdrawalsHaveAgents, NoWithdrawal
<1>7. RowsFollowWithdrawal'
  BY DEF LockTimeout, RowsFollowWithdrawal, Live
<1>8. AmountIsReserved'
  BY DEF LockTimeout, AmountIsReserved, ReservedBy, Live
<1> QED
  BY <1>1, <1>2, <1>3, <1>4, <1>5, <1>6, <1>7, <1>8

\* The SUM.  It changes the row lock of its agent only, which was free.
LEMMA SumBalanceKeeps ==
  ASSUME IInv, NEW s \in Sessions, SumBalance(s)
  PROVE  IInv'
<1> USE DEF IInv
<1>0. UNCHANGED <<commission, withdrawal, lock, admin>>
  BY DEF SumBalance
<1>a. PICK a \in Agents : session[s].agent = a
  BY DEF SumBalance, RequestsHaveAgents
<1>b. /\ session \in [Sessions -> Session]
      /\ rowLock \in [Agents -> Sessions \cup {None}]
      /\ rowLock[a] = None
      /\ session[s].pc = "locked"
  BY <1>a DEF TypeOK, SumBalance
<1>c. \A r \in Sessions : r # s => session'[r] = session[r]
  BY <1>b DEF SumBalance
<1>d. /\ session' \in [Sessions -> Session]
      /\ session'[s].agent = a
  <2>1. Available(a) \subseteq Purchases
    BY DEF Available
  <2>2. PICK pc \in {"summed", "release"}, seen \in SUBSET Purchases :
          session' = [session EXCEPT ![s].pc = pc, ![s].seen = seen]
    BY <1>a, <2>1 DEF SumBalance
  <2>3. session'[s] = [session[s] EXCEPT !.pc = pc, !.seen = seen]
    BY <1>b, <2>2
  <2>4. session'[s] = [pc |-> pc, agent |-> a, seen |-> seen]
    BY <1>a, <1>b, <2>3 DEF Session
  <2>5. session'[s] \in Session
    BY <2>4 DEF Session
  <2> QED
    BY <1>b, <2>2, <2>4, <2>5
<1>e. \/ /\ session'[s].pc = "summed"
         /\ session'[s].seen = Available(a)
         /\ rowLock' = [rowLock EXCEPT ![a] = s]
      \/ session'[s].pc = "release" /\ rowLock' = rowLock
  <2>1. CASE /\ session' = [session EXCEPT ![s].pc = "summed", ![s].seen = Available(a)]
             /\ rowLock' = [rowLock EXCEPT ![a] = s]
    BY <1>b, <2>1 DEF Session
  <2>2. CASE /\ session' = [session EXCEPT ![s].pc = "release", ![s].seen = {}]
             /\ rowLock' = rowLock
    BY <1>b, <2>2 DEF Session
  <2> QED
    BY <1>a, <2>1, <2>2 DEF SumBalance
<1>f. \A b \in Agents : b # a => rowLock'[b] = rowLock[b]
  BY <1>b, <1>e
<1>1. TypeOK'
  BY <1>0, <1>b, <1>d, <1>e DEF TypeOK
<1>2. LocksHaveOwners'
  BY DEF SumBalance, LocksHaveOwners, TypeOK
<1>3. RequestsHaveAgents'
  BY DEF SumBalance, RequestsHaveAgents, TypeOK
<1>4. SeenIsAvailable'
  <2>0. \A b \in Agents : Available(b)' = Available(b)
    BY <1>0 DEF Available
  <2> SUFFICES ASSUME NEW r \in Sessions, session'[r].pc = "summed"
               PROVE  (/\ rowLock[session[r].agent] = r
                       /\ session[r].seen = Available(session[r].agent))'
    BY DEF SeenIsAvailable
  <2>1. CASE r = s
    <3>1. rowLock'[a] = s /\ session'[s].seen = Available(a)
      BY <1>b, <1>e, <2>1
    <3> QED
      BY <1>0, <1>d, <2>1, <3>1 DEF Available
  <2>2. CASE r # s
    <3>1. session'[r] = session[r]
      BY <1>c, <2>2
    <3>2. PICK b \in Agents : session[r].agent = b
      BY <3>1 DEF RequestsHaveAgents
    <3>3. rowLock[b] = r /\ session[r].seen = Available(b)
      BY <3>1, <3>2 DEF SeenIsAvailable
    <3>4. rowLock'[b] = r
      BY <1>b, <1>f, <3>3, NoneAssumption
    <3> QED
      BY <1>0, <3>1, <3>2, <3>3, <3>4 DEF Available
  <2> QED
    BY <2>1, <2>2
<1>5. OneDecision'
  BY <1>0 DEF OneDecision
<1>6. WithdrawalsHaveAgents'
  BY <1>0 DEF WithdrawalsHaveAgents, NoWithdrawal
<1>7. RowsFollowWithdrawal'
  BY <1>0 DEF RowsFollowWithdrawal
<1>8. AmountIsReserved'
  BY <1>0 DEF AmountIsReserved, ReservedBy
<1> QED
  BY <1>1, <1>2, <1>3, <1>4, <1>5, <1>6, <1>7, <1>8

\* The reservation.  What the session saw is still what the agent has available,
\* and nothing carried the fresh identifier before.
LEMMA ReserveKeeps ==
  ASSUME IInv, NEW s \in Sessions, NEW w \in Withdrawals, Reserve(s, w)
  PROVE  IInv'
<1> USE DEF IInv
<1>0. /\ UNCHANGED <<lock, admin>>
      /\ session[s].pc = "summed"
      /\ withdrawal[w] = NoWithdrawal
  BY DEF Reserve
<1>a. PICK a \in Agents : session[s].agent = a
  BY <1>0 DEF RequestsHaveAgents
<1>t. /\ commission \in [Purchases -> Commission]
      /\ withdrawal \in [Withdrawals -> Withdrawal]
      /\ rowLock \in [Agents -> Sessions \cup {None}]
      /\ session \in [Sessions -> Session]
      /\ None \notin Agents \cup Withdrawals
  BY NoneAssumption DEF TypeOK
<1>b. /\ session[s].seen = Available(a)
      /\ session[s].seen \in SUBSET Purchases
      /\ rowLock[a] = s
  BY <1>0, <1>a DEF SeenIsAvailable, Available
<1>c. /\ withdrawal' = [withdrawal EXCEPT
            ![w] = [agent |-> a, rows |-> session[s].seen, status |-> "REQUESTED"]]
      /\ rowLock' = [rowLock EXCEPT ![a] = None]
      /\ session' = [session EXCEPT ![s].pc = "release"]
  BY <1>a DEF Reserve
<1>d. /\ withdrawal'[w] = [agent |-> a, rows |-> session[s].seen, status |-> "REQUESTED"]
      /\ \A v \in Withdrawals : v # w => withdrawal'[v] = withdrawal[v]
  BY <1>c, <1>t
<1>e. \A p \in Available(a) :
        /\ p \in Purchases
        /\ commission[p] = [agent |-> a, status |-> "ACCRUED", withdrawal |-> None]
  BY DEF Available
<1>f. commission' = [p \in Purchases |->
        IF p \in Available(a) THEN [commission[p] EXCEPT !.withdrawal = w]
                              ELSE commission[p]]
  BY <1>a DEF Reserve
<1>g. /\ \A p \in Available(a) :
           commission'[p] = [agent |-> a, status |-> "ACCRUED", withdrawal |-> w]
      /\ \A p \in Purchases : p \notin Available(a) => commission'[p] = commission[p]
  BY <1>e, <1>f
<1>h. \A p \in Purchases : commission[p].withdrawal # w
  BY <1>0, <1>t DEF RowsFollowWithdrawal, NoWithdrawal, Live
<1>1. TypeOK'
  <2>1. \A p \in Purchases : commission'[p] \in Commission
    <3> TAKE p \in Purchases
    <3>1. CASE p \in Available(a)
      BY <1>g, <3>1 DEF Commission
    <3>2. CASE p \notin Available(a)
      BY <1>g, <1>t, <3>2
    <3> QED
      BY <3>1, <3>2
  <2>2. commission' \in [Purchases -> Commission]
    BY <1>f, <2>1
  <2>3. withdrawal' \in [Withdrawals -> Withdrawal]
    BY <1>b, <1>c, <1>t DEF Withdrawal
  <2>4. rowLock' \in [Agents -> Sessions \cup {None}]
    BY <1>c, <1>t
  <2>5. session' \in [Sessions -> Session]
    BY <1>c, <1>t DEF Session
  <2> QED
    BY <1>0, <2>2, <2>3, <2>4, <2>5 DEF TypeOK
<1>2. LocksHaveOwners'
  BY NoneAssumption DEF Reserve, LocksHaveOwners, TypeOK, Commission,
     Withdrawal, Session, Admin
<1>3. RequestsHaveAgents'
  BY DEF Reserve, RequestsHaveAgents
<1>4. SeenIsAvailable'
  <2> SUFFICES ASSUME NEW r \in Sessions, session'[r].pc = "summed"
               PROVE  (/\ rowLock[session[r].agent] = r
                       /\ session[r].seen = Available(session[r].agent))'
    BY DEF SeenIsAvailable
  <2>1. r # s /\ session'[r] = session[r]
    BY <1>c, <1>t DEF Session
  <2>2. PICK b \in Agents : session[r].agent = b
    BY <2>1 DEF RequestsHaveAgents
  <2>3. rowLock[b] = r /\ session[r].seen = Available(b)
    BY <2>1, <2>2 DEF SeenIsAvailable
  <2>4. a # b
    BY <1>b, <2>1, <2>3
  <2>5. rowLock'[b] = r
    BY <1>c, <1>t, <2>3, <2>4
  <2>6. \A p \in Purchases :
          commission'[p] = [agent |-> b, status |-> "ACCRUED", withdrawal |-> None]
            <=> commission[p] = [agent |-> b, status |-> "ACCRUED", withdrawal |-> None]
    BY <1>e, <1>g, <2>4
  <2>7. Available(b)' = Available(b)
    BY <2>6 DEF Available
  <2> QED
    BY <2>1, <2>2, <2>3, <2>5, <2>7 DEF Available
<1>5. OneDecision'
  BY <1>0, <1>d DEF OneDecision, NoWithdrawal
<1>6. WithdrawalsHaveAgents'
  <2> SUFFICES ASSUME NEW v \in Withdrawals
               PROVE  IF withdrawal'[v].status = "none" THEN withdrawal'[v] = NoWithdrawal
                      ELSE withdrawal'[v].agent \in Agents
    BY DEF WithdrawalsHaveAgents, NoWithdrawal
  <2>1. CASE v = w
    BY <1>d, <2>1
  <2>2. CASE v # w
    BY <1>d, <2>2 DEF WithdrawalsHaveAgents
  <2> QED
    BY <2>1, <2>2
<1>7. RowsFollowWithdrawal'
  <2> SUFFICES ASSUME NEW p \in Purchases, NEW v, v = commission'[p].withdrawal
               PROVE  IF v = None THEN commission'[p].status = "ACCRUED"
                      ELSE /\ withdrawal'[v].status \in Live
                           /\ withdrawal'[v].agent = commission'[p].agent
                           /\ commission'[p].status = "WITHDRAWN"
                                <=> withdrawal'[v].status = "PAID"
    BY DEF RowsFollowWithdrawal
  <2>1. CASE p \in Available(a)
    BY <1>d, <1>g, <1>t, <2>1 DEF Live
  <2>2. CASE p \notin Available(a)
    <3>1. commission'[p] = commission[p] /\ v # w
      BY <1>g, <1>h, <2>2
    <3>2. CASE v = None
      BY <3>1, <3>2 DEF RowsFollowWithdrawal
    <3>3. CASE v # None
      <4>1. v \in Withdrawals
        BY <1>t, <3>1, <3>3 DEF Commission
      <4>2. withdrawal'[v] = withdrawal[v]
        BY <1>d, <3>1, <4>1
      <4> QED
        BY <3>1, <3>3, <4>2 DEF RowsFollowWithdrawal
    <3> QED
      BY <3>2, <3>3
  <2> QED
    BY <2>1, <2>2
<1>8. AmountIsReserved'
  <2> SUFFICES ASSUME NEW v \in Withdrawals, withdrawal'[v].status \in Live
               PROVE  withdrawal'[v].rows = ReservedBy(v)'
    BY DEF AmountIsReserved, Live
  <2>1. CASE v = w
    <3>1. ReservedBy(w)' = Available(a)
      BY <1>e, <1>g, <1>h DEF ReservedBy
    <3> QED
      BY <1>b, <1>d, <2>1, <3>1
  <2>2. CASE v # w
    <3>1. \A p \in Purchases : commission'[p].withdrawal = v <=> commission[p].withdrawal = v
      BY <1>e, <1>g, <1>t, <2>2
    <3>2. ReservedBy(v)' = ReservedBy(v)
      BY <3>1 DEF ReservedBy
    <3> QED
      BY <1>d, <2>2, <3>2 DEF AmountIsReserved
  <2> QED
    BY <2>1, <2>2
<1> QED
  BY <1>1, <1>2, <1>3, <1>4, <1>5, <1>6, <1>7, <1>8

\* The named lock given back.
LEMMA ReleaseLockKeeps ==
  ASSUME IInv, NEW s \in Sessions, ReleaseLock(s)
  PROVE  IInv'
<1> USE DEF IInv
<1>1. TypeOK'
  BY NoneAssumption DEF ReleaseLock, Unlocked, Idle, TypeOK, Commission, Withdrawal,
     Session, Admin
<1>2. LocksHaveOwners'
  BY NoneAssumption DEF ReleaseLock, Unlocked, Idle, LocksHaveOwners,
     RequestsHaveAgents, TypeOK, Session
<1>3. RequestsHaveAgents'
  BY DEF ReleaseLock, Idle, RequestsHaveAgents, TypeOK
<1>4. SeenIsAvailable'
  BY DEF ReleaseLock, Idle, SeenIsAvailable, Available, TypeOK
<1>5. OneDecision'
  BY DEF ReleaseLock, OneDecision
<1>6. WithdrawalsHaveAgents'
  BY DEF ReleaseLock, WithdrawalsHaveAgents, NoWithdrawal
<1>7. RowsFollowWithdrawal'
  BY DEF ReleaseLock, RowsFollowWithdrawal, Live
<1>8. AmountIsReserved'
  BY DEF ReleaseLock, AmountIsReserved, ReservedBy, Live
<1> QED
  BY <1>1, <1>2, <1>3, <1>4, <1>5, <1>6, <1>7, <1>8

\* The exit handler's RELEASE_LOCK.
LEMMA FailKeeps ==
  ASSUME IInv, NEW s \in Sessions, Fail(s)
  PROVE  IInv'
<1> USE DEF IInv
<1>a. PICK a \in Agents : session[s].agent = a
  BY DEF Fail, RequestsHaveAgents
<1>b. /\ lock \in [Agents -> Sessions \cup {None}]
      /\ session \in [Sessions -> Session]
      /\ session[s].pc \in {"locked", "summed"}
      /\ session' = [session EXCEPT ![s].pc = "failed"]
      /\ UNCHANGED <<commission, withdrawal, rowLock, admin>>
  BY DEF Fail, TypeOK
<1>c. /\ lock' \in [Agents -> Sessions \cup {None}]
      /\ \A b \in Agents : lock'[b] = lock[b] \/ lock'[b] = None
      /\ lock'[a] # s
  BY <1>a, <1>b, NoneAssumption DEF Fail, Unlocked
<1>d. /\ session'[s].pc = "failed" /\ session'[s].agent = a
      /\ \A r \in Sessions : r # s => session'[r] = session[r]
      /\ session' \in [Sessions -> Session]
  BY <1>a, <1>b DEF Session
<1>1. TypeOK'
  BY <1>b, <1>c, <1>d DEF TypeOK
<1>2. LocksHaveOwners'
  <2> SUFFICES ASSUME NEW b \in Agents, NEW r \in Sessions
               PROVE  (/\ lock[b] = r => /\ session[r].agent = b
                                         /\ session[r].pc \in {"locked", "summed", "release"}
                       /\ rowLock[b] = r => /\ session[r].agent = b
                                            /\ session[r].pc \in {"summed", "failed"})'
    BY DEF LocksHaveOwners
  <2>1. CASE r = s
    <3>1. lock'[b] # s
      BY <1>a, <1>c, NoneAssumption DEF LocksHaveOwners
    <3> QED
      BY <1>a, <1>b, <1>d, <2>1, <3>1 DEF LocksHaveOwners
  <2>2. CASE r # s
    BY <1>b, <1>c, <1>d, <2>2, NoneAssumption DEF LocksHaveOwners
  <2> QED
    BY <2>1, <2>2
<1>3. RequestsHaveAgents'
  BY DEF Fail, RequestsHaveAgents
<1>4. SeenIsAvailable'
  BY DEF Fail, SeenIsAvailable, Available
<1>5. OneDecision'
  BY DEF Fail, OneDecision
<1>6. WithdrawalsHaveAgents'
  BY DEF Fail, WithdrawalsHaveAgents, NoWithdrawal
<1>7. RowsFollowWithdrawal'
  BY DEF Fail, RowsFollowWithdrawal, Live
<1>8. AmountIsReserved'
  BY DEF Fail, AmountIsReserved, ReservedBy, Live
<1> QED
  BY <1>1, <1>2, <1>3, <1>4, <1>5, <1>6, <1>7, <1>8

\* The exit handler's ROLLBACK.
LEMMA RollbackKeeps ==
  ASSUME IInv, NEW s \in Sessions, Rollback(s)
  PROVE  IInv'
<1> USE DEF IInv
<1>1. TypeOK'
  BY NoneAssumption DEF Rollback, Dropped, Idle, TypeOK, Commission,
     Withdrawal, Session, Admin
<1>2. LocksHaveOwners'
  BY NoneAssumption DEF Rollback, Dropped, Idle, LocksHaveOwners, TypeOK,
     Commission, Withdrawal, Session, Admin
<1>3. RequestsHaveAgents'
  BY DEF Rollback, Dropped, Idle, RequestsHaveAgents, TypeOK
<1>4. SeenIsAvailable'
  BY NoneAssumption DEF Rollback, Dropped, Idle, SeenIsAvailable, Available,
     TypeOK, Commission, Withdrawal, Session, Admin, LocksHaveOwners,
     RequestsHaveAgents
<1>5. OneDecision'
  BY DEF Rollback, OneDecision
<1>6. WithdrawalsHaveAgents'
  BY DEF Rollback, WithdrawalsHaveAgents, NoWithdrawal
<1>7. RowsFollowWithdrawal'
  BY DEF Rollback, RowsFollowWithdrawal, Live
<1>8. AmountIsReserved'
  BY DEF Rollback, AmountIsReserved, ReservedBy, Live
<1> QED
  BY <1>1, <1>2, <1>3, <1>4, <1>5, <1>6, <1>7, <1>8

\* A connection that dies.
LEMMA DisconnectKeeps ==
  ASSUME IInv, NEW s \in Sessions, Disconnect(s)
  PROVE  IInv'
<1> USE DEF IInv
<1>1. TypeOK'
  BY NoneAssumption DEF Disconnect, Dropped, Idle, TypeOK, Commission,
     Withdrawal, Session, Admin
<1>2. LocksHaveOwners'
  BY NoneAssumption DEF Disconnect, Dropped, Idle, LocksHaveOwners, TypeOK,
     Commission, Withdrawal, Session, Admin
<1>3. RequestsHaveAgents'
  BY DEF Disconnect, Dropped, Idle, RequestsHaveAgents, TypeOK
<1>4. SeenIsAvailable'
  BY NoneAssumption DEF Disconnect, Dropped, Idle, SeenIsAvailable,
     Available, TypeOK, Commission, Withdrawal, Session, Admin,
     LocksHaveOwners, RequestsHaveAgents
<1>5. OneDecision'
  BY DEF Disconnect, OneDecision
<1>6. WithdrawalsHaveAgents'
  BY DEF Disconnect, WithdrawalsHaveAgents, NoWithdrawal
<1>7. RowsFollowWithdrawal'
  BY DEF Disconnect, RowsFollowWithdrawal, Live
<1>8. AmountIsReserved'
  BY DEF Disconnect, AmountIsReserved, ReservedBy, Live
<1> QED
  BY <1>1, <1>2, <1>3, <1>4, <1>5, <1>6, <1>7, <1>8

\* An administrator's FOR UPDATE.
LEMMA LockWithdrawalKeeps ==
  ASSUME IInv, NEW d \in Admins, NEW w \in Withdrawals, LockWithdrawal(d, w)
  PROVE  IInv'
<1> USE DEF IInv
<1>1. TypeOK'
  BY NoneAssumption DEF LockWithdrawal, TypeOK, Commission, Withdrawal,
     Session, Admin
<1>2. LocksHaveOwners'
  BY DEF LockWithdrawal, LocksHaveOwners
<1>3. RequestsHaveAgents'
  BY DEF LockWithdrawal, RequestsHaveAgents
<1>4. SeenIsAvailable'
  BY DEF LockWithdrawal, SeenIsAvailable, Available
<1>5. OneDecision'
  BY DEF LockWithdrawal, OneDecision
<1>6. WithdrawalsHaveAgents'
  BY DEF LockWithdrawal, WithdrawalsHaveAgents, NoWithdrawal
<1>7. RowsFollowWithdrawal'
  BY DEF LockWithdrawal, RowsFollowWithdrawal, Live
<1>8. AmountIsReserved'
  BY DEF LockWithdrawal, AmountIsReserved, ReservedBy, Live
<1> QED
  BY <1>1, <1>2, <1>3, <1>4, <1>5, <1>6, <1>7, <1>8

\* An administrator's decision.  The withdrawal is undecided, so its rows are
\* still ACCRUED; nobody has summed its agent's rows unless they stay put.
LEMMA SetStatusKeeps ==
  ASSUME IInv, NEW d \in Admins, NEW status \in {"APPROVED", "PAID", "REJECTED"},
         SetStatus(d, status)
  PROVE  IInv'
<1> USE DEF IInv
<1>0. UNCHANGED <<lock, rowLock, session>>
  BY DEF SetStatus
<1>t. /\ commission \in [Purchases -> Commission]
      /\ withdrawal \in [Withdrawals -> Withdrawal]
      /\ admin \in [Admins -> Admin]
      /\ None \notin Agents \cup Withdrawals
  BY NoneAssumption DEF TypeOK
<1>a. PICK w \in Withdrawals :
        /\ admin[d].withdrawal = w
        /\ withdrawal[w].status \in {"REQUESTED", "APPROVED"}
        /\ \A e \in Admins : admin[e].withdrawal = w => e = d
  BY DEF SetStatus, OneDecision
<1>b. /\ status # "APPROVED" => rowLock[withdrawal[w].agent] = None
      /\ withdrawal' = [withdrawal EXCEPT ![w].status = status]
      /\ SettleRows(w, status)
      /\ admin' = [admin EXCEPT ![d] = IdleAdmin]
  BY <1>a DEF SetStatus
<1>c. /\ withdrawal'[w] = [withdrawal[w] EXCEPT !.status = status]
      /\ \A v \in Withdrawals : v # w => withdrawal'[v] = withdrawal[v]
  BY <1>b, <1>t
<1>d. /\ withdrawal'[w].status = status
      /\ withdrawal'[w].agent = withdrawal[w].agent
      /\ withdrawal'[w].rows = withdrawal[w].rows
  BY <1>c, <1>t DEF Withdrawal
<1>e. ASSUME NEW p \in Purchases
      PROVE  /\ commission[p].withdrawal = w /\ status = "PAID" =>
                  commission'[p] = [commission[p] EXCEPT !.status = "WITHDRAWN"]
             /\ commission[p].withdrawal = w /\ status = "REJECTED" =>
                  commission'[p] = [commission[p] EXCEPT !.withdrawal = None]
             /\ commission[p].withdrawal # w \/ status = "APPROVED" =>
                  commission'[p] = commission[p]
  BY <1>b DEF SettleRows
<1>f. \A p \in Purchases : commission[p].withdrawal = w =>
        commission[p].status = "ACCRUED" /\ commission[p].agent = withdrawal[w].agent
  BY <1>a, <1>t DEF RowsFollowWithdrawal, Commission
<1>g. ASSUME NEW p \in Purchases, commission[p].withdrawal = w
      PROVE  commission'[p] = [agent |-> withdrawal[w].agent,
                               status |-> IF status = "PAID" THEN "WITHDRAWN" ELSE "ACCRUED",
                               withdrawal |-> IF status = "REJECTED" THEN None ELSE w]
  <2>1. commission[p] = [agent |-> withdrawal[w].agent, status |-> "ACCRUED", withdrawal |-> w]
    BY <1>f, <1>g, <1>t DEF Commission
  <2>2. CASE status = "APPROVED"
    BY <1>e, <2>1, <2>2
  <2>3. CASE status = "PAID"
    BY <1>e, <2>1, <2>3
  <2>4. CASE status = "REJECTED"
    BY <1>e, <2>1, <2>4
  <2> QED
    BY <2>2, <2>3, <2>4
<1>1. TypeOK'
  <2>1. ASSUME NEW p \in Purchases PROVE commission'[p] \in Commission
    <3>1. CASE commission[p].withdrawal # w
      BY <1>e, <1>t, <3>1
    <3>2. CASE commission[p].withdrawal = w
      <4>1. withdrawal[w].agent \in Agents \cup {None}
        BY <1>t DEF Withdrawal
      <4> QED
        BY <1>g, <3>2, <4>1 DEF Commission
    <3> QED
      BY <3>1, <3>2
  <2>2. commission' \in [Purchases -> Commission]
    BY <1>b, <2>1 DEF SettleRows
  <2>3. withdrawal' \in [Withdrawals -> Withdrawal]
    BY <1>b, <1>t DEF Withdrawal
  <2>4. admin' \in [Admins -> Admin]
    BY <1>b, <1>t DEF Admin, IdleAdmin
  <2> QED
    BY <1>0, <2>2, <2>3, <2>4 DEF TypeOK
<1>2. LocksHaveOwners'
  BY <1>0 DEF LocksHaveOwners
<1>3. RequestsHaveAgents'
  BY <1>0 DEF RequestsHaveAgents
<1>4. SeenIsAvailable'
  <2> SUFFICES ASSUME NEW s \in Sessions, session'[s].pc = "summed"
               PROVE  (/\ rowLock[session[s].agent] = s
                       /\ session[s].seen = Available(session[s].agent))'
    BY DEF SeenIsAvailable
  <2>1. PICK b \in Agents : session[s].agent = b
    BY <1>0 DEF RequestsHaveAgents
  <2>2. rowLock[b] = s /\ session[s].seen = Available(b)
    BY <1>0, <2>1 DEF SeenIsAvailable
  <2>3. status # "APPROVED" => withdrawal[w].agent # b
    BY <1>b, <2>2, NoneAssumption
  <2>4. ASSUME NEW p \in Purchases
        PROVE  commission'[p] = [agent |-> b, status |-> "ACCRUED", withdrawal |-> None]
                 <=> commission[p] = [agent |-> b, status |-> "ACCRUED", withdrawal |-> None]
    <3>1. CASE commission[p].withdrawal # w \/ status = "APPROVED"
      BY <1>e, <3>1
    <3>2. CASE commission[p].withdrawal = w /\ status # "APPROVED"
      <4>1. commission[p].agent # b
        BY <1>f, <2>3, <3>2
      <4>2. commission'[p].agent = commission[p].agent
        BY ZenonT(60), <1>e, <1>t, <3>2 DEF Commission
      <4> QED
        BY <4>1, <4>2
    <3> QED
      BY <3>1, <3>2
  <2>5. Available(b)' = Available(b)
    BY <2>4 DEF Available
  <2> QED
    BY <1>0, <2>1, <2>2, <2>5 DEF Available
<1>5. OneDecision'
  <2>1. \A e \in Admins : e # d => admin'[e] = admin[e] /\ admin[e].withdrawal # w
    BY <1>a, <1>b, <1>t
  <2>2. admin'[d] = IdleAdmin
    BY <1>b, <1>t
  <2> QED
    BY <1>c, <1>t, <2>1, <2>2 DEF OneDecision, IdleAdmin
<1>6. WithdrawalsHaveAgents'
  BY ZenonT(60), <1>a, <1>c, <1>d DEF WithdrawalsHaveAgents, NoWithdrawal
<1>7. RowsFollowWithdrawal'
  <2> SUFFICES ASSUME NEW p \in Purchases, NEW v, v = commission'[p].withdrawal
               PROVE  IF v = None THEN commission'[p].status = "ACCRUED"
                      ELSE /\ withdrawal'[v].status \in Live
                           /\ withdrawal'[v].agent = commission'[p].agent
                           /\ commission'[p].status = "WITHDRAWN"
                                <=> withdrawal'[v].status = "PAID"
    BY DEF RowsFollowWithdrawal
  <2>1. CASE commission[p].withdrawal # w
    <3>1. commission'[p] = commission[p] /\ v # w
      BY <1>e, <2>1
    <3>2. v # None => v \in Withdrawals /\ withdrawal'[v] = withdrawal[v]
      BY <1>c, <1>t, <3>1 DEF Commission
    <3> QED
      BY <3>1, <3>2 DEF RowsFollowWithdrawal
  <2>2. CASE commission[p].withdrawal = w
    BY <1>d, <1>g, <1>t, <2>2 DEF Live
  <2> QED
    BY <2>1, <2>2
<1>8. AmountIsReserved'
  <2> SUFFICES ASSUME NEW v \in Withdrawals, withdrawal'[v].status \in Live
               PROVE  withdrawal'[v].rows = ReservedBy(v)'
    BY DEF AmountIsReserved, Live
  <2>1. withdrawal[v].status \in Live /\ withdrawal'[v].rows = withdrawal[v].rows
    BY <1>a, <1>c, <1>d DEF Live
  <2>2. v = w => status # "REJECTED"
    BY <1>d DEF Live
  <2>3. ASSUME NEW p \in Purchases
        PROVE  commission'[p].withdrawal = v <=> commission[p].withdrawal = v
    <3>1. CASE commission[p].withdrawal # w
      BY <1>e, <3>1
    <3>2. CASE commission[p].withdrawal = w
      BY <1>g, <1>t, <2>2, <3>2
    <3> QED
      BY <3>1, <3>2
  <2>4. ReservedBy(v)' = ReservedBy(v)
    BY <2>3 DEF ReservedBy
  <2> QED
    BY <2>1, <2>4 DEF AmountIsReserved
<1> QED
  BY <1>1, <1>2, <1>3, <1>4, <1>5, <1>6, <1>7, <1>8

\* A decision abandoned.
LEMMA AbandonStatusKeeps ==
  ASSUME IInv, NEW d \in Admins, AbandonStatus(d)
  PROVE  IInv'
<1> USE DEF IInv
<1>1. TypeOK'
  BY NoneAssumption DEF AbandonStatus, IdleAdmin, TypeOK, Commission,
     Withdrawal, Session, Admin
<1>2. LocksHaveOwners'
  BY DEF AbandonStatus, LocksHaveOwners
<1>3. RequestsHaveAgents'
  BY DEF AbandonStatus, RequestsHaveAgents
<1>4. SeenIsAvailable'
  BY DEF AbandonStatus, SeenIsAvailable, Available
<1>5. OneDecision'
  BY NoneAssumption DEF AbandonStatus, IdleAdmin, OneDecision, TypeOK,
     Commission, Withdrawal, Session, Admin
<1>6. WithdrawalsHaveAgents'
  BY DEF AbandonStatus, WithdrawalsHaveAgents, NoWithdrawal
<1>7. RowsFollowWithdrawal'
  BY DEF AbandonStatus, RowsFollowWithdrawal, Live
<1>8. AmountIsReserved'
  BY DEF AbandonStatus, AmountIsReserved, ReservedBy, Live
<1> QED
  BY <1>1, <1>2, <1>3, <1>4, <1>5, <1>6, <1>7, <1>8

\* A stuttering step.
LEMMA StutterKeeps == ASSUME IInv, UNCHANGED vars PROVE IInv'
  BY DEF vars, IInv, TypeOK, LocksHaveOwners, RequestsHaveAgents, SeenIsAvailable,
     OneDecision, WithdrawalsHaveAgents, RowsFollowWithdrawal, AmountIsReserved,
     Available, ReservedBy

\* Every step preserves the invariant.
LEMMA StepKeeps == ASSUME IInv, [Next]_vars PROVE IInv'
<1>1. ASSUME NEW p \in Purchases, NEW a \in Agents, Accrue(p, a)
      PROVE  IInv'
  BY <1>1, AccrueKeeps
<1>2. ASSUME NEW s \in Sessions, NEW a \in Agents, Request(s, a)
      PROVE  IInv'
  BY <1>2, RequestKeeps
<1>3. ASSUME NEW s \in Sessions,
             RequestStep(s) \/ GetLockError(s) \/ Fail(s) \/ Disconnect(s)
      PROVE  IInv'
  BY <1>3, GetLockKeeps, GetLockErrorKeeps, LockTimeoutKeeps, SumBalanceKeeps,
     ReserveKeeps, ReleaseLockKeeps, RollbackKeeps, FailKeeps, DisconnectKeeps
     DEF RequestStep, RowLockTimeout
<1>4. ASSUME NEW d \in Admins, NEW w \in Withdrawals, LockWithdrawal(d, w)
      PROVE  IInv'
  BY <1>4, LockWithdrawalKeeps
<1>5. ASSUME NEW d \in Admins, NEW status \in {"APPROVED", "PAID", "REJECTED"},
             SetStatus(d, status)
      PROVE  IInv'
  BY <1>5, SetStatusKeeps
<1>6. ASSUME NEW d \in Admins, AbandonStatus(d)
      PROVE  IInv'
  BY <1>6, AbandonStatusKeeps
<1> QED
  BY <1>1, <1>2, <1>3, <1>4, <1>5, <1>6, StutterKeeps DEF Next

\* The invariant holds in every reachable state.
LEMMA Invariance == Spec => []IInv
<1>1. IInv /\ [Next]_vars => IInv'
  BY StepKeeps
<1> QED
  BY <1>1, InitIInv, PTL DEF Spec

----------------------------------------------------------------------------

\* Rows, locks and procedures have their shape in every reachable state.
THEOREM Typing == Spec => []TypeOK
<1>1. IInv => TypeOK
  BY DEF IInv
<1> QED
  BY <1>1, Invariance, PTL

\* No named lock and no row lock outlives the procedure that took it.
THEOREM LockOwnership == Spec => []LocksHaveOwners
<1>1. IInv => LocksHaveOwners
  BY DEF IInv
<1> QED
  BY <1>1, Invariance, PTL

\* A live withdrawal is worth exactly the commissions reserved for it, so no
\* commission is paid out twice.
THEOREM NoDoublePayout == Spec => []AmountIsReserved
<1>1. IInv => AmountIsReserved
  BY DEF IInv
<1> QED
  BY <1>1, Invariance, PTL

\* A commission is WITHDRAWN exactly when its withdrawal is PAID.
THEOREM LedgerAgrees == Spec => []RowsFollowWithdrawal
<1>1. IInv => RowsFollowWithdrawal
  BY DEF IInv
<1> QED
  BY <1>1, Invariance, PTL

\* One step changes neither a finalized withdrawal nor a WITHDRAWN commission.
LEMMA FinalStep ==
  ASSUME IInv, [Next]_vars
  PROVE  /\ \A w \in Withdrawals : withdrawal[w].status \in Final =>
              withdrawal'[w] = withdrawal[w]
         /\ \A p \in Purchases : commission[p].status = "WITHDRAWN" =>
              commission'[p] = commission[p]
<1> DEFINE Kept == /\ \A w \in Withdrawals : withdrawal[w].status \in Final =>
                        withdrawal'[w] = withdrawal[w]
                   /\ \A p \in Purchases : commission[p].status = "WITHDRAWN" =>
                        commission'[p] = commission[p]
<1>1. ASSUME NEW p \in Purchases, NEW a \in Agents, Accrue(p, a)
      PROVE  Kept
  BY <1>1 DEF Accrue, NoCommission, IInv, TypeOK
<1>2. ASSUME NEW s \in Sessions, NEW w \in Withdrawals, Reserve(s, w)
      PROVE  Kept
  BY <1>2 DEF Reserve, NoWithdrawal, Available, Final, IInv, TypeOK
<1>3. ASSUME NEW d \in Admins, NEW status \in {"APPROVED", "PAID", "REJECTED"},
             SetStatus(d, status)
      PROVE  Kept
  <2>1. PICK w \in Withdrawals : /\ admin[d].withdrawal = w
                                 /\ withdrawal[w].status \in {"REQUESTED", "APPROVED"}
    BY <1>3 DEF SetStatus, IInv, OneDecision
  <2>2. ASSUME NEW p \in Purchases, commission[p].status = "WITHDRAWN"
        PROVE  commission[p].withdrawal # w
    BY <2>1, <2>2, NoneAssumption DEF IInv, RowsFollowWithdrawal
  <2>3. withdrawal' = [withdrawal EXCEPT ![w].status = status] /\ SettleRows(w, status)
    BY <1>3, <2>1 DEF SetStatus
  <2> QED
    BY <2>1, <2>2, <2>3 DEF SettleRows, Final, IInv, TypeOK
<1>4. CASE UNCHANGED <<commission, withdrawal>>
  BY <1>4
<1> QED
  BY <1>1, <1>2, <1>3, <1>4 DEF Next, RequestStep, Request, GetLock, GetLockError,
     LockTimeout, SumBalance, RowLockTimeout, ReleaseLock, Rollback, Fail, Disconnect,
     LockWithdrawal,
     AbandonStatus, vars

\* What has been finalized or paid out never changes again.
THEOREM Finality == Spec => PaidIsFinal
<1>1. IInv /\ [Next]_vars =>
        [/\ \A w \in Withdrawals : withdrawal[w].status \in Final =>
              withdrawal'[w] = withdrawal[w]
         /\ \A p \in Purchases : commission[p].status = "WITHDRAWN" =>
              commission'[p] = commission[p]]_vars
  BY FinalStep
<1> QED
  BY <1>1, Invariance, PTL DEF Spec, PaidIsFinal

----------------------------------------------------------------------------
(***************************************************************************)
(* Sums over finite sets.  Total is a fold, a function defined by          *)
(* recursion over the subsets of a set.  Every induction below is on a     *)
(* smallest counterexample: the finite subsets for which a statement fails *)
(* would have one that contains no other (LeastSubset).                    *)
(***************************************************************************)

\* Among finite sets there is one that contains no other.
LEMMA LeastSubset ==
  ASSUME NEW S, IsFiniteSet(S), NEW B \in SUBSET (SUBSET S), B # {}
  PROVE  \E T \in B : \A U \in B : U \subseteq T => U = T
<1> DEFINE R == StrictSubsetOrdering(S)
<1>1. SUBSET S = FiniteSubsetsOf(S)
  BY FS_FiniteSubsetsOfFinite
<1>2. IsWellFoundedOn(R, SUBSET S)
  BY <1>1, FS_StrictSubsetOrderingWellFounded
<1>3. \A U, T \in SUBSET S : U \subseteq T /\ U # T => <<U, T>> \in R
  BY DEF StrictSubsetOrdering
<1> HIDE DEF R
<1>4. PICK T \in B : \A U \in B : ~ (<<U, T>> \in R)
  BY <1>2, WFMin
<1> QED
  BY <1>3, <1>4

\* One round of the fold.
Round(f, g, s) ==
  IF s = {} THEN 0
  ELSE f[CHOOSE x \in s : TRUE] + g[s \ {CHOOSE x \in s : TRUE}]

LEMMA TotalIsFold ==
  ASSUME NEW f, NEW S
  PROVE Total(f, S) = (CHOOSE g : g = [s \in SUBSET S |-> Round(f, g, s)])[S]
BY DEF Total, MapThenSumSet, MapThenFoldSet, Round

IsFold(f, S, g) == g = [s \in SUBSET S |-> Round(f, g, s)]

LEMMA TotalOfFold ==
  ASSUME NEW f, NEW S, \E g : IsFold(f, S, g)
  PROVE  \E g : IsFold(f, S, g) /\ Total(f, S) = g[S]
<1> DEFINE it == CHOOSE g : IsFold(f, S, g)
<1>1. IsFold(f, S, it)
  BY Zenon
<1>2. it = CHOOSE g : g = [s \in SUBSET S |-> Round(f, g, s)]
  BY DEF IsFold
<1>3. Total(f, S) = it[S]
  BY <1>2, TotalIsFold
<1> QED
  BY <1>1, <1>3

LEMMA Chosen ==
  ASSUME NEW s, s # {}
  PROVE  (CHOOSE x \in s : TRUE) \in s
OBVIOUS

\* Two folds of f agree wherever both are defined.
LEMMA FoldsAgree ==
  ASSUME NEW f, NEW S, IsFiniteSet(S), NEW T \in SUBSET S,
         NEW g, IsFold(f, S, g), NEW h, IsFold(f, T, h)
  PROVE  \A s \in SUBSET T : g[s] = h[s]
<1> DEFINE B == {s \in SUBSET T : g[s] # h[s]}
<1> SUFFICES ASSUME B # {} PROVE FALSE
  OBVIOUS
<1>1. IsFiniteSet(T)
  BY FS_Subset
<1>0. B \in SUBSET (SUBSET T)
  OBVIOUS
<1>2. PICK s \in B : \A u \in B : u \subseteq s => u = s
  <2> HIDE DEF B
  <2> QED
    BY <1>0, <1>1, LeastSubset
<1>3. g[s] = Round(f, g, s) /\ h[s] = Round(f, h, s)
  BY DEF IsFold
<1>4. CASE s = {}
  BY <1>3, <1>4 DEF Round
<1>5. CASE s # {}
  <2> DEFINE x == CHOOSE y \in s : TRUE
  <2>1. x \in s
    BY <1>5, Chosen
  <2>2. s \ {x} \in SUBSET T /\ s \ {x} # s /\ s \ {x} \subseteq s
    BY <2>1
  <2>3. g[s \ {x}] = h[s \ {x}]
    BY <1>2, <2>2
  <2> QED
    BY <1>3, <1>5, <2>3 DEF Round
<1> QED
  BY <1>4, <1>5

\* What is below a fold is a fold.
LEMMA FoldOfSubset ==
  ASSUME NEW f, NEW S, NEW T \in SUBSET S, NEW g, IsFold(f, S, g)
  PROVE  IsFold(f, T, [s \in SUBSET T |-> g[s]])
<1> DEFINE h == [s \in SUBSET T |-> g[s]]
<1>1. ASSUME NEW s \in SUBSET T PROVE h[s] = Round(f, h, s)
  <2>1. h[s] = g[s] /\ g[s] = Round(f, g, s)
    BY DEF IsFold
  <2>2. CASE s = {}
    BY <2>1, <2>2 DEF Round
  <2>3. CASE s # {}
    <3> DEFINE x == CHOOSE y \in s : TRUE
    <3>1. s \ {x} \in SUBSET T
      OBVIOUS
    <3>2. h[s \ {x}] = g[s \ {x}]
      BY <3>1
    <3> QED
      BY <2>1, <2>3, <3>2 DEF Round
  <2> QED
    BY <2>2, <2>3
<1>2. h = [s \in SUBSET T |-> h[s]]
  OBVIOUS
<1>3. h = [s \in SUBSET T |-> Round(f, h, s)]
  BY <1>1, <1>2
<1> QED
  BY <1>3 DEF IsFold

\* A fold of S gives the totals of all subsets.
LEMMA FoldTotals ==
  ASSUME NEW f, NEW S, IsFiniteSet(S), NEW g, IsFold(f, S, g), NEW T \in SUBSET S
  PROVE  Total(f, T) = g[T]
<1>1. \E h : IsFold(f, T, h)
  BY FoldOfSubset
<1>2. PICK h : IsFold(f, T, h) /\ Total(f, T) = h[T]
  BY <1>1, TotalOfFold
<1> QED
  BY <1>2, FoldsAgree

\* The fold of a finite set exists.
LEMMA FoldExists ==
  ASSUME NEW f, NEW S, IsFiniteSet(S)
  PROVE  \E g : IsFold(f, S, g)
<1> DEFINE B == {T \in SUBSET S : ~ \E g : IsFold(f, T, g)}
<1> SUFFICES ASSUME B # {} PROVE FALSE
  OBVIOUS
<1>0. B \in SUBSET (SUBSET S)
  OBVIOUS
<1>1. PICK T \in B : \A U \in B : U \subseteq T => U = T
  <2> HIDE DEF B
  <2> QED
    BY <1>0, LeastSubset
<1>2. \A U \in SUBSET T : U # T => \E g : IsFold(f, U, g)
  BY <1>1
<1> DEFINE h == [s \in SUBSET T |-> Total(f, s)]
           k == [s \in SUBSET T |-> IF s = T THEN Round(f, h, T) ELSE h[s]]
<1>3. ASSUME NEW s \in SUBSET T PROVE k[s] = Round(f, k, s)
  <2>1. ASSUME s # {} PROVE k[s \ {CHOOSE x \in s : TRUE}] = Total(f, s \ {CHOOSE x \in s : TRUE})
    <3> DEFINE u == s \ {CHOOSE x \in s : TRUE}
    <3>1. u \in SUBSET T /\ u # T
      BY <2>1, Chosen
    <3> QED
      BY <3>1
  <2>2. CASE s = T
    <3>1. k[s] = Round(f, h, s)
      BY <2>2
    <3>2. CASE s = {}
      BY <3>1, <3>2 DEF Round
    <3>3. CASE s # {}
      <4>1. s \ {CHOOSE x \in s : TRUE} \in SUBSET T
        OBVIOUS
      <4>2. h[s \ {CHOOSE x \in s : TRUE}] = k[s \ {CHOOSE x \in s : TRUE}]
        BY <2>1, <3>3, <4>1
      <4> QED
        BY <3>1, <3>3, <4>2 DEF Round
    <3> QED
      BY <3>2, <3>3
  <2>3. CASE s # T
    <3>1. IsFiniteSet(s)
      BY FS_Subset
    <3>2. PICK g : IsFold(f, s, g) /\ Total(f, s) = g[s]
      BY <1>2, <2>3, TotalOfFold
    <3>3. k[s] = g[s] /\ g[s] = Round(f, g, s)
      BY <2>3, <3>2 DEF IsFold
    <3>4. CASE s = {}
      BY <3>3, <3>4 DEF Round
    <3>5. CASE s # {}
      <4>1. g[s \ {CHOOSE x \in s : TRUE}] = Total(f, s \ {CHOOSE x \in s : TRUE})
        BY <3>1, <3>2, FoldTotals
      <4> QED
        BY <2>1, <3>3, <3>5, <4>1 DEF Round
    <3> QED
      BY <3>4, <3>5
  <2> QED
    BY <2>2, <2>3
<1>4. k = [s \in SUBSET T |-> k[s]]
  OBVIOUS
<1>5. k = [s \in SUBSET T |-> Round(f, k, s)]
  BY <1>3, <1>4
<1>6. IsFold(f, T, k)
  BY <1>5 DEF IsFold
<1> QED
  BY <1>1, <1>6

LEMMA TotalEmpty == ASSUME NEW f PROVE Total(f, {}) = 0
<1>1. IsFiniteSet({})
  BY FS_EmptySet
<1>2. PICK g : IsFold(f, {}, g) /\ Total(f, {}) = g[{}]
  BY <1>1, FoldExists, TotalOfFold
<1>3. g[{}] = Round(f, g, {})
  BY <1>2 DEF IsFold
<1> QED
  BY <1>2, <1>3 DEF Round

LEMMA TotalChosen ==
  ASSUME NEW f, NEW S, IsFiniteSet(S), S # {}
  PROVE  \E x \in S : Total(f, S) = f[x] + Total(f, S \ {x})
<1> DEFINE x == CHOOSE y \in S : TRUE
<1>1. x \in S
  BY Chosen
<1>2. PICK g : IsFold(f, S, g) /\ Total(f, S) = g[S]
  BY FoldExists, TotalOfFold
<1>3. g[S] = Round(f, g, S)
  BY <1>2 DEF IsFold
<1>4. S \ {x} \in SUBSET S
  OBVIOUS
<1>5. Total(f, S \ {x}) = g[S \ {x}]
  BY <1>2, <1>4, FoldTotals
<1>6. Total(f, S) = f[x] + Total(f, S \ {x})
  BY <1>2, <1>3, <1>5 DEF Round
<1> QED
  BY <1>1, <1>6

\* A total of amounts is an amount.
LEMMA TotalNat ==
  ASSUME NEW f, NEW S, IsFiniteSet(S), \A x \in S : f[x] \in Nat
  PROVE  Total(f, S) \in Nat
<1> DEFINE B == {T \in SUBSET S : Total(f, T) \notin Nat}
<1> SUFFICES ASSUME B # {} PROVE FALSE
  OBVIOUS
<1>1. B \in SUBSET (SUBSET S)
  OBVIOUS
<1>2. PICK T \in B : \A U \in B : U \subseteq T => U = T
  <2> HIDE DEF B
  <2> QED
    BY <1>1, LeastSubset
<1>3. IsFiniteSet(T) /\ T # {}
  <2>1. Total(f, {}) \in Nat
    BY TotalEmpty
  <2> QED
    BY <2>1, FS_Subset
<1>4. PICK x \in T : Total(f, T) = f[x] + Total(f, T \ {x})
  BY <1>3, TotalChosen
<1>5. T \ {x} \in SUBSET S /\ T \ {x} \subseteq T /\ T \ {x} # T
  OBVIOUS
<1>6. Total(f, T \ {x}) \in Nat
  BY <1>2, <1>5
<1> QED
  BY <1>4, <1>6

\* In whatever order the elements are taken.
LEMMA TotalTake ==
  ASSUME NEW f, NEW S, IsFiniteSet(S), \A x \in S : f[x] \in Nat, NEW x \in S
  PROVE  Total(f, S) = f[x] + Total(f, S \ {x})
<1> DEFINE B == {T \in SUBSET S : \E y \in T : Total(f, T) # f[y] + Total(f, T \ {y})}
<1> SUFFICES ASSUME B # {} PROVE FALSE
  OBVIOUS
<1>1. B \in SUBSET (SUBSET S)
  OBVIOUS
<1>2. PICK T \in B : \A U \in B : U \subseteq T => U = T
  <2> HIDE DEF B
  <2> QED
    BY <1>1, LeastSubset
<1>3. PICK y \in T : Total(f, T) # f[y] + Total(f, T \ {y})
  BY <1>2
<1>4. \A U \in SUBSET T : IsFiniteSet(U) /\ Total(f, U) \in Nat
  <2> TAKE U \in SUBSET T
  <2>1. U \in SUBSET S
    OBVIOUS
  <2>2. IsFiniteSet(U)
    BY <2>1, FS_Subset
  <2> QED
    BY <2>1, <2>2, TotalNat
<1>5. PICK c \in T : Total(f, T) = f[c] + Total(f, T \ {c})
  BY <1>4, TotalChosen
<1>6. c # y
  BY <1>3, <1>5
<1>7. ASSUME NEW a \in T, NEW b \in T, a # b
      PROVE  Total(f, T \ {a}) = f[b] + Total(f, T \ {a, b})
  <2>1. T \ {a} \in SUBSET S /\ T \ {a} \subseteq T /\ T \ {a} # T /\ b \in T \ {a}
    BY <1>7
  <2>2. T \ {a} \notin B
    BY <1>2, <2>1
  <2>3. (T \ {a}) \ {b} = T \ {a, b}
    OBVIOUS
  <2> QED
    BY <2>1, <2>2, <2>3
<1>8. Total(f, T \ {c}) = f[y] + Total(f, T \ {c, y})
  BY <1>6, <1>7
<1>9. Total(f, T \ {y}) = f[c] + Total(f, T \ {c, y})
  <2>1. T \ {y, c} = T \ {c, y}
    OBVIOUS
  <2> QED
    BY <1>6, <1>7, <2>1
<1>10. /\ f[c] \in Nat /\ f[y] \in Nat
       /\ Total(f, T \ {c}) \in Nat /\ Total(f, T \ {y}) \in Nat
       /\ Total(f, T \ {c, y}) \in Nat
  BY <1>4
<1> HIDE DEF B
<1> QED
  BY <1>3, <1>5, <1>8, <1>9, <1>10

\* A set can be totalled in two parts.
LEMMA TotalSplit ==
  ASSUME NEW f, NEW S, IsFiniteSet(S), \A x \in S : f[x] \in Nat, NEW P \in SUBSET S
  PROVE  Total(f, S) = Total(f, P) + Total(f, S \ P)
<1> DEFINE B == {T \in SUBSET S : Total(f, S) # Total(f, T) + Total(f, S \ T)}
<1> SUFFICES ASSUME B # {} PROVE FALSE
  OBVIOUS
<1>1. B \in SUBSET (SUBSET S)
  OBVIOUS
<1>2. PICK T \in B : \A U \in B : U \subseteq T => U = T
  <2> HIDE DEF B
  <2> QED
    BY <1>1, LeastSubset
<1>3. \A U \in SUBSET S : IsFiniteSet(U) /\ Total(f, U) \in Nat
  <2> TAKE U \in SUBSET S
  <2>1. IsFiniteSet(U)
    BY FS_Subset
  <2> QED
    BY <2>1, TotalNat
<1>4. CASE T = {}
  <2>1. S \ T = S
    BY <1>4
  <2>2. Total(f, T) = 0 /\ Total(f, S) \in Nat
    BY <1>3, <1>4, TotalEmpty
  <2>3. Total(f, S) # Total(f, T) + Total(f, S \ T)
    BY <1>2
  <2> HIDE DEF B
  <2> QED
    BY <2>1, <2>2, <2>3
<1>5. ASSUME NEW x \in T PROVE FALSE
  <2> DEFINE U == T \ {x}
  <2>1. U \in SUBSET S /\ U \subseteq T /\ U # T
    OBVIOUS
  <2>2. Total(f, S) = Total(f, U) + Total(f, S \ U)
    BY <1>2, <2>1
  <2>3. x \in S \ U /\ (S \ U) \ {x} = S \ T
    OBVIOUS
  <2>4. Total(f, S \ U) = f[x] + Total(f, S \ T)
    BY <1>3, <2>3, TotalTake
  <2>5. Total(f, T) = f[x] + Total(f, U)
    BY <1>3, TotalTake
  <2>6. /\ f[x] \in Nat /\ Total(f, U) \in Nat /\ Total(f, S \ T) \in Nat
        /\ Total(f, T) \in Nat /\ Total(f, S \ U) \in Nat
    BY <1>3, <2>1
  <2>7. Total(f, S) # Total(f, T) + Total(f, S \ T)
    BY <1>2
  <2> HIDE DEF B, U
  <2> QED
    BY <2>2, <2>4, <2>5, <2>6, <2>7
<1> QED
  BY <1>4, <1>5

\* Disjoint parts R[w] of a set S are together worth no more than S.
LEMMA PartsFit ==
  ASSUME NEW f, NEW S, IsFiniteSet(S), \A x \in S : f[x] \in Nat,
         NEW W, IsFiniteSet(W), NEW R, \A w \in W : R[w] \in SUBSET S,
         \A v, w \in W : v # w => R[v] \cap R[w] = {},
         NEW g, \A w \in W : g[w] = Total(f, R[w])
  PROVE  Total(g, W) <= Total(f, S)
<1> DEFINE Fits(V) == \A P \in SUBSET S :
                        (\A w \in V : R[w] \in SUBSET P) => Total(g, V) <= Total(f, P)
           B == {V \in SUBSET W : ~ Fits(V)}
<1>1. ASSUME B # {} PROVE FALSE
  <2>1. B \in SUBSET (SUBSET W)
    OBVIOUS
  <2>2. PICK V \in B : \A U \in B : U \subseteq V => U = V
    <3> HIDE DEF B
    <3> QED
      BY <1>1, <2>1, LeastSubset
  <2>3. PICK P \in SUBSET S : /\ \A w \in V : R[w] \in SUBSET P
                              /\ ~ (Total(g, V) <= Total(f, P))
    BY <2>2
  <2>4. \A T \in SUBSET S : IsFiniteSet(T) /\ Total(f, T) \in Nat
    <3> TAKE T \in SUBSET S
    <3>1. IsFiniteSet(T)
      BY FS_Subset
    <3> QED
      BY <3>1, TotalNat
  <2>5. \A w \in W : g[w] \in Nat
    BY <2>4
  <2>6. \A U \in SUBSET W : IsFiniteSet(U) /\ Total(g, U) \in Nat
    <3> TAKE U \in SUBSET W
    <3>1. IsFiniteSet(U)
      BY FS_Subset
    <3> QED
      BY <2>5, <3>1, TotalNat
  <2>7. CASE V = {}
    <3>1. Total(g, V) = 0
      BY <2>7, TotalEmpty
    <3> QED
      BY <2>3, <2>4, <3>1
  <2>8. ASSUME NEW w \in V PROVE FALSE
    <3> DEFINE U == V \ {w}  Q == P \ R[w]
    <3>1. U \in SUBSET W /\ U \subseteq V /\ U # V /\ Q \in SUBSET S
      OBVIOUS
    <3>2. Fits(U)
      BY <2>2, <3>1
    <3>3. \A v \in U : R[v] \in SUBSET Q
      BY <2>3
    <3>4. Total(g, U) <= Total(f, Q)
      BY <3>1, <3>2, <3>3
    <3>5. Total(g, V) = g[w] + Total(g, U)
      BY <2>5, <2>6, TotalTake
    <3>6. Total(f, P) = Total(f, R[w]) + Total(f, Q)
      <4>1. IsFiniteSet(P) /\ (\A x \in P : f[x] \in Nat) /\ R[w] \in SUBSET P
        BY <2>3, <2>4
      <4> HIDE DEF B
      <4> QED
        BY <4>1, TotalSplit
    <3>7. /\ g[w] = Total(f, R[w]) /\ g[w] \in Nat
          /\ Total(g, U) \in Nat /\ Total(g, V) \in Nat
          /\ Total(f, P) \in Nat /\ Total(f, Q) \in Nat
      BY <2>4, <2>5, <2>6, <3>1
    <3> HIDE DEF B, U, Q
    <3> QED
      BY <2>3, <3>4, <3>5, <3>6, <3>7
  <2> QED
    BY <2>7, <2>8
<1>2. Fits(W)
  BY <1>1
<1> QED
  BY <1>2

----------------------------------------------------------------------------
(* What an agent can claim *)

\* Commissions and withdrawals are entered one at a time, so there are finitely
\* many, whatever the identifiers they may take.
FiniteBooks ==
  /\ IsFiniteSet({p \in Purchases : commission[p].agent # None})
  /\ IsFiniteSet({w \in Withdrawals : withdrawal[w].agent # None})

\* A set that takes one element more, at most, stays finite.
LEMMA FiniteGrows ==
  ASSUME NEW S, NEW x, NEW T, IsFiniteSet(S), T \subseteq S \cup {x}
  PROVE  IsFiniteSet(T)
<1>1. IsFiniteSet(S \cup {x})
  BY FS_AddElement
<1> QED
  BY <1>1, FS_Subset

LEMMA InitFinite == Init => FiniteBooks
<1> SUFFICES ASSUME Init PROVE FiniteBooks
  OBVIOUS
<1>1. {p \in Purchases : commission[p].agent # None} = {}
  BY DEF Init, NoCommission
<1>2. {w \in Withdrawals : withdrawal[w].agent # None} = {}
  BY DEF Init, NoWithdrawal
<1> QED
  BY <1>1, <1>2, FS_EmptySet DEF FiniteBooks

\* A step enters one commission or one withdrawal, if any.
LEMMA StepEntersOne ==
  ASSUME TypeOK, [Next]_vars
  PROVE  /\ \E x : \A p \in Purchases \ {x} : commission'[p].agent = commission[p].agent
         /\ \E x : \A w \in Withdrawals \ {x} : withdrawal'[w].agent = withdrawal[w].agent
<1> DEFINE One == /\ \E x : \A p \in Purchases \ {x} : commission'[p].agent = commission[p].agent
                  /\ \E x : \A w \in Withdrawals \ {x} : withdrawal'[w].agent = withdrawal[w].agent
<1>1. ASSUME NEW p \in Purchases, NEW a \in Agents, Accrue(p, a)
      PROVE  One
  BY <1>1 DEF Accrue, TypeOK
<1>2. ASSUME NEW s \in Sessions, NEW w \in Withdrawals, Reserve(s, w)
      PROVE  One
  <2>1. \A p \in Purchases : commission'[p].agent = commission[p].agent
    BY <1>2 DEF Reserve, TypeOK, Commission
  <2>2. \A v \in Withdrawals \ {w} : withdrawal'[v].agent = withdrawal[v].agent
    BY <1>2 DEF Reserve, TypeOK
  <2> QED
    BY <2>1, <2>2
<1>3. ASSUME NEW d \in Admins, NEW status \in {"APPROVED", "PAID", "REJECTED"},
             SetStatus(d, status)
      PROVE  One
  <2>1. \A p \in Purchases : commission'[p].agent = commission[p].agent
    BY <1>3 DEF SetStatus, SettleRows, TypeOK, Commission
  <2>2. \A v \in Withdrawals : withdrawal'[v].agent = withdrawal[v].agent
    BY <1>3 DEF SetStatus, TypeOK, Withdrawal
  <2> QED
    BY <2>1, <2>2
<1>4. CASE UNCHANGED <<commission, withdrawal>>
  BY <1>4
<1> QED
  BY <1>1, <1>2, <1>3, <1>4 DEF Next, RequestStep, Request, GetLock, GetLockError,
     LockTimeout, SumBalance, RowLockTimeout, ReleaseLock, Rollback, Fail, Disconnect,
     LockWithdrawal,
     AbandonStatus, vars

LEMMA StepFinite ==
  ASSUME TypeOK, FiniteBooks, [Next]_vars
  PROVE  FiniteBooks'
<1> DEFINE C == {p \in Purchases : commission[p].agent # None}
           D == {w \in Withdrawals : withdrawal[w].agent # None}
<1>1. PICK x : \A p \in Purchases \ {x} : commission'[p].agent = commission[p].agent
  BY StepEntersOne
<1>2. PICK y : \A w \in Withdrawals \ {y} : withdrawal'[w].agent = withdrawal[w].agent
  BY StepEntersOne
<1>3. C' \subseteq C \cup {x} /\ D' \subseteq D \cup {y}
  BY <1>1, <1>2
<1>4. IsFiniteSet(C) /\ IsFiniteSet(D)
  BY DEF FiniteBooks
<1>5. IsFiniteSet(C') /\ IsFiniteSet(D')
  <2> HIDE DEF C, D
  <2> QED
    BY <1>3, <1>4, FiniteGrows
<1> QED
  BY <1>5 DEF FiniteBooks

\* The live withdrawals of an agent stand for disjoint sets of commissions
\* accrued to the agent.
LEMMA ClaimsFit == IInv /\ FiniteBooks => NeverOverpaid
<1> SUFFICES ASSUME IInv, FiniteBooks, NEW a \in Agents
             PROVE  Total([w \in Withdrawals |-> Amount(withdrawal[w].rows)],
                          {w \in Withdrawals : /\ withdrawal[w].agent = a
                                               /\ withdrawal[w].status \in Live})
                      <= Amount({p \in Purchases : commission[p].agent = a})
  BY DEF NeverOverpaid
<1> DEFINE S == {p \in Purchases : commission[p].agent = a}
           W == {w \in Withdrawals : withdrawal[w].agent = a /\ withdrawal[w].status \in Live}
           R == [w \in Withdrawals |-> withdrawal[w].rows]
           g == [w \in Withdrawals |-> Amount(withdrawal[w].rows)]
<1>1. IsFiniteSet(S) /\ IsFiniteSet(W)
  <2>1. S \subseteq {p \in Purchases : commission[p].agent # None}
    BY NoneAssumption
  <2>2. W \subseteq {w \in Withdrawals : withdrawal[w].agent # None}
    BY NoneAssumption
  <2> QED
    BY <2>1, <2>2, FS_Subset DEF FiniteBooks
<1>2. \A x \in S : AmountOf[x] \in Nat
  BY AmountAssumption
<1>3. \A w \in W : R[w] = ReservedBy(w)
  BY DEF IInv, AmountIsReserved
<1>4. \A w \in W : R[w] \in SUBSET S
  <2> SUFFICES ASSUME NEW w \in W, NEW p \in ReservedBy(w) PROVE p \in S
    BY <1>3
  <2>1. p \in Purchases /\ commission[p].withdrawal = w /\ w # None
    BY NoneAssumption DEF ReservedBy
  <2>2. withdrawal[w].agent = commission[p].agent
    BY <2>1 DEF IInv, RowsFollowWithdrawal
  <2> QED
    BY <2>1, <2>2
<1>5. \A v, w \in W : v # w => R[v] \cap R[w] = {}
  BY <1>3 DEF ReservedBy
<1>6. \A w \in W : g[w] = Total(AmountOf, R[w])
  BY DEF Amount
<1>7. Total(g, W) <= Total(AmountOf, S)
  <2> HIDE DEF S, W, R, g
  <2> QED
    BY <1>1, <1>2, <1>4, <1>5, <1>6, PartsFit
<1> QED
  BY <1>7 DEF Amount

\* No agent can claim, and none is paid, more than was accrued: the amounts of
\* the live withdrawals add up to no more than the commissions, whatever the
\* order of requests, refusals, failures and decisions.
THEOREM NoOverpayment == Spec => []NeverOverpaid
<1>1. Init => FiniteBooks
  BY InitFinite
<1>2. IInv /\ FiniteBooks /\ [Next]_vars => FiniteBooks'
  BY StepFinite DEF IInv
<1>3. IInv /\ FiniteBooks => NeverOverpaid
  BY ClaimsFit
<1> QED
  BY <1>1, <1>2, <1>3, Invariance, PTL DEF Spec

----------------------------------------------------------------------------
(* The tables implement Payouts *)

\* What a session is about to reserve is worth a withdrawal.
SeenIsClaimable ==
  \A s \in Sessions : session[s].pc = "summed" => session[s].seen \in Claimable

LEMMA StepClaimable ==
  ASSUME TypeOK, RequestsHaveAgents, SeenIsClaimable, [Next]_vars
  PROVE  SeenIsClaimable'
<1> SUFFICES ASSUME NEW r \in Sessions, session'[r].pc = "summed"
             PROVE  session'[r].seen \in Claimable
  BY DEF SeenIsClaimable, Claimable
<1>1. ASSUME NEW s \in Sessions, SumBalance(s)
      PROVE  session'[r].seen \in Claimable
  <2>1. CASE r = s
    <3>1. session'[s].seen = Available(session[s].agent)
            /\ Available(session[s].agent) # {}
            /\ Amount(Available(session[s].agent)) > 0
            /\ Amount(Available(session[s].agent)) >= MinWithdrawal
      BY <1>1, <2>1 DEF SumBalance, TypeOK, Session
    <3> QED
      BY <2>1, <3>1 DEF Claimable, Available
  <2>2. CASE r # s
    BY <1>1, <2>2 DEF SumBalance, TypeOK, SeenIsClaimable
  <2> QED
    BY <2>1, <2>2
<1>2. ASSUME NEW s \in Sessions,
             \/ \E a \in Agents : Request(s, a)
             \/ GetLock(s) \/ GetLockError(s) \/ LockTimeout(s) \/ ReleaseLock(s) \/ Rollback(s)
             \/ (\E w \in Withdrawals : Reserve(s, w)) \/ Fail(s) \/ Disconnect(s)
      PROVE  session'[r] = session[r]
  <2>1. session'[s].pc # "summed"
    <3>0. CASE \E a \in Agents : Request(s, a)
      BY <3>0 DEF Request, TypeOK
    <3>1. CASE LockTimeout(s) \/ ReleaseLock(s) \/ Rollback(s) \/ Disconnect(s)
      BY <3>1 DEF LockTimeout, ReleaseLock, Rollback, Disconnect, Idle, TypeOK
    <3>2. CASE GetLock(s) \/ GetLockError(s)
      BY <3>2 DEF GetLock, GetLockError, TypeOK, Session
    <3>3. CASE Fail(s)
      BY <3>3 DEF Fail, TypeOK, Session
    <3>4. CASE \E w \in Withdrawals : Reserve(s, w)
      BY <3>4 DEF Reserve, TypeOK, Session
    <3> QED
      BY <1>2, <3>0, <3>1, <3>2, <3>3, <3>4
  <2>2. \A q \in Sessions : q # s => session'[q] = session[q]
    BY <1>2 DEF Request, GetLock, GetLockError, LockTimeout, ReleaseLock,
       Rollback, Reserve, Fail, Disconnect, TypeOK
  <2> QED
    BY <2>1, <2>2
<1>3. CASE UNCHANGED session
  BY <1>3 DEF SeenIsClaimable
<1>4. \A s \in Sessions : RowLockTimeout(s) => Fail(s)
  BY DEF RowLockTimeout
<1> QED
  BY <1>1, <1>2, <1>3, <1>4 DEF Next, RequestStep, Accrue, LockWithdrawal, SetStatus,
     AbandonStatus, SeenIsClaimable, vars

\* The initial states map to initial states.
LEMMA InitMaps == Init => SeenIsClaimable /\ Payout!Init
<1> SUFFICES ASSUME Init PROVE SeenIsClaimable /\ Payout!Init
  OBVIOUS
<1>1. SeenIsClaimable
  BY DEF Init, SeenIsClaimable, Idle
<1>2. \A a \in Agents : Available(a) = {}
  BY NoneAssumption DEF Init, Available, NoCommission
<1>3. ASSUME NEW w \in Withdrawals PROVE ClaimOf(w) = Payout!NoClaim
  <2>1. withdrawal[w] = NoWithdrawal
    BY DEF Init
  <2>2. ClaimOf(w) = [agent |-> None, rows |-> {}, state |-> "none"]
    BY <2>1 DEF NoWithdrawal, ClaimOf
  <2> QED
    BY <2>2 DEF Payout!NoClaim
<1> QED
  BY <1>1, <1>2, <1>3 DEF Payout!Init

\* A commission is earned: nobody could claim it, nobody had.
LEMMA AccrueMaps ==
  ASSUME IInv, NEW p \in Purchases, NEW a \in Agents, Accrue(p, a)
  PROVE  Payout!Earn(p, a)
<1> DEFINE free == [b \in Agents |-> Available(b)]
           claims == [w \in Withdrawals |-> ClaimOf(w)]
<1>1. commission[p] = NoCommission
  BY DEF Accrue
<1>2. /\ commission'[p] = [agent |-> a, status |-> "ACCRUED", withdrawal |-> None]
      /\ \A q \in Purchases : q # p => commission'[q] = commission[q]
  BY DEF Accrue, NoCommission, IInv, TypeOK
<1>3. \A b \in Agents : p \notin free[b]
  BY <1>1, NoneAssumption DEF Available, NoCommission
<1>4. ASSUME NEW w \in Withdrawals, claims[w].state \in {"open", "paid"}
      PROVE  p \notin claims[w].rows
  <2>1. withdrawal[w].status \in Live
    BY <1>4 DEF ClaimOf, Live, IInv, TypeOK, Withdrawal
  <2>2. claims[w].rows = ReservedBy(w)
    BY <2>1 DEF ClaimOf, IInv, AmountIsReserved
  <2> QED
    BY <1>1, <2>2, NoneAssumption DEF ReservedBy, NoCommission
<1>5. free' = [free EXCEPT ![a] = @ \cup {p}]
  <2>1. ASSUME NEW b \in Agents
        PROVE  Available(b)' = IF b = a THEN Available(b) \cup {p} ELSE Available(b)
    BY <1>1, <1>2, NoneAssumption DEF IInv, TypeOK, Available, NoCommission
  <2> QED
    BY <2>1
<1>6. UNCHANGED claims
  BY DEF Accrue, ClaimOf
<1> QED
  BY <1>3, <1>4, <1>5, <1>6 DEF Payout!Earn

\* A reservation claims all the agent has, because what was added up is still
\* what is available.
LEMMA ReserveMaps ==
  ASSUME IInv, SeenIsClaimable, NEW s \in Sessions, NEW w \in Withdrawals, Reserve(s, w)
  PROVE  \E a \in Agents : Payout!Claim(w, a)
<1> DEFINE free == [b \in Agents |-> Available(b)]
           claims == [v \in Withdrawals |-> ClaimOf(v)]
<1>1. PICK a \in Agents : session[s].agent = a
  BY DEF Reserve, IInv, RequestsHaveAgents
<1>2. session[s].seen = Available(a) /\ free[a] \in Claimable
  BY <1>1 DEF Reserve, IInv, SeenIsAvailable, SeenIsClaimable
<1>3. claims[w] = Payout!NoClaim
  <2>1. withdrawal[w] = NoWithdrawal
    BY DEF Reserve
  <2>2. ClaimOf(w) = [agent |-> None, rows |-> {}, state |-> "none"]
    BY <2>1 DEF NoWithdrawal, ClaimOf
  <2> QED
    BY <2>2 DEF Payout!NoClaim
<1>4. claims' = [claims EXCEPT ![w] = [agent |-> a, rows |-> free[a], state |-> "open"]]
  <2>1. ClaimOf(w)' = [agent |-> a, rows |-> free[a], state |-> "open"]
    BY <1>1, <1>2 DEF Reserve, ClaimOf, IInv, TypeOK
  <2>2. \A v \in Withdrawals : v # w => ClaimOf(v)' = ClaimOf(v)
    BY DEF Reserve, ClaimOf, IInv, TypeOK
  <2> QED
    BY <2>1, <2>2
<1>5. free' = [free EXCEPT ![a] = {}]
  <2>1. ASSUME NEW b \in Agents
        PROVE  Available(b)' = IF b = a THEN {} ELSE Available(b)
    BY <1>1, NoneAssumption DEF Reserve, IInv, TypeOK, Commission, Available
  <2> QED
    BY <2>1
<1> QED
  BY <1>2, <1>3, <1>4, <1>5 DEF Payout!Claim

\* A decision pays, refuses or, with an approval, changes nothing that the
\* accounts show.
LEMMA SetStatusMaps ==
  ASSUME IInv, NEW d \in Admins, NEW status \in {"APPROVED", "PAID", "REJECTED"},
         SetStatus(d, status)
  PROVE  Payout!Next \/ UNCHANGED <<[a \in Agents |-> Available(a)],
                                    [w \in Withdrawals |-> ClaimOf(w)]>>
<1> DEFINE free == [b \in Agents |-> Available(b)]
           claims == [v \in Withdrawals |-> ClaimOf(v)]
<1>1. PICK w \in Withdrawals : /\ admin[d].withdrawal = w
                               /\ withdrawal[w].status \in {"REQUESTED", "APPROVED"}
  BY DEF SetStatus, IInv, OneDecision
<1>2. withdrawal' = [withdrawal EXCEPT ![w].status = status] /\ SettleRows(w, status)
  BY <1>1 DEF SetStatus
<1>t. /\ commission \in [Purchases -> Commission]
      /\ withdrawal \in [Withdrawals -> Withdrawal]
      /\ w # None
  BY NoneAssumption DEF IInv, TypeOK
<1>3. claims[w].state = "open"
  BY <1>1 DEF ClaimOf
<1>4. \A v \in Withdrawals : v # w => ClaimOf(v)' = ClaimOf(v)
  BY <1>2, <1>t DEF ClaimOf
<1>5. withdrawal'[w] = [withdrawal[w] EXCEPT !.status = status]
  BY <1>2, <1>t
<1>6. \A p \in Purchases : commission[p].withdrawal = w =>
        commission[p].agent = withdrawal[w].agent /\ commission[p].status = "ACCRUED"
  BY <1>1, <1>t DEF IInv, RowsFollowWithdrawal, Commission
<1>7. CASE status = "APPROVED"
  <2>1. \A p \in Purchases : commission'[p] = commission[p]
    BY <1>2, <1>7 DEF SettleRows
  <2>2. UNCHANGED free
    BY <2>1 DEF Available
  <2>3. ClaimOf(w)' = ClaimOf(w)
    BY <1>1, <1>5, <1>7, <1>t DEF ClaimOf, Withdrawal
  <2> QED
    BY <1>4, <2>2, <2>3
<1>8. CASE status = "PAID"
  <2>1. ASSUME NEW a \in Agents PROVE Available(a)' = Available(a)
    BY <1>2, <1>8, <1>t DEF SettleRows, Available, Commission
  <2>2. ClaimOf(w)' = [ClaimOf(w) EXCEPT !.state = "paid"]
    BY <1>5, <1>8, <1>t DEF ClaimOf, Withdrawal
  <2>3. claims' = [claims EXCEPT ![w].state = "paid"]
    BY <1>4, <2>2
  <2> QED
    BY <1>3, <2>1, <2>3 DEF Payout!Pay, Payout!Next
<1>9. CASE status = "REJECTED"
  <2>1. claims[w].rows = ReservedBy(w) /\ claims[w].agent = withdrawal[w].agent
    BY <1>1 DEF ClaimOf, IInv, AmountIsReserved, Live
  <2>2. ASSUME NEW a \in Agents
        PROVE  Available(a)' = IF a = withdrawal[w].agent
                               THEN Available(a) \cup ReservedBy(w) ELSE Available(a)
    BY <1>2, <1>6, <1>9, <1>t DEF SettleRows, Available, ReservedBy, Commission
  <2>3. free' = [free EXCEPT ![claims[w].agent] = @ \cup claims[w].rows]
    BY <2>1, <2>2
  <2>4. ClaimOf(w)' = [ClaimOf(w) EXCEPT !.state = "refused"]
    BY <1>5, <1>9, <1>t DEF ClaimOf, Withdrawal
  <2>5. claims' = [claims EXCEPT ![w].state = "refused"]
    BY <1>4, <2>4
  <2> QED
    BY <1>3, <2>3, <2>5 DEF Payout!Refuse, Payout!Next
<1> QED
  BY <1>7, <1>8, <1>9

\* Every step maps to a step of Payouts or to a stutter.
LEMMA StepMaps ==
  ASSUME IInv, SeenIsClaimable, [Next]_vars
  PROVE  Payout!Next \/ UNCHANGED <<[a \in Agents |-> Available(a)],
                                    [w \in Withdrawals |-> ClaimOf(w)]>>
<1>1. CASE UNCHANGED <<commission, withdrawal>>
  BY <1>1 DEF Available, ClaimOf
<1> QED
  BY <1>1, AccrueMaps, ReserveMaps, SetStatusMaps DEF Next, RequestStep, Request,
     GetLock, GetLockError, LockTimeout, SumBalance, RowLockTimeout, ReleaseLock,
     Rollback, Fail, Disconnect, LockWithdrawal, AbandonStatus, vars, Payout!Next

\* Summing up, reserving and deciding are as good as one step each: whatever is
\* claimed was free and worth the floor, and is free again, or paid, only by a
\* decision on the claim.
THEOREM PayoutsRefinement == Spec => ImplementsPayouts
<1>1. Init => SeenIsClaimable /\ Payout!Init
  BY InitMaps
<1>2. IInv /\ SeenIsClaimable /\ [Next]_vars => SeenIsClaimable'
  BY StepClaimable DEF IInv
<1>3. IInv /\ SeenIsClaimable /\ [Next]_vars =>
        [Payout!Next]_<<[a \in Agents |-> Available(a)], [w \in Withdrawals |-> ClaimOf(w)]>>
  BY StepMaps
<1> QED
  BY <1>1, <1>2, <1>3, Invariance, PTL DEF Spec, ImplementsPayouts, Payout!Spec,
     Payout!vars
=============================================================================
