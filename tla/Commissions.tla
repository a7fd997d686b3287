---------------------------- MODULE Commissions ----------------------------
(***************************************************************************)
(* Agent commissions and their payout: the AgentCommissions and            *)
(* CommissionWithdrawals tables, the sessions that run                     *)
(* usp_CommissionWithdrawal_Request, and the administrators that run       *)
(* usp_CommissionWithdrawal_UpdateStatus.                                  *)
(*                                                                         *)
(* A commission is identified by its purchase (UNIQUE (purchase_id)).      *)
(* InnoDB row locks are state: rowLock[a] is held by the session whose     *)
(* SELECT ... FOR UPDATE scanned the rows of agent a, which also keeps new *)
(* rows of a from being inserted; an administrator's FOR UPDATE keeps the  *)
(* withdrawal it reads.  lock[a] is the named lock 'cw_agent_<a>'.         *)
(***************************************************************************)
EXTENDS Integers, FiniteSets, FiniteSetsExt

CONSTANTS
  Agents,       \* Users that earn commission
  Purchases,    \* Purchases an agent executed
  Withdrawals,  \* values of CommissionWithdrawals.withdrawal_id
  Sessions,     \* concurrent withdrawal requests
  Admins,       \* concurrent status updates
  None,         \* SQL NULL, a free lock
  AmountOf,     \* commission_amount of a purchase
  MinWithdrawal \* v_min_withdrawal

ASSUME NoneAssumption == None \notin Agents \cup Purchases \cup Withdrawals \cup Sessions
ASSUME AmountAssumption == AmountOf \in [Purchases -> Nat] /\ MinWithdrawal \in Nat

VARIABLES
  commission,   \* AgentCommissions
  withdrawal,   \* CommissionWithdrawals
  lock,         \* the named locks
  rowLock,      \* the row locks on the commissions of an agent
  session,      \* usp_CommissionWithdrawal_Request in progress
  admin         \* usp_CommissionWithdrawal_UpdateStatus in progress

vars == <<commission, withdrawal, lock, rowLock, session, admin>>

Live == {"REQUESTED", "APPROVED", "PAID"}
Final == {"PAID", "REJECTED"}

Commission == [agent : Agents \cup {None}, status : {"ACCRUED", "WITHDRAWN"},
               withdrawal : Withdrawals \cup {None}]

\* rows is the set of commissions SUM(commission_amount) was taken over, so
\* amount is their total.
Withdrawal == [agent : Agents \cup {None}, rows : SUBSET Purchases,
               status : {"none", "REQUESTED", "APPROVED", "PAID", "REJECTED"}]
Session == [pc : {"idle", "waiting", "locked", "summed", "failed", "release"},
            agent : Agents \cup {None}, seen : SUBSET Purchases]
Admin == [pc : {"idle", "locked"}, withdrawal : Withdrawals \cup {None}]

NoCommission == [agent |-> None, status |-> "ACCRUED", withdrawal |-> None]
NoWithdrawal == [agent |-> None, rows |-> {}, status |-> "none"]
Idle == [pc |-> "idle", agent |-> None, seen |-> {}]
IdleAdmin == [pc |-> "idle", withdrawal |-> None]

Init ==
  /\ commission = [p \in Purchases |-> NoCommission]
  /\ withdrawal = [w \in Withdrawals |-> NoWithdrawal]
  /\ lock = [a \in Agents |-> None]
  /\ rowLock = [a \in Agents |-> None]
  /\ session = [s \in Sessions |-> Idle]
  /\ admin = [d \in Admins |-> IdleAdmin]

\* The sum of f over a finite set.
Total(f, S) == MapThenSumSet(LAMBDA x : f[x], S)

\* SUM(commission_amount) over rows.
Amount(rows) == Total(AmountOf, rows)

\* ACCRUED commissions of agent a that no withdrawal has reserved.
Available(a) ==
  {p \in Purchases : commission[p] = [agent |-> a, status |-> "ACCRUED", withdrawal |-> None]}

ReservedBy(w) == {p \in Purchases : commission[p].withdrawal = w}

----------------------------------------------------------------------------
(* Accrual *)

\* The INSERT of usp_Purchase_Create, or of the backfill
\* usp_AgentCommission_Accrue: UNIQUE (purchase_id) makes it the only one, and
\* it waits for whoever has locked the agent's range of the index.
Accrue(p, a) ==
  /\ commission[p] = NoCommission
  /\ rowLock[a] = None
  /\ commission' = [commission EXCEPT ![p].agent = a]
  /\ UNCHANGED <<withdrawal, lock, rowLock, session, admin>>

----------------------------------------------------------------------------
(* usp_CommissionWithdrawal_Request *)

\* The bound is on the identifiers: a request starts while one is left for it.
Request(s, a) ==
  /\ session[s].pc = "idle"
  /\ Cardinality({r \in Sessions : session[r].pc # "idle"})
       < Cardinality({w \in Withdrawals : withdrawal[w] = NoWithdrawal})
  /\ session' = [session EXCEPT ![s] = [pc |-> "waiting", agent |-> a, seen |-> {}]]
  /\ UNCHANGED <<commission, withdrawal, lock, rowLock, admin>>

\* GET_LOCK(v_lock_name, 10) returns 1.
GetLock(s) ==
  LET a == session[s].agent
  IN  /\ session[s].pc = "waiting"
      /\ lock[a] = None
      /\ lock' = [lock EXCEPT ![a] = s]
      /\ session' = [session EXCEPT ![s].pc = "locked"]
      /\ UNCHANGED <<commission, withdrawal, rowLock, admin>>

\* GET_LOCK returns NULL, an error: "IF v_lock_acquired <> 1" is not taken then, and
\* the procedure goes on without the named lock.
GetLockError(s) ==
  /\ session[s].pc = "waiting"
  /\ session' = [session EXCEPT ![s].pc = "locked"]
  /\ UNCHANGED <<commission, withdrawal, lock, rowLock, admin>>

\* Mutant: GET_LOCK without a limit on the wait.
LockTimeoutNever(s) == FALSE

\* Ten seconds have passed: result code 5, nothing changed.
LockTimeout(s) ==
  /\ session[s].pc = "waiting"
  /\ lock[session[s].agent] # None
  /\ session' = [session EXCEPT ![s] = Idle]
  /\ UNCHANGED <<commission, withdrawal, lock, rowLock, admin>>

\* Mutant: SUM without FOR UPDATE.
SumBalanceUnlocked(s) ==
  LET a == session[s].agent
  IN  /\ session[s].pc = "locked"
      /\ session' = [session EXCEPT ![s].pc = "summed", ![s].seen = Available(a)]
      /\ UNCHANGED <<commission, withdrawal, lock, rowLock, admin>>

\* SELECT SUM(commission_amount) ... FOR UPDATE: waits for the row locks.  An
\* empty balance or one below the floor is rolled back at once.
SumBalance(s) ==
  LET a == session[s].agent
      ok == Available(a) # {} /\ Amount(Available(a)) > 0
                              /\ Amount(Available(a)) >= MinWithdrawal
  IN  /\ session[s].pc = "locked"
      /\ rowLock[a] = None
      /\ rowLock' = IF ok THEN [rowLock EXCEPT ![a] = s] ELSE rowLock
      /\ session' = [session EXCEPT
           ![s].pc = IF ok THEN "summed" ELSE "release",
           ![s].seen = IF ok THEN Available(a) ELSE {}]
      /\ UNCHANGED <<commission, withdrawal, lock, admin>>

\* Mutant: the reservation forgets "withdrawal_id IS NULL".
ReserveAllAccrued(s, w) ==
  LET a == session[s].agent
  IN  /\ session[s].pc = "summed"
      /\ withdrawal[w] = NoWithdrawal
      /\ withdrawal' = [withdrawal EXCEPT
           ![w] = [agent |-> a, rows |-> session[s].seen, status |-> "REQUESTED"]]
      /\ commission' = [p \in Purchases |->
           IF commission[p].agent = a /\ commission[p].status = "ACCRUED"
           THEN [commission[p] EXCEPT !.withdrawal = w] ELSE commission[p]]
      /\ rowLock' = [rowLock EXCEPT ![a] = None]
      /\ session' = [session EXCEPT ![s].pc = "release"]
      /\ UNCHANGED <<lock, admin>>

\* INSERT the withdrawal of the amount seen, UPDATE the rows available now,
\* COMMIT: the row locks go with the transaction.
Reserve(s, w) ==
  LET a == session[s].agent
  IN  /\ session[s].pc = "summed"
      /\ withdrawal[w] = NoWithdrawal
      /\ withdrawal' = [withdrawal EXCEPT
           ![w] = [agent |-> a, rows |-> session[s].seen, status |-> "REQUESTED"]]
      /\ commission' = [p \in Purchases |->
           IF p \in Available(a) THEN [commission[p] EXCEPT !.withdrawal = w]
                                 ELSE commission[p]]
      /\ rowLock' = [rowLock EXCEPT ![a] = None]
      /\ session' = [session EXCEPT ![s].pc = "release"]
      /\ UNCHANGED <<lock, admin>>

\* RELEASE_LOCK, which leaves a lock alone that this session does not hold.
Unlocked(s) == [lock EXCEPT ![session[s].agent] = IF @ = s THEN None ELSE @]

\* DO RELEASE_LOCK, on the refusals and on success.
ReleaseLock(s) ==
  /\ session[s].pc = "release"
  /\ lock' = Unlocked(s)
  /\ session' = [session EXCEPT ![s] = Idle]
  /\ UNCHANGED <<commission, withdrawal, rowLock, admin>>

\* Mutant: the exit handler forgets the named lock.
FailKeepsLock(s) ==
  /\ session[s].pc \in {"locked", "summed"}
  /\ session' = [session EXCEPT ![s].pc = "failed"]
  /\ UNCHANGED <<commission, withdrawal, lock, rowLock, admin>>

\* A statement fails.  The exit handler gives the named lock back first ...
Fail(s) ==
  /\ session[s].pc \in {"locked", "summed"}
  /\ lock' = Unlocked(s)
  /\ session' = [session EXCEPT ![s].pc = "failed"]
  /\ UNCHANGED <<commission, withdrawal, rowLock, admin>>

\* InnoDB gives up waiting for the row locks (innodb_lock_wait_timeout): a failure.
RowLockTimeout(s) ==
  /\ session[s].pc = "locked"
  /\ rowLock[session[s].agent] # None
  /\ Fail(s)

\* What a session held of a lock that goes with its connection.
Dropped(locks, s) == [a \in Agents |-> IF locks[a] = s THEN None ELSE locks[a]]

\* ... and rolls the transaction back afterwards.
Rollback(s) ==
  /\ session[s].pc = "failed"
  /\ rowLock' = Dropped(rowLock, s)
  /\ session' = [session EXCEPT ![s] = Idle]
  /\ UNCHANGED <<commission, withdrawal, lock, admin>>

\* The API process or its connection dies: the server drops both locks.
Disconnect(s) ==
  /\ session[s].pc # "idle"
  /\ lock' = Dropped(lock, s)
  /\ rowLock' = Dropped(rowLock, s)
  /\ session' = [session EXCEPT ![s] = Idle]
  /\ UNCHANGED <<commission, withdrawal, admin>>

----------------------------------------------------------------------------
(* usp_CommissionWithdrawal_UpdateStatus *)

\* Mutant: the status is read without FOR UPDATE.
LockWithdrawalShared(d, w) ==
  /\ admin[d].pc = "idle"
  /\ withdrawal[w].status \in {"REQUESTED", "APPROVED"}
  /\ admin' = [admin EXCEPT ![d] = [pc |-> "locked", withdrawal |-> w]]
  /\ UNCHANGED <<commission, withdrawal, lock, rowLock, session>>

\* SELECT status ... FOR UPDATE finds the request not finalized.
LockWithdrawal(d, w) ==
  /\ admin[d].pc = "idle"
  /\ withdrawal[w].status \in {"REQUESTED", "APPROVED"}
  /\ \A e \in Admins : admin[e].withdrawal # w
  /\ admin' = [admin EXCEPT ![d] = [pc |-> "locked", withdrawal |-> w]]
  /\ UNCHANGED <<commission, withdrawal, lock, rowLock, session>>

\* Mutant: the rows take the status of the withdrawal.
SettleRowsSameStatus(w, status) ==
  commission' = [p \in Purchases |->
    IF commission[p].withdrawal = w THEN [commission[p] EXCEPT !.status = status]
                                    ELSE commission[p]]

\* Mutant: a rejection leaves the rows reserved.
SettleRowsNoRelease(w, status) ==
  commission' = [p \in Purchases |->
    IF commission[p].withdrawal = w /\ status = "PAID"
    THEN [commission[p] EXCEPT !.status = "WITHDRAWN"]
    ELSE commission[p]]

\* PAID flips the reserved rows to WITHDRAWN, REJECTED releases them.
SettleRows(w, status) ==
  commission' = [p \in Purchases |->
    CASE commission[p].withdrawal = w /\ status = "PAID" ->
           [commission[p] EXCEPT !.status = "WITHDRAWN"]
      [] commission[p].withdrawal = w /\ status = "REJECTED" ->
           [commission[p] EXCEPT !.withdrawal = None]
      [] OTHER -> commission[p]]

\* The updates and the COMMIT; the rows of the agent may have to be waited for.
SetStatus(d, status) ==
  LET w == admin[d].withdrawal
  IN  /\ admin[d].pc = "locked"
      /\ status # "APPROVED" => rowLock[withdrawal[w].agent] = None
      /\ withdrawal' = [withdrawal EXCEPT ![w].status = status]
      /\ SettleRows(w, status)
      /\ admin' = [admin EXCEPT ![d] = IdleAdmin]
      /\ UNCHANGED <<lock, rowLock, session>>

\* The transaction fails or its connection dies.
AbandonStatus(d) ==
  /\ admin[d].pc = "locked"
  /\ admin' = [admin EXCEPT ![d] = IdleAdmin]
  /\ UNCHANGED <<commission, withdrawal, lock, rowLock, session>>

----------------------------------------------------------------------------

RequestStep(s) ==
  \/ GetLock(s) \/ LockTimeout(s) \/ SumBalance(s) \/ RowLockTimeout(s)
  \/ ReleaseLock(s) \/ Rollback(s)
  \/ \E w \in Withdrawals : Reserve(s, w)

Next ==
  \/ \E p \in Purchases, a \in Agents : Accrue(p, a)
  \/ \E s \in Sessions, a \in Agents : Request(s, a)
  \/ \E s \in Sessions : RequestStep(s) \/ GetLockError(s) \/ Fail(s) \/ Disconnect(s)
  \/ \E d \in Admins, w \in Withdrawals : LockWithdrawal(d, w)
  \/ \E d \in Admins, status \in {"APPROVED", "PAID", "REJECTED"} : SetStatus(d, status)
  \/ \E d \in Admins : AbandonStatus(d)

Spec == Init /\ [][Next]_vars

\* A procedure that runs goes on; nobody has to request or to decide.
Fairness == \A s \in Sessions : WF_vars(RequestStep(s))

FairSpec == Spec /\ Fairness

----------------------------------------------------------------------------
(* Properties *)

\* The shape of the rows, the locks and the procedures in progress.
TypeOK ==
  /\ commission \in [Purchases -> Commission]
  /\ withdrawal \in [Withdrawals -> Withdrawal]
  /\ lock \in [Agents -> Sessions \cup {None}]
  /\ rowLock \in [Agents -> Sessions \cup {None}]
  /\ session \in [Sessions -> Session]
  /\ admin \in [Admins -> Admin]

\* No lock outlives the procedure that took it: whoever holds one will come to
\* the statement that gives it back.
LocksHaveOwners ==
  \A a \in Agents, s \in Sessions :
    /\ lock[a] = s => session[s].agent = a /\ session[s].pc \in {"locked", "summed", "release"}
    /\ rowLock[a] = s => session[s].agent = a /\ session[s].pc \in {"summed", "failed"}

\* A withdrawal that is asked for, approved or paid is worth exactly the
\* commissions reserved for it: none is counted in two withdrawals, none is
\* reserved without being counted ("the balance was paid out twice").
AmountIsReserved ==
  \A w \in Withdrawals : withdrawal[w].status \in Live => withdrawal[w].rows = ReservedBy(w)

\* A commission is WITHDRAWN exactly when the withdrawal it belongs to is PAID,
\* and is free when its withdrawal was rejected.
RowsFollowWithdrawal ==
  \A p \in Purchases :
    LET w == commission[p].withdrawal
    IN  IF w = None THEN commission[p].status = "ACCRUED"
        ELSE /\ withdrawal[w].status \in Live
             /\ withdrawal[w].agent = commission[p].agent
             /\ commission[p].status = "WITHDRAWN" <=> withdrawal[w].status = "PAID"

\* What an agent has asked for and what was paid out never exceed together
\* what was accrued.
NeverOverpaid ==
  \A a \in Agents :
    Total([w \in Withdrawals |-> Amount(withdrawal[w].rows)],
          {w \in Withdrawals : withdrawal[w].agent = a /\ withdrawal[w].status \in Live})
      <= Amount({p \in Purchases : commission[p].agent = a})

\* What has been finalized, and what has been paid out, never changes again,
\* even with two administrators on the same request.
PaidIsFinal ==
  [][/\ \A w \in Withdrawals : withdrawal[w].status \in Final =>
          withdrawal'[w] = withdrawal[w]
     /\ \A p \in Purchases : commission[p].status = "WITHDRAWN" =>
          commission'[p] = commission[p]]_vars

\* The balances that usp_CommissionWithdrawal_Request does not refuse.
Claimable == {rows \in SUBSET Purchases :
                rows # {} /\ Amount(rows) > 0 /\ Amount(rows) >= MinWithdrawal}

\* What the accounts show of a withdrawal.
ClaimOf(w) ==
  [agent |-> withdrawal[w].agent, rows |-> withdrawal[w].rows,
   state |-> CASE withdrawal[w].status = "none" -> "none"
               [] withdrawal[w].status \in {"REQUESTED", "APPROVED"} -> "open"
               [] withdrawal[w].status = "PAID" -> "paid"
               [] withdrawal[w].status = "REJECTED" -> "refused"]

\* Adding up, reserving and deciding happen in several statements under two kinds
\* of locks, and yet as if each request and each decision were one step, on all
\* that is free and worth the floor: the tables implement Payouts.
Payout == INSTANCE Payouts WITH
  free <- [a \in Agents |-> Available(a)],
  claims <- [w \in Withdrawals |-> ClaimOf(w)]
ImplementsPayouts == Payout!Spec

\* Every request is answered: neither the named lock nor the row locks of a
\* session that failed or died are ever waited for in vain.
RequestIsAnswered ==
  \A s \in Sessions : session[s].pc # "idle" ~> session[s].pc = "idle"
=============================================================================
