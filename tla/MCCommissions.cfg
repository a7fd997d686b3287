SPECIFICATION FairSpec
CONSTANTS
  p1 = p1
  p2 = p2
  p3 = p3
  Agents = {a1, a2}
  Purchases = {p1, p2, p3}
  Withdrawals = {w1, w2}
  Sessions = {s1, s2}
  Admins = {d1, d2}
  None = None
  AmountOf <- MCAmountOf
  MinWithdrawal = 30
INVARIANTS TypeOK LocksHaveOwners AmountIsReserved NeverOverpaid
PROPERTIES PaidIsFinal ImplementsPayouts RequestIsAnswered
CHECK_DEADLOCK FALSE
