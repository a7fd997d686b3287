SPECIFICATION Spec
CONSTANTS
  Purchases = {p1}
  PaymentIds <- MCPaymentIds
  Checkouts = {}
  Transfers = {t1}
  Texts = {p1}
  Handlers = {h1, h2}
  Null = Null
  MaxAttempts = 1
  MaxCopies = 2
  MaxDecisions = 0
INVARIANT ConfirmationCreditsOnce
CHECK_DEADLOCK FALSE
