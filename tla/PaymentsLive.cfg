SPECIFICATION FairSpec
CONSTANTS
  Purchases = {p1, p2}
  PaymentIds <- MCPaymentIds
  Checkouts = {c1}
  Transfers = {t1}
  Texts = {p1, t1}
  Handlers = {h1, h2}
  Null = Null
  MaxAttempts = 2
  MaxCopies = 2
  MaxDecisions = 1
INVARIANTS TypeOK WebhooksAreTrue
PROPERTIES ImplementsSettlement CallbackSettles UnrepeatedCreditsOnce
CHECK_DEADLOCK FALSE
