SPECIFICATION FairSpec
CONSTANTS
  s1 = s1
  worker = worker
  null = null
  n = n
  Null = null
  Worker = worker
  Purchases = {1, 2}
  RequestIds = {1, 2}
  Certs = {1, 2}
  Sessions = {s1}
  Route <- mc_Route
  PolicyNumbers <- mc_PolicyNumbers
  Quoted <- mc_Quoted
  Echoes <- mc_Echoes
  MaxSetbacks = 1
INVARIANTS TypeOK CertifiedWasPaid InternalComesFirst IssuedIsRecorded OfficialIsGenuine
PROPERTY PaidGetsCertified
