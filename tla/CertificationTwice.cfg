SPECIFICATION Spec
CONSTANTS
  s1 = s1
  worker = worker
  null = null
  n = n
  Null = null
  Worker = worker
  Purchases = {1}
  RequestIds = {1, 2}
  Certs = {1, 2}
  Sessions = {s1}
  Route <- mc_OnePosted
  PolicyNumbers <- mc_PolicyNumbers
  Quoted <- mc_Ours
  Echoes <- mc_Echoes
  MaxSetbacks = 0
INVARIANT NeverDoublePosted
