\* One browser with two requests at once; two people, two cars, one policy.
CONSTANTS
  NULL = NULL
  Drafts = {d1}
  Calls = {c1, c2}
  IdNos = {n1, n2}
  RegNos = {r1, r2}
  Clients = {i1, i2}
  Vehicles = {v1, v2}
  Purchases = {p1}
  Quotes = {q1}
SYMMETRY Symmetry
CONSTRAINT OneDeletion
SPECIFICATION Spec
INVARIANTS
  TypeOK
  NoDuplicates
  BuyerOwnsVehicle
  BuyerIsNamed
  DraftHangsTogether
