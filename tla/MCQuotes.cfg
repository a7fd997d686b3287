SPECIFICATION Spec
CONSTANTS
  Requests = {r1}
  Offers = {o1, o2, o3}
  Purchases = {p1, p2}
  Sessions = {s1, s2}
  Terms = {first, corrected}
  Null = Null
SYMMETRY Symmetry
INVARIANTS TypeOK PurchaseWasPicked ConvertedWasBought OffersFollowAssignment
