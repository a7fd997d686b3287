\* Two forms with data-confirm and two without.
CONSTANTS
  NoForm = NoForm
  a1 = a1
  a2 = a2
  p1 = p1
  p2 = p2
  Forms <- MCForms
  Asks <- MCAsks
SYMMETRY Symmetry
SPECIFICATION Spec
INVARIANTS
  AskedFirst
  PostedOnce
  FrozenForAReason
