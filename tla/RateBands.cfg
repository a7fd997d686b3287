\* Three rows of two underwriters, values in halves of a shilling.
CONSTANTS
  monarch = monarch
  mua = mua
  none = none
  null = null
  MaxBands = 3
  Underwriters <- mc_Underwriters
  MaxValue = 8
  Ranges <- mc_Ranges
  Shilling = 2
  MaxDay = 1
  Seeds <- mc_Seeds
  NoBand = none
  NULL = null
SYMMETRY Symmetry
SPECIFICATION Spec
INVARIANTS
  OverlapsFoundIffQuotedTwice
  OverlapsAreReal
  NoGapMeansQuoted
  GapsAreExact
