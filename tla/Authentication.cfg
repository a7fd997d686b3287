SPECIFICATION Spec
CONSTANTS
  Sessions = {s1, s2}
  MaxFailures = 2
  MaxTries = 2
  MaxCodes = 2
SYMMETRY Symmetry
INVARIANTS TypeOK FailuresAreBounded TriesAreBounded OneLiveCode NoEntryBeforeActivation ResetsAreVerified
