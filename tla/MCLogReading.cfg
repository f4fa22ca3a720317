SPECIFICATION ReadingSpec
CONSTANTS
  A = A
  B = B
  C = C
  want = want
  other = other
  Programs <- MCPrograms
  Payloads <- MCPayloads
  Discriminators <- MCDiscriminators
  DiscOf <- MCDiscOf
  NoEvent = NoEvent
  MaxDepth = 3
  MaxSteps = 4
  FillerLines <- MCFiller
  Truncates = TRUE
  MaxLost = 2
  MaxLines = 7
  MaxBytes = 7
  MaxFrames = 2
  MaxPrograms = 2
  MaxCandidates = 2
  DataBytes = 2
SYMMETRY Symmetry
INVARIANTS
  TypeOK LocatesTruth ConclusionIsTrue
  CandidatesAreTrustworthy CandidatesVerify LimitsAreExact
CHECK_DEADLOCK FALSE
