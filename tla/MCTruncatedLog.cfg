SPECIFICATION Spec
CONSTANTS
  A = A
  B = B
  want = want
  other = other
  Programs <- MCPrograms
  Payloads <- MCPayloads
  Discriminators <- MCDiscriminators
  DiscOf <- MCDiscOf
  NoEvent = NoEvent
  MaxDepth = 2
  MaxSteps = 4
  FillerLines <- MCFiller
  Truncates = TRUE
  MaxLost = 0
INVARIANT TruncatedIsIndeterminate
CHECK_DEADLOCK FALSE
