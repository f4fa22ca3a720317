SPECIFICATION InspectSpec
CONSTANTS
  A = A
  B = B
  want = want
  other = other
  Programs <- MCPrograms
  Payloads <- MCPayloads
  Discriminators <- MCDiscriminators
  DiscOf <- MCDiscOf
  NoEvent = NoEvent
  Slots <- MCSlots
  Histories <- MCHistories
  None = None
  Requests <- MCRequests
  Waiting = Waiting
  Inspection = Inspection
  MaxCalls = 2
INVARIANTS ConclusionsAreFinal ConclusionsAgree InspectionsAreFinal OfferedCandidateVerifies
PROPERTY CallsReturn
CHECK_DEADLOCK FALSE
