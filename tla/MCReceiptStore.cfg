SPECIFICATION Spec
CONSTANTS
  d1 = d1
  d2 = d2
  id1 = id1
  id2 = id2
  old = old
  slotA = slotA
  slotB = slotB
  Deliveries <- MCDeliveries
  Ids <- MCIds
  LegacyIds <- MCLegacyIds
  Contents <- MCContents
  None = None
  MaxAttempts = 4
SYMMETRY Symmetry
INVARIANTS TypeOK ReadersAgree
PROPERTIES ImplementsLedger RowsAreImmutable
CHECK_DEADLOCK FALSE
