SPECIFICATION Spec
CONSTANTS
  None = None
  Runs = {"r1", "r2"}
  Slots <- MCSlots
  MaxPolls = 1
INVARIANTS FixtureIsFinal ProofIsWitnessed GeneratedFixturesPass
PROPERTY RunsEnd
CHECK_DEADLOCK FALSE
