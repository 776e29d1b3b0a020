\* One cleanup_db.flush while the E2 manager writes a RAN record once.
CONSTANTS
  Absent = Absent
  None = None
  Raise = Raise
  WriterKeys = {"{e2Manager},RAN:test1"}
  MaxCalls = 1
  MaxWrites = 1
SPECIFICATION Spec
PROPERTY FlushLeavesOnlySeed
\* A test run ends after its last fixture call.
CHECK_DEADLOCK FALSE
