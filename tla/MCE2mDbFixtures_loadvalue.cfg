\* loadscripts.add then loadscripts.verify_value, nothing else writing.
CONSTANTS
  Absent = Absent
  None = None
  Raise = Raise
  WriterKeys = {}
  MaxCalls = 2
  MaxWrites = 0
SPECIFICATION Spec
INVARIANT LoadVerifyValueAfterAdd
\* A test run ends after its last fixture call.
CHECK_DEADLOCK FALSE
