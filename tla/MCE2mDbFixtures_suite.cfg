\* The fixtures of one test: two seeder or verify calls in any order,
\* with one write of the E2 manager to the 10.0.2.15 E2T instance between
\* any two Redis commands.
CONSTANTS
  Absent = Absent
  None = None
  Raise = Raise
  WriterKeys = {"{e2Manager},E2TInstance:10.0.2.15:38000"}
  MaxCalls = 2
  MaxWrites = 1
SPECIFICATION Spec
INVARIANT TypeOK
\* A test run ends after its last fixture call.
CHECK_DEADLOCK FALSE
