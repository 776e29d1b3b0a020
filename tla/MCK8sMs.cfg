CONSTANTS
  Names = {c1, c2}
  Unknown = Unknown
  None = None
  MaxOther = 2
SPECIFICATION Spec
\* The utility is a process that ends: its final states have no successor
\* once other clients have used their bounded steps.
CHECK_DEADLOCK FALSE
INVARIANTS
  TypeOK
