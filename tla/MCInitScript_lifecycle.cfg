\* Every argument, file and parser path; up to three SIGINT/SIGTERM
\* deliveries at any point; the xApp ends with 0 or 3, or by a signal.
CONSTANTS
  SIGINT = SIGINT
  SIGTERM = SIGTERM
  Unset = Unset
  None = None
  Docs <- DocsParse
  ExitCodes = {0, 3}
  MaxSignals = 3
SPECIFICATION Spec
\* The launcher is a process that ends: its final states have no successor.
CHECK_DEADLOCK FALSE
INVARIANTS
  TypeOK
  ForwardedAtMostOncePerDelivery
PROPERTIES
  ExitDetected
  SignalReachesXapp
