\* Every argument, file and parser path, with no signal sent to the
\* launcher; the xApp ends with 0 or 3 at any point.
CONSTANTS
  SIGINT = SIGINT
  SIGTERM = SIGTERM
  Unset = Unset
  None = None
  Docs <- DocsParse
  ExitCodes = {0, 3}
  MaxSignals = 0
SPECIFICATION Spec
\* The launcher is a process that ends: its final states have no successor.
CHECK_DEADLOCK FALSE
PROPERTY LauncherRefinesAbstract
