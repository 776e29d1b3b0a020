\* A configuration without xapp_name, or with an rmr-data port of 0.
CONSTANTS
  SIGINT = SIGINT
  SIGTERM = SIGTERM
  Unset = Unset
  None = None
  Docs <- DocsUnvalidated
  ExitCodes = {0}
  MaxSignals = 0
SPECIFICATION Spec
\* The launcher is a process that ends: its final states have no successor.
CHECK_DEADLOCK FALSE
INVARIANT
  ParametersValidatedBeforeSpawn
