----------------------- MODULE MCInitScriptRefinement -----------------------
(***************************************************************************)
(* The launcher of InitScript seen through LauncherAbstract: the abstract  *)
(* state is read off the main thread's end and the xApp's lifecycle.       *)
(***************************************************************************)
EXTENDS MCInitScript

\* The supervisor's state: it has ended normally (status 0, only the poll
\* loop's break does that), ended otherwise, started the xApp, or not yet.
AbsState ==
  CASE pc = "end" /\ exitStatus = 0 -> "Terminated"
    [] pc = "end"                   -> "Failed"
    [] child = "none"               -> "NotStarted"
    [] OTHER                        -> "Running"

\* A zombie and a reaped xApp have both ended.
AbsWorker ==
  CASE child = "none"    -> "none"
    [] child = "running" -> "alive"
    [] OTHER             -> "exited"

Abstract == INSTANCE LauncherAbstract WITH
  Causes   <- Causes,
  NoCause  <- None,
  state    <- AbsState,
  worker   <- AbsWorker,
  cause    <- childCause,
  recorded <- IF AbsState = "Terminated" THEN xappStatus ELSE None,
  exitCode <- exitStatus

\* The launcher implements the supervisor state machine of spec 4.3: it
\* fails only before the xApp runs and then with status 1, it ends normally
\* only after the xApp has ended, reporting how, and it always does.
LauncherRefinesAbstract == Abstract!Spec
=============================================================================
