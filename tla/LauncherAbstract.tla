-------------------------- MODULE LauncherAbstract --------------------------
(***************************************************************************)
(* What the launcher promises (spec sections 4.3, 6 and 7), with no        *)
(* signals, threads or program counter: the supervisor goes NotStarted ->  *)
(* Running -> Terminated, or fails before Running with status 1.  It       *)
(* records how its worker ended and exits normally only once it has.  The *)
(* worker, which the supervisor does not control, may end at any time      *)
(* while it runs.                                                          *)
(***************************************************************************)
CONSTANTS
  Causes,    \* how a worker may end: exit codes and killing signals
  NoCause    \* nothing recorded yet

VARIABLES
  state,     \* "NotStarted", "Running", "Terminated" or "Failed"
  worker,    \* "none", "alive" or "exited"
  cause,     \* how the worker ended, NoCause while it has not
  recorded,  \* the cause the supervisor recorded on Terminated
  exitCode   \* the supervisor's exit status, NoCause while it runs

avars == <<state, worker, cause, recorded, exitCode>>

TypeOK ==
  /\ state \in {"NotStarted", "Running", "Terminated", "Failed"}
  /\ worker \in {"none", "alive", "exited"}
  /\ cause \in Causes \cup {NoCause}
  /\ recorded \in Causes \cup {NoCause}
  /\ exitCode \in {0, 1, NoCause}

Init ==
  /\ state = "NotStarted" /\ worker = "none"
  /\ cause = NoCause /\ recorded = NoCause /\ exitCode = NoCause

\* ConfigFileError, ConfigFormatError, ConfigValidationError or SpawnError:
\* fatal, before Running, status 1 (section 7).
Fail ==
  /\ state = "NotStarted"
  /\ state' = "Failed" /\ exitCode' = 1
  /\ UNCHANGED <<worker, cause, recorded>>

\* spawn: NotStarted -> Running.
Spawn ==
  /\ state = "NotStarted"
  /\ state' = "Running" /\ worker' = "alive"
  /\ UNCHANGED <<cause, recorded, exitCode>>

\* The worker ends by itself or on a forwarded signal.
WorkerEnds ==
  /\ worker = "alive"
  /\ worker' = "exited"
  /\ cause' \in Causes
  /\ UNCHANGED <<state, recorded, exitCode>>

\* The poll loop observes the exit, records its cause and ends; the
\* supervisor's status reflects the loop's normal end (section 6).
Observe ==
  /\ state = "Running" /\ worker = "exited"
  /\ state' = "Terminated" /\ recorded' = cause /\ exitCode' = 0
  /\ UNCHANGED <<worker, cause>>

Next == Fail \/ Spawn \/ WorkerEnds \/ Observe

\* Exit is detected within one poll interval once the worker has ended.
Spec == Init /\ [][Next]_avars /\ WF_avars(Observe)
=============================================================================
