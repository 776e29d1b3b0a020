---------------------------- MODULE InitScript ----------------------------
(***************************************************************************)
(* The xApp launcher src/setup/xapp-bs-connector/init/init_script.py:      *)
(* its main thread (argument and file checks, parsing, the 10 s pause,    *)
(* handler registration, Popen, the poll loop), the Python-level signal   *)
(* handler that forwards SIGINT and SIGTERM to the xApp, the operating     *)
(* system delivering signals, and the xApp process it supervises.         *)
(*                                                                         *)
(* Signal delivery follows CPython: the C-level handler only marks the    *)
(* signal pending (two deliveries before the handler runs coalesce), and  *)
(* the Python handler runs later in the main thread, between two of its   *)
(* steps; time.sleep resumes after a handler that returns (PEP 475).  A   *)
(* signal whose handler is not installed yet takes its default action and *)
(* ends the launcher.  Names the script has not yet assigned               *)
(* (xapp_subprocess, xapp_pid) are absent from `bound`: reading them       *)
(* raises NameError.                                                       *)
(***************************************************************************)
EXTENDS ConfigParse, FiniteSets

CONSTANTS
  SIGINT, SIGTERM,   \* the two signals the launcher registers handlers for
  None,              \* Python's None: no status yet
  Docs,              \* the JSON documents the configuration file may hold
  ExitCodes,         \* the exit codes the xApp may end with
  MaxSignals         \* bound on the signals sent to the launcher in a run

Signals == {SIGINT, SIGTERM}

\* The configuration file named on the command line: absent, not JSON, or
\* holding one of Docs.
Files == {[kind |-> "missing"], [kind |-> "malformed"]}
         \cup {[kind |-> "json", doc |-> d] : d \in Docs}

\* Program counter of the main thread; "end" once the launcher has exited.
PCs == {"main", "parse", "check", "sigint", "sigterm", "popen", "popen_ret",
        "pid", "poll", "sleep", "end"}

\* How a process ended: an exit code, or the signal that killed it.
Causes == ExitCodes \cup Signals \cup {0, 1}

VARIABLES
  pc,            \* main thread of the launcher
  args,          \* [config: a path argument was given, exe: cmd[0] runs]
  file,          \* the configuration file
  result,        \* the value parseConfigJson returned
  env,           \* os.environ entries XAPP_NAME and HW_PORT
  handlers,      \* signals with signal_handler installed
  bound,         \* which of the globals xapp_subprocess, xapp_pid exist
  pending,       \* signals delivered to the launcher, handler not yet run
  delivered,     \* signals delivered to the launcher, per signal
  forwarded,     \* send_signal calls that reached os.kill, per signal
  child,         \* the xApp: "none", "running", "zombie" or "reaped"
  childCause,    \* how the xApp ended, None until then
  childPending,  \* signals sent to the running xApp, not yet acted on
  xappStatus,    \* xapp_status, the last value of xapp_subprocess.poll()
  exitStatus     \* how the launcher ended, None until then

vars == <<pc, args, file, result, env, handlers, bound, pending, delivered,
          forwarded, child, childCause, childPending, xappStatus, exitStatus>>

childVars == <<child, childCause, childPending>>

TypeOK ==
  /\ pc \in PCs
  /\ args \in [config : BOOLEAN, exe : BOOLEAN]
  /\ file \in Files
  /\ result \in {"unset", "None", "False"}
  /\ DOMAIN env = EnvVars
  /\ env["XAPP_NAME"] = Unset \/ env["XAPP_NAME"] \in STRING
  /\ env["HW_PORT"] = Unset \/ env["HW_PORT"] \in Int
  /\ handlers \subseteq Signals
  /\ bound \subseteq {"xapp_subprocess", "xapp_pid"}
  /\ pending \subseteq handlers
  /\ delivered \in [Signals -> 0..MaxSignals]
  /\ forwarded \in [Signals -> 0..MaxSignals]
  /\ child \in {"none", "running", "zombie", "reaped"}
  /\ childCause \in {None} \cup Causes
  /\ childPending \subseteq Signals
  /\ xappStatus \in {None} \cup Causes
  /\ exitStatus \in {None} \cup Causes

Init ==
  /\ pc = "main"
  /\ args \in [config : BOOLEAN, exe : BOOLEAN]
  /\ file \in Files
  /\ result = "unset"
  /\ env = [v \in EnvVars |-> Unset]
  /\ handlers = {}
  /\ bound = {}
  /\ pending = {}
  /\ delivered = [s \in Signals |-> 0]
  /\ forwarded = [s \in Signals |-> 0]
  /\ child = "none"
  /\ childCause = None
  /\ childPending = {}
  /\ xappStatus = None
  /\ exitStatus = None

\* The launcher exits with status `code`.
Exit(code) == pc' = "end" /\ exitStatus' = code

-----------------------------------------------------------------------------
(* Main thread *)

\* Lines 97-113: no path argument exits 1; open() of a missing file raises
\* outside the try (uncaught, status 1); json.load failure exits 1.
Start ==
  /\ pc = "main"
  /\ IF args.config /\ file.kind = "json"
     THEN pc' = "parse" /\ UNCHANGED exitStatus
     ELSE Exit(1)
  /\ UNCHANGED <<args, file, result, env, handlers, bound, pending, delivered,
                 forwarded, childVars, xappStatus>>

\* Line 115: parseConfigJson writes the environment as it goes; an exception
\* escaping it ends the launcher with status 1.
ParseConfig ==
  /\ pc = "parse"
  /\ LET r == parseConfigJson(file.doc, env)
     IN /\ env' = r.env
        /\ IF r.ret = "raise"
           THEN Exit(1) /\ UNCHANGED result
           ELSE pc' = "check" /\ result' = r.ret /\ UNCHANGED exitStatus
  /\ UNCHANGED <<args, file, handlers, bound, pending, delivered, forwarded,
                 childVars, xappStatus>>

\* Lines 116-119: after time.sleep(10), a result equal to False exits 1;
\* anything else (None included) goes on to start the xApp.
CheckResult ==
  /\ pc = "check"
  /\ IF result = "False"
     THEN Exit(1)
     ELSE pc' = "sigint" /\ UNCHANGED exitStatus
  /\ UNCHANGED <<args, file, result, env, handlers, bound, pending, delivered,
                 forwarded, childVars, xappStatus>>

\* Lines 124 and 125, one signal.signal call each.
RegisterHandler(s, next) ==
  /\ handlers' = handlers \cup {s}
  /\ pc' = next
  /\ UNCHANGED <<args, file, result, env, bound, pending, delivered,
                 forwarded, childVars, xappStatus, exitStatus>>

RegisterSIGINT == pc = "sigint" /\ RegisterHandler(SIGINT, "sigterm")

RegisterSIGTERM == pc = "sigterm" /\ RegisterHandler(SIGTERM, "popen")

\* Line 129, inside Popen: the fork and exec.  An executable that cannot be
\* run makes Popen reap the failed child and raise, uncaught: status 1.
PopenSpawn ==
  /\ pc = "popen"
  /\ IF args.exe
     THEN /\ pc' = "popen_ret"
          /\ child' = "running"
          /\ UNCHANGED exitStatus
     ELSE Exit(1) /\ UNCHANGED child
  /\ UNCHANGED <<args, file, result, env, handlers, bound, pending, delivered,
                 forwarded, childCause, childPending, xappStatus>>

\* Line 129: Popen returns and the global xapp_subprocess is assigned.
PopenReturn ==
  /\ pc = "popen_ret"
  /\ bound' = bound \cup {"xapp_subprocess"}
  /\ pc' = "pid"
  /\ UNCHANGED <<args, file, result, env, handlers, pending, delivered,
                 forwarded, childVars, xappStatus, exitStatus>>

\* Line 130: xapp_pid = xapp_subprocess.pid.
AssignPid ==
  /\ pc = "pid"
  /\ bound' = bound \cup {"xapp_pid"}
  /\ pc' = "poll"
  /\ UNCHANGED <<args, file, result, env, handlers, pending, delivered,
                 forwarded, childVars, xappStatus, exitStatus>>

\* Mutant: the loop tests `if not xapp_status`, so exit code 0 reads as
\* still running.
PollZeroAsRunning ==
  /\ pc = "poll"
  /\ IF child = "running"
     THEN /\ pc' = "sleep"
          /\ xappStatus' = None
          /\ UNCHANGED <<child, exitStatus>>
     ELSE /\ child' = "reaped"
          /\ xappStatus' = childCause
          /\ IF childCause = 0 THEN pc' = "sleep" /\ UNCHANGED exitStatus
                               ELSE Exit(0)
  /\ UNCHANGED <<args, file, result, env, handlers, bound, pending, delivered,
                 forwarded, childCause, childPending>>

\* Mutant: the loop breaks on the value poll() returned on the previous
\* pass, so xapp_status keeps the stale None.
PollStaleStatus ==
  /\ pc = "poll"
  /\ IF child = "running"
     THEN /\ pc' = "sleep"
          /\ xappStatus' = None
          /\ UNCHANGED <<child, exitStatus>>
     ELSE /\ child' = "reaped"
          /\ UNCHANGED xappStatus
          /\ Exit(0)
  /\ UNCHANGED <<args, file, result, env, handlers, bound, pending, delivered,
                 forwarded, childCause, childPending>>

\* Lines 134-139: poll() reaps an exited xApp (or returns the code cached
\* when send_signal already reaped it); None means sleep 5 s, anything else
\* breaks the loop and the script ends normally, status 0.
Poll ==
  /\ pc = "poll"
  /\ IF child = "running"
     THEN /\ pc' = "sleep"
          /\ xappStatus' = None
          /\ UNCHANGED <<child, exitStatus>>
     ELSE /\ child' = "reaped"
          /\ xappStatus' = childCause
          /\ Exit(0)
  /\ UNCHANGED <<args, file, result, env, handlers, bound, pending, delivered,
                 forwarded, childCause, childPending>>

\* Line 136: time.sleep(5) returns.
Wake ==
  /\ pc = "sleep"
  /\ pc' = "poll"
  /\ UNCHANGED <<args, file, result, env, handlers, bound, pending, delivered,
                 forwarded, childVars, xappStatus, exitStatus>>

-----------------------------------------------------------------------------
(* Signals *)

\* The operating system delivers s to the launcher: with signal_handler
\* installed the signal becomes pending; without, its default action (an
\* uncaught KeyboardInterrupt for SIGINT, termination for SIGTERM) ends the
\* launcher.
Deliver(s) ==
  /\ pc # "end"
  /\ delivered[SIGINT] + delivered[SIGTERM] < MaxSignals
  /\ delivered' = [delivered EXCEPT ![s] = @ + 1]
  /\ IF s \in handlers
     THEN pending' = pending \cup {s} /\ UNCHANGED <<pc, exitStatus>>
     ELSE Exit(s) /\ UNCHANGED pending
  /\ UNCHANGED <<args, file, result, env, handlers, bound, forwarded,
                 childVars, xappStatus>>

\* Mutant: the handler forwards a fixed SIGTERM whatever it received.
SendSignalFixed(s) ==
  \/ /\ child = "zombie"
     /\ child' = "reaped"
     /\ UNCHANGED <<forwarded, childPending>>
  \/ /\ child \in {"running", "zombie"}
     /\ forwarded' = [forwarded EXCEPT ![SIGTERM] = @ + 1]
     /\ childPending' = IF child = "running" THEN childPending \cup {SIGTERM}
                                             ELSE childPending
     /\ UNCHANGED child
  \/ /\ child = "reaped"
     /\ UNCHANGED <<child, forwarded, childPending>>

\* Mutant: the handler forwards SIGTERM only (`if sig == signal.SIGTERM:`
\* around the send_signal call).
SendSignalTermOnly(s) ==
  IF s # SIGTERM THEN UNCHANGED <<child, forwarded, childPending>>
  ELSE \/ /\ child = "zombie"
          /\ child' = "reaped"
          /\ UNCHANGED <<forwarded, childPending>>
       \/ /\ child \in {"running", "zombie"}
          /\ forwarded' = [forwarded EXCEPT ![s] = @ + 1]
          /\ childPending' = IF child = "running" THEN childPending \cup {s}
                                                  ELSE childPending
          /\ UNCHANGED child
       \/ /\ child = "reaped"
          /\ UNCHANGED <<child, forwarded, childPending>>

\* send_signal(s), line 41: Python >= 3.9 polls first (reaping an exited
\* xApp, then does nothing); older versions call os.kill unless returncode
\* is set.  os.kill on an exited, unreaped xApp has no effect.
SendSignal(s) ==
  \/ /\ child = "zombie"
     /\ child' = "reaped"
     /\ UNCHANGED <<forwarded, childPending>>
  \/ /\ child \in {"running", "zombie"}
     /\ forwarded' = [forwarded EXCEPT ![s] = @ + 1]
     /\ childPending' = IF child = "running" THEN childPending \cup {s}
                                             ELSE childPending
     /\ UNCHANGED child
  \/ /\ child = "reaped"
     /\ UNCHANGED <<child, forwarded, childPending>>

\* signal_handler, lines 35-41, run by the main thread for a pending signal.
\* Reading a global the script has not assigned yet raises NameError, which
\* propagates into whatever the main thread was doing and ends the launcher
\* with status 1.  Otherwise the handler forwards s and the main thread
\* carries on where it was.
RunHandler(s) ==
  /\ s \in pending
  /\ pc # "end"
  /\ pending' = pending \ {s}
  /\ IF bound # {"xapp_subprocess", "xapp_pid"}
     THEN Exit(1) /\ UNCHANGED <<child, forwarded, childPending>>
     ELSE SendSignal(s) /\ UNCHANGED <<pc, exitStatus>>
  /\ UNCHANGED <<args, file, result, env, handlers, bound, delivered,
                 childCause, xappStatus>>

-----------------------------------------------------------------------------
(* The xApp process (hw_xapp_main), outside this repository *)

\* The xApp ends on its own with an exit code.
ChildExit ==
  /\ child = "running"
  /\ \E c \in ExitCodes : childCause' = c
  /\ child' = "zombie"
  /\ childPending' = {}
  /\ UNCHANGED <<pc, args, file, result, env, handlers, bound, pending,
                 delivered, forwarded, xappStatus, exitStatus>>

\* The xApp acts on a signal it was sent: it is killed by it, or it handles
\* it and keeps running (a later ChildExit is its graceful shutdown).
ChildSignal(s) ==
  /\ child = "running"
  /\ s \in childPending
  /\ \/ child' = "zombie" /\ childCause' = s /\ childPending' = {}
     \/ childPending' = childPending \ {s} /\ UNCHANGED <<child, childCause>>
  /\ UNCHANGED <<pc, args, file, result, env, handlers, bound, pending,
                 delivered, forwarded, xappStatus, exitStatus>>

-----------------------------------------------------------------------------
MainThread ==
  \/ Start \/ ParseConfig \/ CheckResult \/ RegisterSIGINT \/ RegisterSIGTERM
  \/ PopenSpawn \/ PopenReturn \/ AssignPid \/ Poll \/ Wake

Next ==
  \/ MainThread
  \/ \E s \in Signals : Deliver(s) \/ RunHandler(s) \/ ChildSignal(s)
  \/ ChildExit

\* The main thread never stops while the launcher lives (time.sleep ends),
\* and CPython runs a pending Python handler at the main thread's next step
\* (a sleeping thread is woken by EINTR).  Signal senders and the xApp get
\* no fairness: they may never act.
Fairness ==
  /\ WF_vars(MainThread)
  /\ \A s \in Signals : WF_vars(RunHandler(s))

Spec == Init /\ [][Next]_vars /\ Fairness

-----------------------------------------------------------------------------
(* Properties *)

\* Spec section 3: the runtime parameters are fully validated before the
\* environment is complete and the xApp is started (sections 6, 8: a
\* non-empty xapp_name and a nonzero rmr-data port).  It is about the
\* handler dispatch of parseConfigJson and the result check of line 117.
ParametersValidatedBeforeSpawn ==
  child # "none" => /\ env["XAPP_NAME"] \notin {Unset, ""}
                    /\ env["HW_PORT"] \notin {Unset, 0}

ForwardedAtMostOncePerDelivery ==
  \A s \in Signals : forwarded[s] <= delivered[s]

\* A SIGINT or SIGTERM delivered to the launcher once the xApp runs and
\* its handle is assigned reaches the xApp, unless the xApp has ended
\* first (spec 4.3: signals are forwarded promptly while running).  It is
\* about signal_handler (lines 35-41) running in the main thread even while
\* it sleeps at line 136, forwarding the signal it was called for, with two
\* deliveries coalesced into one call.
SignalReachesXapp ==
  \A s \in Signals :
    (s \in pending /\ child = "running"
                   /\ bound = {"xapp_subprocess", "xapp_pid"})
      ~> (s \in childPending \/ child # "running")

\* Once the xApp has exited while the poll loop runs, the launcher
\* eventually notices and ends normally (spec 4.3: exit detected within one
\* interval).
ExitDetected ==
  (child \in {"zombie", "reaped"} /\ pc \in {"poll", "sleep"})
    ~> (pc = "end" /\ exitStatus = 0)
=============================================================================
