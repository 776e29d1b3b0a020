------------------------------ MODULE K8sMs ------------------------------
(***************************************************************************)
(* The container stop utility src/setup/e2mgr/Automation/Scripts/k8s_ms.py *)
(* run against a Docker engine whose containers other clients start, stop *)
(* and remove concurrently.                                                *)
(*                                                                         *)
(* Container names are model values.  The action argument is abstracted   *)
(* to whether its lower() equals 'stop'.  The Docker API may fail at each *)
(* call.                                                                   *)
(***************************************************************************)
EXTENDS Integers, Sequences, SequencesExt, FiniteSets

CONSTANTS
  Names,      \* names of the containers on the engine
  Unknown,    \* an argument naming no container
  None,       \* Python's None
  MaxOther    \* bound on the steps of other Docker clients

VARIABLES
  pc,          \* "args", "env", "action", "get_ms", "stop" or "end"
  argv,        \* [n: number of arguments after the script, ms: argv[1],
               \*  stop: argv[2].lower() = 'stop']
  hostSet,     \* DOCKER_HOST_IP is set
  containers,  \* state of each named container on the engine
  order,       \* the order containers.list() returns them in
  cms,         \* the global list cms
  found,       \* the value get_ms() returned
  stopped,     \* the container the stop call reached, None before
  others,      \* steps taken by other clients
  exitCode     \* the utility's exit status, None while it runs

vars == <<pc, argv, hostSet, containers, order, cms, found, stopped, others,
          exitCode>>

ContainerStates == {"running", "exited", "absent"}

TypeOK ==
  /\ pc \in {"args", "env", "action", "get_ms", "stop", "end"}
  /\ argv \in [n : 0..2, ms : Names \cup {Unknown}, stop : BOOLEAN]
  /\ hostSet \in BOOLEAN
  /\ containers \in [Names -> ContainerStates]
  /\ order \in Seq(Names)
  /\ cms \in Seq(Names)
  /\ found \in Names \cup {None}
  /\ stopped \in Names \cup {None}
  /\ others \in 0..MaxOther
  /\ exitCode \in {None, 0, 1}

Init ==
  /\ pc = "args"
  /\ argv \in [n : 0..2, ms : Names \cup {Unknown}, stop : BOOLEAN]
  /\ hostSet \in BOOLEAN
  /\ containers \in [Names -> ContainerStates]
  /\ order \in SetToSeqs(Names)
  /\ cms = <<>>
  /\ found = None
  /\ stopped = None
  /\ others = 0
  /\ exitCode = None

Exit(code) == pc' = "end" /\ exitCode' = code

\* Lines 7-17: a missing argument raises IndexError, caught: usage, exit 1.
ParseArgs ==
  /\ pc = "args"
  /\ IF argv.n < 2 THEN Exit(1) ELSE pc' = "env" /\ UNCHANGED exitCode
  /\ UNCHANGED <<argv, hostSet, containers, order, cms, found, stopped,
                 others>>

\* Lines 18-22.
CheckHost ==
  /\ pc = "env"
  /\ IF ~hostSet THEN Exit(1) ELSE pc' = "action" /\ UNCHANGED exitCode
  /\ UNCHANGED <<argv, hostSet, containers, order, cms, found, stopped,
                 others>>

\* Lines 37, 41-43: any action but stop exits 1.
Dispatch ==
  /\ pc = "action"
  /\ IF ~argv.stop THEN Exit(1) ELSE pc' = "get_ms" /\ UNCHANGED exitCode
  /\ UNCHANGED <<argv, hostSet, containers, order, cms, found, stopped,
                 others>>

\* The running containers as containers.list() returns them.
IsRunning(n) == containers[n] = "running"

Listed == SelectSeq(order, IsRunning)

\* The test of line 29.
IsNamed(n) == n = argv.ms

\* Mutant: get_ms returns the list cms instead of cms[0].
GetMsReturnsList ==
  /\ pc = "get_ms"
  /\ \/ Exit(1) /\ UNCHANGED <<cms, found>>
     \/ /\ LET i == SelectInSeq(Listed, IsNamed)
           IN IF i # 0
              THEN cms' = Append(cms, Listed[i]) /\ found' = cms'
              ELSE found' = None /\ UNCHANGED cms
        /\ pc' = "stop"
        /\ UNCHANGED exitCode
  /\ UNCHANGED <<argv, hostSet, containers, order, stopped, others>>

\* get_ms, lines 24-35: the client connects and lists the running
\* containers; the first whose name equals sys.argv[1] is appended to cms
\* and cms[0] returned; no match falls off the end, returning None.  Any
\* exception of the client is caught: message, exit 1.
GetMs ==
  /\ pc = "get_ms"
  /\ \/ Exit(1) /\ UNCHANGED <<cms, found>>
     \/ /\ LET i == SelectInSeq(Listed, IsNamed)
           IN IF i # 0
              THEN cms' = Append(cms, Listed[i]) /\ found' = Head(cms')
              ELSE found' = None /\ UNCHANGED cms
        /\ pc' = "stop"
        /\ UNCHANGED exitCode
  /\ UNCHANGED <<argv, hostSet, containers, order, stopped, others>>

\* Lines 39-40, outside any try: None.stop() raises AttributeError; the
\* engine answers NotFound for a removed container and raises on an API
\* failure, uncaught (status 1); stopping an exited container succeeds
\* (HTTP 304); then sys.exit(0).
Stop ==
  /\ pc = "stop"
  /\ IF found = None \/ containers[found] = "absent"
     THEN Exit(1) /\ UNCHANGED <<containers, stopped>>
     ELSE \/ Exit(1) /\ UNCHANGED <<containers, stopped>>
          \/ /\ containers' = [containers EXCEPT ![found] = "exited"]
             /\ stopped' = found
             /\ Exit(0)
  /\ UNCHANGED <<argv, hostSet, order, cms, found, others>>

\* Other Docker clients start, stop or remove a container at any time.
OtherClient(n) ==
  /\ others < MaxOther
  /\ \E s \in ContainerStates \ {containers[n]} :
       containers' = [containers EXCEPT ![n] = s]
  /\ others' = others + 1
  /\ UNCHANGED <<pc, argv, hostSet, order, cms, found, stopped, exitCode>>

Next ==
  \/ ParseArgs \/ CheckHost \/ Dispatch \/ GetMs \/ Stop
  \/ \E n \in Names : OtherClient(n)

Spec == Init /\ [][Next]_vars

=============================================================================
