---------------------------- MODULE ConfigParse ----------------------------
(***************************************************************************)
(* The configuration parser of the xApp launcher,                          *)
(* src/setup/xapp-bs-connector/init/init_script.py, as pure operators.     *)
(*                                                                         *)
(* A JSON document is abstracted to the sequence of its top-level          *)
(* <<key, value>> pairs in document order (json.load keeps that order and  *)
(* parseConfigJson iterates config.keys() in it).  The value of            *)
(* "messaging" is a record that may have a "ports" field, a sequence of    *)
(* port descriptors, themselves records with optional "port" and "name"   *)
(* fields.  A scalar JSON value where the launcher needs to tell strings *)
(* from other types (the xapp_name) is tagged: [str |-> s] or [num |-> n]. *)
(* The environment is a function from the two variable names the *)
(* launcher writes to a value or Unset; HW_PORT holds str(lport), the      *)
(* decimal form of an integer port, which is abstracted to the integer     *)
(* (str is injective on integers).                                         *)
(*                                                                         *)
(* A handler call yields a record [ret, env]: ret is the Python value the  *)
(* handler returns ("None", "True", "False") or "raise" when it raises an  *)
(* uncaught exception, and env the environment after the call.             *)
(***************************************************************************)
EXTENDS Integers, Sequences, SequencesExt

CONSTANT Unset   \* an environment variable that was never written

EnvVars == {"XAPP_NAME", "HW_PORT"}

HasKey(doc, k) == \E i \in 1..Len(doc) : doc[i][1] = k

Val(doc, k) == doc[CHOOSE i \in 1..Len(doc) : doc[i][1] = k][2]

IsString(v) == "str" \in DOMAIN v

\* The global dispatch table ParseSection: the keys that have a handler.
ParseSection == {"xapp_name", "messaging"}

\* getXappName: the missing-key branch returns False; otherwise the value is
\* concatenated to a string for printing (TypeError unless it is a string)
\* and written to XAPP_NAME.  The function then falls off its end: None.
getXappName(doc, env) ==
  IF ~HasKey(doc, "xapp_name")
  THEN [ret |-> "False", env |-> env]
  ELSE IF IsString(Val(doc, "xapp_name"))
       THEN [ret |-> "None",
             env |-> [env EXCEPT !["XAPP_NAME"] = Val(doc, "xapp_name").str]]
       ELSE [ret |-> "raise", env |-> env]

\* The test of line 66 on one port descriptor.
IsRmrData(d) ==
  /\ "port" \in DOMAIN d
  /\ "name" \in DOMAIN d
  /\ d.name = "rmr-data"

\* getMessagingInfo: the first descriptor passing IsRmrData sets HW_PORT and
\* returns True.  Otherwise control reaches `if lport == 0`; because the
\* function assigns lport, Python makes it a local name for the whole body,
\* so that read raises UnboundLocalError: the `return False` is unreachable.
getMessagingInfo(doc, env) ==
  LET hasPorts == HasKey(doc, "messaging")
                  /\ "ports" \in DOMAIN Val(doc, "messaging")
      ports    == IF hasPorts THEN Val(doc, "messaging").ports ELSE <<>>
      i        == SelectInSeq(ports, IsRmrData)
  IN IF i # 0
     THEN [ret |-> "True", env |-> [env EXCEPT !["HW_PORT"] = ports[i].port]]
     ELSE [ret |-> "raise", env |-> env]

Handler(k, doc, env) ==
  IF k = "xapp_name" THEN getXappName(doc, env) ELSE getMessagingInfo(doc, env)

\* parseConfigJson from the i-th key on: every key of the document that has a
\* handler is dispatched in order; a handler returning False ends the loop
\* with False, an exception propagates, and a loop that completes falls off
\* the function's end, returning None.
\* Mutant: the loop hands back the first handler result that is not None
\* (a handler's True included) instead of only False.
RECURSIVE ParseFromStopsOnReturn(_, _, _)
ParseFromStopsOnReturn(doc, i, env) ==
  IF i > Len(doc) THEN [ret |-> "None", env |-> env]
  ELSE IF doc[i][1] \notin ParseSection
       THEN ParseFromStopsOnReturn(doc, i + 1, env)
  ELSE LET r == Handler(doc[i][1], doc, env)
       IN IF r.ret # "None" THEN r
          ELSE ParseFromStopsOnReturn(doc, i + 1, r.env)

RECURSIVE ParseFrom(_, _, _)
ParseFrom(doc, i, env) ==
  IF i > Len(doc) THEN [ret |-> "None", env |-> env]
  ELSE IF doc[i][1] \notin ParseSection THEN ParseFrom(doc, i + 1, env)
  ELSE LET r == Handler(doc[i][1], doc, env)
       IN IF r.ret \in {"False", "raise"} THEN r
          ELSE ParseFrom(doc, i + 1, r.env)

parseConfigJson(doc, env) == ParseFrom(doc, 1, env)

=============================================================================
