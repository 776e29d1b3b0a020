--------------------------- MODULE MCInitScript ---------------------------
(* Configurations of InitScript for TLC: the JSON documents the launcher's  *)
(* configuration file may hold.                                            *)
EXTENDS InitScript

RmrData(p) == [port |-> p, name |-> "rmr-data"]
RmrRoute   == [port |-> 4561, name |-> "rmr-route"]
NoPort     == [name |-> "rmr-data"]

Name(n)       == <<"xapp_name", [str |-> n]>>
NumName(n)    == <<"xapp_name", [num |-> n]>>
Messaging(ps) == <<"messaging", [ports |-> ps]>>
Other         == <<"version", "1.0">>

\* The example of spec section 8.
DocValid == <<Name("demo"), Messaging(<<RmrData(4560)>>)>>

\* Documents exercising every path of the parser.
DocsParse ==
  { DocValid,
    <<Messaging(<<RmrRoute, RmrData(4560)>>), Other, Name("demo")>>,
    <<Name("demo"), Messaging(<<NoPort, RmrData(4560), RmrData(4562)>>)>>,
    <<Name("demo"), Messaging(<<RmrRoute>>)>>,
    <<Name("demo"), <<"messaging", [other |-> 1]>> >>,
    <<Messaging(<<>>), Name("demo")>>,
    <<NumName(7), Messaging(<<RmrData(4560)>>)>>,
    <<Messaging(<<RmrData(4560)>>)>>,
    <<Name("demo"), Other>>,
    <<Name(""), Messaging(<<RmrData(0)>>)>> }

DocsLifecycle == {DocValid}

\* Spec section 8: a missing xapp_name must stop the launcher.
DocsNoName == {<<Messaging(<<RmrData(4560)>>)>>}

\* Spec section 8: a zero rmr-data port must stop the launcher.
DocsZeroPort == {<<Name("demo"), Messaging(<<RmrData(0)>>)>>}
\* Both kinds of document the spec says must stop the launcher.
DocsUnvalidated == DocsNoName \cup DocsZeroPort
=============================================================================
