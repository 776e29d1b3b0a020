-------------------------- MODULE MCControlSocket --------------------------
(* Messages of the control channel for TLC.                                *)
EXTENDS ControlSocket

Indication == <<"a", "NL">>      \* an ASCII indication line
NonAscii   == <<"u1", "u2", "NL">> \* a line with one two-byte character
Terminate  == <<"t">>            \* the tester's 'terminate', no newline
Control    == <<"c", "d", "NL">> \* a control message of the caller

PeerMsgsAll == {ACK, Indication, NonAscii, Terminate}
PeerMsgsText == {Indication, NonAscii}
ServerMsgsAll == {Control}
=============================================================================
