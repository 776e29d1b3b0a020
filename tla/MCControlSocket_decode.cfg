\* ASCII and non-ASCII lines, no ACK, recv chunks cut at any byte.
CONSTANTS
  PeerMsgs <- PeerMsgsText
  ServerMsgs <- ServerMsgsAll
  MaxSends = 2
  MaxRecvs = 3
  CutAnywhere = TRUE
  SendBuf = 3
SPECIFICATION Spec
\* The channel stops when the peer has closed and the caller has read all
\* (or waits in recv with nothing sent): neither side has a step left.
CHECK_DEADLOCK FALSE
INVARIANT
  NoTextLost
