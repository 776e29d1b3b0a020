CONSTANTS
  PeerMsgs <- PeerMsgsAll
  ServerMsgs <- ServerMsgsAll
  MaxSends = 2
  MaxRecvs = 2
  CutAnywhere = FALSE
  SendBuf = 3
SPECIFICATION Spec
\* The channel stops when the peer has closed and the caller has read all
\* (or waits in recv with nothing sent): neither side has a step left.
CHECK_DEADLOCK FALSE
INVARIANT
  AckRemovedExactly
