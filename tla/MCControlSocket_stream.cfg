CONSTANTS
  PeerMsgs <- PeerMsgsAll
  ServerMsgs <- ServerMsgsAll
  MaxSends = 3
  MaxRecvs = 4
  CutAnywhere = TRUE
  SendBuf = 3
SPECIFICATION Spec
\* The channel stops when the peer has closed and the caller has read all
\* (or waits in recv with nothing sent): neither side has a step left.
CHECK_DEADLOCK FALSE
INVARIANTS
  TypeOK
  ReturnedBytesWereSent
