\* The caller sends three 3-byte control messages into a 4-byte send
\* buffer that the xApp reads at its own pace; the peer sends nothing.
CONSTANTS
  PeerMsgs <- PeerMsgsText
  ServerMsgs <- ServerMsgsAll
  MaxSends = 3
  MaxRecvs = 1
  CutAnywhere = FALSE
  SendBuf = 4
SPECIFICATION Spec
\* The channel stops when the peer has closed and the caller has read all
\* (or waits in recv with nothing sent): neither side has a step left.
CHECK_DEADLOCK FALSE
INVARIANT
  MessagesSentWhole
